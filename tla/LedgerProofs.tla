---------------------------- MODULE LedgerProofs ----------------------------
(***************************************************************************)
(* What ledgers add up to, for any instance of their constants.  Two parts *)
(* of the system rebuild their state by reading rows in order or adding    *)
(* them up: the usage ledger, whose rows a reservation sums over a window  *)
(* before it lets a call through, and the correctness economy, whose board *)
(* and droplets a rebuild replays from the history of events.              *)
(*                                                                         *)
(* The sums and replays are folds of the library, which is one recursive   *)
(* function over the parts of a finite set.  Facts about it are proved by  *)
(* induction over a set of numbers (SetInduction, FiniteInduction): no     *)
(* operator is passed to an induction theorem.                             *)
(***************************************************************************)
EXTENDS WeekFire, UsageLedger, SequenceTheorems, FiniteSetTheorems, WellFoundedInduction, TLAPS

-----------------------------------------------------------------------------
(* Induction *)

LEMMA NatLeast ==
  ASSUME NEW T, T \subseteq Nat, T # {}
  PROVE  \E x \in T : \A y \in T : ~ (y < x)
<1>1. PICK x \in T : \A y \in T : <<y, x>> \notin OpToRel(<, Nat)
  BY NatLessThanWellFounded, WFMin
<1>2. \A y \in T : ~ (y < x)
  <2> TAKE y \in T
  <2>1. <<y, x>> \notin OpToRel(<, Nat)
    BY <1>1
  <2> QED BY <2>1 DEF OpToRel
<1> QED BY <1>2

LEMMA SetInduction ==
  ASSUME NEW S, 0 \in S, \A n \in Nat : n \in S => n + 1 \in S
  PROVE  Nat \subseteq S
<1> SUFFICES ASSUME Nat \ S # {} PROVE FALSE
  OBVIOUS
<1>1. PICK x \in Nat \ S : \A y \in Nat \ S : ~ (y < x)
  BY NatLeast
<1>2. x # 0 /\ x - 1 \in Nat
  BY <1>1
<1>3. x - 1 \in S
  BY <1>1, <1>2
<1> QED BY <1>1, <1>2, <1>3

LEMMA OneLess ==
  ASSUME NEW T, IsFiniteSet(T), NEW n \in Nat, Cardinality(T) = n + 1, NEW x \in T
  PROVE  Cardinality(T \ {x}) = n
<1>1. Cardinality(T \ {x}) = Cardinality(T) - 1
  BY FS_RemoveElement
<1> QED BY <1>1

LEMMA FiniteInduction ==
  ASSUME NEW S, IsFiniteSet(S), NEW Q, {} \in Q,
         \A T \in SUBSET S : T \in Q => \A x \in S \ T : T \cup {x} \in Q
  PROVE  S \in Q
<1> DEFINE N == {n \in Nat : \A T \in SUBSET S : Cardinality(T) = n => T \in Q}
<1>1. 0 \in N
  BY FS_Subset, FS_EmptySet
<1>2. ASSUME NEW n \in Nat, n \in N PROVE n + 1 \in N
  <2> SUFFICES ASSUME NEW T \in SUBSET S, Cardinality(T) = n + 1 PROVE T \in Q
    OBVIOUS
  <2>1. IsFiniteSet(T)
    BY FS_Subset
  <2>2. PICK x \in T : TRUE
    BY FS_EmptySet
  <2>3. Cardinality(T \ {x}) = n
    BY <2>1, OneLess
  <2>4. T \ {x} \in Q
    BY <1>2, <2>3
  <2>5. T = (T \ {x}) \cup {x} /\ x \in S \ (T \ {x})
    OBVIOUS
  <2> QED BY <2>4, <2>5
<1>3. Nat \subseteq N
  <2> HIDE DEF N
  <2> QED BY <1>1, <1>2, SetInduction
<1> QED BY <1>3, FS_CardinalityType

-----------------------------------------------------------------------------
(* Sums *)

(* G gives the sum of g over each subset of S. *)
IsSum(G, g, S) ==
  /\ G \in [SUBSET S -> Nat]
  /\ G[{}] = 0
  /\ \A T \in SUBSET S : \A x \in S \ T : G[T \cup {x}] = G[T] + g[x]

LEMMA SumExists ==
  ASSUME NEW S, IsFiniteSet(S), NEW g \in [S -> Nat]
  PROVE  \E G : IsSum(G, g, S)
<1> DEFINE Q == {T \in SUBSET S : \E G : IsSum(G, g, T)}
<1>1. {} \in Q
  <2> DEFINE G == [T \in SUBSET {} |-> 0]
  <2>1. IsSum(G, g, {})
    BY DEF IsSum
  <2> QED BY <2>1
<1>2. ASSUME NEW T \in SUBSET S, T \in Q, NEW x \in S \ T PROVE T \cup {x} \in Q
  <2>1. PICK G : IsSum(G, g, T)
    BY <1>2
  <2> DEFINE H == [U \in SUBSET (T \cup {x}) |->
                     IF x \in U THEN G[U \ {x}] + g[x] ELSE G[U]]
  <2>2. \A U \in SUBSET (T \cup {x}) : U \ {x} \in SUBSET T /\ (x \notin U => U \in SUBSET T)
    OBVIOUS
  <2>3. g[x] \in Nat /\ \A U \in SUBSET T : G[U] \in Nat
    BY <2>1 DEF IsSum
  <2>4. H \in [SUBSET (T \cup {x}) -> Nat]
    BY <2>2, <2>3
  <2>5. H[{}] = 0
    BY <2>1 DEF IsSum
  <2>6. ASSUME NEW U \in SUBSET (T \cup {x}), NEW y \in (T \cup {x}) \ U
        PROVE  H[U \cup {y}] = H[U] + g[y]
    <3>1. CASE y = x
      <4>1. (U \cup {y}) \ {x} = U /\ x \notin U
        BY <3>1, <2>6
      <4> QED BY <4>1, <3>1
    <3>2. CASE y # x /\ x \in U
      <4>1. (U \cup {y}) \ {x} = (U \ {x}) \cup {y} /\ y \in T \ (U \ {x}) /\ U \ {x} \in SUBSET T
        BY <3>2, <2>6
      <4>2. G[(U \ {x}) \cup {y}] = G[U \ {x}] + g[y]
        BY <4>1, <2>1 DEF IsSum
      <4>3. g[y] \in Nat /\ G[U \ {x}] \in Nat
        BY <4>1, <2>3
      <4>4. H[U \cup {y}] = G[(U \ {x}) \cup {y}] + g[x] /\ H[U] = G[U \ {x}] + g[x]
        BY <4>1, <3>2
      <4> HIDE DEF H
      <4> QED BY <4>2, <4>3, <4>4, <2>3
    <3>3. CASE y # x /\ x \notin U
      <4>1. U \in SUBSET T /\ y \in T \ U
        BY <3>3, <2>6
      <4>2. G[U \cup {y}] = G[U] + g[y]
        BY <4>1, <2>1 DEF IsSum
      <4> QED BY <4>1, <4>2, <3>3
    <3> QED BY <3>1, <3>2, <3>3
  <2>7. IsSum(H, g, T \cup {x})
    <3> HIDE DEF H
    <3> QED BY <2>4, <2>5, <2>6 DEF IsSum
  <2> QED BY <2>7
<1>3. S \in Q
  <2> HIDE DEF Q
  <2> QED BY <1>1, <1>2, FiniteInduction
<1> QED BY <1>3

Picked(s) == CHOOSE x \in s : TRUE

(* The equation of the library's fold has the sum as its one solution. *)
Iterates(it, g, S) ==
  it = [s \in SUBSET S |-> IF s = {} THEN 0 ELSE g[Picked(s)] + it[s \ {Picked(s)}]]

LEMMA SumIterates ==
  ASSUME NEW S, NEW g \in [S -> Nat], NEW G, IsSum(G, g, S)
  PROVE  Iterates(G, g, S)
<1>1. ASSUME NEW s \in SUBSET S, s # {} PROVE G[s] = g[Picked(s)] + G[s \ {Picked(s)}]
  <2>1. Picked(s) \in s
    BY <1>1 DEF Picked
  <2>2. s = (s \ {Picked(s)}) \cup {Picked(s)}
    BY <2>1
  <2>3. G[s] = G[s \ {Picked(s)}] + g[Picked(s)]
    BY <2>1, <2>2 DEF IsSum
  <2>4. G[s \ {Picked(s)}] \in Nat /\ g[Picked(s)] \in Nat
    BY <2>1 DEF IsSum
  <2> QED BY <2>3, <2>4
<1>2. G = [s \in SUBSET S |-> G[s]] /\ G[{}] = 0
  BY DEF IsSum
<1> QED BY <1>1, <1>2 DEF Iterates

LEMMA IteratesSum ==
  ASSUME NEW S, IsFiniteSet(S), NEW g \in [S -> Nat], NEW G, IsSum(G, g, S),
         NEW it, Iterates(it, g, S)
  PROVE  it[S] = G[S]
<1> DEFINE N == {n \in Nat : \A T \in SUBSET S : Cardinality(T) = n => it[T] = G[T]}
<1>0. Iterates(G, g, S)
  BY SumIterates
<1>1. 0 \in N
  <2>1. it[{}] = G[{}]
    BY <1>0 DEF Iterates
  <2> QED BY <2>1, FS_Subset, FS_EmptySet
<1>2. ASSUME NEW n \in Nat, n \in N PROVE n + 1 \in N
  <2> SUFFICES ASSUME NEW T \in SUBSET S, Cardinality(T) = n + 1 PROVE it[T] = G[T]
    OBVIOUS
  <2>1. IsFiniteSet(T) /\ T # {}
    BY FS_Subset, FS_EmptySet
  <2>2. Picked(T) \in T
    BY <2>1 DEF Picked
  <2>3. Cardinality(T \ {Picked(T)}) = n
    BY <2>1, <2>2, OneLess
  <2>4. it[T \ {Picked(T)}] = G[T \ {Picked(T)}]
    BY <1>2, <2>3
  <2> QED BY <2>1, <2>4, <1>0 DEF Iterates
<1>3. Nat \subseteq N
  <2> HIDE DEF N
  <2> QED BY <1>1, <1>2, SetInduction
<1> QED BY <1>3, FS_CardinalityType


LEMMA SumRestricted ==
  ASSUME NEW S, NEW g, NEW G, IsSum(G, g, S), NEW T, T \subseteq S,
         NEW h, \A x \in T : h[x] = g[x]
  PROVE  \E R : IsSum(R, h, T) /\ R[T] = G[T]
<1> DEFINE R == [U \in SUBSET T |-> G[U]]
<1>1. R \in [SUBSET T -> Nat] /\ R[{}] = 0
  BY DEF IsSum
<1>2. ASSUME NEW U \in SUBSET T, NEW x \in T \ U PROVE R[U \cup {x}] = R[U] + h[x]
  <2>1. U \in SUBSET S /\ x \in S \ U /\ U \cup {x} \in SUBSET T /\ x \in T
    BY <1>2
  <2> QED BY <2>1 DEF IsSum
<1>3. IsSum(R, h, T)
  BY <1>1, <1>2 DEF IsSum
<1> QED BY <1>3

(* Sums of functions that are related at each element. *)
LEMMA SumMonotone ==
  ASSUME NEW S, IsFiniteSet(S), NEW g \in [S -> Nat], NEW h \in [S -> Nat],
         NEW G, IsSum(G, g, S), NEW H, IsSum(H, h, S),
         NEW T \in SUBSET S, \A x \in T : g[x] <= h[x]
  PROVE  G[T] <= H[T]
<1> DEFINE Q == {U \in SUBSET T : G[U] <= H[U]}
<1>1. {} \in Q
  BY DEF IsSum
<1>2. ASSUME NEW U \in SUBSET T, U \in Q, NEW x \in T \ U PROVE U \cup {x} \in Q
  <2>1. G[U \cup {x}] = G[U] + g[x] /\ H[U \cup {x}] = H[U] + h[x]
    BY DEF IsSum
  <2>2. G[U] \in Nat /\ H[U] \in Nat /\ g[x] \in Nat /\ h[x] \in Nat /\ g[x] <= h[x]
    BY DEF IsSum
  <2>3. G[U] <= H[U]
    BY <1>2
  <2> QED BY <2>1, <2>2, <2>3
<1>3. IsFiniteSet(T)
  BY FS_Subset
<1>4. T \in Q
  <2> HIDE DEF Q
  <2> QED BY <1>1, <1>2, <1>3, FiniteInduction
<1> QED BY <1>4

LEMMA SumLarger ==
  ASSUME NEW S, IsFiniteSet(S), NEW g \in [S -> Nat], NEW G, IsSum(G, g, S),
         NEW T \in SUBSET S, NEW V \in SUBSET T
  PROVE  G[V] <= G[T]
<1> DEFINE W == T \ V
           Q == {U \in SUBSET W : G[V] <= G[V \cup U]}
<1>1. {} \in Q
  <2>1. V \cup {} = V /\ G[V] \in Nat
    BY DEF IsSum
  <2> QED BY <2>1
<1>2. ASSUME NEW U \in SUBSET W, U \in Q, NEW x \in W \ U PROVE U \cup {x} \in Q
  <2>1. V \cup (U \cup {x}) = (V \cup U) \cup {x} /\ V \cup U \in SUBSET S /\ x \in S \ (V \cup U)
    BY <1>2
  <2>2. G[V \cup (U \cup {x})] = G[V \cup U] + g[x]
    BY <2>1 DEF IsSum
  <2>3. G[V] \in Nat /\ G[V \cup U] \in Nat /\ g[x] \in Nat
    BY <2>1 DEF IsSum
  <2>4. G[V] <= G[V \cup U]
    BY <1>2
  <2> QED BY <2>2, <2>3, <2>4
<1>3. IsFiniteSet(W)
  BY FS_Subset
<1>4. W \in Q
  <2> HIDE DEF Q, W
  <2> QED BY <1>1, <1>2, <1>3, FiniteInduction
<1>5. V \cup W = T
  OBVIOUS
<1> QED BY <1>4, <1>5

LEMMA SumOfSums ==
  ASSUME NEW S, IsFiniteSet(S),
         NEW f \in [S -> Nat], NEW g \in [S -> Nat], NEW h \in [S -> Nat],
         \A x \in S : f[x] = g[x] + h[x],
         NEW F, IsSum(F, f, S), NEW G, IsSum(G, g, S), NEW H, IsSum(H, h, S),
         NEW T \in SUBSET S
  PROVE  F[T] = G[T] + H[T]
<1> DEFINE Q == {U \in SUBSET T : F[U] = G[U] + H[U]}
<1>1. {} \in Q
  BY DEF IsSum
<1>2. ASSUME NEW U \in SUBSET T, U \in Q, NEW x \in T \ U PROVE U \cup {x} \in Q
  <2>1. /\ F[U \cup {x}] = F[U] + f[x]
        /\ G[U \cup {x}] = G[U] + g[x] /\ H[U \cup {x}] = H[U] + h[x]
    BY DEF IsSum
  <2>2. /\ F[U] \in Nat /\ G[U] \in Nat /\ H[U] \in Nat
        /\ f[x] \in Nat /\ g[x] \in Nat /\ h[x] \in Nat /\ f[x] = g[x] + h[x]
    BY DEF IsSum
  <2>3. F[U] = G[U] + H[U]
    BY <1>2
  <2> QED BY <2>1, <2>2, <2>3
<1>3. IsFiniteSet(T)
  BY FS_Subset
<1>4. T \in Q
  <2> HIDE DEF Q
  <2> QED BY <1>1, <1>2, <1>3, FiniteInduction
<1> QED BY <1>4

-----------------------------------------------------------------------------
(* The usage ledger *)

LEMMA UsedIsSum ==
  ASSUME NEW S, IsFiniteSet(S), NEW d, NEW g \in [S -> Nat],
         \A r \in S : g[r] = ledger[r].used[d],
         NEW G, IsSum(G, g, S)
  PROVE  Used(S, d) = G[S]
<1> DEFINE Eq(it) == it = [s \in SUBSET S |->
               IF s = {} THEN 0
               ELSE ledger[CHOOSE x \in s : TRUE].used[d]
                    + it[s \ {CHOOSE x \in s : TRUE}]]
<1>1. \A it : Iterates(it, g, S) <=> Eq(it)
  <2> SUFFICES ASSUME NEW it PROVE Iterates(it, g, S) <=> Eq(it)
    OBVIOUS
  <2> DEFINE one(s) == IF s = {} THEN 0 ELSE g[Picked(s)] + it[s \ {Picked(s)}]
             two(s) == IF s = {} THEN 0
                       ELSE ledger[Picked(s)].used[d] + it[s \ {Picked(s)}]
  <2>1. \A s \in SUBSET S : s # {} => Picked(s) \in S
    BY DEF Picked
  <2>2. \A s \in SUBSET S : one(s) = two(s)
    BY <2>1
  <2>3. Iterates(it, g, S) <=> it = [s \in SUBSET S |-> one(s)]
    BY DEF Iterates
  <2>4. Eq(it) <=> it = [s \in SUBSET S |-> two(s)]
    BY DEF Picked
  <2> HIDE DEF one, two, Eq
  <2>5. [s \in SUBSET S |-> one(s)] = [s \in SUBSET S |-> two(s)]
    BY <2>2
  <2> QED BY <2>3, <2>4, <2>5
<1>2. Iterates(G, g, S)
  BY SumIterates
<1>3. Eq(G)
  BY <1>1, <1>2
<1>4. PICK it : it = CHOOSE i : Eq(i)
  OBVIOUS
<1>5. Eq(it)
  <2> HIDE DEF Eq
  <2> QED BY <1>3, <1>4
<1>6. Used(S, d) = it[S]
  BY <1>4, Zenon DEF Used, MapThenSumSet, MapThenFoldSet
<1>7. it[S] = G[S]
  <2>1. Iterates(it, g, S)
    BY <1>1, <1>5
  <2> HIDE DEF Eq
  <2> QED BY <2>1, IteratesSum
<1> QED BY <1>6, <1>7
Over(r, d) == IF ledger[r].used[d] > Estimate[r][d]
              THEN ledger[r].used[d] - Estimate[r][d] ELSE 0

LEMMA ExcessIsSum ==
  ASSUME NEW S, IsFiniteSet(S), NEW d, NEW g \in [S -> Nat],
         \A r \in S : g[r] = Over(r, d),
         NEW G, IsSum(G, g, S)
  PROVE  Excess(S, d) = G[S]
<1> DEFINE Eq(it) == it = [s \in SUBSET S |->
               IF s = {} THEN 0
               ELSE (IF ledger[CHOOSE x \in s : TRUE].used[d] > Estimate[CHOOSE x \in s : TRUE][d]
                     THEN ledger[CHOOSE x \in s : TRUE].used[d]
                          - Estimate[CHOOSE x \in s : TRUE][d]
                     ELSE 0) + it[s \ {CHOOSE x \in s : TRUE}]]
<1>1. \A it : Iterates(it, g, S) <=> Eq(it)
  <2> SUFFICES ASSUME NEW it PROVE Iterates(it, g, S) <=> Eq(it)
    OBVIOUS
  <2> DEFINE one(s) == IF s = {} THEN 0 ELSE g[Picked(s)] + it[s \ {Picked(s)}]
             two(s) == IF s = {} THEN 0
                       ELSE Over(Picked(s), d) + it[s \ {Picked(s)}]
  <2>1. \A s \in SUBSET S : s # {} => Picked(s) \in S
    BY DEF Picked
  <2>2. \A s \in SUBSET S : one(s) = two(s)
    BY <2>1
  <2>3. Iterates(it, g, S) <=> it = [s \in SUBSET S |-> one(s)]
    BY DEF Iterates
  <2>4. Eq(it) <=> it = [s \in SUBSET S |-> two(s)]
    BY DEF Picked, Over
  <2> HIDE DEF one, two, Eq
  <2>5. [s \in SUBSET S |-> one(s)] = [s \in SUBSET S |-> two(s)]
    BY <2>2
  <2> QED BY <2>3, <2>4, <2>5
<1>2. Iterates(G, g, S)
  BY SumIterates
<1>3. Eq(G)
  BY <1>1, <1>2
<1>4. PICK it : it = CHOOSE i : Eq(i)
  OBVIOUS
<1>5. Eq(it)
  <2> HIDE DEF Eq
  <2> QED BY <1>3, <1>4
<1>6. Excess(S, d) = it[S]
  BY <1>4, Zenon DEF Excess, MapThenSumSet, MapThenFoldSet
<1>7. it[S] = G[S]
  <2>1. Iterates(it, g, S)
    BY <1>1, <1>5
  <2> HIDE DEF Eq
  <2> QED BY <2>1, IteratesSum
<1> QED BY <1>6, <1>7


(* What a request counts with at most: not what it used beyond its estimate. *)
Base(r, d) == IF ledger[r].used[d] > Estimate[r][d] THEN Estimate[r][d]
              ELSE ledger[r].used[d]

UsedBy(d)   == [r \in Requests |-> ledger[r].used[d]]
BaseBy(d)   == [r \in Requests |-> Base(r, d)]
OverBy(d)   == [r \in Requests |-> Over(r, d)]

(* A row that counts, and a call on its way, are what the steps before made
   them. *)
RowsOK ==
  \A r \in Requests :
    /\ call[r].pc = "prepared" => call[r].at \in Times /\ call[r].limits \in Limits
    /\ call[r].pc \in {"admitted", "answered", "refused"} => ledger[r].status = "pending"
    /\ ledger[r].status \in Countable => ledger[r].at \in Times /\ ledger[r].admitted \in Limits
    /\ ledger[r].status = "pending" => ledger[r].used = Estimate[r]

(* T fits a cap that one of its requests, the last one admitted, was given. *)
Covered(T, scope, w, d) ==
  \E r \in T :
    LET cap == ledger[r].admitted[scope][w][d]
    IN  cap = NoLimit \/ \A G : IsSum(G, BaseBy(d), Requests) => G[T] <= cap

(* Rows may leave a window in any order, so each part of it is covered. *)
WindowsOK ==
  \A scope \in Scopes, w \in Windows, d \in Dims, start \in Times :
    \A T \in SUBSET InWindow(scope, w, start) : T # {} => Covered(T, scope, w, d)

LInv == LedgerTypeOK /\ RowsOK /\ WindowsOK

LEMMA FiniteRequests == IsFiniteSet(Requests)
BY LedgerConstants

-----------------------------------------------------------------------------
(* Types *)

LEMMA UsageTypes ==
  /\ Nothing \in [Dims -> Nat]
  /\ \A u \in Usages \cup {Nothing}, d \in Dims : u[d] \in Nat
  /\ \A r \in Requests : Estimate[r] \in Usages
  /\ \A r \in Requests, d \in Dims : Estimate[r][d] \in Nat
<1>1. Nothing \in [Dims -> Nat]
  BY DEF Nothing
<1>2. \A r \in Requests : Estimate[r] \in Usages
  BY LedgerConstants
<1>3. \A u \in Usages \cup {Nothing} : u \in [Dims -> Nat]
  BY <1>1, LedgerConstants
<1> QED BY <1>1, <1>2, <1>3

LEMMA FieldTypes ==
  /\ Blank \in Call /\ NoEvent \in UsageEvent
  /\ \A pc \in PCs : /\ Ended(pc) \in Call /\ Ended(pc).pc = pc /\ Ended(pc).at = None
                     /\ Ended(pc).limits = None /\ Ended(pc).reply = None
BY DEF Blank, NoEvent, Call, UsageEvent, PCs, Statuses, Ended

LEMMA InitLedger == LedgerInit => LInv
<1> SUFFICES ASSUME LedgerInit PROVE LInv
  OBVIOUS
<1>1. LedgerTypeOK
  BY FieldTypes DEF LedgerInit, LedgerTypeOK
<1>2. \A r \in Requests : call[r].pc = "idle" /\ ledger[r].status = "none"
  BY DEF LedgerInit, Blank, NoEvent
<1>3. RowsOK
  BY <1>2 DEF RowsOK, Countable
<1>4. WindowsOK
  BY <1>2 DEF WindowsOK, InWindow
<1> QED BY <1>1, <1>3, <1>4 DEF LInv

LEMMA SumTypes ==
  ASSUME LedgerTypeOK, NEW d \in Dims
  PROVE  /\ UsedBy(d) \in [Requests -> Nat]
         /\ BaseBy(d) \in [Requests -> Nat]
         /\ OverBy(d) \in [Requests -> Nat]
         /\ \A r \in Requests : UsedBy(d)[r] = BaseBy(d)[r] + OverBy(d)[r]
<1>1. ASSUME NEW r \in Requests
      PROVE  ledger[r].used[d] \in Nat /\ Estimate[r][d] \in Nat
  <2>1. ledger[r].used \in Usages \cup {Nothing}
    BY DEF LedgerTypeOK, UsageEvent
  <2> QED BY <2>1, UsageTypes
<1>2. ASSUME NEW r \in Requests
      PROVE  /\ Base(r, d) \in Nat /\ Over(r, d) \in Nat
             /\ ledger[r].used[d] = Base(r, d) + Over(r, d)
  BY <1>1 DEF Base, Over
<1> QED BY <1>1, <1>2 DEF UsedBy, BaseBy, OverBy

-----------------------------------------------------------------------------
(* The caps *)

LEMMA UsedTotal ==
  ASSUME LedgerTypeOK, NEW d \in Dims, NEW G, IsSum(G, UsedBy(d), Requests),
         NEW T, T \subseteq Requests
  PROVE  Used(T, d) = G[T]
<1>1. PICK g : g = [r \in T |-> ledger[r].used[d]]
  OBVIOUS
<1>2. \A r \in T : g[r] = ledger[r].used[d] /\ g[r] = UsedBy(d)[r]
  BY <1>1 DEF UsedBy
<1>3. g \in [T -> Nat]
  <2>1. \A r \in T : UsedBy(d)[r] \in Nat
    BY SumTypes
  <2> QED BY <1>1, <1>2, <2>1
<1>4. PICK f : f = UsedBy(d)
  OBVIOUS
<1>5. PICK R : IsSum(R, g, T) /\ R[T] = G[T]
  <2>1. IsSum(G, f, Requests) /\ \A r \in T : g[r] = f[r]
    BY <1>2, <1>4
  <2> QED BY <2>1, SumRestricted
<1>6. IsFiniteSet(T)
  BY FiniteRequests, FS_Subset
<1>7. Used(T, d) = R[T]
  BY <1>2, <1>3, <1>5, <1>6, UsedIsSum
<1> QED BY <1>5, <1>7

LEMMA ExcessTotal ==
  ASSUME LedgerTypeOK, NEW d \in Dims, NEW G, IsSum(G, OverBy(d), Requests),
         NEW T, T \subseteq Requests
  PROVE  Excess(T, d) = G[T]
<1>1. PICK g : g = [r \in T |-> Over(r, d)]
  OBVIOUS
<1>2. \A r \in T : g[r] = Over(r, d) /\ g[r] = OverBy(d)[r]
  BY <1>1 DEF OverBy
<1>3. g \in [T -> Nat]
  <2>1. \A r \in T : OverBy(d)[r] \in Nat
    BY SumTypes
  <2> QED BY <1>1, <1>2, <2>1
<1>4. PICK f : f = OverBy(d)
  OBVIOUS
<1>5. PICK R : IsSum(R, g, T) /\ R[T] = G[T]
  <2>1. IsSum(G, f, Requests) /\ \A r \in T : g[r] = f[r]
    BY <1>2, <1>4
  <2> QED BY <2>1, SumRestricted
<1>6. IsFiniteSet(T)
  BY FiniteRequests, FS_Subset
<1>7. Excess(T, d) = R[T]
  BY <1>2, <1>3, <1>5, <1>6, ExcessIsSum
<1> QED BY <1>5, <1>7

(* What is used is what is covered, and the excess. *)
LEMMA CoveredCaps == LInv => CapsHold
<1> SUFFICES ASSUME LInv, NEW scope \in Scopes, NEW w \in Windows, NEW d \in Dims,
                    NEW start \in Times, InWindow(scope, w, start) # {}
             PROVE  \E r \in InWindow(scope, w, start) :
                      LET cap == ledger[r].admitted[scope][w][d] IN
                      cap = NoLimit \/ Used(InWindow(scope, w, start), d)
                                         <= cap + Excess(InWindow(scope, w, start), d)
  BY DEF CapsHold
<1> DEFINE rows == InWindow(scope, w, start)
<1>1. rows \in SUBSET Requests
  BY DEF InWindow
<1>2. Covered(rows, scope, w, d) /\ LedgerTypeOK
  BY DEF LInv, WindowsOK
<1> HIDE DEF rows
<1>3. PICK r \in rows :
        LET cap == ledger[r].admitted[scope][w][d]
        IN  cap = NoLimit \/ \A G : IsSum(G, BaseBy(d), Requests) => G[rows] <= cap
  BY <1>2 DEF Covered
<1>4. PICK cap : cap = ledger[r].admitted[scope][w][d]
  OBVIOUS
<1>5. PICK F : IsSum(F, UsedBy(d), Requests)
  BY <1>2, SumTypes, SumExists, FiniteRequests
<1>6. PICK G : IsSum(G, BaseBy(d), Requests)
  BY <1>2, SumTypes, SumExists, FiniteRequests
<1>7. PICK H : IsSum(H, OverBy(d), Requests)
  BY <1>2, SumTypes, SumExists, FiniteRequests
<1>8. F[rows] = G[rows] + H[rows]
  <2>1. PICK f, g, h : f = UsedBy(d) /\ g = BaseBy(d) /\ h = OverBy(d)
    OBVIOUS
  <2>2. /\ f \in [Requests -> Nat] /\ g \in [Requests -> Nat] /\ h \in [Requests -> Nat]
        /\ \A x \in Requests : f[x] = g[x] + h[x]
        /\ IsSum(F, f, Requests) /\ IsSum(G, g, Requests) /\ IsSum(H, h, Requests)
    BY <1>2, <1>5, <1>6, <1>7, <2>1, SumTypes
  <2> QED BY <1>1, <2>2, SumOfSums, FiniteRequests
<1>9. Used(rows, d) = F[rows] /\ Excess(rows, d) = H[rows]
  BY <1>1, <1>2, <1>5, <1>7, UsedTotal, ExcessTotal
<1>10. G[rows] \in Nat /\ H[rows] \in Nat
  BY <1>1, <1>6, <1>7 DEF IsSum
<1>11. cap = NoLimit \/ cap \in Nat
  <2>1. ledger[r].admitted \in Limits
    BY <1>1 DEF LInv, RowsOK, InWindow, Countable, rows
  <2>2. ledger[r].admitted \in [{Global} \cup Models -> [Windows -> [Dims -> Nat \cup {NoLimit}]]]
    BY <2>1, LedgerConstants
  <2> QED BY <1>4, <2>2 DEF Scopes
<1>12. cap = NoLimit \/ Used(rows, d) <= cap + Excess(rows, d)
  <2>1. CASE cap = NoLimit
    BY <2>1
  <2>2. CASE cap # NoLimit
    <3>1. G[rows] <= cap /\ cap \in Nat
      BY <1>3, <1>4, <1>6, <1>11, <2>2
    <3> QED BY <1>8, <1>9, <1>10, <3>1
  <2> QED BY <2>1, <2>2
<1> QED BY <1>4, <1>12 DEF rows

-----------------------------------------------------------------------------
(* The steps *)

LEMMA NextBaseType ==
  ASSUME LedgerTypeOK', NEW d \in Dims
  PROVE  BaseBy(d)' \in [Requests -> Nat]
<1>1. ASSUME NEW r \in Requests PROVE Base(r, d)' \in Nat
  <2>1. ledger'[r].used \in Usages \cup {Nothing}
    BY DEF LedgerTypeOK, UsageEvent
  <2>2. ledger'[r].used[d] \in Nat /\ Estimate[r][d] \in Nat
    BY <2>1, UsageTypes
  <2> QED BY <2>2 DEF Base
<1> QED BY <1>1 DEF BaseBy

(* A step that makes no row count for more, and admits no request. *)
LEMMA WindowsKept ==
  ASSUME LInv, LedgerTypeOK',
         \A r \in Requests :
           ledger'[r].status \in Countable =>
             /\ ledger[r].status \in Countable
             /\ ledger'[r].at = ledger[r].at
             /\ ledger'[r].admitted = ledger[r].admitted
             /\ \A d \in Dims : Base(r, d)' <= Base(r, d)
  PROVE  WindowsOK'
<1> SUFFICES ASSUME NEW scope \in Scopes, NEW w \in Windows, NEW d \in Dims, NEW start \in Times,
                    NEW T \in SUBSET InWindow(scope, w, start)', T # {}
             PROVE  Covered(T, scope, w, d)'
  BY DEF WindowsOK
<1>1. T \subseteq Requests
      /\ \A r \in T : ledger'[r].status \in Countable /\ InScope(r, scope)
                      /\ Start[w][ledger'[r].at] = start
  BY DEF InWindow, Countable, InScope
<1>2. T \in SUBSET InWindow(scope, w, start)
  BY <1>1 DEF InWindow, Countable
<1>3. Covered(T, scope, w, d)
  BY <1>2 DEF LInv, WindowsOK
<1>4. PICK r \in T : LET cap == ledger[r].admitted[scope][w][d]
                     IN  cap = NoLimit \/ \A G : IsSum(G, BaseBy(d), Requests) => G[T] <= cap
  BY <1>3 DEF Covered
<1>5. ledger'[r].admitted = ledger[r].admitted /\ r \in Requests
  BY <1>1
<1>6. PICK cap : cap = ledger[r].admitted[scope][w][d]
  OBVIOUS
<1>7. cap = NoLimit \/ cap \in Nat
  <2>1. ledger[r].admitted \in Limits
    BY <1>1, <1>5 DEF LInv, RowsOK
  <2>2. ledger[r].admitted \in [{Global} \cup Models -> [Windows -> [Dims -> Nat \cup {NoLimit}]]]
    BY <2>1, LedgerConstants
  <2> QED BY <1>6, <2>2 DEF Scopes
<1>8. ASSUME NEW H, IsSum(H, BaseBy(d)', Requests), cap # NoLimit PROVE H[T] <= cap
  <2>1. PICK g, h : g = BaseBy(d) /\ h = BaseBy(d)'
    OBVIOUS
  <2>2. g \in [Requests -> Nat] /\ h \in [Requests -> Nat]
    <3>1. BaseBy(d) \in [Requests -> Nat]
      BY SumTypes DEF LInv
    <3>2. BaseBy(d)' \in [Requests -> Nat]
      BY NextBaseType
    <3> QED BY <2>1, <3>1, <3>2
  <2>3. PICK G : IsSum(G, g, Requests)
    BY <2>2, SumExists, FiniteRequests
  <2>4. \A x \in T : h[x] <= g[x]
    BY <1>1, <2>1 DEF BaseBy
  <2>5. H[T] <= G[T]
    BY <1>1, <1>8, <2>1, <2>2, <2>3, <2>4, SumMonotone, FiniteRequests
  <2>6. G[T] <= cap /\ cap \in Nat
    BY <1>4, <1>6, <1>7, <1>8, <2>1, <2>3
  <2>7. H[T] \in Nat /\ G[T] \in Nat
    BY <1>1, <1>8, <2>3 DEF IsSum
  <2> QED BY <2>5, <2>6, <2>7
<1> QED BY <1>5, <1>6, <1>8 DEF Covered

LEMMA IdleStep ==
  ASSUME LInv, LedgerTypeOK', UNCHANGED ledger PROVE WindowsOK'
<1>1. \A r \in Requests, d \in Dims : Base(r, d)' = Base(r, d) /\ Base(r, d) \in Nat
  <2>1. \A r \in Requests, d \in Dims : Base(r, d)' = Base(r, d)
    BY DEF Base
  <2>2. \A r \in Requests, d \in Dims : Base(r, d) \in Nat
    BY SumTypes DEF LInv, BaseBy
  <2> QED BY <2>1, <2>2
<1> QED BY <1>1, WindowsKept

(* The one step that admits: the request fits each window it will count in. *)
LEMMA ReserveCovers ==
  ASSUME LInv, LedgerTypeOK', NEW r \in Requests, Reserve(r) PROVE WindowsOK'
<1> SUFFICES ASSUME NEW scope \in Scopes, NEW w \in Windows, NEW d \in Dims, NEW start \in Times,
                    NEW T \in SUBSET InWindow(scope, w, start)', T # {}
             PROVE  Covered(T, scope, w, d)'
  BY DEF WindowsOK
<1>1. T \subseteq Requests
      /\ \A q \in T : ledger'[q].status \in Countable /\ InScope(q, scope)
                      /\ Start[w][ledger'[q].at] = start
  BY DEF InWindow, Countable, InScope
<1>2. /\ ledger'[r] = [status |-> "pending", at |-> call[r].at, used |-> Estimate[r],
                       admitted |-> call[r].limits]
      /\ \A q \in Requests \ {r} : ledger'[q] = ledger[q]
      /\ Fits(r) /\ call[r].at \in Times /\ call[r].limits \in Limits
  BY DEF Reserve, LInv, LedgerTypeOK, RowsOK
<1>3. PICK g, h : g = BaseBy(d) /\ h = BaseBy(d)'
  OBVIOUS
<1>4. g \in [Requests -> Nat] /\ h \in [Requests -> Nat]
  <2>1. BaseBy(d) \in [Requests -> Nat]
    BY SumTypes DEF LInv
  <2>2. BaseBy(d)' \in [Requests -> Nat]
    BY NextBaseType
  <2> QED BY <1>3, <2>1, <2>2
<1>5. \A q \in Requests \ {r} : h[q] = g[q]
  BY <1>2, <1>3 DEF BaseBy, Base
<1>6. CASE r \notin T
  <2>1. T \in SUBSET InWindow(scope, w, start)
    BY <1>1, <1>2, <1>6 DEF InWindow, Countable
  <2>2. PICK q \in T : LET cap == ledger[q].admitted[scope][w][d]
                       IN  cap = NoLimit \/ \A G : IsSum(G, BaseBy(d), Requests) => G[T] <= cap
    BY <2>1 DEF LInv, WindowsOK, Covered
  <2>3. ledger'[q].admitted = ledger[q].admitted
    BY <1>1, <1>2, <1>6
  <2>4. PICK cap : cap = ledger[q].admitted[scope][w][d]
    OBVIOUS
  <2>5. ASSUME NEW H, IsSum(H, h, Requests), cap # NoLimit PROVE H[T] <= cap
    <3>1. PICK G : IsSum(G, g, Requests)
      BY <1>4, SumExists, FiniteRequests
    <3>2. (\A x \in T : h[x] <= g[x]) /\ (\A x \in T : g[x] <= h[x])
      BY <1>1, <1>4, <1>5, <1>6
    <3>3. H[T] <= G[T]
      BY <1>1, <1>4, <2>5, <3>1, <3>2, SumMonotone, FiniteRequests
    <3>4. G[T] <= H[T]
      BY <1>1, <1>4, <2>5, <3>1, <3>2, SumMonotone, FiniteRequests
    <3>5. H[T] \in Nat /\ G[T] \in Nat
      BY <1>1, <2>5, <3>1 DEF IsSum
    <3>6. H[T] = G[T]
      BY <3>3, <3>4, <3>5
    <3> QED BY <1>3, <2>2, <2>4, <2>5, <3>1, <3>6
  <2> QED BY <1>3, <2>3, <2>4, <2>5 DEF Covered
<1>7. CASE r \in T
  <2>1. PICK cap : cap = call[r].limits[scope][w][d]
    OBVIOUS
  <2>2. PICK from : from = CountedFrom(scope, Start[w][call[r].at])
    OBVIOUS
  <2>3. scope \in {Global, ModelOf[r]}
    BY <1>1, <1>7 DEF InScope
  <2>4. cap = NoLimit \/ Used(from, d) + Estimate[r][d] <= cap
    BY <1>2, <2>1, <2>2, <2>3 DEF Fits
  <2>5. cap = NoLimit \/ cap \in Nat
    <3>1. call[r].limits \in [{Global} \cup Models -> [Windows -> [Dims -> Nat \cup {NoLimit}]]]
      BY <1>2, LedgerConstants
    <3> QED BY <2>1, <3>1 DEF Scopes
  <2>6. from \subseteq Requests
    BY <2>2 DEF CountedFrom
  <2>7. T \ {r} \subseteq from
    <3> SUFFICES ASSUME NEW q \in T, q # r PROVE q \in from
      OBVIOUS
    <3>1. /\ ledger[q].status \in Countable /\ InScope(q, scope) /\ q \in Requests
          /\ Start[w][ledger[q].at] = Start[w][call[r].at]
      BY <1>1, <1>2, <1>7
    <3>2. ledger[q].at \in Times
      BY <3>1 DEF LInv, RowsOK
    <3>3. Start[w][ledger[q].at] <= ledger[q].at
      BY <3>2, LedgerConstants
    <3>4. Start[w][call[r].at] \in Nat /\ ledger[q].at \in Nat
      <4>1. Times \subseteq Nat /\ Start \in [Windows -> [Times -> Times]]
        BY LedgerConstants
      <4>2. Start[w][call[r].at] \in Times
        BY <1>2, <4>1
      <4> QED BY <3>2, <4>1, <4>2
    <3>5. ledger[q].at >= Start[w][call[r].at]
      BY <3>1, <3>3, <3>4
    <3> QED BY <2>2, <3>1, <3>5 DEF CountedFrom
  <2>8. ASSUME NEW H, IsSum(H, h, Requests), cap # NoLimit PROVE H[T] <= cap
    <3>1. PICK u : u = UsedBy(d)
      OBVIOUS
    <3>2. u \in [Requests -> Nat] /\ \A x \in Requests : g[x] <= u[x]
      <4>1. /\ UsedBy(d) \in [Requests -> Nat] /\ OverBy(d) \in [Requests -> Nat]
            /\ \A x \in Requests : UsedBy(d)[x] = BaseBy(d)[x] + OverBy(d)[x]
        BY SumTypes DEF LInv
      <4>2. ASSUME NEW x \in Requests PROVE g[x] <= u[x]
        <5>1. u[x] \in Nat /\ g[x] \in Nat /\ OverBy(d)[x] \in Nat /\ u[x] = g[x] + OverBy(d)[x]
          BY <1>3, <1>4, <3>1, <4>1
        <5> QED BY <5>1
      <4> QED BY <3>1, <4>1, <4>2
    <3>3. PICK U : IsSum(U, u, Requests)
      BY <3>2, SumExists, FiniteRequests
    <3>4. \A x \in T \ {r} : h[x] <= u[x]
      BY <1>1, <1>5, <3>2
    <3>5. H[T \ {r}] <= U[T \ {r}]
      BY <1>1, <1>4, <2>8, <3>2, <3>3, <3>4, SumMonotone, FiniteRequests
    <3>6. U[T \ {r}] <= U[from]
      BY <2>6, <2>7, <3>2, <3>3, SumLarger, FiniteRequests
    <3>7. U[from] = Used(from, d)
      BY <2>6, <3>1, <3>3, UsedTotal DEF LInv
    <3>8. H[T] = H[T \ {r}] + h[r]
      <4>1. T = (T \ {r}) \cup {r} /\ T \ {r} \in SUBSET Requests /\ r \in Requests \ (T \ {r})
        BY <1>1, <1>7
      <4>2. H[(T \ {r}) \cup {r}] = H[T \ {r}] + h[r]
        BY <2>8, <4>1 DEF IsSum
      <4> QED BY <4>1, <4>2
    <3>9. h[r] = Estimate[r][d]
      <4>1. ledger'[r].used[d] = Estimate[r][d] /\ Estimate[r][d] \in Nat
        BY <1>2, UsageTypes
      <4>2. h[r] = Base(r, d)'
        BY <1>3 DEF BaseBy
      <4> QED BY <4>1, <4>2 DEF Base
    <3>10. H[T] \in Nat /\ H[T \ {r}] \in Nat /\ U[T \ {r}] \in Nat /\ U[from] \in Nat
           /\ h[r] \in Nat
      BY <1>1, <1>4, <2>6, <2>8, <3>3 DEF IsSum
    <3>11. U[from] + Estimate[r][d] <= cap /\ cap \in Nat
      BY <2>4, <2>5, <2>8, <3>7
    <3> QED BY <3>5, <3>6, <3>8, <3>9, <3>10, <3>11
  <2>9. ledger'[r].admitted[scope][w][d] = cap
    BY <1>2, <2>1
  <2> QED BY <1>3, <1>7, <2>8, <2>9 DEF Covered
<1> QED BY <1>6, <1>7

LEMMA CallTypes ==
  ASSUME LedgerTypeOK, NEW r \in Requests
  PROVE  /\ call \in [Requests -> Call] /\ ledger \in [Requests -> UsageEvent]
         /\ call[r] \in Call /\ ledger[r] \in UsageEvent
BY DEF LedgerTypeOK

(* The steps that leave the ledger alone *)
LEMMA CallStep ==
  ASSUME LInv, NEW r \in Requests,
         \/ Prepare(r) \/ Refuse(r) \/ Dies(r)
         \/ \E reply \in Usages \cup {None} : Answer(r, reply)
  PROVE  LInv'
<1>t. /\ LedgerTypeOK /\ RowsOK
      /\ call \in [Requests -> Call] /\ call[r] \in Call
  BY CallTypes DEF LInv
<1>l. UNCHANGED <<now, limits, ledger>>
  BY DEF Prepare, Refuse, Dies, Answer
<1>1. ASSUME NEW x \in Call, call' = [call EXCEPT ![r] = x],
             x.pc = "prepared" => x.at \in Times /\ x.limits \in Limits,
             x.pc \in {"admitted", "answered", "refused"} => call[r].pc = "admitted"
      PROVE  LInv'
  <2>1. LedgerTypeOK'
    BY <1>t, <1>l, <1>1 DEF LedgerTypeOK
  <2>2. RowsOK'
    BY <1>t, <1>l, <1>1 DEF RowsOK
  <2>3. WindowsOK'
    BY <1>l, <2>1, IdleStep
  <2> QED BY <2>1, <2>2, <2>3 DEF LInv
<1>2. CASE Prepare(r)
  <2> DEFINE x == [pc |-> "prepared", at |-> now, limits |-> limits, reply |-> None]
  <2>1. x \in Call /\ now \in Times /\ limits \in Limits
    BY <1>t DEF LedgerTypeOK, Call, PCs
  <2>2. call' = [call EXCEPT ![r] = x]
    BY <1>2 DEF Prepare
  <2> QED BY <1>1, <2>1, <2>2
<1>3. CASE Refuse(r)
  <2>1. PICK x : x = [call[r] EXCEPT !.pc = "refused"]
    OBVIOUS
  <2>2. x \in Call /\ x.pc = "refused"
    BY <1>t, <2>1 DEF Call, PCs
  <2>3. call' = [call EXCEPT ![r] = x] /\ call[r].pc = "admitted"
    BY <1>3, <2>1 DEF Refuse
  <2> QED BY <1>1, <2>2, <2>3
<1>4. ASSUME NEW reply \in Usages \cup {None}, Answer(r, reply) PROVE LInv'
  <2>1. PICK x : x = [[call[r] EXCEPT !.pc = "answered"] EXCEPT !.reply = reply]
    OBVIOUS
  <2>2. x \in Call /\ x.pc = "answered"
    BY <1>t, <2>1 DEF Call, PCs
  <2>3. call' = [call EXCEPT ![r].pc = "answered", ![r].reply = reply]
        /\ call[r].pc = "admitted"
    BY <1>4 DEF Answer
  <2>4. call' = [call EXCEPT ![r] = x]
    BY <1>t, <2>1, <2>3
  <2> QED BY <1>1, <2>2, <2>3, <2>4
<1>5. CASE Dies(r)
  <2>1. call' = [call EXCEPT ![r] = Ended("dead")]
    BY <1>5 DEF Dies
  <2>2. Ended("dead") \in Call /\ Ended("dead").pc = "dead"
    BY FieldTypes DEF PCs
  <2> QED BY <1>1, <2>1, <2>2
<1> QED BY <1>2, <1>3, <1>4, <1>5

(* The steps that write a row, but for the windows *)
LEMMA RowTypes ==
  ASSUME LedgerTypeOK, RowsOK, NEW r \in Requests, NEW x \in Call, NEW y \in UsageEvent,
         UNCHANGED <<now, limits>>,
         call' = [call EXCEPT ![r] = x], ledger' = [ledger EXCEPT ![r] = y],
         x.pc # "prepared",
         x.pc \in {"admitted", "answered", "refused"} => y.status = "pending",
         y.status \in Countable => y.at \in Times /\ y.admitted \in Limits,
         y.status = "pending" => y.used = Estimate[r]
  PROVE  LedgerTypeOK' /\ RowsOK'
<1>1. LedgerTypeOK'
  BY DEF LedgerTypeOK
<1>2. ASSUME NEW q \in Requests
      PROVE  /\ call'[q].pc = "prepared" => call'[q].at \in Times /\ call'[q].limits \in Limits
             /\ call'[q].pc \in {"admitted", "answered", "refused"}
                  => ledger'[q].status = "pending"
             /\ ledger'[q].status \in Countable
                  => ledger'[q].at \in Times /\ ledger'[q].admitted \in Limits
             /\ ledger'[q].status = "pending" => ledger'[q].used = Estimate[q]
  <2>1. /\ call'[q] = IF q = r THEN x ELSE call[q]
        /\ ledger'[q] = IF q = r THEN y ELSE ledger[q]
    BY DEF LedgerTypeOK
  <2> QED BY <2>1 DEF RowsOK
<1> QED BY <1>1, <1>2 DEF RowsOK

LEMMA ReserveStep ==
  ASSUME LInv, NEW r \in Requests, Reserve(r) PROVE LInv'
<1>t. LedgerTypeOK /\ RowsOK /\ call[r] \in Call /\ call \in [Requests -> Call]
  BY CallTypes DEF LInv
<1>1. call[r].at \in Times /\ call[r].limits \in Limits
  BY <1>t DEF RowsOK, Reserve
<1>2. PICK x : x = [[[call[r] EXCEPT !.pc = "admitted"] EXCEPT !.at = None]
                      EXCEPT !.limits = None]
  OBVIOUS
<1>3. x \in Call /\ x.pc = "admitted"
  BY <1>t, <1>2 DEF Call, PCs
<1>4. call' = [call EXCEPT ![r] = x]
  BY <1>t, <1>2 DEF Reserve
<1>5. PICK y : y = [status |-> "pending", at |-> call[r].at, used |-> Estimate[r],
                    admitted |-> call[r].limits]
  OBVIOUS
<1>6. y \in UsageEvent /\ y.status = "pending" /\ y.used = Estimate[r]
      /\ y.at \in Times /\ y.admitted \in Limits
  BY <1>1, <1>5, UsageTypes DEF UsageEvent, Statuses
<1>7. ledger' = [ledger EXCEPT ![r] = y] /\ UNCHANGED <<now, limits>>
  BY <1>5 DEF Reserve
<1>8. LedgerTypeOK' /\ RowsOK'
  BY <1>t, <1>3, <1>4, <1>6, <1>7, RowTypes
<1> QED BY <1>8, ReserveCovers DEF LInv

LEMMA EndStep ==
  ASSUME LInv, NEW r \in Requests, Reject(r) \/ Settle(r) \/ SettleError(r) PROVE LInv'
<1>t. /\ LedgerTypeOK /\ RowsOK /\ ledger[r] \in UsageEvent /\ call[r] \in Call
      /\ ledger \in [Requests -> UsageEvent]
  BY CallTypes DEF LInv
<1>e. Ended("over") \in Call /\ Ended("over").pc = "over"
  BY FieldTypes DEF PCs
<1>c. call' = [call EXCEPT ![r] = Ended("over")] /\ UNCHANGED <<now, limits>>
  BY DEF Reject, Settle, SettleError
<1>1. ASSUME NEW y \in UsageEvent, ledger' = [ledger EXCEPT ![r] = y],
             \/ y.status \notin Countable
             \/ /\ y.status = "success" /\ ledger[r].status = "pending"
                /\ y.at = ledger[r].at /\ y.admitted = ledger[r].admitted
      PROVE  LInv'
  <2>1. y.status \in Countable => y.at \in Times /\ y.admitted \in Limits
    BY <1>t, <1>1 DEF RowsOK, Countable
  <2>2. y.status # "pending"
    BY <1>1 DEF Countable
  <2>3. LedgerTypeOK' /\ RowsOK'
    BY <1>t, <1>e, <1>c, <1>1, <2>1, <2>2, RowTypes
  <2>4. ASSUME NEW q \in Requests, ledger'[q].status \in Countable
        PROVE  /\ ledger[q].status \in Countable
               /\ ledger'[q].at = ledger[q].at
               /\ ledger'[q].admitted = ledger[q].admitted
               /\ \A d \in Dims : Base(q, d)' <= Base(q, d)
    <3>1. ledger'[q] = IF q = r THEN y ELSE ledger[q]
      BY <1>t, <1>1
    <3>2. ASSUME NEW d \in Dims
          PROVE  /\ Base(q, d) \in Nat /\ ledger'[q].used[d] \in Nat
                 /\ Estimate[q][d] \in Nat
      <4>1. ledger'[q].used \in Usages \cup {Nothing}
        BY <2>3 DEF LedgerTypeOK, UsageEvent
      <4>2. Base(q, d) \in Nat
        BY SumTypes, <1>t DEF BaseBy
      <4> QED BY <4>1, <4>2, UsageTypes
    <3>3. CASE q # r
      <4>1. \A d \in Dims : Base(q, d)' = Base(q, d)
        BY <3>1, <3>3 DEF Base
      <4> QED BY <2>4, <3>1, <3>2, <3>3, <4>1
    <3>4. CASE q = r
      <4>1. y.status = "success" /\ ledger[r].status = "pending"
            /\ y.at = ledger[r].at /\ y.admitted = ledger[r].admitted
        BY <1>1, <2>4, <3>1, <3>4
      <4>2. ledger[r].used = Estimate[r]
        BY <1>t, <4>1 DEF RowsOK
      <4>3. \A d \in Dims : Base(q, d) = Estimate[q][d]
        BY <3>2, <3>4, <4>2 DEF Base
      <4>4. \A d \in Dims : Base(q, d)' <= Estimate[q][d]
        BY <3>2 DEF Base
      <4> QED BY <3>1, <3>4, <4>1, <4>3, <4>4 DEF Countable
    <3> QED BY <3>3, <3>4
  <2>5. WindowsOK'
    BY <2>3, <2>4, WindowsKept
  <2> QED BY <2>3, <2>5 DEF LInv
<1>2. CASE Reject(r)
  <2>1. PICK y : y = [[NoEvent EXCEPT !.status = "rejected_by_limit"] EXCEPT !.at = call[r].at]
    OBVIOUS
  <2>2. y \in UsageEvent /\ y.status = "rejected_by_limit"
    BY <1>t, <2>1 DEF NoEvent, UsageEvent, Statuses, Call
  <2>3. ledger' = [ledger EXCEPT ![r] = y]
    BY <1>2, <2>1 DEF Reject, NoEvent
  <2> QED BY <1>1, <2>2, <2>3 DEF Countable
<1>3. CASE Settle(r)
  <2>1. PICK u : u = FinalUsage(r)
    OBVIOUS
  <2>2. u \in Usages
    BY <1>t, <2>1, UsageTypes DEF FinalUsage, Call
  <2>3. PICK y : y = [[ledger[r] EXCEPT !.status = "success"] EXCEPT !.used = u]
    OBVIOUS
  <2>4. y \in UsageEvent /\ y.status = "success" /\ y.at = ledger[r].at
        /\ y.admitted = ledger[r].admitted
    BY <1>t, <2>2, <2>3 DEF UsageEvent, Statuses
  <2>5. ledger' = [ledger EXCEPT ![r].status = "success", ![r].used = u]
    BY <1>3, <2>1 DEF Settle
  <2>6. ledger' = [ledger EXCEPT ![r] = y]
    BY <1>t, <2>3, <2>5
  <2>7. ledger[r].status = "pending"
    BY <1>3, <1>t DEF Settle, RowsOK
  <2> QED BY <1>1, <2>4, <2>6, <2>7
<1>4. CASE SettleError(r)
  <2>1. PICK y : y = [[[ledger[r] EXCEPT !.status = "provider_error"] EXCEPT !.used = Nothing]
                        EXCEPT !.admitted = None]
    OBVIOUS
  <2>2. y \in UsageEvent /\ y.status = "provider_error"
    BY <1>t, <2>1 DEF UsageEvent, Statuses
  <2>3. ledger' = [ledger EXCEPT ![r].status = "provider_error", ![r].used = Nothing,
                                 ![r].admitted = None]
    BY <1>4 DEF SettleError
  <2>4. ledger' = [ledger EXCEPT ![r] = y]
    BY <1>t, <2>1, <2>3
  <2> QED BY <1>1, <2>2, <2>4 DEF Countable
<1> QED BY <1>2, <1>3, <1>4

LEMMA LedgerKept == LInv /\ [LedgerNext]_ledgerVars => LInv'
<1> SUFFICES ASSUME LInv, [LedgerNext]_ledgerVars PROVE LInv'
  OBVIOUS
<1>1. ASSUME UNCHANGED <<call, ledger>>, now' \in Times, limits' \in Limits PROVE LInv'
  <2>1. LedgerTypeOK' /\ RowsOK'
    BY <1>1 DEF LInv, LedgerTypeOK, RowsOK
  <2> QED BY <1>1, <2>1, IdleStep DEF LInv
<1>2. CASE Tick \/ UNCHANGED ledgerVars \/ \E l \in Limits : SetLimits(l)
  <2>1. UNCHANGED <<call, ledger>> /\ now' \in Times /\ limits' \in Limits
    BY <1>2 DEF Tick, SetLimits, ledgerVars, LInv, LedgerTypeOK
  <2> QED BY <1>1, <2>1
<1> QED BY <1>2, CallStep, ReserveStep, EndStep DEF LedgerNext, Progress

(* However requests overlap, whatever limits come into force, whoever dies and
   whatever the calls turn out to use: in each window and scope, what is
   reserved or used stays within a cap one of its requests was admitted under,
   but for what single calls used beyond their own estimates. *)
THEOREM CapsHoldTogether == LedgerSpec => []CapsHold
<1>1. LInv /\ [LedgerNext]_ledgerVars => LInv'
  BY LedgerKept
<1> QED BY InitLedger, <1>1, CoveredCaps, PTL DEF LedgerSpec

(* Every row that counts has a usage in every dimension, and the time and the
   limits it was admitted under. *)
THEOREM LedgerTypes == LedgerSpec => []LedgerTypeOK
<1>1. LInv /\ [LedgerNext]_ledgerVars => LInv'
  BY LedgerKept
<1>2. LInv => LedgerTypeOK
  BY DEF LInv
<1> QED BY InitLedger, <1>1, <1>2, PTL DEF LedgerSpec

-----------------------------------------------------------------------------
(* Folds of the library *)

\* it folds F from base over each part of S, its elements taken off by ch.
IsFold(it, V, base, F, ch, S) ==
  /\ it \in [SUBSET S -> V]
  /\ it[{}] = base
  /\ \A s \in SUBSET S : s # {} => it[s] = F[ch[s]][it[s \ {ch[s]}]]

IsChoice(ch, S) == \A s \in SUBSET S : s # {} => ch[s] \in s

LEMMA FoldExists ==
  ASSUME NEW S, IsFiniteSet(S), NEW V, NEW base \in V, NEW F \in [S -> [V -> V]],
         NEW ch, IsChoice(ch, S)
  PROVE  \E it : IsFold(it, V, base, F, ch, S)
<1> DEFINE D(n) == {s \in SUBSET S : Cardinality(s) <= n}
           Upto(it, n) == /\ it \in [D(n) -> V]
                          /\ it[{}] = base
                          /\ \A s \in D(n) : s # {} => it[s] = F[ch[s]][it[s \ {ch[s]}]]
           N == {n \in Nat : \E it : Upto(it, n)}
<1>1. \A s \in SUBSET S : IsFiniteSet(s) /\ Cardinality(s) \in Nat
  BY FS_Subset, FS_CardinalityType
<1>2. \A s \in SUBSET S : s # {} =>
        /\ ch[s] \in s /\ s \ {ch[s]} \in SUBSET S
        /\ Cardinality(s \ {ch[s]}) = Cardinality(s) - 1
  <2> SUFFICES ASSUME NEW s \in SUBSET S, s # {}
               PROVE  /\ ch[s] \in s /\ s \ {ch[s]} \in SUBSET S
                      /\ Cardinality(s \ {ch[s]}) = Cardinality(s) - 1
    OBVIOUS
  <2>1. ch[s] \in s
    BY DEF IsChoice
  <2>2. PICK x : x = ch[s]
    OBVIOUS
  <2>3. Cardinality(s \ {x}) = Cardinality(s) - 1
    BY <1>1, <2>1, <2>2, FS_RemoveElement
  <2> QED BY <2>1, <2>2, <2>3
<1>3. \A s \in SUBSET S : s # {} => Cardinality(s) \in Nat \ {0}
  BY <1>1, FS_EmptySet
<1>4. 0 \in N
  <2> DEFINE it == [s \in D(0) |-> base]
  <2>1. {} \in D(0) /\ \A s \in D(0) : s = {}
    BY <1>3, FS_EmptySet
  <2>2. Upto(it, 0)
    BY <2>1
  <2> QED BY <2>2
<1>5. ASSUME NEW n \in Nat, n \in N PROVE n + 1 \in N
  <2>1. PICK it : Upto(it, n)
    BY <1>5
  <2> DEFINE two == [s \in D(n + 1) |-> IF s \in D(n) THEN it[s]
                                        ELSE F[ch[s]][it[s \ {ch[s]}]]]
  <2>2. \A s \in D(n + 1) : s \notin D(n) => s # {} /\ s \ {ch[s]} \in D(n) /\ ch[s] \in S
    <3> SUFFICES ASSUME NEW s \in D(n + 1), s \notin D(n)
                 PROVE  s # {} /\ s \ {ch[s]} \in D(n) /\ ch[s] \in S
      OBVIOUS
    <3>1. Cardinality(s) = n + 1
      BY <1>1
    <3>2. s # {}
      BY <3>1, FS_EmptySet
    <3>3. Cardinality(s \ {ch[s]}) = n /\ s \ {ch[s]} \in SUBSET S /\ ch[s] \in S
      BY <1>2, <3>1, <3>2
    <3> QED BY <3>2, <3>3
  <2>3. \A s \in D(n) : s \in D(n + 1) /\ (s # {} => s \ {ch[s]} \in D(n))
    <3> SUFFICES ASSUME NEW s \in D(n)
                 PROVE  s \in D(n + 1) /\ (s # {} => s \ {ch[s]} \in D(n))
      OBVIOUS
    <3>1. Cardinality(s) \in Nat /\ Cardinality(s) <= n
      BY <1>1
    <3>2. s \in D(n + 1)
      BY <3>1
    <3>3. s # {} => Cardinality(s \ {ch[s]}) <= n /\ s \ {ch[s]} \in SUBSET S
      BY <1>2, <3>1
    <3> QED BY <3>2, <3>3
  <2>4. {} \in D(n)
    BY FS_EmptySet
  <2> HIDE DEF D
  <2>5. two \in [D(n + 1) -> V]
    <3>1. \A s \in D(n) : it[s] \in V
      BY <2>1
    <3>2. \A s \in D(n + 1) : s \notin D(n) => F[ch[s]][it[s \ {ch[s]}]] \in V
      BY <2>2, <3>1
    <3> QED BY <3>1, <3>2
  <2>6. two[{}] = base
    BY <2>1, <2>3, <2>4
  <2>7. ASSUME NEW s \in D(n + 1), s # {} PROVE two[s] = F[ch[s]][two[s \ {ch[s]}]]
    <3>1. s \ {ch[s]} \in D(n)
      BY <2>2, <2>3, <2>7
    <3>2. two[s \ {ch[s]}] = it[s \ {ch[s]}]
      BY <2>3, <3>1
    <3>3. two[s] = F[ch[s]][it[s \ {ch[s]}]]
      BY <2>1, <2>7
    <3> QED BY <3>2, <3>3
  <2>8. Upto(two, n + 1)
    <3> HIDE DEF two
    <3> QED BY <2>5, <2>6, <2>7
  <2> HIDE DEF Upto
  <2> QED BY <2>8
<1>6. Nat \subseteq N
  <2> HIDE DEF N
  <2> QED BY <1>4, <1>5, SetInduction
<1>7. PICK it : Upto(it, Cardinality(S))
  BY <1>1, <1>6
<1>8. D(Cardinality(S)) = SUBSET S
  BY <1>1, FS_Subset
<1> QED BY <1>7, <1>8 DEF IsFold

LEMMA MaxIn ==
  ASSUME NEW n \in Nat, NEW s \in SUBSET (1..n), s # {}
  PROVE  Max(s) \in s /\ \A y \in s : Max(s) >= y
<1> DEFINE T == {n - x : x \in s}
<1>1. T \subseteq Nat /\ T # {}
  <2>1. \A x \in s : n - x \in Nat
    OBVIOUS
  <2> QED BY <2>1
<1> HIDE DEF T
<1>2. PICK m \in T : \A y \in T : ~ (y < m)
  BY <1>1, NatLeast
<1>3. PICK x \in s : m = n - x
  BY <1>2 DEF T
<1>4. \A y \in s : x >= y
  <2> TAKE y \in s
  <2>1. n - y \in T /\ ~ (n - y < n - x)
    BY <1>2, <1>3 DEF T
  <2> QED BY <2>1
<1> QED BY <1>4 DEF Max

\* The values a fold over a sequence of length n goes through.
GoesThrough(h, V, base, F, n) ==
  /\ h \in [0..n -> V]
  /\ h[0] = base
  /\ \A k \in 1..n : h[k] = F[k][h[k - 1]]

LastFirst(n) == [s \in SUBSET (1..n) |-> Max(s)]

LEMMA LastIsChoice ==
  ASSUME NEW n \in Nat
  PROVE  /\ IsFiniteSet(1..n) /\ IsChoice(LastFirst(n), 1..n)
         /\ \A s \in SUBSET (1..n) : LastFirst(n)[s] = Max(s)
<1>1. IsFiniteSet(1..n)
  BY FS_Interval
<1>2. \A s \in SUBSET (1..n) : LastFirst(n)[s] = Max(s)
  BY DEF LastFirst
<1>3. \A s \in SUBSET (1..n) : s # {} => Max(s) \in s
  BY MaxIn
<1> QED BY <1>1, <1>2, <1>3 DEF IsChoice

LEMMA FoldRuns ==
  ASSUME NEW n \in Nat, NEW V, NEW base \in V, NEW F \in [1..n -> [V -> V]],
         NEW it, IsFold(it, V, base, F, LastFirst(n), 1..n)
  PROVE  \E h : GoesThrough(h, V, base, F, n) /\ h[n] = it[1..n]
<1> DEFINE h == [k \in 0..n |-> it[1..k]]
<1>1. h \in [0..n -> V] /\ h[0] = base /\ h[n] = it[1..n]
  <2>1. 1..0 = {} /\ \A k \in 0..n : 1..k \in SUBSET (1..n)
    OBVIOUS
  <2> QED BY <2>1 DEF IsFold
<1>2. ASSUME NEW k \in 1..n PROVE h[k] = F[k][h[k - 1]]
  <2>1. PICK s : s = 1..k
    OBVIOUS
  <2>2. s \in SUBSET (1..n) /\ s # {} /\ k \in s
    <3>1. k \in 1..k /\ \A j \in 1..k : j \in 1..n
      OBVIOUS
    <3> QED BY <2>1, <3>1
  <2>3. Max(s) \in s /\ Max(s) >= k
    BY <2>2, MaxIn
  <2>4. Max(s) = k
    BY <2>1, <2>3
  <2>5. s \ {k} = 1..(k - 1)
    BY <2>1
  <2>6. it[s] = F[k][it[s \ {k}]]
    BY <2>2, <2>4, LastIsChoice DEF IsFold
  <2>7. h[k] = it[1..k] /\ h[k - 1] = it[1..(k - 1)]
    OBVIOUS
  <2> HIDE DEF h
  <2> QED BY <2>1, <2>5, <2>6, <2>7
<1> QED BY <1>1, <1>2 DEF GoesThrough

\* Whatever goes through the same steps ends where the fold ends.
SameSteps(it, G, ch, S) ==
  /\ it[{}] = G[{}]
  /\ \A s \in SUBSET S : s # {} /\ it[s \ {ch[s]}] = G[s \ {ch[s]}] => it[s] = G[s]

LEMMA FoldUnique ==
  ASSUME NEW S, IsFiniteSet(S), NEW ch, IsChoice(ch, S), NEW G, NEW it,
         SameSteps(it, G, ch, S)
  PROVE  it[S] = G[S]
<1> DEFINE N == {n \in Nat : \A s \in SUBSET S : Cardinality(s) = n => it[s] = G[s]}
<1>1. 0 \in N
  BY FS_Subset, FS_EmptySet DEF SameSteps
<1>2. ASSUME NEW n \in Nat, n \in N PROVE n + 1 \in N
  <2> SUFFICES ASSUME NEW s \in SUBSET S, Cardinality(s) = n + 1 PROVE it[s] = G[s]
    OBVIOUS
  <2>1. IsFiniteSet(s) /\ s # {}
    BY FS_Subset, FS_EmptySet
  <2>2. PICK x : x = ch[s]
    OBVIOUS
  <2>3. x \in s
    BY <2>1, <2>2 DEF IsChoice
  <2>4. Cardinality(s \ {x}) = n
    BY <2>1, <2>3, OneLess
  <2>5. it[s \ {x}] = G[s \ {x}]
    BY <1>2, <2>4
  <2> QED BY <2>1, <2>2, <2>5 DEF SameSteps
<1>3. Nat \subseteq N
  <2> HIDE DEF N
  <2> QED BY <1>1, <1>2, SetInduction
<1> QED BY <1>3, FS_CardinalityType

-----------------------------------------------------------------------------
(* The droplets *)

LEMMA EventKinds ==
  ASSUME NEW e \in Event
  PROVE  /\ e.kind \in {"fire", "void", "forced", "doused", "burned", "earned"}
         /\ e.kind \in {"fire", "void", "forced"} => e.week \in Weeks /\ e.by \in Corrections
         /\ e.kind \in {"doused", "burned"} => e.week \in Weeks
         /\ e.kind \in {"forced", "doused", "earned"} => e.units \in Nat
         /\ e.kind = "forced" => e.units = 1
<1>1. CASE e \in [kind : {"fire", "void"}, week : Weeks, by : Corrections]
  BY <1>1
<1>2. CASE e \in [kind : {"forced"}, week : Weeks, by : Corrections, units : {1}]
  BY <1>2
<1>3. CASE e \in [kind : {"doused"}, week : Weeks, units : Nat]
  BY <1>3
<1>4. CASE e \in [kind : {"burned"}, week : Weeks]
  BY <1>4
<1>5. CASE e \in [kind : {"earned"}, by : Edits, units : Nat]
  BY <1>5
<1> QED BY <1>1, <1>2, <1>3, <1>4, <1>5 DEF Event

LEMMA RefilledType ==
  ASSUME NEW n \in 0..Capacity, NEW e \in Event PROVE Refilled(n, e) \in 0..Capacity
<1>1. Capacity \in Nat
  BY WeekFireConstants
<1>2. e.kind \in {"forced", "doused", "earned"} => e.units \in Nat
  BY EventKinds
<1>3. CASE e.kind = "earned"
  BY <1>1, <1>2, <1>3 DEF Refilled, Lesser
<1>4. CASE e.kind \in {"forced", "doused"}
  BY <1>1, <1>2, <1>4 DEF Refilled, Monus
<1>5. CASE e.kind \notin {"earned", "forced", "doused"}
  BY <1>5 DEF Refilled
<1> QED BY <1>3, <1>4, <1>5

\* h has the droplets after each event of l.
IsRefill(h, l) ==
  /\ h \in [0..Len(l) -> 0..Capacity]
  /\ h[0] = 0
  /\ \A k \in 1..Len(l) : h[k] = Refilled(h[k - 1], l[k])

LEMMA RefillRuns ==
  ASSUME NEW l \in Seq(Event)
  PROVE  \E h : IsRefill(h, l) /\ h[Len(l)] = Refill(l)
<1> DEFINE n == Len(l)
           S == 1..n
           V == 0..Capacity
           F == [k \in S |-> [v \in V |-> Refilled(v, l[k])]]
           ch == LastFirst(n)
           Eq(it) == it = [s \in SUBSET S |->
                            IF s = {} THEN 0 ELSE Refilled(it[s \ {Max(s)}], l[Max(s)])]
<1>1. n \in Nat /\ S = DOMAIN l /\ 0 \in V /\ \A k \in S : l[k] \in Event
  BY WeekFireConstants
<1>2. F \in [S -> [V -> V]]
  BY <1>1, RefilledType
<1>3. IsFiniteSet(S) /\ IsChoice(ch, S) /\ \A s \in SUBSET S : ch[s] = Max(s)
  BY <1>1, LastIsChoice
<1> HIDE DEF n, V, ch
<1>4. PICK G : IsFold(G, V, 0, F, ch, S)
  <2> HIDE DEF F, S
  <2> QED BY <1>1, <1>2, <1>3, FoldExists
<1>5. \A s \in SUBSET S : s # {} => /\ Max(s) \in S /\ s \ {Max(s)} \in SUBSET S
                                    /\ G[s] = Refilled(G[s \ {Max(s)}], l[Max(s)])
  <2> SUFFICES ASSUME NEW s \in SUBSET S, s # {}
               PROVE  /\ Max(s) \in S /\ s \ {Max(s)} \in SUBSET S
                      /\ G[s] = Refilled(G[s \ {Max(s)}], l[Max(s)])
    OBVIOUS
  <2>1. PICK x : x = Max(s)
    OBVIOUS
  <2>2. x \in S /\ s \ {x} \in SUBSET S /\ ch[s] = x
    BY <1>3, <2>1 DEF IsChoice
  <2>3. G[s] = F[x][G[s \ {x}]] /\ G[s \ {x}] \in V
    BY <1>4, <2>2 DEF IsFold
  <2> QED BY <2>1, <2>2, <2>3
<1>6. Eq(G)
  <2>1. G = [s \in SUBSET S |-> G[s]] /\ G[{}] = 0
    BY <1>4 DEF IsFold
  <2> HIDE DEF S
  <2> QED BY <1>5, <2>1
<1>7. PICK it : it = CHOOSE i : Eq(i)
  OBVIOUS
<1>8. Eq(it)
  <2> HIDE DEF Eq
  <2> QED BY <1>6, <1>7
<1>9. Refill(l) = it[S]
  <2>1. Refill(l) = it[DOMAIN l]
    BY <1>1, <1>7, Zenon DEF Refill, FoldLeft, MapThenFoldSet
  <2> QED BY <1>1, <2>1
<1>10. it[S] = G[S]
  <2>1. it[{}] = G[{}]
    BY <1>6, <1>8
  <2>2. \A s \in SUBSET S : s # {} /\ it[s \ {ch[s]}] = G[s \ {ch[s]}] => it[s] = G[s]
    <3> SUFFICES ASSUME NEW s \in SUBSET S, s # {}, it[s \ {ch[s]}] = G[s \ {ch[s]}]
                 PROVE  it[s] = G[s]
      OBVIOUS
    <3>1. PICK x : x = Max(s)
      OBVIOUS
    <3>2. ch[s] = x
      BY <1>3, <3>1
    <3>3. it[s] = Refilled(it[s \ {x}], l[x])
      BY <1>8, <3>1
    <3>4. G[s] = Refilled(G[s \ {x}], l[x])
      BY <1>5, <3>1
    <3> QED BY <3>2, <3>3, <3>4
  <2>3. SameSteps(it, G, ch, S)
    BY <2>1, <2>2 DEF SameSteps
  <2> HIDE DEF S
  <2> QED BY <1>1, <1>3, <2>3, FoldUnique
<1>11. PICK h : GoesThrough(h, V, 0, F, n) /\ h[n] = G[S]
  <2>1. F \in [1..n -> [V -> V]] /\ IsFold(G, V, 0, F, LastFirst(n), 1..n)
    BY <1>2, <1>4 DEF ch
  <2> HIDE DEF F
  <2> QED BY <1>1, <2>1, FoldRuns
<1>12. \A k \in 1..n : h[k] = Refilled(h[k - 1], l[k])
  <2> SUFFICES ASSUME NEW k \in 1..n PROVE h[k] = Refilled(h[k - 1], l[k])
    OBVIOUS
  <2>1. h[k - 1] \in V
    BY <1>1, <1>11 DEF GoesThrough
  <2> QED BY <1>11, <2>1 DEF GoesThrough
<1> QED BY <1>9, <1>10, <1>11, <1>12 DEF GoesThrough, IsRefill, n, V

LEMMA RefillAppend ==
  ASSUME NEW l \in Seq(Event), NEW e \in Event
  PROVE  /\ Refill(l) \in 0..Capacity
         /\ Refill(Append(l, e)) = Refilled(Refill(l), e)
<1> DEFINE n == Len(l)
<1>1. PICK m : m = Append(l, e)
  OBVIOUS
<1>2. /\ n \in Nat /\ m \in Seq(Event) /\ Len(m) = n + 1 /\ m[n + 1] = e
      /\ \A k \in 1..n : m[k] = l[k]
  BY <1>1
<1>3. PICK h : IsRefill(h, l) /\ h[n] = Refill(l)
  BY RefillRuns
<1>4. PICK g : IsRefill(g, m) /\ g[n + 1] = Refill(m)
  BY <1>2, RefillRuns
<1> HIDE DEF n
<1> DEFINE N == {k \in Nat : k <= n => g[k] = h[k]}
<1>5. 0 \in N
  BY <1>3, <1>4 DEF IsRefill
<1>6. ASSUME NEW k \in Nat, k \in N PROVE k + 1 \in N
  <2> SUFFICES ASSUME k + 1 <= n PROVE g[k + 1] = h[k + 1]
    OBVIOUS
  <2>1. k + 1 \in 1..n /\ k + 1 \in 1..(n + 1) /\ (k + 1) - 1 = k /\ k <= n
    BY <1>2
  <2>2. g[k + 1] = Refilled(g[k], m[k + 1])
    BY <1>2, <1>4, <2>1 DEF IsRefill
  <2>3. h[k + 1] = Refilled(h[k], l[k + 1])
    BY <1>3, <2>1 DEF IsRefill, n
  <2> QED BY <1>2, <1>6, <2>1, <2>2, <2>3
<1>7. Nat \subseteq N
  <2> HIDE DEF N
  <2> QED BY <1>5, <1>6, SetInduction
<1>8. g[n] = h[n]
  BY <1>2, <1>7
<1>9. g[n + 1] = Refilled(g[n], m[n + 1])
  <2>1. n + 1 \in 1..(n + 1) /\ (n + 1) - 1 = n
    BY <1>2
  <2> QED BY <1>2, <1>4, <2>1 DEF IsRefill
<1>10. h[n] \in 0..Capacity
  BY <1>2, <1>3 DEF IsRefill, n
<1> QED BY <1>1, <1>2, <1>3, <1>4, <1>8, <1>9, <1>10

LEMMA RefillEmpty == <<>> \in Seq(Event) /\ Refill(<<>>) = 0
<1>1. <<>> \in Seq(Event) /\ Len(<<>>) = 0
  OBVIOUS
<1>2. PICK h : IsRefill(h, <<>>) /\ h[0] = Refill(<<>>)
  BY <1>1, RefillRuns
<1> QED BY <1>1, <1>2 DEF IsRefill

-----------------------------------------------------------------------------
(* The rows of the weeks *)

LEMMA RowFields ==
  ASSUME NEW b \in Board, NEW w \in Weeks, b[w] # NoRow
  PROVE  /\ b[w] \in Row
         /\ b[w].id \in Nat \ {0} /\ b[w].flames \in Nat /\ b[w].burnt \in BOOLEAN
BY DEF Board, Row

LEMMA NextIdAbove ==
  ASSUME NEW b \in Board
  PROVE  NextId(b) \in Nat \ {0} /\ \A w \in Kept(b) : b[w].id < NextId(b)
<1> DEFINE S == Kept(b)
           F == [w \in S |-> [m \in Nat |-> IF b[w].id > m THEN b[w].id ELSE m]]
           ch == [s \in SUBSET S |-> CHOOSE x \in s : TRUE]
           Eq(it) == it = [s \in SUBSET S |->
                            IF s = {} THEN 0
                            ELSE IF b[CHOOSE x \in s : TRUE].id > it[s \ {CHOOSE x \in s : TRUE}]
                                 THEN b[CHOOSE x \in s : TRUE].id
                                 ELSE it[s \ {CHOOSE x \in s : TRUE}]]
<1>1. IsFiniteSet(S) /\ \A w \in S : b[w].id \in Nat
  <2>1. IsFiniteSet(Weeks) /\ S \subseteq Weeks
    BY WeekFireConstants DEF Kept
  <2>2. \A w \in S : b[w].id \in Nat
    BY RowFields DEF Kept
  <2> QED BY <2>1, <2>2, FS_Subset
<1>2. F \in [S -> [Nat -> Nat]]
  BY <1>1
<1>3. IsChoice(ch, S)
  BY DEF IsChoice
<1>4. PICK G : IsFold(G, Nat, 0, F, ch, S)
  <2> HIDE DEF S, F, ch
  <2> QED BY <1>1, <1>2, <1>3, FoldExists
<1>5. \A s \in SUBSET S : s # {} =>
        LET x == CHOOSE y \in s : TRUE
        IN  /\ x \in s /\ s \ {x} \in SUBSET S /\ ch[s] = x /\ G[s \ {x}] \in Nat
            /\ G[s] = IF b[x].id > G[s \ {x}] THEN b[x].id ELSE G[s \ {x}]
  <2> SUFFICES ASSUME NEW s \in SUBSET S, s # {}, NEW x, x = CHOOSE y \in s : TRUE
               PROVE  /\ x \in s /\ s \ {x} \in SUBSET S /\ ch[s] = x /\ G[s \ {x}] \in Nat
                      /\ G[s] = IF b[x].id > G[s \ {x}] THEN b[x].id ELSE G[s \ {x}]
    BY Zenon
  <2>1. x \in s /\ s \ {x} \in SUBSET S /\ ch[s] = x
    OBVIOUS
  <2>2. G[s] = F[x][G[s \ {x}]] /\ G[s \ {x}] \in Nat
    BY <1>4, <2>1 DEF IsFold
  <2> QED BY <2>1, <2>2
<1>6. Eq(G)
  <2>1. G = [s \in SUBSET S |-> G[s]] /\ G[{}] = 0
    BY <1>4 DEF IsFold
  <2> HIDE DEF S, ch
  <2> QED BY <1>5, <2>1, Zenon
<1>7. PICK it : it = CHOOSE i : Eq(i)
  OBVIOUS
<1>8. Eq(it)
  <2> HIDE DEF Eq
  <2> QED BY <1>6, <1>7
<1>9. NextId(b) = 1 + it[S]
  BY <1>7, Zenon DEF NextId, FoldSet, MapThenFoldSet
<1>10. it[S] = G[S]
  <2>1. it[{}] = G[{}]
    BY <1>6, <1>8
  <2>2. \A s \in SUBSET S : s # {} /\ it[s \ {ch[s]}] = G[s \ {ch[s]}] => it[s] = G[s]
    <3> SUFFICES ASSUME NEW s \in SUBSET S, s # {}, it[s \ {ch[s]}] = G[s \ {ch[s]}]
                 PROVE  it[s] = G[s]
      OBVIOUS
    <3>1. PICK x : x = CHOOSE y \in s : TRUE
      OBVIOUS
    <3>2. ch[s] = x
      BY <3>1
    <3>3. it[s] = IF b[x].id > it[s \ {x}] THEN b[x].id ELSE it[s \ {x}]
      BY <1>8, <3>1
    <3>4. G[s] = IF b[x].id > G[s \ {x}] THEN b[x].id ELSE G[s \ {x}]
      BY <1>5, <3>1
    <3> HIDE DEF ch, Eq
    <3> QED BY <3>2, <3>3, <3>4
  <2>3. SameSteps(it, G, ch, S)
    BY <2>1, <2>2 DEF SameSteps
  <2> HIDE DEF S, ch
  <2> QED BY <1>1, <1>3, <2>3, FoldUnique
<1> DEFINE Q == {s \in SUBSET S : \A w \in s : b[w].id <= G[s]}
           N == {n \in Nat : \A s \in SUBSET S : Cardinality(s) = n => s \in Q}
<1>11. 0 \in N
  BY <1>1, FS_Subset, FS_EmptySet
<1>12. ASSUME NEW n \in Nat, n \in N PROVE n + 1 \in N
  <2> SUFFICES ASSUME NEW s \in SUBSET S, Cardinality(s) = n + 1 PROVE s \in Q
    OBVIOUS
  <2>1. IsFiniteSet(s) /\ s # {}
    BY <1>1, FS_Subset, FS_EmptySet
  <2>2. PICK x : x = CHOOSE y \in s : TRUE
    OBVIOUS
  <2>3. /\ x \in s /\ s \ {x} \in SUBSET S /\ G[s \ {x}] \in Nat
        /\ G[s] = IF b[x].id > G[s \ {x}] THEN b[x].id ELSE G[s \ {x}]
    BY <1>5, <2>1, <2>2
  <2>4. Cardinality(s \ {x}) = n
    BY <2>1, <2>3, OneLess
  <2>5. \A w \in s \ {x} : b[w].id <= G[s \ {x}]
    BY <1>12, <2>3, <2>4
  <2>6. ASSUME NEW w \in s PROVE b[w].id <= G[s]
    <3>1. b[w].id \in Nat /\ b[x].id \in Nat
      BY <1>1, <2>3
    <3>2. w # x => b[w].id <= G[s \ {x}]
      BY <2>5
    <3> QED BY <2>3, <3>1, <3>2
  <2> QED BY <2>6
<1>13. Nat \subseteq N
  <2> HIDE DEF N
  <2> QED BY <1>11, <1>12, SetInduction
<1>14. S \in Q /\ G[S] \in Nat
  BY <1>1, <1>4, <1>13, FS_CardinalityType DEF IsFold
<1> HIDE DEF S
<1>15. ASSUME NEW w \in S PROVE b[w].id < 1 + G[S]
  BY <1>1, <1>14
<1> QED BY <1>9, <1>10, <1>14, <1>15 DEF S

UniqueIds(b) == \A v, w \in Kept(b) : b[v].id = b[w].id => v = w

\* The row of one week is written, under the id it has.
PutRow(b, w, x) == [b EXCEPT ![w] = x]

LEMMA SetRow ==
  ASSUME NEW b \in Board, NEW w \in Weeks, b[w] # NoRow,
         NEW x \in Row, x.id = b[w].id,
         NEW d, d = PutRow(b, w, x)
  PROVE  /\ d \in Board /\ d[w] = x /\ d[w] # NoRow
         /\ \A v \in Weeks : v # w => d[v] = b[v]
         /\ Kept(d) = Kept(b)
         /\ \A v \in Kept(b) : d[v].id = b[v].id
         /\ UniqueIds(b) => UniqueIds(d)
<1>1. d \in Board /\ d[w] = x /\ \A v \in Weeks : v # w => d[v] = b[v]
  BY DEF PutRow, Board
<1>2. x # NoRow
  BY NoRowIsNoRow DEF Row
<1>3. Kept(d) = Kept(b)
  BY <1>1, <1>2 DEF Kept
<1>4. \A v \in Kept(b) : d[v].id = b[v].id
  BY <1>1 DEF Kept
<1>5. UniqueIds(b) => UniqueIds(d)
  BY <1>3, <1>4 DEF UniqueIds
<1> QED BY <1>1, <1>2, <1>3, <1>4, <1>5

LEMMA TouchedIs ==
  ASSUME NEW b \in Board, NEW w \in Weeks, NEW t, t = Touched(b, w)
  PROVE  /\ t \in Board /\ t[w] # NoRow
         /\ \A v \in Weeks : v # w => t[v] = b[v]
         /\ b[w] # NoRow => t = b
         /\ b[w] = NoRow => t[w].flames = 0 /\ ~ t[w].burnt
         /\ UniqueIds(b) => UniqueIds(t)
<1>1. CASE b[w] # NoRow
  BY <1>1 DEF Touched
<1>2. CASE b[w] = NoRow
  <2>1. PICK x : x = [id |-> NextId(b), flames |-> 0, burnt |-> FALSE]
    OBVIOUS
  <2>2. x \in Row /\ x.id = NextId(b) /\ x.flames = 0 /\ ~ x.burnt
    BY <2>1, NextIdAbove DEF Row
  <2>3. x # NoRow
    BY <2>2, NoRowIsNoRow DEF Row
  <2>4. t = PutRow(b, w, x)
    BY <1>2, <2>1 DEF PutRow, Touched
  <2>5. t \in Board /\ t[w] = x /\ \A v \in Weeks : v # w => t[v] = b[v]
    BY <2>2, <2>4 DEF PutRow, Board
  <2>6. ASSUME UniqueIds(b), NEW u \in Kept(t), NEW v \in Kept(t), t[u].id = t[v].id
        PROVE  u = v
    <3>1. \A y \in Kept(t) : y # w => y \in Kept(b) /\ t[y] = b[y]
      BY <2>5 DEF Kept
    <3>2. \A y \in Kept(b) : b[y].id < NextId(b) /\ b[y].id \in Nat /\ NextId(b) \in Nat
      BY NextIdAbove, RowFields DEF Kept
    <3>3. \A y \in Kept(t) : y # w => t[y].id # x.id
      BY <2>2, <3>1, <3>2
    <3>4. CASE u # w /\ v # w
      BY <2>6, <3>1, <3>4 DEF UniqueIds
    <3>5. CASE u = w \/ v = w
      BY <2>5, <2>6, <3>3, <3>5
    <3> QED BY <3>4, <3>5
  <2> QED BY <1>2, <2>2, <2>3, <2>5, <2>6 DEF UniqueIds
<1> QED BY <1>1, <1>2

\* The row of week w with n flames
WithFlames(b, w, n) == [b EXCEPT ![w].flames = n]

\* The ways the code writes a row that is there
LEMMA WrittenRows ==
  ASSUME NEW b \in Board, NEW w \in Weeks, b[w] # NoRow, NEW n \in Nat
  PROVE  /\ \E x \in Row : /\ Lit(b, w) = PutRow(b, w, x) /\ x.id = b[w].id
                           /\ x.flames = b[w].flames + 1 /\ (x.burnt <=> b[w].burnt)
         /\ \E x \in Row : /\ Ash(b, w) = PutRow(b, w, x) /\ x.id = b[w].id
                           /\ x.flames = 0 /\ x.burnt
         /\ \E x \in Row : /\ WithFlames(b, w, n) = PutRow(b, w, x)
                           /\ x.id = b[w].id /\ x.flames = n /\ (x.burnt <=> b[w].burnt)
<1>0. /\ b[w] \in Row /\ b[w].id \in Nat \ {0} /\ b[w].flames \in Nat /\ b[w].burnt \in BOOLEAN
      /\ b \in [Weeks -> Row \cup {NoRow}]
  BY RowFields DEF Board
<1>1. \E x \in Row : /\ Lit(b, w) = PutRow(b, w, x) /\ x.id = b[w].id
                     /\ x.flames = b[w].flames + 1 /\ (x.burnt <=> b[w].burnt)
  <2>1. PICK x : x = [b[w] EXCEPT !.flames = @ + 1]
    OBVIOUS
  <2>2. x \in Row /\ x.id = b[w].id /\ x.flames = b[w].flames + 1 /\ (x.burnt <=> b[w].burnt)
    BY <1>0, <2>1 DEF Row
  <2>3. Lit(b, w) = PutRow(b, w, x)
    BY <1>0, <2>1 DEF PutRow, Lit
  <2> QED BY <2>2, <2>3
<1>2. \E x \in Row : /\ Ash(b, w) = PutRow(b, w, x) /\ x.id = b[w].id
                     /\ x.flames = 0 /\ x.burnt
  <2>1. PICK x : x = [[b[w] EXCEPT !.burnt = TRUE] EXCEPT !.flames = 0]
    OBVIOUS
  <2>2. x \in Row /\ x.id = b[w].id /\ x.flames = 0 /\ x.burnt
    BY <1>0, <2>1 DEF Row
  <2>3. PICK d : d = [b EXCEPT ![w].burnt = TRUE]
    OBVIOUS
  <2>4. d = [b EXCEPT ![w] = [b[w] EXCEPT !.burnt = TRUE]] /\ d[w] = [b[w] EXCEPT !.burnt = TRUE]
    BY <1>0, <2>3
  <2>5. Ash(b, w) = [d EXCEPT ![w].flames = 0]
    BY <2>3, Zenon DEF Ash
  <2>6. [d EXCEPT ![w].flames = 0] = PutRow(d, w, x)
    BY <1>0, <2>1, <2>4 DEF PutRow
  <2>7. PutRow(d, w, x) = PutRow(b, w, x)
    BY <1>0, <2>4 DEF PutRow
  <2> QED BY <2>2, <2>5, <2>6, <2>7
<1>3. \E x \in Row : /\ WithFlames(b, w, n) = PutRow(b, w, x)
                     /\ x.id = b[w].id /\ x.flames = n /\ (x.burnt <=> b[w].burnt)
  <2>1. PICK x : x = [b[w] EXCEPT !.flames = n]
    OBVIOUS
  <2>2. x \in Row /\ x.id = b[w].id /\ x.flames = n /\ (x.burnt <=> b[w].burnt)
    BY <1>0, <2>1 DEF Row
  <2>3. WithFlames(b, w, n) = PutRow(b, w, x)
    BY <1>0, <2>1 DEF PutRow, WithFlames
  <2> QED BY <2>2, <2>3
<1> QED BY <1>1, <1>2, <1>3

-----------------------------------------------------------------------------
(* The rebuild of the board *)

LEMMA ReplayedCases ==
  ASSUME NEW l, NEW b \in Board, NEW e \in Event, NEW d, d = Replayed(l, b, e)
  PROVE  /\ e.kind = "fire" /\ (Touched(b, e.week)[e.week].burnt \/ WasForced(l, e.by))
              => d = Touched(b, e.week)
         /\ e.kind = "fire" /\ ~ Touched(b, e.week)[e.week].burnt /\ ~ WasForced(l, e.by)
              => d = Lit(Touched(b, e.week), e.week)
         /\ e.kind = "burned" => d = Ash(Touched(b, e.week), e.week)
         /\ e.kind = "doused" =>
              \E n \in Nat : /\ n = Monus(Touched(b, e.week)[e.week].flames, e.units)
                             /\ d = WithFlames(Touched(b, e.week), e.week, n)
         /\ e.kind \notin {"fire", "burned", "doused"} => d = b
<1>1. CASE e.kind = "fire"
  <2>1. d = IF Touched(b, e.week)[e.week].burnt \/ WasForced(l, e.by)
            THEN Touched(b, e.week) ELSE Lit(Touched(b, e.week), e.week)
    BY <1>1 DEF Replayed
  <2> QED BY <1>1, <2>1
<1>2. CASE e.kind = "burned"
  BY <1>2 DEF Replayed
<1>3. CASE e.kind = "doused"
  <2>1. e.week \in Weeks /\ e.units \in Nat
    BY <1>3, EventKinds
  <2>2. PICK w, t : w = e.week /\ t = Touched(b, w)
    OBVIOUS
  <2>3. t \in Board /\ t[w] # NoRow
    BY <2>1, <2>2, TouchedIs
  <2>4. PICK n : n = Monus(t[w].flames, e.units)
    OBVIOUS
  <2>5. n \in Nat
    BY <2>1, <2>2, <2>3, <2>4, RowFields DEF Monus
  <2>6. d = [t EXCEPT ![w].flames = Monus(@, e.units)]
    <3>1. d = [Touched(b, e.week) EXCEPT ![e.week].flames = Monus(@, e.units)]
      BY <1>3 DEF Replayed
    <3> QED BY <2>2, <3>1, Zenon
  <2>7. d = WithFlames(t, w, n)
    BY <2>4, <2>6, Zenon DEF WithFlames
  <2> QED BY <1>3, <2>2, <2>4, <2>5, <2>7
<1>4. CASE e.kind \notin {"fire", "burned", "doused"}
  BY <1>4 DEF Replayed
<1> QED BY <1>1, <1>2, <1>3, <1>4

Burnt(b, w) == b[w] # NoRow /\ b[w].burnt

LEMMA WriteKeepsBurnt ==
  ASSUME NEW t \in Board, NEW w \in Weeks, t[w] # NoRow,
         NEW x \in Row, x.id = t[w].id, t[w].burnt => x.burnt,
         NEW d, d = PutRow(t, w, x)
  PROVE  /\ d \in Board /\ (UniqueIds(t) => UniqueIds(d))
         /\ \A v \in Weeks : Burnt(t, v) => Burnt(d, v)
         /\ x.burnt => Burnt(d, w)
<1>1. /\ d \in Board /\ d[w] = x /\ d[w] # NoRow /\ (UniqueIds(t) => UniqueIds(d))
      /\ \A v \in Weeks : v # w => d[v] = t[v]
  BY SetRow
<1>2. \A v \in Weeks : v # w /\ Burnt(t, v) => Burnt(d, v)
  BY <1>1 DEF Burnt
<1>3. x.burnt => Burnt(d, w)
  BY <1>1, Zenon DEF Burnt
<1>4. Burnt(t, w) => Burnt(d, w)
  BY <1>3 DEF Burnt
<1> QED BY <1>1, <1>2, <1>3, <1>4

LEMMA ReplayedIs ==
  ASSUME NEW l, NEW b \in Board, NEW e \in Event, NEW d, d = Replayed(l, b, e)
  PROVE  /\ d \in Board
         /\ UniqueIds(b) => UniqueIds(d)
         /\ \A w \in Weeks : Burnt(b, w) => Burnt(d, w)
         /\ e.kind = "burned" => Burnt(d, e.week)
<1>1. CASE e.kind \in {"fire", "burned", "doused"}
  <2>1. PICK w, t : w = e.week /\ t = Touched(b, w)
    OBVIOUS
  <2>2. w \in Weeks
    BY <1>1, <2>1, EventKinds
  <2>3. /\ t \in Board /\ t[w] # NoRow /\ (UniqueIds(b) => UniqueIds(t))
        /\ (\A v \in Weeks : v # w => t[v] = b[v]) /\ (b[w] # NoRow => t = b)
    BY <2>1, <2>2, TouchedIs
  <2>4. \A v \in Weeks : Burnt(b, v) => Burnt(t, v)
    BY <2>3 DEF Burnt
  <2>5. ASSUME NEW x \in Row, x.id = t[w].id, d = PutRow(t, w, x),
               t[w].burnt => x.burnt
        PROVE  /\ d \in Board
               /\ UniqueIds(b) => UniqueIds(d)
               /\ \A v \in Weeks : Burnt(b, v) => Burnt(d, v)
               /\ x.burnt => Burnt(d, w)
    <3>1. PICK y : y = PutRow(t, w, x)
      OBVIOUS
    <3>2. /\ y \in Board /\ (UniqueIds(t) => UniqueIds(y))
          /\ (\A v \in Weeks : Burnt(t, v) => Burnt(y, v)) /\ (x.burnt => Burnt(y, w))
      BY <2>2, <2>3, <2>5, <3>1, WriteKeepsBurnt
    <3>3. y = d
      BY <2>5, <3>1, Zenon
    <3> QED BY <2>3, <2>4, <3>2, <3>3
  <2>6. CASE e.kind = "fire"
    <3>1. d = t \/ d = Lit(t, w)
      <4>1. CASE t[w].burnt \/ WasForced(l, e.by)
        BY <2>1, <2>6, <4>1, ReplayedCases
      <4>2. CASE ~ t[w].burnt /\ ~ WasForced(l, e.by)
        BY <2>1, <2>6, <4>2, ReplayedCases
      <4> QED BY <4>1, <4>2
    <3>2. CASE d = t
      BY <2>3, <2>4, <2>6, <3>2
    <3>3. CASE d = Lit(t, w)
      <4>1. PICK x \in Row : /\ Lit(t, w) = PutRow(t, w, x) /\ x.id = t[w].id
                             /\ (x.burnt <=> t[w].burnt)
        BY <2>2, <2>3, WrittenRows
      <4> QED BY <2>5, <2>6, <3>3, <4>1
    <3> QED BY <3>1, <3>2, <3>3
  <2>7. CASE e.kind = "burned"
    <3>1. d = Ash(t, w)
      BY <2>1, <2>7, ReplayedCases
    <3>2. PICK x \in Row : /\ Ash(t, w) = PutRow(t, w, x) /\ x.id = t[w].id
                           /\ x.burnt
      BY <2>2, <2>3, WrittenRows
    <3> QED BY <2>1, <2>5, <3>1, <3>2
  <2>8. CASE e.kind = "doused"
    <3>1. PICK n \in Nat : d = WithFlames(t, w, n)
      BY <2>1, <2>8, ReplayedCases
    <3>2. PICK x \in Row : /\ WithFlames(t, w, n) = PutRow(t, w, x)
                           /\ x.id = t[w].id /\ (x.burnt <=> t[w].burnt)
      BY <2>2, <2>3, WrittenRows
    <3> QED BY <2>5, <2>8, <3>1, <3>2
  <2> QED BY <1>1, <2>6, <2>7, <2>8
<1>2. CASE e.kind \notin {"fire", "burned", "doused"}
  <2>1. d = b
    BY <1>2, ReplayedCases
  <2> QED BY <1>2, <2>1
<1> QED BY <1>1, <1>2

\* h has the board after each event of l.
IsReplay(h, l) ==
  /\ h \in [0..Len(l) -> Board]
  /\ h[0] = NoWeeks
  /\ \A k \in 1..Len(l) : h[k] = Replayed(l, h[k - 1], l[k])

LEMMA ReplayRuns ==
  ASSUME NEW l \in Seq(Event)
  PROVE  \E h : IsReplay(h, l) /\ h[Len(l)] = Replay(l)
<1> DEFINE n == Len(l)
           S == 1..n
           V == Board
           F == [k \in S |-> [v \in V |-> Replayed(l, v, l[k])]]
           ch == LastFirst(n)
           Eq(it) == it = [s \in SUBSET S |->
                            IF s = {} THEN NoWeeks
                            ELSE Replayed(l, it[s \ {Max(s)}], l[Max(s)])]
<1>1. n \in Nat /\ S = DOMAIN l /\ NoWeeks \in V /\ \A k \in S : l[k] \in Event
  BY DEF NoWeeks, Board
<1>2. F \in [S -> [V -> V]]
  <2>1. \A v \in V, k \in S : Replayed(l, v, l[k]) \in V
    BY <1>1, ReplayedIs
  <2> HIDE DEF V, S
  <2> QED BY <2>1
<1>3. IsFiniteSet(S) /\ IsChoice(ch, S) /\ \A s \in SUBSET S : ch[s] = Max(s)
  BY <1>1, LastIsChoice
<1> HIDE DEF n, V, ch
<1>4. PICK G : IsFold(G, V, NoWeeks, F, ch, S)
  <2> HIDE DEF F, S
  <2> QED BY <1>1, <1>2, <1>3, FoldExists
<1>5. \A s \in SUBSET S : s # {} => /\ Max(s) \in S /\ s \ {Max(s)} \in SUBSET S
                                    /\ G[s] = Replayed(l, G[s \ {Max(s)}], l[Max(s)])
  <2> SUFFICES ASSUME NEW s \in SUBSET S, s # {}
               PROVE  /\ Max(s) \in S /\ s \ {Max(s)} \in SUBSET S
                      /\ G[s] = Replayed(l, G[s \ {Max(s)}], l[Max(s)])
    OBVIOUS
  <2>1. PICK x : x = Max(s)
    OBVIOUS
  <2>2. x \in S /\ s \ {x} \in SUBSET S /\ ch[s] = x
    BY <1>3, <2>1 DEF IsChoice
  <2>3. G[s] = F[x][G[s \ {x}]] /\ G[s \ {x}] \in V
    BY <1>4, <2>2 DEF IsFold
  <2> QED BY <2>1, <2>2, <2>3
<1>6. Eq(G)
  <2>1. G = [s \in SUBSET S |-> G[s]] /\ G[{}] = NoWeeks
    BY <1>4 DEF IsFold
  <2> HIDE DEF S
  <2> QED BY <1>5, <2>1
<1>7. PICK it : it = CHOOSE i : Eq(i)
  OBVIOUS
<1>8. Eq(it)
  <2> HIDE DEF Eq
  <2> QED BY <1>6, <1>7
<1>9. Replay(l) = it[S]
  <2>1. Replay(l) = it[DOMAIN l]
    BY <1>1, <1>7, Zenon DEF Replay, FoldLeft, MapThenFoldSet
  <2> QED BY <1>1, <2>1
<1>10. it[S] = G[S]
  <2>1. it[{}] = G[{}]
    BY <1>6, <1>8
  <2>2. \A s \in SUBSET S : s # {} /\ it[s \ {ch[s]}] = G[s \ {ch[s]}] => it[s] = G[s]
    <3> SUFFICES ASSUME NEW s \in SUBSET S, s # {}, it[s \ {ch[s]}] = G[s \ {ch[s]}]
                 PROVE  it[s] = G[s]
      OBVIOUS
    <3>1. PICK x : x = Max(s)
      OBVIOUS
    <3>2. ch[s] = x
      BY <1>3, <3>1
    <3>3. it[s] = Replayed(l, it[s \ {x}], l[x])
      BY <1>8, <3>1
    <3>4. G[s] = Replayed(l, G[s \ {x}], l[x])
      BY <1>5, <3>1
    <3> QED BY <3>2, <3>3, <3>4
  <2>3. SameSteps(it, G, ch, S)
    BY <2>1, <2>2 DEF SameSteps
  <2> HIDE DEF S
  <2> QED BY <1>1, <1>3, <2>3, FoldUnique
<1>11. PICK h : GoesThrough(h, V, NoWeeks, F, n) /\ h[n] = G[S]
  <2>1. F \in [1..n -> [V -> V]] /\ IsFold(G, V, NoWeeks, F, LastFirst(n), 1..n)
    BY <1>2, <1>4 DEF ch
  <2>2. n \in Nat /\ NoWeeks \in V
    BY <1>1
  <2> HIDE DEF F
  <2> QED BY <2>1, <2>2, FoldRuns
<1>12. \A k \in 1..n : h[k] = Replayed(l, h[k - 1], l[k])
  <2> SUFFICES ASSUME NEW k \in 1..n PROVE h[k] = Replayed(l, h[k - 1], l[k])
    OBVIOUS
  <2>1. h[k - 1] \in V
    BY <1>1, <1>11 DEF GoesThrough
  <2> QED BY <1>11, <2>1 DEF GoesThrough
<1> QED BY <1>9, <1>10, <1>11, <1>12 DEF GoesThrough, IsReplay, n, V

LEMMA ReplayIsBoard ==
  ASSUME NEW l \in Seq(Event)
  PROVE  /\ Replay(l) \in Board
         /\ UniqueIds(Replay(l))
         /\ \A i \in DOMAIN l : l[i].kind = "burned" => Burnt(Replay(l), l[i].week)
<1> DEFINE n == Len(l)
<1>1. n \in Nat /\ \A k \in 1..n : l[k] \in Event
  OBVIOUS
<1>2. PICK h : IsReplay(h, l) /\ h[n] = Replay(l)
  BY ReplayRuns
<1>3. /\ h \in [0..n -> Board] /\ h[0] = NoWeeks
      /\ \A k \in 1..n : h[k] = Replayed(l, h[k - 1], l[k])
  BY <1>2 DEF IsReplay
<1> HIDE DEF n
<1> DEFINE Good(k) == /\ UniqueIds(h[k])
                      /\ \A i \in 1..k : l[i].kind = "burned" => Burnt(h[k], l[i].week)
           N == {k \in Nat : k <= n => Good(k)}
<1>4. 0 \in N
  <2>1. Kept(NoWeeks) = {}
    BY DEF Kept, NoWeeks
  <2> QED BY <1>3, <2>1 DEF UniqueIds
<1>5. ASSUME NEW k \in Nat, k \in N PROVE k + 1 \in N
  <2> SUFFICES ASSUME k + 1 <= n PROVE Good(k + 1)
    OBVIOUS
  <2>1. k + 1 \in 1..n /\ (k + 1) - 1 = k /\ k \in 0..n /\ k <= n
    BY <1>1
  <2>2. PICK b, e, d : b = h[k] /\ e = l[k + 1] /\ d = h[k + 1]
    OBVIOUS
  <2>3. b \in Board /\ e \in Event /\ d = Replayed(l, b, e)
    BY <1>1, <1>3, <2>1, <2>2
  <2>4. Good(k)
    BY <1>5, <2>1
  <2>5. /\ UniqueIds(b) => UniqueIds(d)
        /\ \A w \in Weeks : Burnt(b, w) => Burnt(d, w)
        /\ e.kind = "burned" => Burnt(d, e.week)
    BY <2>3, ReplayedIs
  <2>6. ASSUME NEW i \in 1..(k + 1), l[i].kind = "burned" PROVE Burnt(d, l[i].week)
    <3>1. l[i].week \in Weeks
      <4>1. l[i] \in Event
        BY <1>1, <2>1
      <4> QED BY <2>6, <4>1, EventKinds
    <3>2. CASE i = k + 1
      BY <2>2, <2>5, <2>6, <3>2
    <3>3. CASE i # k + 1
      <4>1. i \in 1..k
        BY <3>3
      <4>2. Burnt(b, l[i].week)
        BY <2>2, <2>4, <2>6, <4>1
      <4> QED BY <2>5, <3>1, <4>2
    <3> QED BY <3>2, <3>3
  <2> QED BY <2>2, <2>4, <2>5, <2>6
<1>6. Nat \subseteq N
  <2> HIDE DEF N
  <2> QED BY <1>4, <1>5, SetInduction
<1>7. Good(n)
  BY <1>1, <1>6
<1>8. h[n] \in Board
  BY <1>1, <1>3
<1> QED BY <1>2, <1>7, <1>8 DEF n

\* The events a rebuild reads in the light of the whole history are the flames.
LEMMA ReplayedSame ==
  ASSUME NEW l, NEW m, NEW b, NEW e,
         e.kind = "fire" => (WasForced(l, e.by) <=> WasForced(m, e.by))
  PROVE  Replayed(l, b, e) = Replayed(m, b, e)
<1>1. CASE e.kind = "fire"
  <2>1. WasForced(l, e.by) <=> WasForced(m, e.by)
    BY <1>1
  <2> QED BY <1>1, <2>1 DEF Replayed
<1>2. CASE e.kind # "fire"
  BY <1>2 DEF Replayed
<1> QED BY <1>1, <1>2

LEMMA ReplayPrefix ==
  ASSUME NEW l \in Seq(Event), NEW m \in Seq(Event), Len(l) <= Len(m),
         \A k \in 1..Len(l) : m[k] = l[k],
         \A k \in 1..Len(l) :
           l[k].kind = "fire" => (WasForced(m, l[k].by) <=> WasForced(l, l[k].by)),
         NEW g, IsReplay(g, m)
  PROVE  g[Len(l)] = Replay(l)
<1> DEFINE n == Len(l)
<1>1. n \in Nat /\ Len(m) \in Nat /\ n <= Len(m)
  OBVIOUS
<1>2. PICK h : IsReplay(h, l) /\ h[n] = Replay(l)
  BY ReplayRuns
<1>3. h[0] = NoWeeks /\ \A k \in 1..n : h[k] = Replayed(l, h[k - 1], l[k])
  BY <1>2 DEF IsReplay
<1>4. g[0] = NoWeeks /\ \A k \in 1..n : g[k] = Replayed(m, g[k - 1], m[k])
  BY <1>1 DEF IsReplay
<1>5. ASSUME NEW k \in 1..n, g[k - 1] = h[k - 1] PROVE g[k] = h[k]
  <2>1. PICK e, b : e = l[k] /\ b = h[k - 1]
    OBVIOUS
  <2>2. e.kind = "fire" => (WasForced(m, e.by) <=> WasForced(l, e.by))
    BY <2>1
  <2>3. Replayed(m, b, e) = Replayed(l, b, e)
    BY <2>2, ReplayedSame
  <2>4. g[k] = Replayed(m, b, e)
    BY <1>4, <1>5, <2>1
  <2>5. h[k] = Replayed(l, b, e)
    BY <1>3, <2>1
  <2> QED BY <2>3, <2>4, <2>5
<1> HIDE DEF n
<1> DEFINE N == {k \in Nat : k <= n => g[k] = h[k]}
<1>6. 0 \in N
  BY <1>3, <1>4
<1>7. ASSUME NEW k \in Nat, k \in N PROVE k + 1 \in N
  <2> SUFFICES ASSUME k + 1 <= n PROVE g[k + 1] = h[k + 1]
    OBVIOUS
  <2>1. k + 1 \in 1..n /\ (k + 1) - 1 = k /\ k <= n
    BY <1>1
  <2>2. g[k] = h[k]
    BY <1>7, <2>1
  <2> QED BY <1>5, <2>1, <2>2
<1>8. Nat \subseteq N
  <2> HIDE DEF N
  <2> QED BY <1>6, <1>7, SetInduction
<1>9. g[n] = h[n]
  BY <1>1, <1>8
<1> QED BY <1>2, <1>9 DEF n

\* One more event that forces no flame of before
LEMMA ReplayAppend ==
  ASSUME NEW l \in Seq(Event), NEW e \in Event, NEW m, m = Append(l, e),
         \A k \in 1..Len(l) :
           l[k].kind = "fire" => (WasForced(m, l[k].by) <=> WasForced(l, l[k].by))
  PROVE  Replay(m) = Replayed(m, Replay(l), e)
<1>1. PICK n : n = Len(l)
  OBVIOUS
<1>2. /\ n \in Nat /\ m \in Seq(Event) /\ Len(m) = n + 1 /\ m[n + 1] = e
      /\ \A k \in 1..n : m[k] = l[k]
  BY <1>1
<1>3. PICK g : IsReplay(g, m) /\ g[n + 1] = Replay(m)
  BY <1>2, ReplayRuns
<1>4. g[n] = Replay(l)
  <2>1. Len(l) <= Len(m) /\ \A k \in 1..Len(l) : m[k] = l[k]
    BY <1>1, <1>2
  <2>2. g[Len(l)] = Replay(l)
    BY <1>2, <1>3, <2>1, ReplayPrefix
  <2> QED BY <1>1, <2>2
<1>5. g[n + 1] = Replayed(m, g[n], m[n + 1])
  <2>1. n + 1 \in 1..(n + 1) /\ (n + 1) - 1 = n
    BY <1>2
  <2> QED BY <1>2, <1>3, <2>1 DEF IsReplay
<1> QED BY <1>2, <1>3, <1>4, <1>5

LEMMA ForcedAppend ==
  ASSUME NEW l \in Seq(Event), NEW e \in Event, NEW m, m = Append(l, e), NEW c
  PROVE  WasForced(m, c) <=> WasForced(l, c) \/ (e.kind = "forced" /\ e.by = c)
<1>1. PICK n : n = Len(l)
  OBVIOUS
<1>2. /\ n \in Nat /\ DOMAIN l = 1..n /\ DOMAIN m = 1..(n + 1) /\ m[n + 1] = e
      /\ \A k \in 1..n : m[k] = l[k]
  BY <1>1
<1>3. n + 1 \in 1..(n + 1) /\ \A k \in 1..(n + 1) : k \in 1..n \/ k = n + 1
  BY <1>2
<1>4. \A k \in 1..n : k \in 1..(n + 1)
  BY <1>2
<1> QED BY <1>2, <1>3, <1>4 DEF WasForced

\* A flame that was smothered as it came
LEMMA ReplayForced ==
  ASSUME NEW l \in Seq(Event), NEW f \in Event, NEW x \in Event,
         f.kind = "fire", x.kind = "forced", x.by = f.by,
         \A k \in 1..Len(l) : l[k].kind = "fire" => l[k].by # f.by
  PROVE  Replay(Append(Append(l, f), x)) = Touched(Replay(l), f.week)
<1>1. PICK p, m, n : p = Append(l, f) /\ m = Append(p, x) /\ n = Len(l)
  OBVIOUS
<1>2. /\ n \in Nat /\ p \in Seq(Event) /\ m \in Seq(Event) /\ Len(m) = n + 2
      /\ m[n + 1] = f /\ m[n + 2] = x /\ \A k \in 1..n : m[k] = l[k]
  <2>1. /\ n \in Nat /\ p \in Seq(Event) /\ Len(p) = n + 1 /\ p[n + 1] = f
        /\ \A k \in 1..n : p[k] = l[k]
    BY <1>1
  <2>2. /\ m \in Seq(Event) /\ Len(m) = n + 2 /\ m[n + 2] = x
        /\ \A k \in 1..(n + 1) : m[k] = p[k]
    BY <1>1, <2>1
  <2>3. n + 1 \in 1..(n + 1) /\ \A k \in 1..n : k \in 1..(n + 1)
    BY <2>1
  <2> QED BY <2>1, <2>2, <2>3
<1>3. \A c : WasForced(m, c) <=> WasForced(l, c) \/ c = f.by
  <2> SUFFICES ASSUME NEW c PROVE WasForced(m, c) <=> WasForced(l, c) \/ c = f.by
    OBVIOUS
  <2>1. WasForced(p, c) <=> WasForced(l, c) \/ (f.kind = "forced" /\ f.by = c)
    BY <1>1, ForcedAppend
  <2>2. WasForced(m, c) <=> WasForced(p, c) \/ (x.kind = "forced" /\ x.by = c)
    <3>1. p \in Seq(Event) /\ m = Append(p, x)
      BY <1>1, <1>2
    <3> QED BY <3>1, ForcedAppend
  <2> QED BY <2>1, <2>2
<1>4. PICK g : IsReplay(g, m) /\ g[n + 2] = Replay(m)
  BY <1>2, ReplayRuns
<1>5. g[n] = Replay(l)
  <2>1. Len(l) <= Len(m) /\ \A k \in 1..Len(l) : m[k] = l[k]
    BY <1>1, <1>2
  <2>2. \A k \in 1..Len(l) :
          l[k].kind = "fire" => (WasForced(m, l[k].by) <=> WasForced(l, l[k].by))
    BY <1>3
  <2>3. g[Len(l)] = Replay(l)
    BY <1>2, <1>4, <2>1, <2>2, ReplayPrefix
  <2> QED BY <1>1, <2>3
<1>6. g[n + 1] = Replayed(m, g[n], f) /\ g[n + 2] = Replayed(m, g[n + 1], x)
  <2>1. /\ n + 1 \in 1..(n + 2) /\ (n + 1) - 1 = n
        /\ n + 2 \in 1..(n + 2) /\ (n + 2) - 1 = n + 1
    BY <1>2
  <2> QED BY <1>2, <1>4, <2>1 DEF IsReplay
<1>7. PICK b : b = Replay(l)
  OBVIOUS
<1>8. b \in Board
  BY <1>7, ReplayIsBoard
<1>9. g[n + 1] = Touched(b, f.week)
  <2>1. PICK d : d = Replayed(m, b, f)
    OBVIOUS
  <2>2. WasForced(m, f.by)
    BY <1>3
  <2>3. d = Touched(b, f.week)
    BY <1>8, <2>1, <2>2, ReplayedCases
  <2> QED BY <1>5, <1>6, <1>7, <2>1, <2>3
<1>10. g[n + 2] = g[n + 1]
  <2>1. PICK a, d : a = g[n + 1] /\ d = Replayed(m, a, x)
    OBVIOUS
  <2>2. f.week \in Weeks
    BY EventKinds
  <2>3. a \in Board
    BY <1>8, <1>9, <2>1, <2>2, TouchedIs
  <2>4. d = a
    BY <2>1, <2>3, ReplayedCases
  <2> QED BY <1>6, <2>1, <2>4
<1> QED BY <1>1, <1>4, <1>7, <1>9, <1>10

\* Only a burn burns
LEMMA WriteBurns ==
  ASSUME NEW t \in Board, NEW w \in Weeks, t[w] # NoRow,
         NEW x \in Row, x.id = t[w].id, NEW d, d = PutRow(t, w, x)
  PROVE  \A v \in Weeks : Burnt(d, v) => Burnt(t, v) \/ (v = w /\ x.burnt)
<1>1. d[w] = x /\ \A v \in Weeks : v # w => d[v] = t[v]
  BY SetRow
<1>2. \A v \in Weeks : v # w /\ Burnt(d, v) => Burnt(t, v)
  BY <1>1 DEF Burnt
<1>3. Burnt(d, w) => x.burnt
  BY <1>1, Zenon DEF Burnt
<1> QED BY <1>2, <1>3

LEMMA TouchedBurns ==
  ASSUME NEW b \in Board, NEW w \in Weeks, NEW t, t = Touched(b, w)
  PROVE  \A v \in Weeks : Burnt(t, v) <=> Burnt(b, v)
<1>1. /\ \A v \in Weeks : v # w => t[v] = b[v]
      /\ b[w] # NoRow => t = b
      /\ b[w] = NoRow => ~ t[w].burnt
  BY TouchedIs
<1>2. \A v \in Weeks : v # w => (Burnt(t, v) <=> Burnt(b, v))
  BY <1>1 DEF Burnt
<1>3. Burnt(t, w) <=> Burnt(b, w)
  <2>1. CASE b[w] # NoRow
    BY <1>1, <2>1
  <2>2. CASE b[w] = NoRow
    BY <1>1, <2>2 DEF Burnt
  <2> QED BY <2>1, <2>2
<1> QED BY <1>2, <1>3

LEMMA ReplayedBurns ==
  ASSUME NEW l, NEW b \in Board, NEW e \in Event, NEW d, d = Replayed(l, b, e)
  PROVE  \A v \in Weeks :
           Burnt(d, v) => Burnt(b, v) \/ (e.kind = "burned" /\ e.week = v)
<1>1. CASE e.kind \in {"fire", "burned", "doused"}
  <2>1. PICK w, t : w = e.week /\ t = Touched(b, w)
    OBVIOUS
  <2>2. w \in Weeks
    BY <1>1, <2>1, EventKinds
  <2>3. t \in Board /\ t[w] # NoRow
    BY <2>1, <2>2, TouchedIs
  <2>4. \A v \in Weeks : Burnt(t, v) => Burnt(b, v)
    BY <2>1, <2>2, TouchedBurns
  <2>5. ASSUME NEW x \in Row, x.id = t[w].id, d = PutRow(t, w, x),
               x.burnt => Burnt(t, w) \/ e.kind = "burned"
        PROVE  \A v \in Weeks :
                 Burnt(d, v) => Burnt(b, v) \/ (e.kind = "burned" /\ e.week = v)
    <3>1. \A v \in Weeks : Burnt(d, v) => Burnt(t, v) \/ (v = w /\ x.burnt)
      BY <2>2, <2>3, <2>5, WriteBurns
    <3> QED BY <2>1, <2>4, <2>5, <3>1
  <2>6. CASE e.kind = "fire"
    <3>1. d = t \/ d = Lit(t, w)
      <4>1. CASE t[w].burnt \/ WasForced(l, e.by)
        BY <2>1, <2>6, <4>1, ReplayedCases
      <4>2. CASE ~ t[w].burnt /\ ~ WasForced(l, e.by)
        BY <2>1, <2>6, <4>2, ReplayedCases
      <4> QED BY <4>1, <4>2
    <3>2. CASE d = t
      BY <2>4, <2>6, <3>2
    <3>3. CASE d = Lit(t, w)
      <4>1. PICK x \in Row : /\ Lit(t, w) = PutRow(t, w, x) /\ x.id = t[w].id
                             /\ (x.burnt <=> t[w].burnt)
        BY <2>2, <2>3, WrittenRows
      <4>2. x.burnt => Burnt(t, w)
        BY <2>3, <4>1 DEF Burnt
      <4> QED BY <2>5, <2>6, <3>3, <4>1, <4>2
    <3> QED BY <3>1, <3>2, <3>3
  <2>7. CASE e.kind = "burned"
    <3>1. d = Ash(t, w)
      BY <2>1, <2>7, ReplayedCases
    <3>2. PICK x \in Row : Ash(t, w) = PutRow(t, w, x) /\ x.id = t[w].id
      BY <2>2, <2>3, WrittenRows
    <3> QED BY <2>5, <2>7, <3>1, <3>2
  <2>8. CASE e.kind = "doused"
    <3>1. PICK n \in Nat : d = WithFlames(t, w, n)
      BY <2>1, <2>8, ReplayedCases
    <3>2. PICK x \in Row : /\ WithFlames(t, w, n) = PutRow(t, w, x)
                           /\ x.id = t[w].id /\ (x.burnt <=> t[w].burnt)
      BY <2>2, <2>3, WrittenRows
    <3>3. x.burnt => Burnt(t, w)
      BY <2>3, <3>2 DEF Burnt
    <3> QED BY <2>5, <2>8, <3>1, <3>2, <3>3
  <2> QED BY <1>1, <2>6, <2>7, <2>8
<1>2. CASE e.kind \notin {"fire", "burned", "doused"}
  <2>1. d = b
    BY <1>2, ReplayedCases
  <2> QED BY <1>2, <2>1
<1> QED BY <1>1, <1>2

LEMMA ReplayBurns ==
  ASSUME NEW l \in Seq(Event), NEW w \in Weeks, Burnt(Replay(l), w)
  PROVE  \E i \in DOMAIN l : l[i].kind = "burned" /\ l[i].week = w
<1> DEFINE n == Len(l)
<1>1. n \in Nat /\ DOMAIN l = 1..n /\ \A k \in 1..n : l[k] \in Event
  OBVIOUS
<1>2. PICK h : IsReplay(h, l) /\ h[n] = Replay(l)
  BY ReplayRuns
<1>3. /\ h \in [0..n -> Board] /\ h[0] = NoWeeks
      /\ \A k \in 1..n : h[k] = Replayed(l, h[k - 1], l[k])
  BY <1>2 DEF IsReplay
<1> HIDE DEF n
<1> DEFINE Said(k) == \E i \in 1..k : l[i].kind = "burned" /\ l[i].week = w
           N == {k \in Nat : k <= n /\ Burnt(h[k], w) => Said(k)}
<1>4. 0 \in N
  BY <1>3 DEF Burnt, NoWeeks
<1>5. ASSUME NEW k \in Nat, k \in N PROVE k + 1 \in N
  <2> SUFFICES ASSUME k + 1 <= n, Burnt(h[k + 1], w) PROVE Said(k + 1)
    OBVIOUS
  <2>1. /\ k + 1 \in 1..n /\ (k + 1) - 1 = k /\ k <= n /\ k \in 0..n
        /\ k + 1 \in 1..(k + 1) /\ \A i \in 1..k : i \in 1..(k + 1)
    BY <1>1
  <2>2. h[k + 1] = Replayed(l, h[k], l[k + 1]) /\ h[k] \in Board /\ l[k + 1] \in Event
    BY <1>1, <1>3, <2>1
  <2>3. Burnt(h[k], w) \/ (l[k + 1].kind = "burned" /\ l[k + 1].week = w)
    <3>1. PICK d : d = Replayed(l, h[k], l[k + 1])
      OBVIOUS
    <3> QED BY <2>2, <3>1, ReplayedBurns
  <2>4. Burnt(h[k], w) => Said(k)
    BY <1>5, <2>1
  <2> QED BY <2>1, <2>3, <2>4
<1>6. Nat \subseteq N
  <2> HIDE DEF N
  <2> QED BY <1>4, <1>5, SetInduction
<1>7. Burnt(h[n], w) => Said(n)
  BY <1>1, <1>6
<1> QED BY <1>1, <1>2, <1>7

-----------------------------------------------------------------------------
(* Sessions of a run *)

Ses(b, q, n, l, k) == [board |-> b, sql |-> q, water |-> n, log |-> l, corrected |-> k]

VoidOf(c) == [kind |-> "void", week |-> WeekOf[c], by |-> c]
ForcedOf(c) == [kind |-> "forced", week |-> WeekOf[c], by |-> c, units |-> 1]
BurnedOn(v) == [kind |-> "burned", week |-> v]

LEMMA FlushedIs ==
  ASSUME NEW b, NEW q, NEW n, NEW l, NEW k
  PROVE  Flushed(Ses(b, q, n, l, k)) = Ses(b, b, n, l, k)
BY DEF Flushed, Ses

\* Where the row of a week is missing, it is made and everything is flushed.
SqlAfter(b, q, w) == IF b[w] # NoRow THEN q ELSE Touched(b, w)

LEMMA WithWeekIs ==
  ASSUME NEW b, NEW q, NEW n, NEW l, NEW k, NEW w
  PROVE  WithWeek(Ses(b, q, n, l, k), w) = Ses(Touched(b, w), SqlAfter(b, q, w), n, l, k)
<1>1. PICK r : r = Ses(b, q, n, l, k)
  OBVIOUS
<1>2. r.board = b
  BY <1>1 DEF Ses
<1>3. CASE b[w] # NoRow
  <2>1. WithWeek(r, w) = r
    BY <1>2, <1>3 DEF WithWeek
  <2>2. Touched(b, w) = b /\ SqlAfter(b, q, w) = q
    BY <1>3 DEF Touched, SqlAfter
  <2> QED BY <1>1, <2>1, <2>2
<1>4. CASE b[w] = NoRow
  <2>1. PICK t : t = Touched(b, w)
    OBVIOUS
  <2>2. WithWeek(r, w) = Flushed([r EXCEPT !.board = Touched(@, w)])
    BY <1>2, <1>4 DEF WithWeek
  <2>3. [r EXCEPT !.board = Touched(@, w)] = [r EXCEPT !.board = t]
    BY <1>2, <2>1
  <2>4. [r EXCEPT !.board = t] = Ses(t, q, n, l, k)
    BY <1>1 DEF Ses
  <2>5. Flushed(Ses(t, q, n, l, k)) = Ses(t, t, n, l, k)
    BY FlushedIs
  <2>6. SqlAfter(b, q, w) = t
    BY <1>4, <2>1 DEF SqlAfter
  <2> QED BY <1>1, <2>1, <2>2, <2>3, <2>4, <2>5, <2>6
<1> QED BY <1>3, <1>4

LEMMA VoidIs ==
  ASSUME NEW b, NEW q, NEW n, NEW l, NEW k, NEW c
  PROVE  OnBurntWeek(Ses(b, q, n, l, k), c)
           = Ses(b, q, n, Append(l, VoidOf(c)), k)
<1>0. PICK r : r = Ses(b, q, n, l, k)
  OBVIOUS
<1>1. r.board = b /\ r.water = n /\ r.log = l
  BY <1>0 DEF Ses
<1>2. OnBurntWeek(r, c) = Ses(b, q, n, Append(l, VoidOf(c)), k)
  <2>1. PICK m : m = Append(l, VoidOf(c))
    OBVIOUS
  <2>2. OnBurntWeek(r, c) = [r EXCEPT !.log = Append(@, VoidOf(c))]
    BY Zenon DEF OnBurntWeek, VoidOf
  <2>3. [r EXCEPT !.log = Append(@, VoidOf(c))] = [r EXCEPT !.log = m]
    BY <1>1, <2>1
  <2>4. [r EXCEPT !.log = m] = Ses(b, q, n, m, k)
    BY <1>0 DEF Ses
  <2> QED BY <2>1, <2>2, <2>3, <2>4
<1> QED BY <1>0, <1>2, Zenon

LEMMA LandedIs ==
  ASSUME NEW b, NEW q, NEW n, NEW l, NEW k, NEW c
  PROVE  Landed(Ses(b, q, n, l, k), c)
           = Ses(Lit(b, WeekOf[c]), q, n, Append(l, Fire(c)), k)
<1>0. PICK r : r = Ses(b, q, n, l, k)
  OBVIOUS
<1>1. r.board = b /\ r.water = n /\ r.log = l
  BY <1>0 DEF Ses
<1>2. Landed(r, c) = Ses(Lit(b, WeekOf[c]), q, n, Append(l, Fire(c)), k)
  <2>1. PICK d, m, s : d = Lit(b, WeekOf[c]) /\ m = Append(l, Fire(c)) /\ s = [r EXCEPT !.board = d]
    OBVIOUS
  <2>2. Landed(r, c) = [s EXCEPT !.log = Append(r.log, Fire(c))]
    <3>1. Landed(r, c) = [[r EXCEPT !.board = Lit(r.board, WeekOf[c])]
                            EXCEPT !.log = Append(r.log, Fire(c))]
      BY DEF Landed
    <3>2. s = [r EXCEPT !.board = Lit(r.board, WeekOf[c])]
      BY <1>1, <2>1, Zenon
    <3> QED BY <3>1, <3>2, Zenon
  <2>3. s = Ses(d, q, n, l, k)
    BY <1>0, <2>1 DEF Ses
  <2>4. [s EXCEPT !.log = m] = Ses(d, q, n, m, k)
    BY <2>3 DEF Ses
  <2> QED BY <1>1, <2>1, <2>2, <2>4, Zenon
<1> QED BY <1>0, <1>2, Zenon

LEMMA AutoDousedIs ==
  ASSUME NEW b, NEW q, NEW n, NEW l, NEW k, NEW c
  PROVE  AutoDoused(Ses(b, q, n, l, k), c)
           = Ses(b, b, n - 1, l \o <<Fire(c), ForcedOf(c)>>, k)
<1>0. PICK r : r = Ses(b, q, n, l, k)
  OBVIOUS
<1>1. r.board = b /\ r.water = n /\ r.log = l
  BY <1>0 DEF Ses
<1>2. AutoDoused(r, c) = Ses(b, b, n - 1, l \o <<Fire(c), ForcedOf(c)>>, k)
  <2>1. PICK i, m, s : i = n - 1 /\ m = l \o <<Fire(c), ForcedOf(c)>> /\ s = [r EXCEPT !.water = i]
    OBVIOUS
  <2>2. AutoDoused(r, c) = Flushed([s EXCEPT !.log = m])
    <3>1. AutoDoused(r, c) = Flushed([[r EXCEPT !.water = r.water - 1]
                            EXCEPT !.log = r.log \o <<Fire(c), ForcedOf(c)>>])
      BY DEF AutoDoused, ForcedOf
    <3>2. s = [r EXCEPT !.water = r.water - 1]
      BY <1>1, <2>1, Zenon
    <3>3. r.log \o <<Fire(c), ForcedOf(c)>> = m
      BY <1>1, <2>1, Zenon
    <3> QED BY <3>1, <3>2, <3>3, Zenon
  <2>3. s = Ses(b, q, i, l, k)
    BY <1>0, <2>1 DEF Ses
  <2>4. [s EXCEPT !.log = m] = Ses(b, q, i, m, k)
    BY <2>3 DEF Ses
  <2>5. Flushed(Ses(b, q, i, m, k)) = Ses(b, b, i, m, k)
    BY FlushedIs
  <2> QED BY <2>1, <2>2, <2>4, <2>5, Zenon
<1> QED BY <1>0, <1>2, Zenon

LEMMA BurnedIs ==
  ASSUME NEW b, NEW q, NEW n, NEW l, NEW k, NEW c
  PROVE  \E d, v :
           /\ d = Lit(b, WeekOf[c]) /\ v = Worst(q)
           /\ d[v].burnt => Burned(Ses(b, q, n, l, k), c) = Landed(Ses(b, q, n, l, k), c)
           /\ ~ d[v].burnt =>
                Burned(Ses(b, q, n, l, k), c)
                  = Ses(Ash(d, v), Ash(d, v), n, Append(Append(l, Fire(c)), BurnedOn(v)), k)
<1>0. Landed(Ses(b, q, n, l, k), c) = Ses(Lit(b, WeekOf[c]), q, n, Append(l, Fire(c)), k)
  BY LandedIs
<1>1. PICK r, d, v, t, m :
        /\ r = Ses(b, q, n, l, k) /\ d = Lit(b, WeekOf[c]) /\ v = Worst(q)
        /\ t = Landed(r, c) /\ m = Append(l, Fire(c))
  OBVIOUS
<1>2. t = Ses(d, q, n, m, k)
  BY <1>0, <1>1, Zenon
<1>3. t.board = d /\ t.log = m /\ VictimOf(r) = v
  BY <1>1, <1>2 DEF Ses, VictimOf
<1>4. Burned(r, c) = IF t.board[v].burnt THEN t
                     ELSE Flushed([t EXCEPT !.board = Ash(@, v),
                                            !.log = Append(@, BurnedOn(v))])
  BY <1>1, <1>3, Zenon DEF Burned, BurnedOn
<1>5. PICK a, e, s : a = Ash(d, v) /\ e = Append(m, BurnedOn(v)) /\ s = [t EXCEPT !.board = a]
  OBVIOUS
<1>6. [t EXCEPT !.board = Ash(@, v), !.log = Append(@, BurnedOn(v))] = [s EXCEPT !.log = e]
  <2>1. [t EXCEPT !.board = Ash(@, v), !.log = Append(@, BurnedOn(v))]
          = [[t EXCEPT !.board = Ash(t.board, v)] EXCEPT !.log = Append(t.log, BurnedOn(v))]
    BY <1>2 DEF Ses
  <2>2. s = [t EXCEPT !.board = Ash(t.board, v)] /\ Append(t.log, BurnedOn(v)) = e
    BY <1>3, <1>5, Zenon
  <2> QED BY <2>1, <2>2, Zenon
<1>7. [s EXCEPT !.log = e] = Ses(a, q, n, e, k)
  <2>1. s = Ses(a, q, n, m, k)
    BY <1>2, <1>5 DEF Ses
  <2> QED BY <2>1 DEF Ses
<1>8. Flushed(Ses(a, q, n, e, k)) = Ses(a, a, n, e, k)
  BY FlushedIs
<1>9. d[v].burnt => Burned(r, c) = t
  BY <1>3, <1>4
<1>10. ~ d[v].burnt => Burned(r, c) = Ses(a, a, n, e, k)
  <2>1. ASSUME ~ d[v].burnt PROVE Burned(r, c) = Ses(a, a, n, e, k)
    <3>1. Burned(r, c) = Flushed([t EXCEPT !.board = Ash(@, v), !.log = Append(@, BurnedOn(v))])
      BY <1>3, <1>4, <2>1
    <3> QED BY <1>6, <1>7, <1>8, <3>1, Zenon
  <2> QED BY <2>1
<1> QED BY <1>1, <1>5, <1>9, <1>10, Zenon

\* The four ways a flame comes out, on the board t that has the row of its week
Void(s, c, t, q, n, l, k) ==
  t[WeekOf[c]].burnt /\ s = Ses(t, q, n, Append(l, VoidOf(c)), k)
Lands(s, c, t, q, n, l, k) ==
  ~ t[WeekOf[c]].burnt /\ s = Ses(Lit(t, WeekOf[c]), q, n, Append(l, Fire(c)), k)
Smothered(s, c, t, n, l, k) ==
  /\ ~ t[WeekOf[c]].burnt /\ n > 0
  /\ s = Ses(t, t, n - 1, l \o <<Fire(c), ForcedOf(c)>>, k)
Burns(s, c, t, q, n, l, k) ==
  /\ ~ t[WeekOf[c]].burnt
  /\ \E d, v : /\ d = Lit(t, WeekOf[c]) /\ v = Worst(q) /\ ~ d[v].burnt
               /\ s = Ses(Ash(d, v), Ash(d, v), n,
                          Append(Append(l, Fire(c)), BurnedOn(v)), k)

LEMMA AddFireCases ==
  ASSUME NEW b, NEW q0, NEW n, NEW l, NEW k, NEW c,
         NEW t, t = Touched(b, WeekOf[c]), NEW q, q = SqlAfter(b, q0, WeekOf[c]),
         NEW s, s = AddFire(Ses(b, q0, n, l, k), c)
  PROVE  \/ Void(s, c, t, q, n, l, k)
         \/ Lands(s, c, t, q, n, l, k)
         \/ Smothered(s, c, t, n, l, k)
         \/ Burns(s, c, t, q, n, l, k)
<1>1. PICK r : r = WithWeek(Ses(b, q0, n, l, k), WeekOf[c])
  OBVIOUS
<1>2. r = Ses(t, q, n, l, k)
  BY <1>1, WithWeekIs
<1>3. r.board = t /\ r.sql = q /\ r.water = n
  BY <1>2 DEF Ses
<1>4. s = IF r.board[WeekOf[c]].burnt THEN OnBurntWeek(r, c)
          ELSE IF TotalFlames(r.sql) + 1 <= r.water THEN Landed(r, c)
          ELSE IF r.water > 0 THEN AutoDoused(r, c)
          ELSE Burned(r, c)
  BY <1>1, Zenon DEF AddFire
<1>5. \/ t[WeekOf[c]].burnt /\ s = OnBurntWeek(r, c)
      \/ ~ t[WeekOf[c]].burnt /\ s = Landed(r, c)
      \/ ~ t[WeekOf[c]].burnt /\ n > 0 /\ s = AutoDoused(r, c)
      \/ ~ t[WeekOf[c]].burnt /\ s = Burned(r, c)
  BY <1>3, <1>4
<1>6. /\ OnBurntWeek(r, c) = Ses(t, q, n, Append(l, VoidOf(c)), k)
      /\ Landed(r, c) = Ses(Lit(t, WeekOf[c]), q, n, Append(l, Fire(c)), k)
      /\ AutoDoused(r, c) = Ses(t, t, n - 1, l \o <<Fire(c), ForcedOf(c)>>, k)
  <2>1. /\ OnBurntWeek(Ses(t, q, n, l, k), c) = Ses(t, q, n, Append(l, VoidOf(c)), k)
        /\ Landed(Ses(t, q, n, l, k), c)
             = Ses(Lit(t, WeekOf[c]), q, n, Append(l, Fire(c)), k)
        /\ AutoDoused(Ses(t, q, n, l, k), c)
             = Ses(t, t, n - 1, l \o <<Fire(c), ForcedOf(c)>>, k)
    BY VoidIs, LandedIs, AutoDousedIs
  <2> QED BY <1>2, <2>1, Zenon
<1>7. PICK d, v :
        /\ d = Lit(t, WeekOf[c]) /\ v = Worst(q)
        /\ d[v].burnt => Burned(Ses(t, q, n, l, k), c) = Landed(Ses(t, q, n, l, k), c)
        /\ ~ d[v].burnt =>
             Burned(Ses(t, q, n, l, k), c)
               = Ses(Ash(d, v), Ash(d, v), n, Append(Append(l, Fire(c)), BurnedOn(v)), k)
  BY BurnedIs
<1>8. /\ d[v].burnt => Burned(r, c) = Landed(r, c)
      /\ ~ d[v].burnt =>
           Burned(r, c) = Ses(Ash(d, v), Ash(d, v), n,
                              Append(Append(l, Fire(c)), BurnedOn(v)), k)
  BY <1>2, <1>7, Zenon
<1>9. CASE t[WeekOf[c]].burnt /\ s = OnBurntWeek(r, c)
  BY <1>6, <1>9, Zenon DEF Void
<1>10. CASE ~ t[WeekOf[c]].burnt /\ s = Landed(r, c)
  BY <1>6, <1>10, Zenon DEF Lands
<1>11. CASE ~ t[WeekOf[c]].burnt /\ n > 0 /\ s = AutoDoused(r, c)
  BY <1>6, <1>11, Zenon DEF Smothered
<1>12. CASE ~ t[WeekOf[c]].burnt /\ s = Burned(r, c)
  <2>1. CASE d[v].burnt
    BY <1>6, <1>8, <1>12, <2>1, Zenon DEF Lands
  <2>2. CASE ~ d[v].burnt
    BY <1>7, <1>8, <1>12, <2>2, Zenon DEF Burns
  <2> QED BY <2>1, <2>2
<1> QED BY <1>5, <1>9, <1>10, <1>11, <1>12

-----------------------------------------------------------------------------
(* Boards that show the same *)

AlikeRow(b, d, w) ==
  /\ b[w] # NoRow <=> d[w] # NoRow
  /\ b[w] # NoRow => b[w].flames = d[w].flames /\ (b[w].burnt <=> d[w].burnt)

AlikeBoards(b, d) == \A w \in Weeks : AlikeRow(b, d, w)

LEMMA ShownAlike ==
  ASSUME NEW b \in Board, NEW d \in Board, AlikeBoards(b, d)
  PROVE  Shown(b) = Shown(d)
<1>1. ASSUME NEW w \in Weeks
      PROVE  (IF b[w] = NoRow THEN NoRow ELSE <<b[w].flames, b[w].burnt>>)
               = (IF d[w] = NoRow THEN NoRow ELSE <<d[w].flames, d[w].burnt>>)
  <2>1. AlikeRow(b, d, w)
    BY DEF AlikeBoards
  <2>2. CASE b[w] = NoRow
    BY <2>1, <2>2 DEF AlikeRow
  <2>3. CASE b[w] # NoRow
    <3>1. d[w] # NoRow /\ b[w].flames = d[w].flames /\ (b[w].burnt <=> d[w].burnt)
      BY <2>1, <2>3 DEF AlikeRow
    <3>2. b[w].burnt \in BOOLEAN /\ d[w].burnt \in BOOLEAN
      BY <2>3, <3>1, RowFields
    <3>3. b[w].burnt = d[w].burnt
      BY <3>1, <3>2
    <3> QED BY <2>3, <3>1, <3>3
  <2> QED BY <2>2, <2>3
<1> QED BY <1>1 DEF Shown

LEMMA AlikeTouched ==
  ASSUME NEW b \in Board, NEW d \in Board, AlikeBoards(b, d), NEW w \in Weeks,
         NEW t, t = Touched(b, w), NEW u, u = Touched(d, w)
  PROVE  AlikeBoards(t, u)
<1>1. /\ t[w] # NoRow /\ (\A v \in Weeks : v # w => t[v] = b[v])
      /\ b[w] # NoRow => t = b
      /\ b[w] = NoRow => t[w].flames = 0 /\ ~ t[w].burnt
  BY TouchedIs
<1>2. /\ u[w] # NoRow /\ (\A v \in Weeks : v # w => u[v] = d[v])
      /\ d[w] # NoRow => u = d
      /\ d[w] = NoRow => u[w].flames = 0 /\ ~ u[w].burnt
  BY TouchedIs
<1>3. ASSUME NEW v \in Weeks, v # w PROVE AlikeRow(t, u, v)
  <2>1. AlikeRow(b, d, v) /\ t[v] = b[v] /\ u[v] = d[v]
    BY <1>1, <1>2, <1>3 DEF AlikeBoards
  <2> QED BY <2>1 DEF AlikeRow
<1>4. AlikeRow(t, u, w)
  <2>1. AlikeRow(b, d, w)
    BY DEF AlikeBoards
  <2>2. CASE b[w] # NoRow
    <3>1. t = b /\ u = d
      BY <1>1, <1>2, <2>1, <2>2 DEF AlikeRow
    <3> QED BY <2>1, <3>1
  <2>3. CASE b[w] = NoRow
    <3>1. d[w] = NoRow
      BY <2>1, <2>3 DEF AlikeRow
    <3> QED BY <1>1, <1>2, <2>3, <3>1 DEF AlikeRow
  <2> QED BY <2>2, <2>3
<1> QED BY <1>3, <1>4 DEF AlikeBoards

LEMMA AlikePut ==
  ASSUME NEW b \in Board, NEW d \in Board, AlikeBoards(b, d), NEW w \in Weeks,
         b[w] # NoRow, d[w] # NoRow,
         NEW x \in Row, x.id = b[w].id, NEW y \in Row, y.id = d[w].id,
         x.flames = y.flames, x.burnt <=> y.burnt,
         NEW p, p = PutRow(b, w, x), NEW q, q = PutRow(d, w, y)
  PROVE  AlikeBoards(p, q)
<1>1. p[w] = x /\ p[w] # NoRow /\ \A v \in Weeks : v # w => p[v] = b[v]
  BY SetRow
<1>2. q[w] = y /\ q[w] # NoRow /\ \A v \in Weeks : v # w => q[v] = d[v]
  BY SetRow
<1>3. ASSUME NEW v \in Weeks, v # w PROVE AlikeRow(p, q, v)
  <2>1. AlikeRow(b, d, v) /\ p[v] = b[v] /\ q[v] = d[v]
    BY <1>1, <1>2, <1>3 DEF AlikeBoards
  <2> QED BY <2>1 DEF AlikeRow
<1>4. AlikeRow(p, q, w)
  BY <1>1, <1>2 DEF AlikeRow
<1> QED BY <1>3, <1>4 DEF AlikeBoards

LEMMA AlikeWritten ==
  ASSUME NEW b \in Board, NEW d \in Board, AlikeBoards(b, d), NEW w \in Weeks,
         b[w] # NoRow, NEW n \in Nat
  PROVE  /\ AlikeBoards(Lit(b, w), Lit(d, w))
         /\ AlikeBoards(Ash(b, w), Ash(d, w))
         /\ AlikeBoards(WithFlames(b, w, n), WithFlames(d, w, n))
<1>1. AlikeRow(b, d, w)
  BY DEF AlikeBoards
<1>2. d[w] # NoRow /\ b[w].flames = d[w].flames /\ (b[w].burnt <=> d[w].burnt)
  BY <1>1 DEF AlikeRow
<1>3. b[w].flames \in Nat
  BY RowFields
<1>4. AlikeBoards(Lit(b, w), Lit(d, w))
  <2>1. PICK x \in Row : /\ Lit(b, w) = PutRow(b, w, x) /\ x.id = b[w].id
                         /\ x.flames = b[w].flames + 1 /\ (x.burnt <=> b[w].burnt)
    BY WrittenRows
  <2>2. PICK y \in Row : /\ Lit(d, w) = PutRow(d, w, y) /\ y.id = d[w].id
                         /\ y.flames = d[w].flames + 1 /\ (y.burnt <=> d[w].burnt)
    BY <1>2, WrittenRows
  <2>3. x.flames = y.flames /\ (x.burnt <=> y.burnt)
    BY <1>2, <2>1, <2>2
  <2> QED BY <1>2, <2>1, <2>2, <2>3, AlikePut
<1>5. AlikeBoards(Ash(b, w), Ash(d, w))
  <2>1. PICK x \in Row : /\ Ash(b, w) = PutRow(b, w, x) /\ x.id = b[w].id
                         /\ x.flames = 0 /\ x.burnt
    BY WrittenRows
  <2>2. PICK y \in Row : /\ Ash(d, w) = PutRow(d, w, y) /\ y.id = d[w].id
                         /\ y.flames = 0 /\ y.burnt
    BY <1>2, WrittenRows
  <2>3. x.flames = y.flames /\ (x.burnt <=> y.burnt)
    BY <2>1, <2>2
  <2> QED BY <1>2, <2>1, <2>2, <2>3, AlikePut
<1>6. AlikeBoards(WithFlames(b, w, n), WithFlames(d, w, n))
  <2>1. PICK x \in Row : /\ WithFlames(b, w, n) = PutRow(b, w, x) /\ x.id = b[w].id
                         /\ x.flames = n /\ (x.burnt <=> b[w].burnt)
    BY WrittenRows
  <2>2. PICK y \in Row : /\ WithFlames(d, w, n) = PutRow(d, w, y) /\ y.id = d[w].id
                         /\ y.flames = n /\ (y.burnt <=> d[w].burnt)
    BY <1>2, WrittenRows
  <2>3. x.flames = y.flames /\ (x.burnt <=> y.burnt)
    BY <1>2, <2>1, <2>2
  <2> QED BY <1>2, <2>1, <2>2, <2>3, AlikePut
<1> QED BY <1>4, <1>5, <1>6

-----------------------------------------------------------------------------
(* The week that burns *)

Before(b, w, v) ==
  b[w].flames > b[v].flames \/ (b[w].flames = b[v].flames /\ w <= v)

\* ORDER BY finds a row when there is one.
LEMMA WorstIsAlight ==
  ASSUME NEW b \in Board, NEW w \in Alight(b)
  PROVE  Worst(b) \in Alight(b)
<1> DEFINE S == Alight(b)
           First(T) == \E x \in T : \A v \in T : Before(b, x, v)
           Q == {T \in SUBSET S : T = {} \/ First(T)}
<1>1. S \subseteq Weeks /\ S \subseteq Nat /\ IsFiniteSet(S)
  <2>1. S \subseteq Weeks
    BY DEF Alight, Kept
  <2> QED BY <2>1, WeekFireConstants, FS_Subset
<1>2. \A x \in S : x \in Nat /\ b[x].flames \in Nat
  BY <1>1, RowFields DEF Alight, Kept
<1> HIDE DEF S
<1>3. {} \in Q
  OBVIOUS
<1>4. ASSUME NEW T \in SUBSET S, T \in Q, NEW x \in S \ T PROVE T \cup {x} \in Q
  <2>1. Before(b, x, x)
    BY <1>2 DEF Before
  <2>2. CASE T = {}
    BY <2>1, <2>2
  <2>3. CASE T # {}
    <3>1. PICK y \in T : \A v \in T : Before(b, y, v)
      BY <1>4, <2>3
    <3>2. CASE Before(b, y, x)
      BY <3>1, <3>2
    <3>3. CASE ~ Before(b, y, x)
      <4>1. \A v \in T : Before(b, x, v)
        <5> TAKE v \in T
        <5>1. Before(b, y, v)
          BY <3>1
        <5>2. /\ x \in Nat /\ y \in Nat /\ v \in Nat
              /\ b[x].flames \in Nat /\ b[y].flames \in Nat /\ b[v].flames \in Nat
          BY <1>2
        <5> QED BY <3>3, <5>1, <5>2 DEF Before
      <4> QED BY <2>1, <4>1
    <3> QED BY <3>2, <3>3
  <2> QED BY <2>2, <2>3
<1>5. S \in Q
  <2> HIDE DEF Q
  <2> QED BY <1>1, <1>3, <1>4, FiniteInduction
<1>6. S # {}
  BY DEF S
<1>7. PICK x \in S : \A v \in S : Before(b, x, v)
  BY <1>5, <1>6
<1> QED BY <1>7 DEF Worst, Before, S

\* The rows that SQL sees are those of the session; their flames may lag.
SameRows(b, d) ==
  \A w \in Weeks : /\ b[w] # NoRow <=> d[w] # NoRow
                   /\ Burnt(b, w) <=> Burnt(d, w)

LEMMA SameRowsTouched ==
  ASSUME NEW b \in Board, NEW q \in Board, SameRows(b, q), NEW w \in Weeks,
         NEW t, t = Touched(b, w), NEW p, p = SqlAfter(b, q, w)
  PROVE  p \in Board /\ SameRows(t, p)
<1>1. CASE b[w] # NoRow
  BY <1>1 DEF Touched, SqlAfter
<1>2. CASE b[w] = NoRow
  <2>1. p = t
    BY <1>2 DEF SqlAfter
  <2>2. t \in Board
    BY TouchedIs
  <2> QED BY <2>1, <2>2 DEF SameRows
<1> QED BY <1>1, <1>2

LEMMA SameRowsPut ==
  ASSUME NEW b \in Board, NEW q, SameRows(b, q), NEW w \in Weeks, b[w] # NoRow,
         NEW x \in Row, x.id = b[w].id, x.burnt <=> b[w].burnt,
         NEW d, d = PutRow(b, w, x)
  PROVE  SameRows(d, q)
<1>1. d[w] = x /\ d[w] # NoRow /\ \A v \in Weeks : v # w => d[v] = b[v]
  BY SetRow
<1>2. Burnt(d, w) <=> Burnt(b, w)
  BY <1>1 DEF Burnt
<1>3. \A v \in Weeks : v # w => (Burnt(d, v) <=> Burnt(b, v))
  BY <1>1 DEF Burnt
<1> QED BY <1>1, <1>2, <1>3 DEF SameRows

-----------------------------------------------------------------------------
(* Board, droplets and history together *)

\* Every burnt week has its burn in the history, every forced douse its
\* correction among the recorded ones.
Books(b, n, l, k) ==
  /\ b \in Board /\ UniqueIds(b) /\ n \in 0..Capacity /\ l \in Seq(Event)
  /\ k \in SUBSET Corrections
  /\ \A c : WasForced(l, c) => c \in k
  /\ \A w \in Weeks :
       Burnt(b, w) => \E i \in DOMAIN l : l[i].kind = "burned" /\ l[i].week = w

\* What the history says is what the board and the droplets are.
Match(b, n, l) == Refill(l) = n /\ AlikeBoards(Replay(l), b)

LEMMA NextEvent ==
  ASSUME NEW l \in Seq(Event), NEW e \in Event, e.kind # "forced",
         NEW m, m = Append(l, e)
  PROVE  /\ m \in Seq(Event)
         /\ \A c : WasForced(m, c) <=> WasForced(l, c)
         /\ Replay(m) = Replayed(m, Replay(l), e)
         /\ Refill(m) = Refilled(Refill(l), e)
<1>1. m \in Seq(Event)
  OBVIOUS
<1>2. \A c : WasForced(m, c) <=> WasForced(l, c)
  <2> SUFFICES ASSUME NEW c PROVE WasForced(m, c) <=> WasForced(l, c)
    OBVIOUS
  <2>1. WasForced(m, c) <=> WasForced(l, c) \/ (e.kind = "forced" /\ e.by = c)
    BY ForcedAppend
  <2> QED BY <2>1
<1>3. Replay(m) = Replayed(m, Replay(l), e)
  <2>1. \A k \in 1..Len(l) :
          l[k].kind = "fire" => (WasForced(m, l[k].by) <=> WasForced(l, l[k].by))
    BY <1>2
  <2> QED BY <2>1, ReplayAppend
<1>4. Refill(m) = Refilled(Refill(l), e)
  BY RefillAppend
<1> QED BY <1>1, <1>2, <1>3, <1>4

LEMMA BooksAppend ==
  ASSUME NEW b, NEW n, NEW l, NEW k, Books(b, n, l, k),
         NEW e \in Event, e.kind = "forced" => e.by \in k,
         NEW d \in Board, UniqueIds(d), NEW i \in 0..Capacity,
         \A w \in Weeks :
           Burnt(d, w) => Burnt(b, w) \/ (e.kind = "burned" /\ e.week = w),
         NEW m, m = Append(l, e)
  PROVE  Books(d, i, m, k)
<1>1. l \in Seq(Event) /\ k \in SUBSET Corrections
  BY DEF Books
<1>2. PICK j : j = Len(l)
  OBVIOUS
<1>3. /\ m \in Seq(Event) /\ DOMAIN l = 1..j /\ DOMAIN m = 1..(j + 1) /\ m[j + 1] = e
      /\ (\A x \in 1..j : m[x] = l[x]) /\ j + 1 \in 1..(j + 1)
      /\ \A x \in 1..j : x \in 1..(j + 1)
  BY <1>1, <1>2
<1>4. ASSUME NEW c, WasForced(m, c) PROVE c \in k
  <2>1. WasForced(m, c) <=> WasForced(l, c) \/ (e.kind = "forced" /\ e.by = c)
    BY <1>1, ForcedAppend
  <2> QED BY <1>4, <2>1 DEF Books
<1>5. ASSUME NEW w \in Weeks, Burnt(d, w)
      PROVE  \E x \in DOMAIN m : m[x].kind = "burned" /\ m[x].week = w
  <2>1. CASE Burnt(b, w)
    <3>1. PICK x \in DOMAIN l : l[x].kind = "burned" /\ l[x].week = w
      BY <2>1 DEF Books
    <3> QED BY <1>3, <3>1
  <2>2. CASE ~ Burnt(b, w)
    <3>1. e.kind = "burned" /\ e.week = w
      BY <1>5, <2>2
    <3> QED BY <1>3, <3>1
  <2> QED BY <2>1, <2>2
<1> QED BY <1>1, <1>3, <1>4, <1>5 DEF Books

LEMMA EventsOf ==
  ASSUME NEW c \in Corrections
  PROVE  /\ WeekOf[c] \in Weeks
         /\ VoidOf(c) \in Event /\ VoidOf(c).kind = "void"
         /\ Fire(c) \in Event /\ Fire(c).kind = "fire"
         /\ Fire(c).week = WeekOf[c] /\ Fire(c).by = c
         /\ ForcedOf(c) \in Event /\ ForcedOf(c).kind = "forced"
         /\ ForcedOf(c).by = c /\ ForcedOf(c).units = 1
<1>1. WeekOf[c] \in Weeks
  BY WeekFireConstants
<1> QED BY <1>1 DEF VoidOf, Fire, ForcedOf, Event

\* A session with the row of the week of a correction that is not charged yet
Ready(t, q, n, l, k, c) ==
  /\ Books(t, n, l, k) /\ q \in Board /\ SameRows(t, q)
  /\ c \in Corrections /\ c \in k /\ t[WeekOf[c]] # NoRow
  /\ ~ WasForced(l, c)
  /\ \A i \in 1..Len(l) : l[i].kind = "fire" => l[i].by # c

Caught(t, n, l, c) ==
  Refill(l) = n /\ AlikeBoards(Touched(Replay(l), WeekOf[c]), t)

\* What a flame may leave behind
Sound(t, s, b, q, n, l, k) ==
  /\ s = Ses(b, q, n, l, k)
  /\ Books(b, n, l, k) /\ q \in Board /\ SameRows(b, q)
  /\ \A w \in Weeks : Burnt(t, w) => Burnt(b, w)

LEMMA VoidSound ==
  ASSUME NEW t, NEW q, NEW n, NEW l, NEW k, NEW c, Ready(t, q, n, l, k, c),
         NEW s, Void(s, c, t, q, n, l, k)
  PROVE  \E m : Sound(t, s, t, q, n, m, k) /\ (Caught(t, n, l, c) => Match(t, n, m))
<1>1. PICK w, e, m : w = WeekOf[c] /\ e = VoidOf(c) /\ m = Append(l, e)
  OBVIOUS
<1>2. /\ c \in Corrections /\ Books(t, n, l, k) /\ t \in Board /\ UniqueIds(t)
      /\ n \in 0..Capacity /\ l \in Seq(Event) /\ t[w] # NoRow
  BY <1>1 DEF Ready, Books
<1>3. e \in Event /\ e.kind = "void" /\ w \in Weeks
  BY <1>1, <1>2, EventsOf
<1>4. t[w].burnt /\ s = Ses(t, q, n, m, k)
  BY <1>1 DEF Void
<1>5. Books(t, n, m, k)
  <2>1. e.kind # "forced" /\ e.kind # "burned"
    BY <1>3
  <2> QED BY <1>1, <1>2, <1>3, <2>1, BooksAppend
<1>6. Sound(t, s, t, q, n, m, k)
  BY <1>4, <1>5 DEF Sound, Ready
<1>7. ASSUME Caught(t, n, l, c) PROVE Match(t, n, m)
  <2>1. PICK r, u : r = Replay(l) /\ u = Touched(r, w)
    OBVIOUS
  <2>2. r \in Board /\ AlikeBoards(u, t) /\ Refill(l) = n
    BY <1>1, <1>2, <1>7, <2>1, ReplayIsBoard DEF Caught
  <2>3. u[w].burnt
    <3>1. AlikeRow(u, t, w)
      BY <1>3, <2>2 DEF AlikeBoards
    <3> QED BY <1>2, <1>4, <3>1 DEF AlikeRow
  <2>4. u = r
    BY <1>3, <2>1, <2>2, <2>3, TouchedIs
  <2>5. Replay(m) = Replayed(m, r, e) /\ Refill(m) = Refilled(n, e)
    <3>1. e.kind # "forced"
      BY <1>3
    <3> QED BY <1>1, <1>2, <1>3, <2>1, <2>2, <3>1, NextEvent
  <2>6. Replay(m) = r
    <3>1. PICK d : d = Replayed(m, r, e)
      OBVIOUS
    <3>2. e.kind \notin {"fire", "burned", "doused"}
      BY <1>3
    <3>3. d = r
      BY <1>3, <2>2, <3>1, <3>2, ReplayedCases
    <3> QED BY <2>5, <3>1, <3>3
  <2>7. Refill(m) = n
    BY <1>3, <2>5 DEF Refilled
  <2> QED BY <2>2, <2>4, <2>6, <2>7 DEF Match
<1> QED BY <1>6, <1>7

LEMMA LandsSound ==
  ASSUME NEW t, NEW q, NEW n, NEW l, NEW k, NEW c, Ready(t, q, n, l, k, c),
         NEW s, Lands(s, c, t, q, n, l, k)
  PROVE  \E m, d : /\ d = Lit(t, WeekOf[c]) /\ m = Append(l, Fire(c))
                   /\ Sound(t, s, d, q, n, m, k)
                   /\ Caught(t, n, l, c) => Match(d, n, m)
                   /\ \A v \in Weeks : t[v] # NoRow => d[v] # NoRow
<1>1. PICK w, e, m, d :
        w = WeekOf[c] /\ e = Fire(c) /\ m = Append(l, e) /\ d = Lit(t, w)
  OBVIOUS
<1>2. /\ c \in Corrections /\ Books(t, n, l, k) /\ t \in Board /\ UniqueIds(t)
      /\ n \in 0..Capacity /\ l \in Seq(Event) /\ t[w] # NoRow /\ SameRows(t, q)
      /\ q \in Board /\ ~ WasForced(l, c)
  BY <1>1 DEF Ready, Books
<1>3. e \in Event /\ e.kind = "fire" /\ w \in Weeks /\ e.week = w /\ e.by = c
  BY <1>1, <1>2, EventsOf
<1>4. ~ t[w].burnt /\ s = Ses(d, q, n, m, k)
  BY <1>1 DEF Lands
<1>5. PICK x \in Row : /\ Lit(t, w) = PutRow(t, w, x) /\ x.id = t[w].id
                       /\ (x.burnt <=> t[w].burnt)
  BY <1>2, <1>3, WrittenRows
<1>6. d = PutRow(t, w, x)
  BY <1>1, <1>5, Zenon
<1>7. /\ d \in Board /\ UniqueIds(d) /\ Kept(d) = Kept(t)
      /\ \A v \in Weeks : Burnt(t, v) => Burnt(d, v)
      /\ \A v \in Weeks : Burnt(d, v) => Burnt(t, v)
  <2>1. d \in Board /\ UniqueIds(d) /\ Kept(d) = Kept(t)
    BY <1>2, <1>3, <1>5, <1>6, SetRow
  <2>2. \A v \in Weeks : Burnt(t, v) => Burnt(d, v)
    BY <1>2, <1>3, <1>5, <1>6, WriteKeepsBurnt
  <2>3. \A v \in Weeks : Burnt(d, v) => Burnt(t, v)
    <3>1. \A v \in Weeks : Burnt(d, v) => Burnt(t, v) \/ (v = w /\ x.burnt)
      BY <1>2, <1>3, <1>5, <1>6, WriteBurns
    <3> QED BY <1>4, <1>5, <3>1
  <2> QED BY <2>1, <2>2, <2>3
<1>8. SameRows(d, q)
  BY <1>2, <1>3, <1>5, <1>6, SameRowsPut
<1>9. Books(d, n, m, k)
  <2>1. e.kind # "forced" /\ e.kind # "burned"
    BY <1>3
  <2> QED BY <1>1, <1>2, <1>3, <1>7, <2>1, BooksAppend
<1>10. Sound(t, s, d, q, n, m, k)
  BY <1>2, <1>4, <1>7, <1>8, <1>9 DEF Sound
<1>11. ASSUME Caught(t, n, l, c) PROVE Match(d, n, m)
  <2>1. PICK r, u : r = Replay(l) /\ u = Touched(r, w)
    OBVIOUS
  <2>2. r \in Board /\ AlikeBoards(u, t) /\ Refill(l) = n
    BY <1>1, <1>2, <1>11, <2>1, ReplayIsBoard DEF Caught
  <2>3. u \in Board /\ u[w] # NoRow
    BY <1>3, <2>1, <2>2, TouchedIs
  <2>4. ~ u[w].burnt
    <3>1. AlikeRow(u, t, w)
      BY <1>3, <2>2 DEF AlikeBoards
    <3> QED BY <1>4, <2>3, <3>1 DEF AlikeRow
  <2>5. /\ Replay(m) = Replayed(m, r, e) /\ Refill(m) = Refilled(n, e)
        /\ ~ WasForced(m, e.by)
    <3>1. e.kind # "forced"
      BY <1>3
    <3>2. /\ Replay(m) = Replayed(m, r, e) /\ Refill(m) = Refilled(n, e)
          /\ WasForced(m, c) <=> WasForced(l, c)
      BY <1>1, <1>2, <1>3, <2>1, <2>2, <3>1, NextEvent
    <3> QED BY <1>2, <1>3, <3>2
  <2>6. Replay(m) = Lit(u, w)
    <3>1. PICK y : y = Replayed(m, r, e)
      OBVIOUS
    <3>2. ~ Touched(r, e.week)[e.week].burnt
      BY <1>3, <2>1, <2>4
    <3>3. y = Lit(Touched(r, e.week), e.week)
      BY <1>3, <2>2, <2>5, <3>1, <3>2, ReplayedCases
    <3> QED BY <1>3, <2>1, <2>5, <3>1, <3>3
  <2>7. AlikeBoards(Lit(u, w), Lit(t, w))
    BY <1>2, <1>3, <2>2, <2>3, AlikeWritten
  <2>8. Refill(m) = n
    BY <1>3, <2>5 DEF Refilled
  <2> QED BY <1>1, <2>6, <2>7, <2>8 DEF Match
<1>12. \A v \in Weeks : t[v] # NoRow => d[v] # NoRow
  BY <1>7 DEF Kept
<1> QED BY <1>1, <1>10, <1>11, <1>12

LEMMA SmotheredSound ==
  ASSUME NEW t, NEW q, NEW n, NEW l, NEW k, NEW c, Ready(t, q, n, l, k, c),
         NEW s, Smothered(s, c, t, n, l, k)
  PROVE  \E m : Sound(t, s, t, t, n - 1, m, k) /\ (Caught(t, n, l, c) => Match(t, n - 1, m))
<1>1. PICK w, e, f, p, m, i :
        /\ w = WeekOf[c] /\ e = Fire(c) /\ f = ForcedOf(c)
        /\ p = Append(l, e) /\ m = Append(p, f) /\ i = n - 1
  OBVIOUS
<1>2. /\ c \in Corrections /\ Books(t, n, l, k) /\ t \in Board /\ UniqueIds(t)
      /\ n \in 0..Capacity /\ l \in Seq(Event) /\ c \in k
      /\ \A j \in 1..Len(l) : l[j].kind = "fire" => l[j].by # c
  BY <1>1 DEF Ready, Books
<1>3. /\ e \in Event /\ e.kind = "fire" /\ w \in Weeks /\ e.week = w /\ e.by = c
      /\ f \in Event /\ f.kind = "forced" /\ f.by = c /\ f.units = 1
  BY <1>1, <1>2, EventsOf
<1>4. n > 0 /\ s = Ses(t, t, n - 1, l \o <<e, f>>, k)
  BY <1>1 DEF Smothered
<1>5. l \o <<e, f>> = m /\ p \in Seq(Event)
  BY <1>1, <1>2, <1>3
<1>6. i \in 0..Capacity
  BY <1>1, <1>2, <1>4, WeekFireConstants
<1>7. Books(t, n, p, k)
  <2>1. e.kind # "forced" /\ e.kind # "burned"
    BY <1>3
  <2> QED BY <1>1, <1>2, <1>3, <2>1, BooksAppend
<1>8. Books(t, i, m, k)
  <2>1. f.by \in k /\ f.kind # "burned"
    BY <1>2, <1>3
  <2> QED BY <1>1, <1>2, <1>3, <1>6, <1>7, <2>1, BooksAppend
<1>9. Sound(t, s, t, t, i, m, k)
  <2>1. s = Ses(t, t, i, m, k)
    BY <1>1, <1>4, <1>5, Zenon
  <2>2. SameRows(t, t)
    BY DEF SameRows
  <2> QED BY <1>2, <1>8, <2>1, <2>2 DEF Sound
<1>10. ASSUME Caught(t, n, l, c) PROVE Match(t, i, m)
  <2>1. Replay(Append(Append(l, e), f)) = Touched(Replay(l), e.week)
    <3>1. \A j \in 1..Len(l) : l[j].kind = "fire" => l[j].by # e.by
      BY <1>2, <1>3
    <3>2. f.by = e.by
      BY <1>3
    <3> QED BY <1>2, <1>3, <3>1, <3>2, ReplayForced
  <2>2. Replay(m) = Touched(Replay(l), w)
    BY <1>1, <1>3, <2>1, Zenon
  <2>3. Refill(l) = n /\ AlikeBoards(Replay(m), t)
    BY <1>1, <1>10, <2>2 DEF Caught
  <2>4. Refill(p) = n
    <3>1. Refill(p) = Refilled(n, e)
      BY <1>1, <1>2, <1>3, <2>3, RefillAppend
    <3> QED BY <1>3, <3>1 DEF Refilled
  <2>5. Refill(m) = i
    <3>1. Refill(m) = Refilled(n, f)
      BY <1>1, <1>3, <1>5, <2>4, RefillAppend
    <3>2. Refilled(n, f) = Monus(n, 1)
      BY <1>3 DEF Refilled
    <3>3. Monus(n, 1) = n - 1
      BY <1>2, <1>4 DEF Monus
    <3> QED BY <1>1, <3>1, <3>2, <3>3
  <2> QED BY <2>3, <2>5 DEF Match
<1> QED BY <1>1, <1>9, <1>10, Zenon

LEMMA BurnFollows ==
  ASSUME NEW d, NEW n, NEW l, NEW k, Books(d, n, l, k), NEW v \in Weeks, d[v] # NoRow,
         NEW a, a = Ash(d, v), NEW m, m = Append(l, BurnedOn(v))
  PROVE  /\ Books(a, n, m, k)
         /\ \A w \in Weeks : Burnt(d, w) => Burnt(a, w)
         /\ Match(d, n, l) => Match(a, n, m)
<1>1. d \in Board /\ UniqueIds(d) /\ n \in 0..Capacity /\ l \in Seq(Event)
  BY DEF Books
<1>2. PICK e : e = BurnedOn(v)
  OBVIOUS
<1>3. e \in Event /\ e.kind = "burned" /\ e.week = v
  BY <1>2 DEF BurnedOn, Event
<1>4. PICK x \in Row : /\ Ash(d, v) = PutRow(d, v, x) /\ x.id = d[v].id
                       /\ x.flames = 0 /\ x.burnt
  BY <1>1, WrittenRows
<1>5. a = PutRow(d, v, x)
  BY <1>4, Zenon
<1>6. /\ a \in Board /\ UniqueIds(a)
      /\ \A w \in Weeks : Burnt(d, w) => Burnt(a, w)
      /\ \A w \in Weeks : Burnt(a, w) => Burnt(d, w) \/ (e.kind = "burned" /\ e.week = w)
  <2>1. a \in Board /\ UniqueIds(a)
    BY <1>1, <1>4, <1>5, SetRow
  <2>2. \A w \in Weeks : Burnt(d, w) => Burnt(a, w)
    BY <1>1, <1>4, <1>5, WriteKeepsBurnt
  <2>3. \A w \in Weeks : Burnt(a, w) => Burnt(d, w) \/ (w = v /\ x.burnt)
    BY <1>1, <1>4, <1>5, WriteBurns
  <2> QED BY <1>3, <2>1, <2>2, <2>3
<1>7. m = Append(l, e) /\ e.kind # "forced"
  BY <1>2, <1>3
<1>8. Books(a, n, m, k)
  BY <1>1, <1>3, <1>6, <1>7, BooksAppend
<1>9. ASSUME Match(d, n, l) PROVE Match(a, n, m)
  <2>1. PICK r : r = Replay(l)
    OBVIOUS
  <2>2. r \in Board /\ AlikeBoards(r, d) /\ Refill(l) = n
    BY <1>1, <1>9, <2>1, ReplayIsBoard DEF Match
  <2>3. r[v] # NoRow
    <3>1. AlikeRow(r, d, v)
      BY <2>2 DEF AlikeBoards
    <3> QED BY <3>1 DEF AlikeRow
  <2>4. Replay(m) = Replayed(m, r, e) /\ Refill(m) = Refilled(n, e)
    BY <1>1, <1>3, <1>7, <2>1, <2>2, NextEvent
  <2>5. Replay(m) = Ash(r, v)
    <3>1. PICK y : y = Replayed(m, r, e)
      OBVIOUS
    <3>2. y = Ash(Touched(r, e.week), e.week)
      BY <1>3, <2>2, <3>1, ReplayedCases
    <3>3. Touched(r, v) = r
      BY <2>3 DEF Touched
    <3> QED BY <1>3, <2>4, <3>1, <3>2, <3>3
  <2>6. AlikeBoards(Ash(r, v), Ash(d, v))
    <3>1. 0 \in Nat
      OBVIOUS
    <3> QED BY <1>1, <2>2, <2>3, <3>1, AlikeWritten
  <2>7. Refill(m) = n
    BY <1>3, <2>4 DEF Refilled
  <2> QED BY <2>5, <2>6, <2>7 DEF Match
<1> QED BY <1>6, <1>8, <1>9

LEMMA BurnsSound ==
  ASSUME NEW t, NEW q, NEW n, NEW l, NEW k, NEW c, Ready(t, q, n, l, k, c),
         NEW s, Burns(s, c, t, q, n, l, k)
  PROVE  \E a, m : Sound(t, s, a, a, n, m, k) /\ (Caught(t, n, l, c) => Match(a, n, m))
<1>1. ~ t[WeekOf[c]].burnt
  BY DEF Burns
<1>2. PICK d, v : /\ d = Lit(t, WeekOf[c]) /\ v = Worst(q)
                  /\ s = Ses(Ash(d, v), Ash(d, v), n,
                             Append(Append(l, Fire(c)), BurnedOn(v)), k)
  BY Zenon DEF Burns
<1>3. PICK p : p = Append(l, Fire(c))
  OBVIOUS
<1>4. PICK r : r = Ses(d, q, n, p, k)
  OBVIOUS
<1>5. Lands(r, c, t, q, n, l, k)
  BY <1>1, <1>2, <1>3, <1>4, Zenon DEF Lands
<1>6. PICK p2, d2 : /\ d2 = Lit(t, WeekOf[c]) /\ p2 = Append(l, Fire(c))
                    /\ Sound(t, r, d2, q, n, p2, k)
                    /\ Caught(t, n, l, c) => Match(d2, n, p2)
                    /\ \A w \in Weeks : t[w] # NoRow => d2[w] # NoRow
  BY <1>5, LandsSound
<1>7. p2 = p /\ d2 = d
  BY <1>2, <1>3, <1>6, Zenon
<1>8. /\ Books(d, n, p, k) /\ (Caught(t, n, l, c) => Match(d, n, p))
      /\ \A w \in Weeks : t[w] # NoRow => d[w] # NoRow
      /\ \A w \in Weeks : Burnt(t, w) => Burnt(d, w)
  BY <1>6, <1>7 DEF Sound
<1>9. v \in Weeks /\ t[v] # NoRow
  <2>1. /\ q \in Board /\ SameRows(t, q) /\ WeekOf[c] \in Weeks /\ t[WeekOf[c]] # NoRow
    BY EventsOf DEF Ready
  <2>2. WeekOf[c] \in Alight(q)
    BY <1>1, <2>1 DEF SameRows, Alight, Kept, Burnt
  <2>3. v \in Alight(q)
    BY <1>2, <2>1, <2>2, WorstIsAlight
  <2> QED BY <2>1, <2>3 DEF SameRows, Alight, Kept
<1>10. d[v] # NoRow
  BY <1>8, <1>9
<1>11. PICK a, m : a = Ash(d, v) /\ m = Append(p, BurnedOn(v))
  OBVIOUS
<1>12. /\ Books(a, n, m, k)
       /\ \A w \in Weeks : Burnt(d, w) => Burnt(a, w)
       /\ Match(d, n, p) => Match(a, n, m)
  BY <1>8, <1>9, <1>10, <1>11, BurnFollows
<1>13. s = Ses(a, a, n, m, k)
  BY <1>2, <1>3, <1>11, Zenon
<1>14. a \in Board /\ SameRows(a, a)
  BY <1>12 DEF Books, SameRows
<1>15. Sound(t, s, a, a, n, m, k)
  BY <1>8, <1>12, <1>13, <1>14 DEF Sound
<1> QED BY <1>8, <1>12, <1>15

-----------------------------------------------------------------------------
(* The charges *)

IsLog(l) == \E S : l \in Seq(S)

Charging(e, c) == e.kind \in {"fire", "void"} /\ e.by = c

\* In history l exactly the corrections of C are charged, and each once.
Once(l, C) ==
  /\ IsLog(l)
  /\ \A c \in Corrections : c \in C <=> \E i \in DOMAIN l : Charging(l[i], c)
  /\ \A c \in Corrections, i, j \in DOMAIN l :
       Charging(l[i], c) /\ Charging(l[j], c) => i = j

LEMMA AppendedLog ==
  ASSUME NEW l, IsLog(l), NEW e
  PROVE  /\ IsLog(Append(l, e))
         /\ Len(l) \in Nat /\ DOMAIN l = 1..Len(l)
         /\ DOMAIN Append(l, e) = 1..(Len(l) + 1)
         /\ \A i \in DOMAIN l : Append(l, e)[i] = l[i]
         /\ Append(l, e)[Len(l) + 1] = e
<1>1. PICK S : l \in Seq(S)
  BY DEF IsLog
<1>2. PICK T : T = S \cup {e}
  OBVIOUS
<1>3. l \in Seq(T) /\ e \in T
  BY <1>1, <1>2
<1>4. Append(l, e) \in Seq(T)
  BY <1>3
<1>5. QED
  BY <1>3, <1>4 DEF IsLog

LEMMA ChargedAppend ==
  ASSUME NEW l, NEW C, Once(l, C), NEW c \in Corrections, c \notin C,
         NEW e, e.kind \in {"fire", "void"}, e.by = c
  PROVE  Once(Append(l, e), C \cup {c})
<1> DEFINE m == Append(l, e)
           n == Len(l) + 1
<1>1. /\ IsLog(m) /\ Len(l) \in Nat /\ DOMAIN l = 1..Len(l)
      /\ DOMAIN m = 1..n /\ (\A i \in DOMAIN l : m[i] = l[i]) /\ m[n] = e
  BY AppendedLog DEF Once
<1> HIDE DEF m
<1>2. \A i \in DOMAIN m : (i \in DOMAIN l /\ m[i] = l[i]) \/ (i = n /\ m[i] = e)
  BY <1>1
<1>3. n \in DOMAIN m /\ DOMAIN l \subseteq DOMAIN m
  BY <1>1
<1> HIDE DEF n
<1>4. \A x \in Corrections : Charging(e, x) <=> x = c
  BY DEF Charging
<1>5. \A x \in Corrections :
        x \in C \cup {c} <=> \E i \in DOMAIN m : Charging(m[i], x)
  BY <1>1, <1>2, <1>3, <1>4 DEF Once
<1>6. \A x \in Corrections, i, j \in DOMAIN m :
        Charging(m[i], x) /\ Charging(m[j], x) => i = j
  BY <1>1, <1>2, <1>3, <1>4 DEF Once
<1>7. QED
  BY <1>1, <1>5, <1>6 DEF Once, m

LEMMA OtherAppend ==
  ASSUME NEW l, NEW C, Once(l, C), NEW e, e.kind \notin {"fire", "void"}
  PROVE  Once(Append(l, e), C)
<1> DEFINE m == Append(l, e)
           n == Len(l) + 1
<1>1. /\ IsLog(m) /\ Len(l) \in Nat /\ DOMAIN l = 1..Len(l)
      /\ DOMAIN m = 1..n /\ (\A i \in DOMAIN l : m[i] = l[i]) /\ m[n] = e
  BY AppendedLog DEF Once
<1> HIDE DEF m
<1>2. \A i \in DOMAIN m : (i \in DOMAIN l /\ m[i] = l[i]) \/ (i = n /\ m[i] = e)
  BY <1>1
<1>3. DOMAIN l \subseteq DOMAIN m
  BY <1>1
<1>4. \A x \in Corrections : ~ Charging(e, x)
  BY DEF Charging
<1>5. QED
  BY <1>1, <1>2, <1>3, <1>4 DEF Once, m

\* A douse is inserted where its time stamp puts it.
Inserted(l, k, e) == SubSeq(l, 1, k) \o <<e>> \o SubSeq(l, k + 1, Len(l))

LEMMA InsertedLog ==
  ASSUME NEW l, IsLog(l), NEW k \in 0..Len(l), NEW e
  PROVE  /\ IsLog(Inserted(l, k, e))
         /\ DOMAIN Inserted(l, k, e) = 1..(Len(l) + 1)
         /\ \A i \in 1..k : Inserted(l, k, e)[i] = l[i]
         /\ Inserted(l, k, e)[k + 1] = e
         /\ \A i \in (k + 2)..(Len(l) + 1) : Inserted(l, k, e)[i] = l[i - 1]
<1>1. PICK S : l \in Seq(S)
  BY DEF IsLog
<1>2. PICK T : T = S \cup {e}
  OBVIOUS
<1>3. l \in Seq(T) /\ e \in T /\ Len(l) \in Nat
  BY <1>1, <1>2
<1>4. PICK a : a = SubSeq(l, 1, k)
  OBVIOUS
<1>5. a \in Seq(T) /\ Len(a) = k /\ \A i \in 1..k : a[i] = l[i]
  BY <1>3, <1>4
<1>6. PICK b : b = SubSeq(l, k + 1, Len(l))
  OBVIOUS
<1>7. b \in Seq(T) /\ Len(b) = Len(l) - k /\ \A i \in 1..(Len(l) - k) : b[i] = l[k + i]
  BY <1>3, <1>6
<1>8. PICK p : p = a \o <<e>>
  OBVIOUS
<1>9. p \in Seq(T) /\ Len(p) = k + 1 /\ (\A i \in 1..k : p[i] = l[i]) /\ p[k + 1] = e
  BY <1>3, <1>5, <1>8
<1>10. PICK q : q = p \o b
  OBVIOUS
<1>11. /\ q \in Seq(T) /\ Len(q) = Len(l) + 1
       /\ \A i \in 1..(k + 1) : q[i] = p[i]
       /\ \A i \in (k + 2)..(Len(l) + 1) : q[i] = b[i - (k + 1)]
  <2>1. q \in Seq(T) /\ Len(q) = Len(p) + Len(b)
    BY <1>7, <1>9, <1>10, ConcatProperties
  <2>2. \A i \in 1..Len(p) : q[i] = p[i]
    BY <1>7, <1>9, <1>10
  <2>3. \A i \in (Len(p) + 1)..(Len(p) + Len(b)) : q[i] = b[i - Len(p)]
    BY <1>7, <1>9, <1>10
  <2>4. Len(p) = k + 1 /\ Len(p) + Len(b) = Len(l) + 1 /\ Len(p) + 1 = k + 2
    BY <1>3, <1>7, <1>9
  <2>5. QED
    BY <2>1, <2>2, <2>3, <2>4
<1>12. \A i \in (k + 2)..(Len(l) + 1) : q[i] = l[i - 1]
  <2>1. ASSUME NEW i \in (k + 2)..(Len(l) + 1) PROVE q[i] = l[i - 1]
    <3>1. i - (k + 1) \in 1..(Len(l) - k) /\ k + (i - (k + 1)) = i - 1
      BY <1>3
    <3>2. QED
      BY <1>7, <1>11, <3>1
  <2>2. QED
    BY <2>1
<1>13. q = Inserted(l, k, e)
  BY <1>4, <1>6, <1>8, <1>10 DEF Inserted
<1>14. QED
  BY <1>3, <1>9, <1>11, <1>12, <1>13 DEF IsLog

LEMMA OtherInserted ==
  ASSUME NEW l, NEW C, Once(l, C), NEW k \in 0..Len(l), NEW e,
         e.kind \notin {"fire", "void"}
  PROVE  Once(Inserted(l, k, e), C)
<1> DEFINE old(i) == IF i <= k THEN i ELSE i - 1
           new(i) == IF i <= k THEN i ELSE i + 1
<1>0. IsLog(l) /\ Len(l) \in Nat /\ DOMAIN l = 1..Len(l)
  BY AppendedLog DEF Once
<1>m. PICK m : m = Inserted(l, k, e)
  OBVIOUS
<1>1. /\ IsLog(m) /\ DOMAIN m = 1..(Len(l) + 1)
      /\ \A i \in 1..k : m[i] = l[i]
      /\ m[k + 1] = e
      /\ \A i \in (k + 2)..(Len(l) + 1) : m[i] = l[i - 1]
  <2>1. IsLog(l)
    BY <1>0
  <2>2. /\ IsLog(Inserted(l, k, e)) /\ DOMAIN Inserted(l, k, e) = 1..(Len(l) + 1)
        /\ \A i \in 1..k : Inserted(l, k, e)[i] = l[i]
        /\ Inserted(l, k, e)[k + 1] = e
        /\ \A i \in (k + 2)..(Len(l) + 1) : Inserted(l, k, e)[i] = l[i - 1]
    BY <2>1, InsertedLog
  <2> QED BY <1>m, <2>2, Zenon
<1>2. \A i \in DOMAIN m : \/ i # k + 1 /\ old(i) \in DOMAIN l /\ m[i] = l[old(i)]
                          \/ i = k + 1 /\ m[i] = e
  BY <1>0, <1>1
<1>3. \A i, j \in DOMAIN m : i # k + 1 /\ j # k + 1 /\ old(i) = old(j) => i = j
  BY <1>0, <1>1
<1>4. \A i \in DOMAIN l : new(i) \in DOMAIN m /\ m[new(i)] = l[i]
  BY <1>0, <1>1
<1> HIDE DEF old, new
<1>5. \A x \in Corrections : ~ Charging(e, x)
  BY DEF Charging
<1>6. \A x \in Corrections : x \in C <=> \E i \in DOMAIN m : Charging(m[i], x)
  BY <1>2, <1>4, <1>5 DEF Once
<1>7. \A x \in Corrections, i, j \in DOMAIN m :
        Charging(m[i], x) /\ Charging(m[j], x) => i = j
  BY <1>2, <1>3, <1>5 DEF Once
<1>8. QED
  BY <1>m, <1>1, <1>6, <1>7 DEF Once

LEMMA AddFireOnce ==
  ASSUME NEW b, NEW q, NEW n, NEW l, NEW k, NEW C, Once(l, C),
         NEW c \in Corrections, c \notin C,
         NEW s, s = AddFire(Ses(b, q, n, l, k), c)
  PROVE  \E d, p, i, m : s = Ses(d, p, i, m, k) /\ Once(m, C \cup {c})
<1>1. PICK e, f, g : e = VoidOf(c) /\ f = Fire(c) /\ g = ForcedOf(c)
  OBVIOUS
<1>2. /\ e.kind \in {"fire", "void"} /\ e.by = c /\ f.kind \in {"fire", "void"} /\ f.by = c
      /\ g.kind \notin {"fire", "void"}
  BY <1>1 DEF VoidOf, Fire, ForcedOf
<1>3. Once(Append(l, e), C \cup {c}) /\ Once(Append(l, f), C \cup {c})
  BY <1>2, ChargedAppend
<1>4. l \o <<f, g>> = Append(Append(l, f), g)
  <2>1. PICK S : l \in Seq(S)
    BY DEF Once, IsLog
  <2>2. PICK T : T = S \cup {f, g}
    OBVIOUS
  <2>3. l \in Seq(T) /\ f \in T /\ g \in T
    BY <2>1, <2>2
  <2> QED BY <2>3
<1>5. PICK t, p : t = Touched(b, WeekOf[c]) /\ p = SqlAfter(b, q, WeekOf[c])
  OBVIOUS
<1>6. \/ Void(s, c, t, p, n, l, k) \/ Lands(s, c, t, p, n, l, k)
      \/ Smothered(s, c, t, n, l, k) \/ Burns(s, c, t, p, n, l, k)
  BY <1>5, AddFireCases
<1>7. CASE Void(s, c, t, p, n, l, k)
  BY <1>1, <1>3, <1>7 DEF Void
<1>8. CASE Lands(s, c, t, p, n, l, k)
  BY <1>1, <1>3, <1>8 DEF Lands
<1>9. CASE Smothered(s, c, t, n, l, k)
  <2>1. Once(Append(Append(l, f), g), C \cup {c})
    BY <1>2, <1>3, OtherAppend
  <2>2. s = Ses(t, t, n - 1, l \o <<f, g>>, k)
    BY <1>1, <1>9 DEF Smothered
  <2> QED BY <1>4, <2>1, <2>2
<1>10. CASE Burns(s, c, t, p, n, l, k)
  <2>1. PICK d, v : s = Ses(d, d, n, Append(Append(l, f), BurnedOn(v)), k)
    BY <1>1, <1>10, Zenon DEF Burns
  <2>2. PICK h : h = BurnedOn(v)
    OBVIOUS
  <2>3. h.kind \notin {"fire", "void"}
    BY <2>2 DEF BurnedOn
  <2>4. Once(Append(Append(l, f), h), C \cup {c})
    BY <1>3, <2>3, OtherAppend
  <2> QED BY <2>1, <2>2, <2>4
<1> QED BY <1>6, <1>7, <1>8, <1>9, <1>10

IsSession(r) == r = Ses(r.board, r.sql, r.water, r.log, r.corrected)

CInv ==
  /\ Once(log, corrected)
  /\ run # NoRun => IsSession(run) /\ Once(run.log, run.corrected)
  /\ ask # NoAsk => ask.at \in Nat

LEMMA SesFields ==
  ASSUME NEW b, NEW q, NEW n, NEW l, NEW k, NEW r, r = Ses(b, q, n, l, k)
  PROVE  /\ r.board = b /\ r.sql = q /\ r.water = n /\ r.log = l /\ r.corrected = k
         /\ IsSession(r)
BY DEF Ses, IsSession

\* The session after a correction was charged
LEMMA CorrectedIs ==
  ASSUME NEW c \in Corrections, NEW valid \in BOOLEAN, IsSession(run), Correct(c, valid),
         NEW k, k = run.corrected \cup {c},
         NEW s, s = AddFire(Ses(run.board, run.sql, run.water, run.log, k), c)
  PROVE  run' = s \/ run' = Flushed(s)
<1>1. PICK b, q, n, l, k0 : run = Ses(b, q, n, l, k0)
  BY DEF IsSession
<1>2. /\ run.board = b /\ run.sql = q /\ run.water = n /\ run.log = l
      /\ run.corrected = k0
  BY <1>1, SesFields
<1>3. PICK r, t : r = [run EXCEPT !.corrected = k] /\ t = AddFire(r, c)
  OBVIOUS
<1>4. r = Ses(b, q, n, l, k)
  BY <1>1, <1>3 DEF Ses
<1>5. run' = IF valid THEN Flushed(t) ELSE t
  BY <1>3, Zenon DEF Correct
<1>6. t = s
  BY <1>2, <1>3, <1>4, Zenon
<1> QED BY <1>5, <1>6

LEMMA CorrectKeeps ==
  ASSUME CInv, NEW c \in Corrections, NEW valid \in BOOLEAN, Correct(c, valid)
  PROVE  IsSession(run') /\ Once(run'.log, run'.corrected)
<1>1. run # NoRun /\ c \notin run.corrected /\ IsSession(run) /\ Once(run.log, run.corrected)
  BY DEF CInv, Correct
<1>2. PICK k, s : /\ k = run.corrected \cup {c}
                  /\ s = AddFire(Ses(run.board, run.sql, run.water, run.log, k), c)
  OBVIOUS
<1>3. run' = s \/ run' = Flushed(s)
  BY <1>1, <1>2, CorrectedIs
<1>4. PICK d, p, i, m : s = Ses(d, p, i, m, k) /\ Once(m, k)
  BY <1>1, <1>2, AddFireOnce
<1>5. run' = Ses(d, p, i, m, k) \/ run' = Ses(d, d, i, m, k)
  BY <1>3, <1>4, FlushedIs
<1>6. IsSession(run') /\ run'.log = m /\ run'.corrected = k
  BY <1>5, SesFields
<1> QED BY <1>4, <1>6

LEMMA SpendKeeps ==
  ASSUME CInv, SpendWrite
  PROVE  Once(log', corrected')
<1>1. ask # NoAsk /\ ask.at \in Nat /\ Once(log, corrected) /\ corrected' = corrected
  BY DEF CInv, SpendWrite
<1>2. Len(log) \in Nat
  BY <1>1, AppendedLog DEF Once
<1>3. PICK k : k = Lesser(ask.at, Len(log))
  OBVIOUS
<1>4. k \in 0..Len(log)
  BY <1>1, <1>2, <1>3 DEF Lesser
<1>5. PICK e : e = [kind |-> "doused", week |-> ask.week, units |-> ask.units]
  OBVIOUS
<1>6. e.kind \notin {"fire", "void"}
  BY <1>5
<1>7. log' = Inserted(log, k, e)
  BY <1>3, <1>5, Zenon DEF SpendWrite, Inserted
<1>8. QED
  BY <1>1, <1>4, <1>6, <1>7, OtherInserted

LEMMA AwardKeeps ==
  ASSUME CInv, NEW x \in Edits, AwardWater(x)
  PROVE  Once(log', corrected')
<1>1. Once(log, corrected) /\ corrected' = corrected
  BY DEF CInv, AwardWater
<1>2. PICK e : e = [kind |-> "earned", by |-> x, units |-> water' - water]
  OBVIOUS
<1>3. e.kind \notin {"fire", "void"}
  BY <1>2
<1>4. log' = Append(log, e)
  BY <1>2, Zenon DEF AwardWater
<1>5. QED
  BY <1>1, <1>3, <1>4, OtherAppend

LEMMA StepKeepsCharges ==
  ASSUME CInv, [Next]_vars
  PROVE  CInv'
<1>1. CASE RunStart
  <2>1. IsSession(run') /\ run'.log = log /\ run'.corrected = corrected
    BY <1>1 DEF RunStart, IsSession, Ses
  <2>2. QED
    BY <1>1, <2>1 DEF RunStart, CInv
<1>2. ASSUME NEW c \in Corrections, NEW valid \in BOOLEAN, Correct(c, valid) PROVE CInv'
  <2>1. IsSession(run') /\ Once(run'.log, run'.corrected)
    BY <1>2, CorrectKeeps
  <2>2. UNCHANGED <<log, corrected, ask>>
    BY <1>2 DEF Correct
  <2>3. QED
    BY <2>1, <2>2 DEF CInv
<1>3. CASE RunCommit
  BY <1>3 DEF RunCommit, CInv
<1>4. CASE RunDies
  BY <1>4 DEF RunDies, CInv
<1>5. ASSUME NEW x \in Edits, AwardWater(x) PROVE CInv'
  <2>1. Once(log', corrected')
    BY <1>5, AwardKeeps
  <2>2. run = NoRun /\ UNCHANGED <<run, ask>>
    BY <1>5 DEF AwardWater
  <2>3. QED
    BY <2>1, <2>2 DEF CInv
<1>6. ASSUME NEW w \in Weeks, NEW units \in 1 .. Capacity, SpendRead(w, units) PROVE CInv'
  <2>1. ask'.at = IF run = NoRun THEN Len(log) ELSE Len(run.log)
    BY <1>6 DEF SpendRead
  <2>2. ask'.at \in Nat
    <3>1. Len(log) \in Nat
      BY AppendedLog DEF CInv, Once
    <3>2. run # NoRun => Len(run.log) \in Nat
      BY AppendedLog DEF CInv, Once
    <3>3. QED
      BY <2>1, <3>1, <3>2
  <2>3. UNCHANGED <<log, corrected, run>>
    BY <1>6 DEF SpendRead
  <2>4. QED
    BY <2>2, <2>3 DEF CInv
<1>7. CASE SpendWrite
  <2>1. Once(log', corrected')
    BY <1>7, SpendKeeps
  <2>2. run' = run /\ ask' = NoAsk
    BY <1>7 DEF SpendWrite
  <2>3. QED
    BY <2>1, <2>2 DEF CInv
<1>8. CASE SpendFails
  BY <1>8 DEF SpendFails, CInv
<1>9. CASE Rebuild
  BY <1>9 DEF Rebuild, CInv
<1>10. CASE Recompute
  BY <1>10 DEF Recompute, CInv
<1>11. CASE UNCHANGED vars
  BY <1>11 DEF vars, CInv
<1>12. QED
  BY <1>1, <1>2, <1>3, <1>4, <1>5, <1>6, <1>7, <1>8, <1>9, <1>10, <1>11 DEF Next

LEMMA NothingCharged == Init => CInv
<1>1. SUFFICES ASSUME Init PROVE CInv
  OBVIOUS
<1>2. log = <<>> /\ corrected = {} /\ run = NoRun /\ ask = NoAsk
  BY <1>1, Zenon DEF Init
<1>3. log \in Seq({}) /\ DOMAIN log = {}
  BY <1>2
<1>4. IsLog(log)
  BY <1>3 DEF IsLog
<1>5. QED
  BY <1>2, <1>3, <1>4 DEF CInv, Once

LEMMA OnceCharges == CInv => ChargedOnce
<1>1. SUFFICES ASSUME CInv, NEW c \in Corrections
               PROVE  IF c \in corrected THEN \E i \in DOMAIN log : Charges(c) = {i}
                      ELSE Charges(c) = {}
  BY DEF ChargedOnce
<1>2. Charges(c) = {i \in DOMAIN log : Charging(log[i], c)}
  BY DEF Charges, Charging
<1>3. PICK S : S = {i \in DOMAIN log : Charging(log[i], c)}
  OBVIOUS
<1>4. \A i \in DOMAIN log : i \in S <=> Charging(log[i], c)
  BY <1>3
<1>5. S \subseteq DOMAIN log
  BY <1>3
<1>6. c \in corrected <=> \E i \in DOMAIN log : i \in S
  BY <1>1, <1>4, Zenon DEF CInv, Once
<1>7. \A i, j \in S : i = j
  BY <1>1, <1>4, <1>5 DEF CInv, Once
<1>8. CASE c \in corrected
  <2>1. PICK i \in DOMAIN log : i \in S
    BY <1>6, <1>8
  <2>2. S = {i}
    BY <1>7, <2>1
  <2>3. QED
    BY <1>2, <1>3, <1>8, <2>2
<1>9. CASE c \notin corrected
  <2>1. S = {}
    BY <1>5, <1>6, <1>9
  <2>2. QED
    BY <1>2, <1>3, <1>9, <2>1
<1>10. QED
  BY <1>8, <1>9

\* Whatever the runs, the crashes, the douses and the rebuilds, each recorded
\* correction is charged by exactly one event of the history, and none is
\* charged that is not recorded (reconciliation.py:395-420).
THEOREM CorrectionsChargedOnce == Spec => []ChargedOnce
<1>1. CInv /\ [Next]_vars => CInv'
  BY StepKeepsCharges
<1>2. QED
  BY NothingCharged, <1>1, OnceCharges, PTL DEF Spec

-----------------------------------------------------------------------------
(* The economy as a whole *)

\* A run that goes on: what it will commit
SessionOK(r, b) ==
  /\ IsSession(r) /\ Books(r.board, r.water, r.log, r.corrected)
  /\ r.sql \in Board /\ SameRows(r.board, r.sql)
  /\ \A w \in Weeks : Burnt(b, w) => Burnt(r.board, w)

AskOK(a) ==
  /\ a \in [week : Weeks, id : Nat, units : Nat, water : 0 .. Capacity,
            flames : Nat, at : Nat]
  /\ a.units <= a.water /\ a.units <= a.flames

EconomyInv ==
  /\ Books(board, water, log, corrected)
  /\ stale \/ Match(board, water, log)
  /\ run # NoRun => /\ SessionOK(run, board)
                    /\ stale \/ Match(run.board, run.water, run.log)
  /\ ask # NoAsk => AskOK(ask)
  /\ douses \in 0 .. MaxDouses /\ stale \in BOOLEAN

LEMMA TouchedReady ==
  ASSUME NEW b, NEW q \in Board, NEW n, NEW l, NEW C, Books(b, n, l, C),
         SameRows(b, q), Once(l, C), NEW c \in Corrections, c \notin C,
         NEW k, k = C \cup {c},
         NEW t, t = Touched(b, WeekOf[c]), NEW p, p = SqlAfter(b, q, WeekOf[c])
  PROVE  /\ Ready(t, p, n, l, k, c)
         /\ \A w \in Weeks : Burnt(b, w) => Burnt(t, w)
         /\ Match(b, n, l) => Caught(t, n, l, c)
<1>1. PICK v : v = WeekOf[c]
  OBVIOUS
<1>2. /\ v \in Weeks /\ b \in Board /\ UniqueIds(b) /\ l \in Seq(Event)
  BY <1>1, EventsOf DEF Books
<1>3. t = Touched(b, v) /\ p = SqlAfter(b, q, v)
  BY <1>1
<1>4. t \in Board /\ t[v] # NoRow /\ UniqueIds(t)
  BY <1>2, <1>3, TouchedIs
<1>5. \A w \in Weeks : Burnt(t, w) <=> Burnt(b, w)
  BY <1>2, <1>3, TouchedBurns
<1>6. p \in Board /\ SameRows(t, p)
  BY <1>2, <1>3, SameRowsTouched
<1>7. Books(t, n, l, k)
  BY <1>4, <1>5 DEF Books
<1>8. ~ WasForced(l, c)
  BY DEF Books
<1>9. \A i \in 1..Len(l) : l[i].kind = "fire" => l[i].by # c
  <2>1. DOMAIN l = 1..Len(l)
    BY <1>2
  <2> QED BY <2>1 DEF Once, Charging
<1>10. Ready(t, p, n, l, k, c)
  BY <1>1, <1>4, <1>6, <1>7, <1>8, <1>9 DEF Ready
<1>11. ASSUME Match(b, n, l) PROVE Caught(t, n, l, c)
  <2>1. PICK r, u : r = Replay(l) /\ u = Touched(r, v)
    OBVIOUS
  <2>2. r \in Board /\ AlikeBoards(r, b) /\ Refill(l) = n
    BY <1>2, <1>11, <2>1, ReplayIsBoard DEF Match
  <2>3. AlikeBoards(u, t)
    BY <1>2, <1>3, <2>1, <2>2, AlikeTouched
  <2> QED BY <1>1, <2>1, <2>2, <2>3 DEF Caught
<1> QED BY <1>5, <1>10, <1>11

LEMMA AddFireSound ==
  ASSUME NEW b, NEW q \in Board, NEW n, NEW l, NEW C, Books(b, n, l, C),
         SameRows(b, q), Once(l, C), NEW c \in Corrections, c \notin C,
         NEW k, k = C \cup {c}, NEW s, s = AddFire(Ses(b, q, n, l, k), c)
  PROVE  \E d, p, i, m : Sound(b, s, d, p, i, m, k) /\ (Match(b, n, l) => Match(d, i, m))
<1>1. PICK t, p : t = Touched(b, WeekOf[c]) /\ p = SqlAfter(b, q, WeekOf[c])
  OBVIOUS
<1>2. /\ Ready(t, p, n, l, k, c)
      /\ \A w \in Weeks : Burnt(b, w) => Burnt(t, w)
      /\ Match(b, n, l) => Caught(t, n, l, c)
  BY <1>1, TouchedReady
<1>3. \/ Void(s, c, t, p, n, l, k) \/ Lands(s, c, t, p, n, l, k)
      \/ Smothered(s, c, t, n, l, k) \/ Burns(s, c, t, p, n, l, k)
  BY <1>1, AddFireCases
<1>4. \E d, u, i, m : Sound(t, s, d, u, i, m, k) /\ (Caught(t, n, l, c) => Match(d, i, m))
  <2>1. CASE Void(s, c, t, p, n, l, k)
    <3>1. PICK m : Sound(t, s, t, p, n, m, k) /\ (Caught(t, n, l, c) => Match(t, n, m))
      BY <1>2, <2>1, VoidSound
    <3> QED BY <3>1, Zenon
  <2>2. CASE Lands(s, c, t, p, n, l, k)
    <3>1. PICK m, d : Sound(t, s, d, p, n, m, k) /\ (Caught(t, n, l, c) => Match(d, n, m))
      BY <1>2, <2>2, LandsSound
    <3> QED BY <3>1, Zenon
  <2>3. CASE Smothered(s, c, t, n, l, k)
    <3>1. PICK m : Sound(t, s, t, t, n - 1, m, k) /\ (Caught(t, n, l, c) => Match(t, n - 1, m))
      BY <1>2, <2>3, SmotheredSound
    <3> QED BY <3>1, Zenon
  <2>4. CASE Burns(s, c, t, p, n, l, k)
    <3>1. PICK a, m : Sound(t, s, a, a, n, m, k) /\ (Caught(t, n, l, c) => Match(a, n, m))
      BY <1>2, <2>4, BurnsSound
    <3> QED BY <3>1, Zenon
  <2> QED BY <1>3, <2>1, <2>2, <2>3, <2>4
<1>5. PICK d, u, i, m : Sound(t, s, d, u, i, m, k) /\ (Caught(t, n, l, c) => Match(d, i, m))
  BY <1>4
<1>6. Sound(b, s, d, u, i, m, k)
  BY <1>2, <1>5 DEF Sound
<1> QED BY <1>2, <1>5, <1>6

LEMMA CorrectSound ==
  ASSUME CInv, EconomyInv, NEW c \in Corrections, NEW valid \in BOOLEAN, Correct(c, valid)
  PROVE  /\ SessionOK(run', board)
         /\ stale \/ Match(run'.board, run'.water, run'.log)
<1>1. /\ run # NoRun /\ c \notin run.corrected /\ IsSession(run)
      /\ Once(run.log, run.corrected) /\ SessionOK(run, board)
      /\ stale \/ Match(run.board, run.water, run.log)
  BY DEF CInv, EconomyInv, Correct
<1>2. PICK b, q, n, l, C :
        b = run.board /\ q = run.sql /\ n = run.water /\ l = run.log /\ C = run.corrected
  OBVIOUS
<1>3. /\ Books(b, n, l, C) /\ q \in Board /\ SameRows(b, q) /\ Once(l, C) /\ c \notin C
      /\ \A w \in Weeks : Burnt(board, w) => Burnt(b, w)
      /\ stale \/ Match(b, n, l)
  BY <1>1, <1>2 DEF SessionOK
<1>4. PICK k, s : k = C \cup {c} /\ s = AddFire(Ses(b, q, n, l, k), c)
  OBVIOUS
<1>5. run' = s \/ run' = Flushed(s)
  <2>1. k = run.corrected \cup {c}
    BY <1>2, <1>4
  <2>2. s = AddFire(Ses(run.board, run.sql, run.water, run.log, k), c)
    BY <1>2, <1>4, Zenon
  <2> QED BY <1>1, <2>1, <2>2, CorrectedIs
<1>6. PICK d, p, i, m : Sound(b, s, d, p, i, m, k) /\ (Match(b, n, l) => Match(d, i, m))
  BY <1>3, <1>4, AddFireSound
<1>7. /\ s = Ses(d, p, i, m, k) /\ Books(d, i, m, k) /\ d \in Board
      /\ p \in Board /\ SameRows(d, p)
      /\ \A w \in Weeks : Burnt(b, w) => Burnt(d, w)
  BY <1>6 DEF Sound, Books
<1>8. PICK u : /\ run' = Ses(d, u, i, m, k) /\ u \in Board /\ SameRows(d, u)
  <2>1. CASE run' = s
    BY <1>7, <2>1
  <2>2. CASE run' = Flushed(s)
    <3>1. run' = Ses(d, d, i, m, k)
      BY <1>7, <2>2, FlushedIs
    <3>2. SameRows(d, d)
      BY DEF SameRows
    <3> QED BY <1>7, <3>1, <3>2
  <2> QED BY <1>5, <2>1, <2>2
<1>9. /\ run'.board = d /\ run'.sql = u /\ run'.water = i /\ run'.log = m
      /\ run'.corrected = k /\ IsSession(run')
  BY <1>8, SesFields
<1>10. \A w \in Weeks : Burnt(board, w) => Burnt(d, w)
  BY <1>3, <1>7
<1>11. SessionOK(run', board)
  BY <1>7, <1>8, <1>9, <1>10 DEF SessionOK
<1>12. stale \/ Match(d, i, m)
  BY <1>3, <1>6
<1> QED BY <1>9, <1>11, <1>12

LEMMA BooksInserted ==
  ASSUME NEW b, NEW n, NEW l, NEW k, Books(b, n, l, k), NEW j \in 0..Len(l),
         NEW e \in Event, e.kind = "doused",
         NEW d \in Board, UniqueIds(d), NEW i \in 0..Capacity,
         \A w \in Weeks : Burnt(d, w) => Burnt(b, w),
         NEW m, m = Inserted(l, j, e)
  PROVE  Books(d, i, m, k)
<1> DEFINE old(x) == IF x <= j THEN x ELSE x - 1
           new(x) == IF x <= j THEN x ELSE x + 1
<1>1. l \in Seq(Event) /\ Len(l) \in Nat /\ DOMAIN l = 1..Len(l)
  BY DEF Books
<1>2. /\ IsLog(m) /\ DOMAIN m = 1..(Len(l) + 1)
      /\ \A x \in 1..j : m[x] = l[x]
      /\ m[j + 1] = e
      /\ \A x \in (j + 2)..(Len(l) + 1) : m[x] = l[x - 1]
  <2>1. IsLog(l)
    BY <1>1 DEF IsLog
  <2>2. /\ IsLog(Inserted(l, j, e)) /\ DOMAIN Inserted(l, j, e) = 1..(Len(l) + 1)
        /\ \A x \in 1..j : Inserted(l, j, e)[x] = l[x]
        /\ Inserted(l, j, e)[j + 1] = e
        /\ \A x \in (j + 2)..(Len(l) + 1) : Inserted(l, j, e)[x] = l[x - 1]
    BY <2>1, InsertedLog
  <2> QED BY <2>2, Zenon
<1>3. \A x \in DOMAIN m : \/ x # j + 1 /\ old(x) \in DOMAIN l /\ m[x] = l[old(x)]
                          \/ x = j + 1 /\ m[x] = e
  BY <1>1, <1>2
<1>4. \A x \in DOMAIN l : new(x) \in DOMAIN m /\ m[new(x)] = l[x]
  BY <1>1, <1>2
<1>5. m \in Seq(Event)
  <2>1. PICK S : m \in Seq(S)
    BY <1>2 DEF IsLog
  <2>2. \A x \in DOMAIN m : m[x] \in Event
    BY <1>1, <1>3
  <2> HIDE DEF old
  <2> QED BY <2>1, <2>2
<1> HIDE DEF old, new
<1>6. ASSUME NEW c, WasForced(m, c) PROVE c \in k
  <2>1. PICK x \in DOMAIN m : m[x].kind = "forced" /\ m[x].by = c
    BY <1>6 DEF WasForced
  <2>2. x # j + 1
    BY <1>3, <2>1
  <2>3. WasForced(l, c)
    BY <1>3, <2>1, <2>2 DEF WasForced
  <2> QED BY <2>3 DEF Books
<1>7. ASSUME NEW w \in Weeks, Burnt(d, w)
      PROVE  \E x \in DOMAIN m : m[x].kind = "burned" /\ m[x].week = w
  <2>1. PICK x \in DOMAIN l : l[x].kind = "burned" /\ l[x].week = w
    BY <1>7 DEF Books
  <2> QED BY <1>4, <2>1
<1>8. k \in SUBSET Corrections
  BY DEF Books
<1> QED BY <1>5, <1>6, <1>7, <1>8 DEF Books

LEMMA InsertedLast ==
  ASSUME NEW l \in Seq(Event), NEW e \in Event
  PROVE  Inserted(l, Len(l), e) = Append(l, e)
<1>1. PICK n, a, b : n = Len(l) /\ a = SubSeq(l, 1, n) /\ b = SubSeq(l, n + 1, n)
  OBVIOUS
<1>2. a = l /\ b = <<>>
  <2>1. n \in Nat
    BY <1>1
  <2>2. a = l
    BY <1>1, <2>1
  <2>3. b = <<>>
    BY <1>1, <2>1
  <2> QED BY <2>2, <2>3
<1>3. Inserted(l, n, e) = a \o <<e>> \o b
  BY <1>1, Zenon DEF Inserted
<1>4. l \o <<e>> \o <<>> = Append(l, e)
  OBVIOUS
<1> QED BY <1>1, <1>2, <1>3, <1>4, Zenon

\* A douse written by a request that read what still holds
LEMMA DouseMatches ==
  ASSUME NEW b, NEW n, NEW l, NEW k, Books(b, n, l, k), Match(b, n, l),
         NEW w \in Weeks, b[w] # NoRow, NEW u \in Nat, u <= n, u <= b[w].flames,
         NEW f, f = b[w].flames - u, NEW e, e = [kind |-> "doused", week |-> w, units |-> u],
         NEW d, d = WithFlames(b, w, f), NEW m, m = Append(l, e)
  PROVE  Match(d, n - u, m)
<1>1. b \in Board /\ l \in Seq(Event) /\ n \in Nat
  BY WeekFireConstants DEF Books
<1>2. e \in Event /\ e.kind = "doused" /\ e.week = w /\ e.units = u
  BY DEF Event
<1>3. PICK r : r = Replay(l)
  OBVIOUS
<1>4. r \in Board /\ AlikeBoards(r, b) /\ Refill(l) = n
  BY <1>1, <1>3, ReplayIsBoard DEF Match
<1>5. r[w] # NoRow /\ r[w].flames = b[w].flames
  <2>1. AlikeRow(r, b, w)
    BY <1>4 DEF AlikeBoards
  <2> QED BY <2>1 DEF AlikeRow
<1>6. Replay(m) = Replayed(m, r, e) /\ Refill(m) = Refilled(n, e)
  <2>1. e.kind # "forced"
    BY <1>2
  <2> QED BY <1>1, <1>2, <1>3, <1>4, <2>1, NextEvent
<1>7. b[w].flames \in Nat /\ f \in Nat
  BY <1>1, RowFields
<1>8. Replay(m) = WithFlames(r, w, f)
  <2>1. PICK y : y = Replayed(m, r, e)
    OBVIOUS
  <2>2. Touched(r, w) = r
    BY <1>5 DEF Touched
  <2>3. PICK i \in Nat : /\ i = Monus(Touched(r, e.week)[e.week].flames, e.units)
                         /\ y = WithFlames(Touched(r, e.week), e.week, i)
    BY <1>2, <1>4, <2>1, ReplayedCases
  <2>4. i = Monus(r[w].flames, u) /\ y = WithFlames(r, w, i)
    BY <1>2, <2>2, <2>3, Zenon
  <2>5. i = f
    BY <1>5, <1>7, <2>4 DEF Monus
  <2> QED BY <1>6, <2>1, <2>4, <2>5
<1>9. AlikeBoards(WithFlames(r, w, f), WithFlames(b, w, f))
  BY <1>1, <1>4, <1>5, <1>7, AlikeWritten
<1>10. Refill(m) = n - u
  BY <1>1, <1>2, <1>6 DEF Refilled, Monus
<1> QED BY <1>8, <1>9, <1>10 DEF Match

LEMMA SpendSound ==
  ASSUME EconomyInv, SpendWrite
  PROVE  /\ Books(board', water', log', corrected')
         /\ stale' \/ Match(board', water', log')
         /\ \A w \in Weeks : Burnt(board, w) => Burnt(board', w)
         /\ stale' \in BOOLEAN
<1>1. PICK a : a = ask
  OBVIOUS
<1>2. /\ a.week \in Weeks /\ a.id \in Nat /\ a.units \in Nat /\ a.water \in 0..Capacity
      /\ a.flames \in Nat /\ a.at \in Nat /\ a.units <= a.water /\ a.units <= a.flames
  BY <1>1 DEF EconomyInv, AskOK, SpendWrite
<1>3. Books(board, water, log, corrected) /\ corrected' = corrected /\ stale \in BOOLEAN
  BY DEF EconomyInv, SpendWrite
<1>4. /\ board \in Board /\ UniqueIds(board) /\ water \in 0..Capacity /\ log \in Seq(Event)
      /\ Len(log) \in Nat /\ Capacity \in Nat
  BY <1>3, WeekFireConstants DEF Books
<1>5. PICK f, i : f = a.flames - a.units /\ i = a.water - a.units
  OBVIOUS
<1>6. f \in Nat /\ i \in 0..Capacity /\ water' = i
  <2>1. water' = i
    BY <1>1, <1>5, Zenon DEF SpendWrite
  <2> QED BY <1>2, <1>4, <1>5, <2>1
<1>7. PICK w \in RowWithId(a.id) : board' = WithFlames(board, w, f)
  BY <1>1, <1>5, Zenon DEF SpendWrite, WithFlames
<1>8. w \in Weeks /\ board[w] # NoRow /\ board[w].id = a.id
  BY <1>7 DEF RowWithId, Kept
<1>9. PICK x \in Row : /\ WithFlames(board, w, f) = PutRow(board, w, x)
                       /\ x.id = board[w].id /\ (x.burnt <=> board[w].burnt)
  BY <1>4, <1>6, <1>8, WrittenRows
<1>10. PICK d : d = board' /\ d = PutRow(board, w, x)
  BY <1>7, <1>9
<1>11. /\ d \in Board /\ UniqueIds(d)
       /\ \A v \in Weeks : Burnt(board, v) => Burnt(d, v)
       /\ \A v \in Weeks : Burnt(d, v) => Burnt(board, v)
  <2>1. d \in Board /\ UniqueIds(d)
    BY <1>4, <1>8, <1>9, <1>10, SetRow
  <2>2. \A v \in Weeks : Burnt(board, v) => Burnt(d, v)
    BY <1>4, <1>8, <1>9, <1>10, WriteKeepsBurnt
  <2>3. \A v \in Weeks : Burnt(d, v) => Burnt(board, v) \/ (v = w /\ x.burnt)
    BY <1>4, <1>8, <1>9, <1>10, WriteBurns
  <2>4. x.burnt => Burnt(board, w)
    BY <1>8, <1>9 DEF Burnt
  <2> QED BY <2>1, <2>2, <2>3, <2>4
<1>12. PICK j, e : /\ j = Lesser(a.at, Len(log))
                   /\ e = [kind |-> "doused", week |-> a.week, units |-> a.units]
  OBVIOUS
<1>13. j \in 0..Len(log) /\ e \in Event /\ e.kind = "doused"
  BY <1>2, <1>4, <1>12 DEF Lesser, Event
<1>14. log' = Inserted(log, j, e)
  BY <1>1, <1>12, Zenon DEF SpendWrite, Inserted
<1>15. PICK m : m = log' /\ m = Inserted(log, j, e)
  BY <1>14
<1>16. Books(d, i, m, corrected)
  BY <1>3, <1>6, <1>11, <1>13, <1>15, BooksInserted
<1>17. ASSUME ~ stale' PROVE Match(d, i, m)
  <2>1. /\ ~ stale /\ ~ (a.at < Len(log)) /\ water = a.water
        /\ board[a.week] = [id |-> a.id, flames |-> a.flames, burnt |-> FALSE]
    BY <1>1, <1>17 DEF SpendWrite
  <2>2. Match(board, water, log)
    BY <2>1 DEF EconomyInv
  <2>3. board[a.week] # NoRow /\ board[a.week].id = a.id /\ board[a.week].flames = a.flames
    <3>1. a.id \in Nat \ {0}
      BY <1>4, <1>8, RowFields
    <3>2. PICK y : y = [id |-> a.id, flames |-> a.flames, burnt |-> FALSE]
      OBVIOUS
    <3>3. /\ y \in [id : Nat \ {0}, flames : Nat, burnt : BOOLEAN]
          /\ y.id = a.id /\ y.flames = a.flames
      BY <1>2, <3>1, <3>2
    <3>4. y # NoRow
      BY <3>3, NoRowIsNoRow
    <3>5. board[a.week] = y
      BY <2>1, <3>2, Zenon
    <3> QED BY <3>3, <3>4, <3>5, Zenon
  <2>4. a.week = w
    BY <1>2, <1>4, <1>8, <2>3 DEF UniqueIds, Kept
  <2>5. j = Len(log)
    BY <1>2, <1>4, <1>12, <2>1 DEF Lesser
  <2>6. m = Append(log, e)
    BY <1>4, <1>13, <1>15, <2>5, InsertedLast
  <2>7. f = board[w].flames - a.units /\ a.units <= board[w].flames /\ a.units <= water
    BY <1>2, <1>5, <2>1, <2>3, <2>4
  <2>8. e = [kind |-> "doused", week |-> w, units |-> a.units]
    BY <1>12, <2>4
  <2>9. d = WithFlames(board, w, f)
    BY <1>9, <1>10
  <2>10. Match(d, water - a.units, m)
    BY <1>2, <1>3, <1>8, <2>2, <2>6, <2>7, <2>8, <2>9, DouseMatches
  <2> QED BY <1>5, <2>1, <2>10
<1>18. stale' \in BOOLEAN
  BY <1>3 DEF SpendWrite
<1> QED BY <1>3, <1>6, <1>10, <1>11, <1>15, <1>16, <1>17, <1>18, Zenon

LEMMA AwardSound ==
  ASSUME EconomyInv, NEW r \in Edits, AwardWater(r)
  PROVE  /\ Books(board', water', log', corrected')
         /\ stale' \/ Match(board', water', log')
<1>1. /\ Books(board, water, log, corrected) /\ (stale \/ Match(board, water, log))
      /\ board' = board /\ corrected' = corrected /\ stale' = stale
      /\ water < Capacity /\ water' = Lesser(water + 1, Capacity)
  BY DEF EconomyInv, AwardWater
<1>2. /\ board \in Board /\ UniqueIds(board) /\ log \in Seq(Event)
      /\ water \in Nat /\ Capacity \in Nat
  BY <1>1, WeekFireConstants DEF Books
<1>3. water' = water + 1 /\ water' \in 0..Capacity
  BY <1>1, <1>2 DEF Lesser
<1>4. PICK i, e : i = water' /\ e = [kind |-> "earned", by |-> r, units |-> water' - water]
  OBVIOUS
<1>5. e \in Event /\ e.kind = "earned" /\ e.units = 1
  <2>1. e = [kind |-> "earned", by |-> r, units |-> 1]
    BY <1>2, <1>3, <1>4
  <2> QED BY <2>1 DEF Event
<1>6. log' = Append(log, e)
  BY <1>4, Zenon DEF AwardWater
<1>7. PICK m : m = log' /\ m = Append(log, e)
  BY <1>6
<1>8. Books(board, i, m, corrected)
  <2>1. e.kind # "forced" /\ e.kind # "burned"
    BY <1>5
  <2> QED BY <1>1, <1>2, <1>3, <1>4, <1>5, <1>7, <2>1, BooksAppend
<1>9. ASSUME ~ stale' PROVE Match(board, i, m)
  <2>1. PICK b : b = Replay(log)
    OBVIOUS
  <2>2. Refill(log) = water /\ AlikeBoards(b, board) /\ b \in Board
    BY <1>1, <1>2, <1>9, <2>1, ReplayIsBoard DEF Match
  <2>3. Replay(m) = Replayed(m, b, e) /\ Refill(m) = Refilled(water, e)
    <3>1. e.kind # "forced"
      BY <1>5
    <3> QED BY <1>2, <1>5, <1>7, <2>1, <2>2, <3>1, NextEvent
  <2>4. Replay(m) = b
    <3>1. PICK y : y = Replayed(m, b, e)
      OBVIOUS
    <3>2. e.kind \notin {"fire", "burned", "doused"}
      BY <1>5
    <3>3. y = b
      BY <1>5, <2>2, <3>1, <3>2, ReplayedCases
    <3> QED BY <2>3, <3>1, <3>3
  <2>5. Refill(m) = i
    BY <1>1, <1>4, <1>5, <2>3 DEF Refilled
  <2> QED BY <2>2, <2>4, <2>5 DEF Match
<1> QED BY <1>1, <1>4, <1>7, <1>8, <1>9, Zenon

LEMMA RebuildSound ==
  ASSUME EconomyInv, Rebuild
  PROVE  /\ Books(board', water', log', corrected')
         /\ stale' \/ Match(board', water', log')
         /\ \A w \in Weeks : Burnt(board, w) => Burnt(board', w)
<1>1. /\ Books(board, water, log, corrected) /\ (stale \/ Match(board, water, log))
      /\ water' = water /\ log' = log /\ corrected' = corrected /\ stale' = stale
  BY DEF EconomyInv, Rebuild
<1>2. PICK d : d = Replay(log) /\ board' = d
  BY DEF Rebuild
<1>3. log \in Seq(Event)
  BY <1>1 DEF Books
<1>4. /\ d \in Board /\ UniqueIds(d)
      /\ \A i \in DOMAIN log : log[i].kind = "burned" => Burnt(d, log[i].week)
  BY <1>2, <1>3, ReplayIsBoard
<1>5. \A w \in Weeks :
        Burnt(d, w) => \E i \in DOMAIN log : log[i].kind = "burned" /\ log[i].week = w
  BY <1>2, <1>3, ReplayBurns
<1>6. Books(d, water, log, corrected)
  BY <1>1, <1>4, <1>5 DEF Books
<1>7. ASSUME NEW w \in Weeks, Burnt(board, w) PROVE Burnt(d, w)
  <2>1. PICK i \in DOMAIN log : log[i].kind = "burned" /\ log[i].week = w
    BY <1>1, <1>7 DEF Books
  <2> QED BY <1>4, <2>1
<1>8. AlikeBoards(Replay(log), d)
  BY <1>2 DEF AlikeBoards, AlikeRow
<1>9. stale \/ Match(d, water, log)
  BY <1>1, <1>8 DEF Match
<1> QED BY <1>1, <1>2, <1>6, <1>7, <1>9

LEMMA StepKeepsEconomy ==
  ASSUME CInv, EconomyInv, [Next]_vars
  PROVE  /\ EconomyInv'
         /\ \A w \in Weeks : Burnt(board, w) => Burnt(board', w)
<1> USE DEF EconomyInv
<1>1. CASE RunStart
  <2>1. /\ run' = Ses(board, board, water, log, corrected)
        /\ UNCHANGED <<board, water, log, corrected, ask, douses, stale>>
    BY <1>1 DEF RunStart, Ses
  <2>2. /\ run'.board = board /\ run'.sql = board /\ run'.water = water /\ run'.log = log
        /\ run'.corrected = corrected /\ IsSession(run')
    BY <2>1, SesFields
  <2>3. board \in Board /\ SameRows(board, board)
    BY DEF Books, SameRows
  <2>4. SessionOK(run', board')
    BY <2>1, <2>2, <2>3 DEF SessionOK
  <2>5. (stale \/ Match(run.board, run.water, run.log))'
    BY <2>1, <2>2
  <2> QED BY <2>1, <2>4, <2>5
<1>2. ASSUME NEW c \in Corrections, NEW valid \in BOOLEAN, Correct(c, valid)
      PROVE  /\ EconomyInv'
             /\ \A w \in Weeks : Burnt(board, w) => Burnt(board', w)
  <2>1. /\ SessionOK(run', board) /\ (stale \/ Match(run'.board, run'.water, run'.log))
    BY <1>2, CorrectSound
  <2>2. UNCHANGED <<board, water, log, corrected, ask, douses, stale>>
    BY <1>2 DEF Correct
  <2> QED BY <2>1, <2>2
<1>3. CASE RunCommit
  <2>1. /\ run # NoRun /\ run' = NoRun /\ board' = run.board /\ water' = run.water
        /\ log' = run.log /\ corrected' = run.corrected
        /\ UNCHANGED <<ask, douses, stale>>
    BY <1>3 DEF RunCommit
  <2>2. /\ Books(run.board, run.water, run.log, run.corrected)
        /\ stale \/ Match(run.board, run.water, run.log)
        /\ \A w \in Weeks : Burnt(board, w) => Burnt(run.board, w)
    BY <2>1 DEF SessionOK
  <2> QED BY <2>1, <2>2
<1>4. CASE RunDies
  BY <1>4 DEF RunDies
<1>5. ASSUME NEW r \in Edits, AwardWater(r)
      PROVE  /\ EconomyInv'
             /\ \A w \in Weeks : Burnt(board, w) => Burnt(board', w)
  <2>1. Books(board', water', log', corrected') /\ (stale' \/ Match(board', water', log'))
    BY <1>5, AwardSound
  <2>2. run = NoRun /\ UNCHANGED <<board, corrected, run, ask, douses, stale>>
    BY <1>5 DEF AwardWater
  <2> QED BY <2>1, <2>2
<1>6. ASSUME NEW w \in Weeks, NEW units \in 1 .. Capacity, SpendRead(w, units)
      PROVE  /\ EconomyInv'
             /\ \A v \in Weeks : Burnt(board, v) => Burnt(board', v)
  <2>1. /\ board[w] # NoRow /\ Spendable(w, units) > 0 /\ douses < MaxDouses
        /\ UNCHANGED <<board, water, log, corrected, run, stale>> /\ douses' = douses + 1
    BY <1>6 DEF SpendRead
  <2>2. PICK n, at : /\ n = Spendable(w, units)
                     /\ at = IF run = NoRun THEN Len(log) ELSE Len(run.log)
    OBVIOUS
  <2>3. ask' = [week |-> w, id |-> board[w].id, units |-> n, water |-> water,
                flames |-> board[w].flames, at |-> at]
    BY <1>6, <2>2, Zenon DEF SpendRead
  <2>4. board \in Board /\ water \in 0..Capacity /\ log \in Seq(Event) /\ Capacity \in Nat
    BY WeekFireConstants DEF Books
  <2>5. board[w].id \in Nat /\ board[w].flames \in Nat
    BY <2>1, <2>4, RowFields
  <2>6. n \in Nat /\ n <= water /\ n <= board[w].flames
    <3>1. n = Lesser(units, Lesser(water, board[w].flames)) /\ n > 0
      BY <2>1, <2>2 DEF Spendable
    <3> QED BY <2>4, <2>5, <3>1 DEF Lesser
  <2>7. at \in Nat
    <3>1. run # NoRun => run.log \in Seq(Event)
      BY DEF SessionOK, Books
    <3> QED BY <2>2, <2>4, <3>1
  <2>8. AskOK(ask')
    BY <2>3, <2>4, <2>5, <2>6, <2>7 DEF AskOK
  <2>9. douses' \in 0..MaxDouses
    BY <2>1, WeekFireConstants
  <2> QED BY <2>1, <2>8, <2>9
<1>7. CASE SpendWrite
  <2>1. /\ Books(board', water', log', corrected')
        /\ stale' \/ Match(board', water', log')
        /\ \A w \in Weeks : Burnt(board, w) => Burnt(board', w)
        /\ stale' \in BOOLEAN
    BY <1>7, SpendSound
  <2>2. run = NoRun /\ ask' = NoAsk /\ UNCHANGED <<corrected, run, douses>>
    BY <1>7 DEF SpendWrite
  <2> QED BY <2>1, <2>2
<1>8. CASE SpendFails
  BY <1>8 DEF SpendFails
<1>9. CASE Rebuild
  <2>1. /\ Books(board', water', log', corrected')
        /\ stale' \/ Match(board', water', log')
        /\ \A w \in Weeks : Burnt(board, w) => Burnt(board', w)
    BY <1>9, RebuildSound
  <2>2. run = NoRun /\ UNCHANGED <<run, ask, douses, stale>>
    BY <1>9 DEF Rebuild
  <2> QED BY <2>1, <2>2
<1>10. CASE Recompute
  <2>1. /\ run = NoRun /\ water' = Refill(log)
        /\ UNCHANGED <<board, log, corrected, run, ask, douses, stale>>
    BY <1>10 DEF Recompute
  <2>2. Refill(log) \in 0..Capacity
    <3>1. log \in Seq(Event)
      BY DEF Books
    <3>2. PICK h : IsRefill(h, log) /\ h[Len(log)] = Refill(log)
      BY <3>1, RefillRuns
    <3> QED BY <3>1, <3>2 DEF IsRefill
  <2>3. Books(board, Refill(log), log, corrected)
    BY <2>2 DEF Books
  <2>4. stale \/ Match(board, Refill(log), log)
    BY DEF Match
  <2> QED BY <2>1, <2>3, <2>4
<1>11. CASE UNCHANGED vars
  BY <1>11 DEF vars
<1> QED
  BY <1>1, <1>2, <1>3, <1>4, <1>5, <1>6, <1>7, <1>8, <1>9, <1>10, <1>11 DEF Next

LEMMA NothingYet == Init => EconomyInv
<1> SUFFICES ASSUME Init PROVE EconomyInv
  OBVIOUS
<1>1. /\ board = NoWeeks /\ water = 0 /\ log = <<>> /\ corrected = {}
      /\ run = NoRun /\ ask = NoAsk /\ douses = 0 /\ stale = FALSE
  BY Zenon DEF Init
<1>2. board \in Board /\ Kept(board) = {}
  BY <1>1 DEF NoWeeks, Board, Kept
<1>3. UniqueIds(board) /\ \A w \in Weeks : ~ Burnt(board, w)
  BY <1>2 DEF UniqueIds, Kept, Burnt
<1>4. log \in Seq(Event) /\ Len(log) = 0 /\ DOMAIN log = {}
  BY <1>1
<1>5. Books(board, water, log, corrected)
  BY <1>1, <1>2, <1>3, <1>4, WeekFireConstants DEF Books, WasForced
<1>6. Replay(log) = NoWeeks
  <2>1. PICK h : IsReplay(h, log) /\ h[Len(log)] = Replay(log)
    BY <1>4, ReplayRuns
  <2> QED BY <1>4, <2>1 DEF IsReplay
<1>7. Refill(log) = water
  BY <1>1, RefillEmpty
<1>8. Match(board, water, log)
  BY <1>1, <1>6, <1>7 DEF Match, AlikeBoards, AlikeRow
<1>9. douses \in 0..MaxDouses
  BY <1>1, WeekFireConstants
<1> QED BY <1>1, <1>5, <1>8, <1>9 DEF EconomyInv

LEMMA EconomyHolds == Spec => [](CInv /\ EconomyInv)
<1>1. Init => CInv /\ EconomyInv
  BY NothingCharged, NothingYet
<1>2. CInv /\ EconomyInv /\ [Next]_vars => (CInv /\ EconomyInv)'
  BY StepKeepsCharges, StepKeepsEconomy
<1> QED BY <1>1, <1>2, PTL DEF Spec

\* The droplets stay within the capacity, in the tables and in a run, and
\* everything has its type.
THEOREM EconomyTypes == Spec => []TypeOK
<1>1. EconomyInv => TypeOK
  <2> SUFFICES ASSUME EconomyInv PROVE TypeOK
    OBVIOUS
  <2>1. /\ board \in Board /\ water \in 0 .. Capacity /\ log \in Seq(Event)
        /\ corrected \in SUBSET Corrections /\ douses \in 0 .. MaxDouses /\ stale \in BOOLEAN
    BY DEF EconomyInv, Books
  <2>2. run \in Session \cup {NoRun}
    <3> SUFFICES ASSUME run # NoRun PROVE run \in Session
      OBVIOUS
    <3>1. /\ IsSession(run) /\ run.board \in Board /\ run.sql \in Board
          /\ run.water \in 0..Capacity /\ run.log \in Seq(Event)
          /\ run.corrected \in SUBSET Corrections
      BY DEF EconomyInv, SessionOK, Books
    <3>2. run.water \in Nat
      BY <3>1, WeekFireConstants
    <3> QED BY <3>1, <3>2 DEF IsSession, Ses, Session
  <2>3. ask \in [week : Weeks, id : Nat, units : Nat, water : 0 .. Capacity,
                 flames : Nat, at : Nat] \cup {NoAsk}
    BY DEF EconomyInv, AskOK
  <2> QED BY <2>1, <2>2, <2>3 DEF TypeOK
<1> QED BY <1>1, EconomyHolds, PTL

\* Recomputing the droplets from the history gives the droplets at hand, caps
\* and forced douses included (correctness.py:478-534).
THEOREM RefillAgrees == Spec => []RecomputeParity
<1>1. EconomyInv => RecomputeParity
  BY DEF EconomyInv, Match, RecomputeParity
<1> QED BY <1>1, EconomyHolds, PTL

\* A rebuild shows the board that live accrual made (game.py:526-529).
THEOREM ReplayAgrees == Spec => []RebuildParity
<1>1. EconomyInv => RebuildParity
  <2> SUFFICES ASSUME EconomyInv, ~ stale PROVE Shown(Replay(log)) = Shown(board)
    BY DEF RebuildParity
  <2>1. board \in Board /\ log \in Seq(Event) /\ AlikeBoards(Replay(log), board)
    BY DEF EconomyInv, Books, Match
  <2>2. PICK d : d = Replay(log)
    OBVIOUS
  <2>3. d \in Board
    BY <2>1, <2>2, ReplayIsBoard
  <2> QED BY <2>1, <2>2, <2>3, ShownAlike
<1> QED BY <1>1, EconomyHolds, PTL

\* Ash stays ash: through later flames, douses, dead runs and rebuilds a burnt
\* week is burnt (correctness.py:118).
THEOREM AshStays == Spec => BurntForGood
<1>1. CInv /\ EconomyInv /\ [Next]_vars
        => [\A w \in Weeks : board[w] # NoRow /\ board[w].burnt
                               => board'[w] # NoRow /\ board'[w].burnt]_vars
  <2> SUFFICES ASSUME CInv, EconomyInv, [Next]_vars
               PROVE  \A w \in Weeks : board[w] # NoRow /\ board[w].burnt
                                         => board'[w] # NoRow /\ board'[w].burnt
    OBVIOUS
  <2>1. \A w \in Weeks : Burnt(board, w) => Burnt(board', w)
    BY StepKeepsEconomy
  <2> QED BY <2>1 DEF Burnt
<1> QED BY <1>1, EconomyHolds, PTL DEF Spec, BurntForGood
=============================================================================
