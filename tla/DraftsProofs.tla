---------------------------- MODULE DraftsProofs ----------------------------
(***************************************************************************)
(* Proofs about Drafts, for any readings, structures and bounds.           *)
(*                                                                         *)
(* First what Allocation computes: that the shares of any weights add up   *)
(* to the target and are fair to the cent, and that every workspace it     *)
(* makes has the lanes of its payload.  The sums, the greedy assignment    *)
(* and the choices of the library are folds and CHOOSEs, so each starts    *)
(* from a proof that what they choose exists.  Then two invariants: Inv,   *)
(* what locks, versions and the snapshot say, and on top of it Boards,     *)
(* what a draft holds.                                                     *)
(***************************************************************************)
EXTENDS Drafts, SequenceTheorems, FiniteSetTheorems, WellFoundedInduction, TLAPS

(* Payloads *)

IsPayload(p) == p = [total |-> p.total, date |-> p.date, splits |-> p.splits]

LEMMA MadePayload ==
  ASSUME NEW a, NEW b, NEW c
  PROVE  LET p == [total |-> a, date |-> b, splits |-> c]
         IN  IsPayload(p) /\ p.total = a /\ p.date = b /\ p.splits = c
BY DEF IsPayload

\* The locks take date and total from the twin and leave the splits.
LEMMA LockedPayload ==
  ASSUME NEW p, IsPayload(p), NEW t, t.dateOk \in BOOLEAN, t.totalOk \in BOOLEAN
  PROVE  /\ IsPayload(Locked(p, t))
         /\ t.dateOk => Locked(p, t).date = t.date
         /\ t.totalOk => Locked(p, t).total = t.total
         /\ ~ t.dateOk => Locked(p, t).date = p.date
         /\ ~ t.totalOk => Locked(p, t).total = p.total
         /\ Locked(p, t).splits = p.splits
<1>1. PICK a, b, c : p = [total |-> a, date |-> b, splits |-> c]
  BY DEF IsPayload
<1>2. PICK d : d = IF t.dateOk THEN t.date ELSE b
  OBVIOUS
<1>3. PICK n : n = IF t.totalOk THEN t.total ELSE a
  OBVIOUS
<1>4. Locked(p, t) = [p EXCEPT !.date = d, !.total = n]
  BY <1>1, <1>2, <1>3 DEF Locked
<1>5. [p EXCEPT !.date = d, !.total = n] = [total |-> n, date |-> d, splits |-> c]
  <2>1. PICK q : q = [p EXCEPT !.date = d]
    OBVIOUS
  <2>2. q = [total |-> a, date |-> d, splits |-> c]
    BY <1>1, <2>1
  <2>3. [q EXCEPT !.total = n] = [total |-> n, date |-> d, splits |-> c]
    BY <2>2
  <2>4. [p EXCEPT !.date = d, !.total = n] = [q EXCEPT !.total = n]
    BY <2>1
  <2>5. QED
    BY <2>3, <2>4
<1>6. QED
  BY <1>1, <1>2, <1>3, <1>4, <1>5, MadePayload

LEMMA WithSplits ==
  ASSUME NEW p, IsPayload(p), NEW s
  PROVE  /\ IsPayload([p EXCEPT !.splits = s])
         /\ [p EXCEPT !.splits = s].total = p.total
         /\ [p EXCEPT !.splits = s].date = p.date
         /\ [p EXCEPT !.splits = s].splits = s
<1>1. PICK a, b, c : p = [total |-> a, date |-> b, splits |-> c]
  BY DEF IsPayload
<1>2. [p EXCEPT !.splits = s] = [total |-> a, date |-> b, splits |-> s]
  BY <1>1
<1>3. QED
  BY <1>1, <1>2, MadePayload

LEMMA RecomputedPayload ==
  ASSUME NEW p, IsPayload(p), NEW ws, NEW keepPins
  PROVE  IsPayload(Recomputed(p, ws, keepPins))
<1>1. PICK s : Recomputed(p, ws, keepPins) = p
               \/ Recomputed(p, ws, keepPins) = [p EXCEPT !.splits = s]
  BY DEF Recomputed
<1>2. QED
  BY <1>1, WithSplits


-----------------------------------------------------------------------------
(* Induction *)

LEMMA NatLeast ==
  ASSUME NEW T, T \subseteq Nat, T # {}
  PROVE  \E x \in T : \A y \in T : ~ (y < x)
<1>1. PICK x \in T : \A y \in T : <<y, x>> \notin OpToRel(<, Nat)
  BY NatLessThanWellFounded, WFMin
<1>2. \A y \in T : ~ (y < x)
  <2> TAKE y \in T
  <2>1. <<y, x>> \notin OpToRel(<, Nat)
    BY <1>1
  <2> QED BY <2>1 DEF OpToRel
<1> QED BY <1>2

LEMMA SetInduction ==
  ASSUME NEW S, 0 \in S, \A n \in Nat : n \in S => n + 1 \in S
  PROVE  Nat \subseteq S
<1> SUFFICES ASSUME Nat \ S # {} PROVE FALSE
  OBVIOUS
<1>1. PICK x \in Nat \ S : \A y \in Nat \ S : ~ (y < x)
  BY NatLeast
<1>2. x # 0 /\ x - 1 \in Nat
  BY <1>1
<1>3. x - 1 \in S
  BY <1>1, <1>2
<1> QED BY <1>1, <1>2, <1>3

LEMMA OneLess ==
  ASSUME NEW T, IsFiniteSet(T), NEW n \in Nat, Cardinality(T) = n + 1, NEW x \in T
  PROVE  Cardinality(T \ {x}) = n
<1>1. Cardinality(T \ {x}) = Cardinality(T) - 1
  BY FS_RemoveElement
<1> QED BY <1>1

LEMMA FiniteInduction ==
  ASSUME NEW S, IsFiniteSet(S), NEW Q, {} \in Q,
         \A T \in SUBSET S : T \in Q => \A x \in S \ T : T \cup {x} \in Q
  PROVE  S \in Q
<1> DEFINE N == {n \in Nat : \A T \in SUBSET S : Cardinality(T) = n => T \in Q}
<1>1. 0 \in N
  BY FS_Subset, FS_EmptySet
<1>2. ASSUME NEW n \in Nat, n \in N PROVE n + 1 \in N
  <2> SUFFICES ASSUME NEW T \in SUBSET S, Cardinality(T) = n + 1 PROVE T \in Q
    OBVIOUS
  <2>1. IsFiniteSet(T)
    BY FS_Subset
  <2>2. PICK x \in T : TRUE
    BY FS_EmptySet
  <2>3. Cardinality(T \ {x}) = n
    BY <2>1, OneLess
  <2>4. T \ {x} \in Q
    BY <1>2, <2>3
  <2>5. T = (T \ {x}) \cup {x} /\ x \in S \ (T \ {x})
    OBVIOUS
  <2> QED BY <2>4, <2>5
<1>3. Nat \subseteq N
  <2> HIDE DEF N
  <2> QED BY <1>1, <1>2, SetInduction
<1> QED BY <1>3, FS_CardinalityType

-----------------------------------------------------------------------------
(* Sums *)

(* G gives the sum of g over each subset of S. *)
IsSum(G, g, S) ==
  /\ G \in [SUBSET S -> Int]
  /\ G[{}] = 0
  /\ \A T \in SUBSET S : \A x \in S \ T : G[T \cup {x}] = G[T] + g[x]

LEMMA SumExists ==
  ASSUME NEW S, IsFiniteSet(S), NEW g \in [S -> Int]
  PROVE  \E G : IsSum(G, g, S)
<1> DEFINE Q == {T \in SUBSET S : \E G : IsSum(G, g, T)}
<1>1. {} \in Q
  <2> DEFINE G == [T \in SUBSET {} |-> 0]
  <2>1. IsSum(G, g, {})
    BY DEF IsSum
  <2> QED BY <2>1
<1>2. ASSUME NEW T \in SUBSET S, T \in Q, NEW x \in S \ T PROVE T \cup {x} \in Q
  <2>1. PICK G : IsSum(G, g, T)
    BY <1>2
  <2> DEFINE H == [U \in SUBSET (T \cup {x}) |->
                     IF x \in U THEN G[U \ {x}] + g[x] ELSE G[U]]
  <2>2. \A U \in SUBSET (T \cup {x}) : U \ {x} \in SUBSET T /\ (x \notin U => U \in SUBSET T)
    OBVIOUS
  <2>3. g[x] \in Int /\ \A U \in SUBSET T : G[U] \in Int
    BY <2>1 DEF IsSum
  <2>4. H \in [SUBSET (T \cup {x}) -> Int]
    BY <2>2, <2>3
  <2>5. H[{}] = 0
    BY <2>1 DEF IsSum
  <2>6. ASSUME NEW U \in SUBSET (T \cup {x}), NEW y \in (T \cup {x}) \ U
        PROVE  H[U \cup {y}] = H[U] + g[y]
    <3>1. CASE y = x
      <4>1. (U \cup {y}) \ {x} = U /\ x \notin U
        BY <3>1, <2>6
      <4> QED BY <4>1, <3>1
    <3>2. CASE y # x /\ x \in U
      <4>1. (U \cup {y}) \ {x} = (U \ {x}) \cup {y} /\ y \in T \ (U \ {x}) /\ U \ {x} \in SUBSET T
        BY <3>2, <2>6
      <4>2. G[(U \ {x}) \cup {y}] = G[U \ {x}] + g[y]
        BY <4>1, <2>1 DEF IsSum
      <4>3. g[y] \in Int /\ G[U \ {x}] \in Int
        BY <4>1, <2>3
      <4>4. H[U \cup {y}] = G[(U \ {x}) \cup {y}] + g[x] /\ H[U] = G[U \ {x}] + g[x]
        BY <4>1, <3>2
      <4> HIDE DEF H
      <4> QED BY <4>2, <4>3, <4>4, <2>3
    <3>3. CASE y # x /\ x \notin U
      <4>1. U \in SUBSET T /\ y \in T \ U
        BY <3>3, <2>6
      <4>2. G[U \cup {y}] = G[U] + g[y]
        BY <4>1, <2>1 DEF IsSum
      <4> QED BY <4>1, <4>2, <3>3
    <3> QED BY <3>1, <3>2, <3>3
  <2>7. IsSum(H, g, T \cup {x})
    <3> HIDE DEF H
    <3> QED BY <2>4, <2>5, <2>6 DEF IsSum
  <2> QED BY <2>7
<1>3. S \in Q
  <2> HIDE DEF Q
  <2> QED BY <1>1, <1>2, FiniteInduction
<1> QED BY <1>3

Picked(s) == CHOOSE x \in s : TRUE

(* The equation of the library's fold has the sum as its one solution. *)
Iterates(it, g, S) ==
  it = [s \in SUBSET S |-> IF s = {} THEN 0 ELSE g[Picked(s)] + it[s \ {Picked(s)}]]

LEMMA SumIterates ==
  ASSUME NEW S, NEW g \in [S -> Int], NEW G, IsSum(G, g, S)
  PROVE  Iterates(G, g, S)
<1>1. ASSUME NEW s \in SUBSET S, s # {} PROVE G[s] = g[Picked(s)] + G[s \ {Picked(s)}]
  <2>1. Picked(s) \in s
    BY <1>1 DEF Picked
  <2>2. s = (s \ {Picked(s)}) \cup {Picked(s)}
    BY <2>1
  <2>3. G[s] = G[s \ {Picked(s)}] + g[Picked(s)]
    BY <2>1, <2>2 DEF IsSum
  <2>4. G[s \ {Picked(s)}] \in Int /\ g[Picked(s)] \in Int
    BY <2>1 DEF IsSum
  <2> QED BY <2>3, <2>4
<1>2. G = [s \in SUBSET S |-> G[s]] /\ G[{}] = 0
  BY DEF IsSum
<1> QED BY <1>1, <1>2 DEF Iterates

LEMMA IteratesSum ==
  ASSUME NEW S, IsFiniteSet(S), NEW g \in [S -> Int], NEW G, IsSum(G, g, S),
         NEW it, Iterates(it, g, S)
  PROVE  it[S] = G[S]
<1> DEFINE N == {n \in Nat : \A T \in SUBSET S : Cardinality(T) = n => it[T] = G[T]}
<1>0. Iterates(G, g, S)
  BY SumIterates
<1>1. 0 \in N
  <2>1. it[{}] = G[{}]
    BY <1>0 DEF Iterates
  <2> QED BY <2>1, FS_Subset, FS_EmptySet
<1>2. ASSUME NEW n \in Nat, n \in N PROVE n + 1 \in N
  <2> SUFFICES ASSUME NEW T \in SUBSET S, Cardinality(T) = n + 1 PROVE it[T] = G[T]
    OBVIOUS
  <2>1. IsFiniteSet(T) /\ T # {}
    BY FS_Subset, FS_EmptySet
  <2>2. Picked(T) \in T
    BY <2>1 DEF Picked
  <2>3. Cardinality(T \ {Picked(T)}) = n
    BY <2>1, <2>2, OneLess
  <2>4. it[T \ {Picked(T)}] = G[T \ {Picked(T)}]
    BY <1>2, <2>3
  <2> QED BY <2>1, <2>4, <1>0 DEF Iterates
<1>3. Nat \subseteq N
  <2> HIDE DEF N
  <2> QED BY <1>1, <1>2, SetInduction
<1> QED BY <1>3, FS_CardinalityType

LEMMA TotalIsSum ==
  ASSUME NEW S, IsFiniteSet(S), NEW g \in [S -> Int]
  PROVE  \E G : IsSum(G, g, S) /\ G[S] = Total(g)
<1> DEFINE Eq(it) == it = [s \in SUBSET S |->
               IF s = {} THEN 0
               ELSE g[CHOOSE x \in s : TRUE] + it[s \ {CHOOSE x \in s : TRUE}]]
<1>1. PICK G : IsSum(G, g, S)
  BY SumExists
<1>2. \A it : Iterates(it, g, S) <=> Eq(it)
  BY DEF Iterates, Picked
<1>3. Eq(G)
  BY <1>1, <1>2, SumIterates
<1>4. PICK it : it = CHOOSE i : Eq(i)
  OBVIOUS
<1>5. Eq(it)
  <2> HIDE DEF Eq
  <2> QED BY <1>3, <1>4
<1>6. Total(g) = it[S]
  <2>1. DOMAIN g = S
    OBVIOUS
  <2>2. Total(g) = it[DOMAIN g]
    BY <1>4, <2>1, Zenon DEF Total, SumFunction, SumFunctionOnSet, FoldFunctionOnSet, MapThenFoldSet
  <2> QED BY <2>1, <2>2
<1>7. it[S] = G[S]
  <2>1. Iterates(it, g, S)
    BY <1>2, <1>5
  <2> HIDE DEF Eq
  <2> QED BY <1>1, <2>1, IteratesSum
<1> QED BY <1>1, <1>6, <1>7

LEMMA TotalType ==
  ASSUME NEW S, IsFiniteSet(S), NEW g \in [S -> Int]
  PROVE  Total(g) \in Int
<1>1. PICK G : IsSum(G, g, S) /\ G[S] = Total(g)
  BY TotalIsSum
<1> QED BY <1>1 DEF IsSum

\* f adds g and h up, h is c times g, g marks the elements of E.
Adds(f, g, h, S)   == \A x \in S : f[x] = g[x] + h[x]
Scales(h, c, g, S) == \A x \in S : h[x] = c * g[x]
Marks(g, E, S)     == \A x \in S : g[x] = IF x \in E THEN 1 ELSE 0

LEMMA TotalAdds ==
  ASSUME NEW S, IsFiniteSet(S), NEW f \in [S -> Int], NEW g \in [S -> Int], NEW h \in [S -> Int],
         Adds(f, g, h, S)
  PROVE  Total(f) = Total(g) + Total(h)
<1>1. PICK F : IsSum(F, f, S) /\ F[S] = Total(f)
  BY TotalIsSum
<1>2. PICK G : IsSum(G, g, S) /\ G[S] = Total(g)
  BY TotalIsSum
<1>3. PICK H : IsSum(H, h, S) /\ H[S] = Total(h)
  BY TotalIsSum
<1> DEFINE Q == {U \in SUBSET S : F[U] = G[U] + H[U]}
<1>4. {} \in Q
  BY <1>1, <1>2, <1>3 DEF IsSum
<1>5. ASSUME NEW U \in SUBSET S, U \in Q, NEW x \in S \ U PROVE U \cup {x} \in Q
  <2>1. /\ F[U \cup {x}] = F[U] + f[x]
        /\ G[U \cup {x}] = G[U] + g[x] /\ H[U \cup {x}] = H[U] + h[x]
        /\ F[U] \in Int /\ G[U] \in Int /\ H[U] \in Int
    BY <1>1, <1>2, <1>3 DEF IsSum
  <2>2. f[x] \in Int /\ g[x] \in Int /\ h[x] \in Int /\ f[x] = g[x] + h[x]
    BY DEF Adds
  <2>3. F[U] = G[U] + H[U]
    BY <1>5
  <2> QED BY <2>1, <2>2, <2>3
<1>6. S \in Q
  <2> HIDE DEF Q
  <2> QED BY <1>4, <1>5, FiniteInduction
<1> QED BY <1>1, <1>2, <1>3, <1>6

LEMMA TotalScaled ==
  ASSUME NEW S, IsFiniteSet(S), NEW g \in [S -> Int], NEW h \in [S -> Int], NEW c \in Int,
         Scales(h, c, g, S)
  PROVE  Total(h) = c * Total(g)
<1>1. PICK G : IsSum(G, g, S) /\ G[S] = Total(g)
  BY TotalIsSum
<1>2. PICK H : IsSum(H, h, S) /\ H[S] = Total(h)
  BY TotalIsSum
<1> DEFINE Q == {U \in SUBSET S : H[U] = c * G[U]}
<1>3. {} \in Q
  BY <1>1, <1>2 DEF IsSum
<1>4. ASSUME NEW U \in SUBSET S, U \in Q, NEW x \in S \ U PROVE U \cup {x} \in Q
  <2>1. /\ G[U \cup {x}] = G[U] + g[x] /\ H[U \cup {x}] = H[U] + h[x]
        /\ G[U] \in Int /\ H[U] \in Int
    BY <1>1, <1>2 DEF IsSum
  <2>2. g[x] \in Int /\ h[x] = c * g[x] /\ H[U] = c * G[U]
    BY <1>4 DEF Scales
  <2>3. \A a \in Int, b \in Int : c * a + c * b = c * (a + b)
    OBVIOUS
  <2>4. H[U \cup {x}] = c * G[U \cup {x}]
    BY <2>1, <2>2, <2>3
  <2> QED BY <2>4
<1>5. S \in Q
  <2> HIDE DEF Q
  <2> QED BY <1>3, <1>4, FiniteInduction
<1> QED BY <1>1, <1>2, <1>5

LEMMA TotalMonotone ==
  ASSUME NEW S, IsFiniteSet(S), NEW g \in [S -> Int], NEW h \in [S -> Int],
         \A x \in S : g[x] <= h[x]
  PROVE  Total(g) <= Total(h)
<1>1. PICK G : IsSum(G, g, S) /\ G[S] = Total(g)
  BY TotalIsSum
<1>2. PICK H : IsSum(H, h, S) /\ H[S] = Total(h)
  BY TotalIsSum
<1> DEFINE Q == {U \in SUBSET S : G[U] <= H[U]}
<1>3. {} \in Q
  BY <1>1, <1>2 DEF IsSum
<1>4. ASSUME NEW U \in SUBSET S, U \in Q, NEW x \in S \ U PROVE U \cup {x} \in Q
  <2>1. /\ G[U \cup {x}] = G[U] + g[x] /\ H[U \cup {x}] = H[U] + h[x]
        /\ G[U] \in Int /\ H[U] \in Int
    BY <1>1, <1>2 DEF IsSum
  <2>2. g[x] \in Int /\ h[x] \in Int /\ g[x] <= h[x] /\ G[U] <= H[U]
    BY <1>4
  <2> QED BY <2>1, <2>2
<1>5. S \in Q
  <2> HIDE DEF Q
  <2> QED BY <1>3, <1>4, FiniteInduction
<1> QED BY <1>1, <1>2, <1>5

LEMMA TotalCounts ==
  ASSUME NEW S, IsFiniteSet(S), NEW E \in SUBSET S, NEW g \in [S -> Int],
         Marks(g, E, S)
  PROVE  Total(g) = Cardinality(E)
<1>1. PICK G : IsSum(G, g, S) /\ G[S] = Total(g)
  BY TotalIsSum
<1> DEFINE Q == {U \in SUBSET S : G[U] = Cardinality(U \cap E)}
<1>2. {} \in Q
  BY <1>1, FS_EmptySet DEF IsSum
<1>3. ASSUME NEW U \in SUBSET S, U \in Q, NEW x \in S \ U PROVE U \cup {x} \in Q
  <2>1. G[U \cup {x}] = G[U] + g[x] /\ G[U] \in Int
    BY <1>1 DEF IsSum
  <2>2. IsFiniteSet(U \cap E) /\ G[U] = Cardinality(U \cap E)
    BY <1>3, FS_Subset
  <2>3. CASE x \in E
    <3>1. (U \cup {x}) \cap E = (U \cap E) \cup {x} /\ x \notin U \cap E
      BY <2>3
    <3>2. Cardinality((U \cap E) \cup {x}) = Cardinality(U \cap E) + 1
      BY <2>2, <3>1, FS_AddElement
    <3>3. g[x] = 1
      BY <2>3 DEF Marks
    <3> QED BY <2>1, <2>2, <3>1, <3>2, <3>3
  <2>4. CASE x \notin E
    <3>1. (U \cup {x}) \cap E = U \cap E
      BY <2>4
    <3>2. g[x] = 0
      BY <2>4 DEF Marks
    <3>3. G[U \cup {x}] = G[U]
      BY <2>1, <3>2
    <3> QED BY <2>2, <3>1, <3>3
  <2> QED BY <2>3, <2>4
<1>4. S \in Q
  <2> HIDE DEF Q
  <2> QED BY <1>2, <1>3, FiniteInduction
<1>5. S \cap E = E
  OBVIOUS
<1> QED BY <1>1, <1>4, <1>5

LEMMA TotalNat ==
  ASSUME NEW S, IsFiniteSet(S), NEW g \in [S -> Nat]
  PROVE  Total(g) \in Nat /\ \A x \in S : Total(g) >= g[x]
<1> DEFINE zero == [x \in S |-> 0]
<1>1. Total(zero) = 0
  <2>1. zero \in [S -> Int] /\ Marks(zero, {}, S)
    BY DEF Marks
  <2>2. Total(zero) = Cardinality({})
    BY <2>1, TotalCounts
  <2> QED BY <2>2, FS_EmptySet
<1>2. Total(g) >= 0 /\ Total(g) \in Int
  <2>1. Total(zero) <= Total(g)
    BY TotalMonotone
  <2> QED BY <1>1, <2>1, TotalType
<1>3. ASSUME NEW x \in S PROVE Total(g) >= g[x]
  <2> DEFINE one == [y \in S |-> IF y \in {x} THEN 1 ELSE 0]
             just == [y \in S |-> IF y \in {x} THEN g[x] ELSE 0]
  <2>1. Total(one) = 1
    <3>1. one \in [S -> Int] /\ Marks(one, {x}, S)
      BY DEF Marks
    <3> HIDE DEF one
    <3>2. Total(one) = Cardinality({x})
      BY <3>1, TotalCounts
    <3> QED BY <3>2, FS_Singleton
  <2>2. Total(just) = g[x] * Total(one)
    <3>1. Scales(just, g[x], one, S)
      BY DEF Scales
    <3>2. just \in [S -> Int] /\ one \in [S -> Int]
      OBVIOUS
    <3> HIDE DEF just, one
    <3> QED BY <3>1, <3>2, TotalScaled
  <2>3. Total(just) <= Total(g)
    <3>1. just \in [S -> Int] /\ \A y \in S : just[y] <= g[y]
      OBVIOUS
    <3> HIDE DEF just
    <3> QED BY <3>1, TotalMonotone
  <2> QED BY <2>1, <2>2, <2>3
<1> QED BY <1>2, <1>3

-----------------------------------------------------------------------------
(* Orders *)

\* R ranks any two elements of S one before the other.
Ranks(R, S) ==
  /\ \A x \in S : <<x, x>> \notin R
  /\ \A x, y \in S : x # y => <<x, y>> \in R \/ <<y, x>> \in R
  /\ \A x, y, z \in S : <<x, y>> \in R /\ <<y, z>> \in R => <<x, z>> \in R

LEMMA LastThereIs ==
  ASSUME NEW S, IsFiniteSet(S), S # {}, NEW R, Ranks(R, S)
  PROVE  \E j \in S : \A i \in S \ {j} : <<i, j>> \in R
<1> DEFINE Q == {T \in SUBSET S : T = {} \/ \E j \in T : \A i \in T \ {j} : <<i, j>> \in R}
<1>1. {} \in Q
  OBVIOUS
<1>2. ASSUME NEW T \in SUBSET S, T \in Q, NEW x \in S \ T PROVE T \cup {x} \in Q
  <2>1. CASE T = {}
    BY <2>1
  <2>2. CASE T # {}
    <3>1. PICK j \in T : \A i \in T \ {j} : <<i, j>> \in R
      BY <1>2, <2>2
    <3>2. CASE <<x, j>> \in R
      BY <3>1, <3>2
    <3>3. CASE <<j, x>> \in R
      <4>1. \A i \in T : <<i, x>> \in R
        BY <3>1, <3>3 DEF Ranks
      <4> QED BY <4>1
    <3> QED BY <3>2, <3>3 DEF Ranks
  <2> QED BY <2>1, <2>2
<1>3. S \in Q
  <2> HIDE DEF Q
  <2> QED BY <1>1, <1>2, FiniteInduction
<1> QED BY <1>3

\* What comes before an element.
Under(R, S, i) == {j \in S : <<j, i>> \in R}

\* The first n elements are n elements.
LEMMA FirstOnes ==
  ASSUME NEW S, IsFiniteSet(S), NEW R, Ranks(R, S), NEW n \in Nat, n <= Cardinality(S)
  PROVE  Cardinality({i \in S : Cardinality(Under(R, S, i)) < n}) = n
<1> DEFINE First(T, k) == {i \in T : Cardinality(Under(R, T, i)) < k}
           Q == {T \in SUBSET S : \A k \in Nat :
                   k <= Cardinality(T) => Cardinality(First(T, k)) = k}
           M == {m \in Nat : \A T \in SUBSET S : Cardinality(T) = m => T \in Q}
<1>0. \A T \in SUBSET S : IsFiniteSet(T) /\ Cardinality(T) \in Nat
  BY FS_Subset, FS_CardinalityType
<1>1. 0 \in M
  <2> SUFFICES ASSUME NEW T \in SUBSET S, Cardinality(T) = 0, NEW k \in Nat, k <= 0
               PROVE  Cardinality(First(T, k)) = k
    OBVIOUS
  <2>1. T = {}
    BY <1>0, FS_EmptySet
  <2>2. First(T, k) = {}
    BY <2>1
  <2> HIDE DEF First
  <2> QED BY <2>2, FS_EmptySet
<1>2. ASSUME NEW m \in Nat, m \in M PROVE m + 1 \in M
  <2> SUFFICES ASSUME NEW T \in SUBSET S, Cardinality(T) = m + 1, NEW k \in Nat, k <= m + 1
               PROVE  Cardinality(First(T, k)) = k
    OBVIOUS
  <2>1. IsFiniteSet(T) /\ T # {} /\ Ranks(R, T)
    BY <1>0, FS_EmptySet DEF Ranks
  <2>2. PICK j \in T : \A i \in T \ {j} : <<i, j>> \in R
    BY <2>1, LastThereIs
  <2> DEFINE U == T \ {j}
  <2>3. U \in SUBSET S /\ Cardinality(U) = m
    BY <2>1, OneLess
  <2>4. Under(R, T, j) = U
    BY <2>1, <2>2 DEF Under, Ranks
  <2>5. ASSUME NEW i \in U PROVE Under(R, T, i) = Under(R, U, i)
    <3>1. <<j, i>> \notin R
      BY <2>1, <2>2 DEF Ranks
    <3> QED BY <3>1 DEF Under
  <2>6. CASE k <= m
    <3>1. First(T, k) = First(U, k)
      BY <2>3, <2>4, <2>5, <2>6
    <3>2. U \in Q
      BY <1>2, <2>3
    <3> HIDE DEF First, U
    <3> QED BY <2>3, <2>6, <3>1, <3>2
  <2>7. CASE k = m + 1
    <3>1. ASSUME NEW i \in T PROVE Cardinality(Under(R, T, i)) < k
      <4>1. Under(R, T, i) \in SUBSET (T \ {i})
        BY <2>1 DEF Under, Ranks
      <4>2. IsFiniteSet(T \ {i}) /\ Cardinality(T \ {i}) = m
        BY <2>1, OneLess, FS_Subset
      <4>3. Cardinality(Under(R, T, i)) <= m
        BY <4>1, <4>2, FS_Subset
      <4>4. Cardinality(Under(R, T, i)) \in Nat
        BY <1>0, <4>1
      <4> QED BY <2>7, <4>3, <4>4
    <3>2. First(T, k) = T
      BY <3>1
    <3> HIDE DEF First
    <3> QED BY <2>7, <3>2
  <2> QED BY <2>6, <2>7
<1>3. Nat \subseteq M
  <2> HIDE DEF M
  <2> QED BY <1>1, <1>2, SetInduction
<1>4. S \in Q
  BY <1>0, <1>3
<1> QED BY <1>4

-----------------------------------------------------------------------------
(* Shares: the largest remainders get the cents that are left *)

\* The order in which the left cents are given out.
ByRest(rest, S) ==
  {e \in S \X S : rest[e[1]] > rest[e[2]] \/ (rest[e[1]] = rest[e[2]] /\ e[1] < e[2])}

LEMMA LargestAreMany ==
  ASSUME NEW S \in SUBSET Int, IsFiniteSet(S), NEW rest \in [S -> Nat],
         NEW n \in Nat, n <= Cardinality(S)
  PROVE  Cardinality(Largest(rest, n)) = n
<1> DEFINE R == ByRest(rest, S)
<1>1. \A x, y \in S : <<x, y>> \in R <=> rest[x] > rest[y] \/ (rest[x] = rest[y] /\ x < y)
  BY DEF ByRest
<1>2. Ranks(R, S)
  <2>1. \A x \in S : rest[x] \in Nat /\ x \in Int
    OBVIOUS
  <2> HIDE DEF R
  <2> QED BY <1>1, <2>1 DEF Ranks
<1>3. \A i \in S : Under(R, S, i) = {j \in S : rest[j] > rest[i] \/ (rest[j] = rest[i] /\ j < i)}
  <2> HIDE DEF R
  <2> QED BY <1>1 DEF Under
<1> HIDE DEF R
<1>4. Largest(rest, n) = {i \in S : Cardinality(Under(R, S, i)) < n}
  BY <1>3 DEF Largest
<1> QED BY <1>2, <1>4, FirstOnes

\* Division leaves a remainder below the divisor.
LEMMA Division ==
  ASSUME NEW a \in Nat, NEW b \in Nat \ {0}
  PROVE  /\ a \div b \in Nat /\ a % b \in Nat /\ a % b < b
         /\ a = (a \div b) * b + (a % b)
OBVIOUS

\* The weights that a share is taken of.
Given(weights) == IF Total(weights) > 0 THEN weights ELSE [i \in DOMAIN weights |-> 1]

LEMMA GivenWeights ==
  ASSUME NEW S, IsFiniteSet(S), S # {}, NEW weights \in [S -> Nat]
  PROVE  Given(weights) \in [S -> Nat] /\ Total(Given(weights)) \in Nat \ {0}
<1>1. CASE Total(weights) > 0
  BY <1>1, TotalNat DEF Given
<1>2. CASE ~ (Total(weights) > 0)
  <2> DEFINE one == [i \in S |-> 1]
  <2>1. Given(weights) = one
    BY <1>2 DEF Given
  <2>2. one \in [S -> Int] /\ Marks(one, S, S) /\ one \in [S -> Nat]
    BY DEF Marks
  <2> HIDE DEF one
  <2>4. Total(one) = Cardinality(S)
    BY <2>2, TotalCounts
  <2>3. Cardinality(S) \in Nat \ {0}
    BY FS_EmptySet, FS_CardinalityType
  <2> QED BY <2>1, <2>2, <2>3, <2>4
<1> QED BY <1>1, <1>2

\* Each given part of the target, divided by the sum.
Divided(given, target, sum, floor, rest, S) ==
  \A i \in S : target * given[i] = floor[i] * sum + rest[i] /\ rest[i] < sum

\* What is left after the floors is less than the number of those who wait for it.
LEMMA LeftOver ==
  ASSUME NEW S, IsFiniteSet(S), NEW given \in [S -> Nat], NEW target \in Nat,
         NEW sum \in Nat \ {0}, sum = Total(given),
         NEW floor \in [S -> Nat], NEW rest \in [S -> Nat],
         Divided(given, target, sum, floor, rest, S),
         NEW n, n = target - Total(floor),
         NEW P, P = {i \in S : rest[i] > 0}
  PROVE  n \in Nat /\ (n > 0 => Cardinality(P) > n) /\ n <= Cardinality(S)
<1> DEFINE whole == [i \in S |-> target * given[i]]
           part  == [i \in S |-> sum * floor[i]]
           mark  == [i \in S |-> IF i \in P THEN 1 ELSE 0]
           most  == [i \in S |-> (sum - 1) * mark[i]]
<1>0. given \in [S -> Int] /\ floor \in [S -> Int] /\ rest \in [S -> Int]
      /\ target \in Int /\ sum \in Int /\ sum - 1 \in Int
  OBVIOUS
<1>1. /\ whole \in [S -> Int] /\ part \in [S -> Int] /\ mark \in [S -> Int]
      /\ Scales(whole, target, given, S) /\ Scales(part, sum, floor, S) /\ Marks(mark, P, S)
  BY DEF Scales, Marks
<1>2. Adds(whole, part, rest, S)
  <2>1. \A a \in Nat : sum * a = a * sum
    OBVIOUS
  <2>2. \A i \in S : target * given[i] = sum * floor[i] + rest[i]
    BY <2>1 DEF Divided
  <2> QED BY <2>2 DEF Adds
<1>3. most \in [S -> Int] /\ Scales(most, sum - 1, mark, S) /\ \A i \in S : rest[i] <= most[i]
  <2>1. \A i \in S : mark[i] \in {0, 1} /\ (mark[i] = 1 <=> rest[i] > 0) /\ rest[i] < sum
    BY DEF Divided
  <2>2. (sum - 1) * 1 = sum - 1 /\ (sum - 1) * 0 = 0
    OBVIOUS
  <2> HIDE DEF mark
  <2> QED BY <2>1, <2>2 DEF Scales
<1> HIDE DEF whole, part, mark, most
<1>4. Total(whole) = target * sum
  <2>1. Total(whole) = target * Total(given)
    BY <1>0, <1>1, TotalScaled
  <2> QED BY <2>1
<1>5. Total(part) = sum * Total(floor)
  BY <1>0, <1>1, TotalScaled
<1>6. Total(whole) = Total(part) + Total(rest)
  BY <1>0, <1>1, <1>2, TotalAdds
<1>7. Total(rest) <= Total(most) /\ Total(most) = (sum - 1) * Total(mark)
  <2>1. Total(rest) <= Total(most)
    BY <1>0, <1>3, TotalMonotone
  <2>2. Total(most) = (sum - 1) * Total(mark)
    BY <1>0, <1>1, <1>3, TotalScaled
  <2> QED BY <2>1, <2>2
<1>8. Total(mark) = Cardinality(P)
  BY <1>1, TotalCounts
<1>9. Total(floor) \in Nat /\ Total(rest) \in Nat
  BY TotalNat
<1>10. IsFiniteSet(P) /\ Cardinality(P) \in Nat /\ Cardinality(P) <= Cardinality(S)
       /\ Cardinality(S) \in Nat
  BY FS_Subset, FS_CardinalityType
<1>11. n \in Int /\ n * sum = Total(rest)
  <2>1. PICK f \in Nat : f = Total(floor)
    BY <1>9
  <2>2. (target - f) * sum = target * sum - sum * f
    OBVIOUS
  <2>3. target * sum \in Int /\ sum * f \in Int
    OBVIOUS
  <2>4. target * sum = sum * f + Total(rest)
    BY <1>4, <1>5, <1>6, <2>1
  <2>5. Total(rest) = target * sum - sum * f
    BY <1>9, <2>3, <2>4
  <2> QED BY <2>1, <2>2, <2>5
<1>12. n \in Nat
  <2>1. \A k \in Int : k < 0 => k * sum < 0
    OBVIOUS
  <2> QED BY <1>9, <1>11, <2>1
<1>13. n > 0 => Cardinality(P) > n
  <2> SUFFICES ASSUME n > 0, Cardinality(P) <= n PROVE FALSE
    BY <1>10, <1>12
  <2> DEFINE c == Cardinality(P)
  <2>1. n * sum <= (sum - 1) * c
    BY <1>7, <1>8, <1>11
  <2>2. (sum - 1) * c <= (sum - 1) * n
    <3>1. \A a, b \in Nat : a <= b => (sum - 1) * a <= (sum - 1) * b
      OBVIOUS
    <3> QED BY <1>10, <1>12, <3>1
  <2>3. (sum - 1) * n = n * sum - n
    BY <1>12
  <2>4. n * sum \in Int /\ (sum - 1) * c \in Int
    BY <1>10, <1>12
  <2> QED BY <1>12, <2>1, <2>2, <2>3, <2>4
<1> QED BY <1>10, <1>12, <1>13

Positions(S) == S \subseteq Int /\ IsFiniteSet(S)

\* all is floor, and one more for each of E.
OneMore(all, floor, E, S) == \A i \in S : all[i] = IF i \in E THEN floor[i] + 1 ELSE floor[i]

LEMMA TotalOneMore ==
  ASSUME NEW S, IsFiniteSet(S), NEW floor \in [S -> Nat], NEW E \in SUBSET S,
         NEW all \in [S -> Nat], OneMore(all, floor, E, S)
  PROVE  Total(all) = Total(floor) + Cardinality(E)
<1> DEFINE more == [i \in S |-> IF i \in E THEN 1 ELSE 0]
<1>1. more \in [S -> Int] /\ Marks(more, E, S) /\ Adds(all, floor, more, S)
      /\ all \in [S -> Int] /\ floor \in [S -> Int]
  BY DEF Marks, Adds, OneMore
<1> HIDE DEF more
<1>2. Total(more) = Cardinality(E)
  BY <1>1, TotalCounts
<1>3. Total(all) = Total(floor) + Total(more)
  BY <1>1, TotalAdds
<1> QED BY <1>2, <1>3

\* Whatever the weights, the shares are amounts that add up to the target, and
\* none is a cent or more away from its exact part.
LEMMA SharesAddUp ==
  ASSUME NEW S, Positions(S), S # {}, NEW weights \in [S -> Nat],
         NEW target \in Nat \ {0}
  PROVE  /\ Shares(target, weights) \in [S -> Nat]
         /\ Total(Shares(target, weights)) = target
         /\ Total(weights) > 0 => \A i \in S :
              Magnitude(Shares(target, weights)[i] * Total(weights) - target * weights[i])
                < Total(weights)
<1> DEFINE given == Given(weights)
           sum   == Total(given)
           floor == [i \in S |-> (target * given[i]) \div sum]
           rest  == [i \in S |-> (target * given[i]) % sum]
           n     == target - Total(floor)
           extra == Largest(rest, n)
           P     == {i \in S : rest[i] > 0}
           all   == [i \in S |-> IF i \in extra THEN floor[i] + 1 ELSE floor[i]]
<1>0. IsFiniteSet(S)
  BY DEF Positions
<1>1. given \in [S -> Nat] /\ sum \in Nat \ {0}
  BY <1>0, GivenWeights
<1>2. Shares(target, weights) = all
  <2>1. DOMAIN weights = S /\ DOMAIN given = S /\ ~ (target <= 0)
    BY <1>1
  <2> QED BY <2>1 DEF Shares, Given
<1> HIDE DEF given, sum
<1>3. floor \in [S -> Nat] /\ rest \in [S -> Nat] /\ Divided(given, target, sum, floor, rest, S)
  <2>1. \A i \in S : target * given[i] \in Nat
    BY <1>1
  <2>2. \A i \in S : /\ floor[i] \in Nat /\ rest[i] \in Nat /\ rest[i] < sum
                     /\ target * given[i] = floor[i] * sum + rest[i]
    BY <1>1, <2>1, Division
  <2> QED BY <2>2 DEF Divided
<1>4. /\ floor = [i \in S |-> floor[i]] /\ rest = [i \in S |-> rest[i]]
      /\ DOMAIN rest = S
  OBVIOUS
<1> HIDE DEF floor, rest
<1>5. n \in Nat /\ (n > 0 => Cardinality(P) > n) /\ n <= Cardinality(S)
  <2> HIDE DEF n, P
  <2>1. /\ n = target - Total(floor) /\ P = {i \in S : rest[i] > 0} /\ sum = Total(given)
        /\ target \in Nat
    BY DEF n, P, sum
  <2>2. PICK g, f, q, u : g = given /\ f = floor /\ q = rest /\ u = sum
    OBVIOUS
  <2>3. /\ g \in [S -> Nat] /\ f \in [S -> Nat] /\ q \in [S -> Nat] /\ u \in Nat \ {0}
        /\ Divided(g, target, u, f, q, S) /\ u = Total(g)
        /\ n = target - Total(f) /\ P = {i \in S : q[i] > 0}
    BY <1>1, <1>3, <2>1, <2>2
  <2> QED BY <1>0, <2>1, <2>3, LeftOver
<1> HIDE DEF n
<1>6. Cardinality(extra) = n /\ extra \in SUBSET S
  <2>1. extra \in SUBSET S
    BY <1>4 DEF Largest
  <2> QED BY <1>3, <1>5, <2>1, LargestAreMany DEF Positions
<1>7. ASSUME NEW i \in extra PROVE i \in S /\ rest[i] > 0
  <2> SUFFICES ASSUME ~ (rest[i] > 0) PROVE FALSE
    BY <1>6
  <2> DEFINE before == {j \in S : rest[j] > rest[i] \/ (rest[j] = rest[i] /\ j < i)}
  <2>1. i \in S /\ rest[i] = 0 /\ Cardinality(before) < n
    BY <1>3, <1>4, <1>6 DEF Largest
  <2>2. P \subseteq before
    BY <2>1
  <2>3. /\ IsFiniteSet(before) /\ Cardinality(before) \in Nat
        /\ IsFiniteSet(P) /\ Cardinality(P) \in Nat
    BY <1>0, FS_Subset, FS_CardinalityType
  <2>4. Cardinality(P) <= Cardinality(before)
    BY <2>2, <2>3, FS_Subset
  <2> HIDE DEF before, P
  <2> QED BY <1>5, <2>1, <2>3, <2>4
<1> HIDE DEF extra
<1>8. all \in [S -> Nat] /\ Total(all) = target
  <2>1. all \in [S -> Nat] /\ OneMore(all, floor, extra, S) /\ Total(floor) \in Int
    BY <1>0, <1>3, TotalNat DEF OneMore
  <2> HIDE DEF all
  <2>2. Total(all) = Total(floor) + Cardinality(extra)
    BY <1>0, <1>3, <1>6, <2>1, TotalOneMore
  <2> QED BY <1>6, <2>1, <2>2 DEF n
<1>9. ASSUME Total(weights) > 0, NEW i \in S
      PROVE  Magnitude(all[i] * sum - target * given[i]) < sum
  <2>1. PICK f \in Nat, q \in Nat : /\ f = floor[i] /\ q = rest[i] /\ q < sum
                                    /\ target * given[i] = f * sum + q
    BY <1>3 DEF Divided
  <2>2. f * sum \in Int /\ (f + 1) * sum = f * sum + sum
    BY <1>1
  <2>3. CASE i \in extra
    <3>1. all[i] = f + 1 /\ q > 0
      BY <1>7, <2>1, <2>3
    <3>2. all[i] * sum - target * given[i] = sum - q
      BY <1>1, <2>1, <2>2, <3>1
    <3> QED BY <1>1, <2>1, <3>1, <3>2 DEF Magnitude
  <2>4. CASE i \notin extra
    <3>1. all[i] = f
      BY <2>1, <2>4
    <3>2. all[i] * sum - target * given[i] = -q
      BY <1>1, <2>1, <2>2, <3>1
    <3> QED BY <1>1, <2>1, <3>2 DEF Magnitude
  <2> QED BY <2>3, <2>4
<1>10. Total(weights) > 0 => given = weights /\ sum = Total(weights)
  BY DEF given, sum, Given
<1> QED BY <1>2, <1>8, <1>9, <1>10

\* And without anything to share, or anyone to share it, there is nothing.
LEMMA SharesOfNothing ==
  ASSUME NEW S, NEW weights \in [S -> Nat], NEW target \in Int, target <= 0 \/ S = {}
  PROVE  Shares(target, weights) \in [S -> Nat]
<1>1. CASE target <= 0
  BY <1>1 DEF Shares
<1>2. CASE ~ (target <= 0)
  <2>1. PICK f : Shares(target, weights) = [i \in DOMAIN weights |-> f[i]]
    <3>1. PICK extra, floor : Shares(target, weights) =
            [i \in DOMAIN weights |-> IF i \in extra THEN floor[i] + 1 ELSE floor[i]]
      BY <1>2 DEF Shares
    <3> DEFINE f == [i \in DOMAIN weights |-> IF i \in extra THEN floor[i] + 1 ELSE floor[i]]
    <3>2. f = [i \in DOMAIN weights |-> f[i]]
      OBVIOUS
    <3> QED BY <3>1, <3>2
  <2> QED BY <1>2, <2>1
<1> QED BY <1>1, <1>2

-----------------------------------------------------------------------------
(* Lanes and workspaces *)

Amounts == Int \cup {Unknown}

IsMoney(p) == p.total \in Nat /\ p.splits \in Seq(Nat)

IsWorkspace(ws) ==
  /\ ws = [items |-> ws.items, pins |-> ws.pins, lane |-> ws.lane]
  /\ ws.items \in Seq(Amounts)
  /\ \A l \in DOMAIN ws.pins : ws.pins[l] \in Nat \cup {Unknown}

\* What WorkspaceFits says of a draft.
Fits(p, ws) ==
  /\ DOMAIN ws.pins = LanesOf(p)
  /\ DOMAIN ws.lane = DOMAIN ws.items
  /\ \A i \in DOMAIN ws.items : ws.lane[i] \in LanesOf(p) \cup {Unassigned}

LEMMA MadeWorkspace ==
  ASSUME NEW a \in Seq(Amounts), NEW b, NEW c, \A l \in DOMAIN b : b[l] \in Nat \cup {Unknown}
  PROVE  LET ws == [items |-> a, pins |-> b, lane |-> c]
         IN  IsWorkspace(ws) /\ ws.items = a /\ ws.pins = b /\ ws.lane = c
BY DEF IsWorkspace

LEMMA Lanes ==
  ASSUME NEW p, p.splits \in Seq(Nat)
  PROVE  \E n \in Nat \ {0} :
           /\ DOMAIN LaneOrder(p) = 1..n
           /\ p.splits # <<>> => DOMAIN p.splits = 1..n
           /\ LanesOf(p) = {LaneOrder(p)[i] : i \in 1..n}
<1>1. CASE p.splits = <<>>
  <2>1. LaneOrder(p) = <<Main>>
    BY <1>1 DEF LaneOrder
  <2>2. DOMAIN LaneOrder(p) = 1..1
    BY <2>1
  <2> QED BY <1>1, <2>2 DEF LanesOf, ToSet
<1>2. CASE p.splits # <<>>
  <2>1. PICK n \in Nat : DOMAIN p.splits = 1..n
    OBVIOUS
  <2>2. n # 0
    BY <1>2, <2>1
  <2>3. DOMAIN LaneOrder(p) = 1..n
    BY <1>2, <2>1 DEF LaneOrder
  <2> QED BY <2>1, <2>2, <2>3 DEF LanesOf, ToSet
<1> QED BY <1>1, <1>2

LEMMA PinType ==
  ASSUME NEW p, IsMoney(p), NEW l \in LanesOf(p)
  PROVE  PinOf(p, l) \in Nat
<1>1. CASE l = Main
  BY <1>1 DEF PinOf, IsMoney
<1>2. CASE l # Main
  <2>1. PICK n \in Nat \ {0} : /\ DOMAIN LaneOrder(p) = 1..n
                               /\ p.splits # <<>> => DOMAIN p.splits = 1..n
                               /\ LanesOf(p) = {LaneOrder(p)[i] : i \in 1..n}
    BY Lanes DEF IsMoney
  <2>2. PICK i \in 1..n : l = LaneOrder(p)[i]
    BY <2>1
  <2>3. p.splits # <<>>
    <3> SUFFICES ASSUME p.splits = <<>> PROVE FALSE
      OBVIOUS
    <3>1. LaneOrder(p) = <<Main>>
      BY DEF LaneOrder
    <3>2. DOMAIN LaneOrder(p) = 1..1
      BY <3>1
    <3>3. i \in 1..1
      BY <2>1, <2>2, <3>2
    <3> QED BY <1>2, <2>2, <3>1, <3>3
  <2>4. l = SplitLane(i) /\ i \in DOMAIN p.splits
    BY <2>1, <2>2, <2>3 DEF LaneOrder
  <2>5. l[2] = i
    BY <2>4 DEF SplitLane
  <2> QED BY <1>2, <2>4, <2>5 DEF PinOf, IsMoney
<1> QED BY <1>1, <1>2

LEMMA WeightType ==
  ASSUME NEW ws, IsWorkspace(ws), NEW l
  PROVE  Weight(ws, l) \in Nat
<1> DEFINE S == DOMAIN ws.items
           g == [i \in S |-> IF ws.lane[i] = l /\ ws.items[i] # Unknown THEN ws.items[i] ELSE 0]
<1>1. IsFiniteSet(S)
  <2>1. PICK n \in Nat : S = 1..n
    BY DEF IsWorkspace
  <2> QED BY <2>1, FS_Interval
<1>2. g \in [S -> Int]
  <2>1. \A i \in S : ws.items[i] \in Int \cup {Unknown}
    BY DEF IsWorkspace, Amounts
  <2> QED BY <2>1
<1>3. Total(g) \in Int
  <2> HIDE DEF S, g
  <2> QED BY <1>1, <1>2, TotalType
<1>4. Weight(ws, l) = IF Total(g) < 0 THEN 0 ELSE Total(g)
  BY DEF Weight
<1> HIDE DEF g
<1> QED BY <1>3, <1>4

-----------------------------------------------------------------------------
(* What is suggested *)

LEMMA SequenceOf ==
  ASSUME NEW n \in Nat, NEW f \in [1..n -> Nat]
  PROVE  f \in Seq(Nat) /\ DOMAIN f = 1..n /\ (n # 0 => f # <<>>)
<1>1. f \in Seq(Nat)
  BY SeqDef
<1>2. n # 0 => 1 \in DOMAIN f
  OBVIOUS
<1> QED BY <1>1, <1>2

LEMMA SharesType ==
  ASSUME NEW S, Positions(S), NEW w \in [S -> Nat], NEW target \in Int
  PROVE  Shares(target, w) \in [S -> Nat]
<1>1. CASE target <= 0 \/ S = {}
  BY <1>1, SharesOfNothing
<1>2. CASE target \in Nat \ {0} /\ S # {}
  BY <1>2, SharesAddUp
<1> QED BY <1>1, <1>2

LEMMA PartOfAll ==
  ASSUME NEW n \in Nat, NEW S, S \subseteq 1..n
  PROVE  Positions(S)
<1>1. IsFiniteSet(1..n)
  BY FS_Interval
<1>2. IsFiniteSet(S)
  BY <1>1, FS_Subset
<1> QED BY <1>2 DEF Positions

LEMMA SuggestedType ==
  ASSUME NEW ws, IsWorkspace(ws), NEW n \in Nat, NEW lanes, DOMAIN lanes = 1..n,
         NEW total \in Nat
  PROVE  Suggested(total, ws, lanes) \in [1..n -> Nat]
<1>1. PICK S : S = 1..n
  OBVIOUS
<1>2. Positions(S)
  BY <1>1, PartOfAll
<1>3. PICK w : w = [i \in S |-> Weight(ws, lanes[i])]
  OBVIOUS
<1>4. w \in [S -> Nat]
  BY <1>3, WeightType
<1>5. Shares(total, w) \in [S -> Nat]
  BY <1>2, <1>4, SharesType
<1> QED BY <1>1, <1>3, <1>5 DEF Suggested

LEMMA AroundPinsType ==
  ASSUME NEW ws, IsWorkspace(ws), NEW n \in Nat, NEW lanes, DOMAIN lanes = 1..n,
         \A i \in 1..n : lanes[i] \in DOMAIN ws.pins, NEW total \in Nat
  PROVE  AroundPins(total, ws, lanes) \in [1..n -> Nat]
<1>1. PICK free : free = Free(ws, lanes)
  OBVIOUS
<1>2. PICK held : held = DOMAIN lanes \ free
  OBVIOUS
<1>3. PICK pinned : pinned = [i \in held |-> ws.pins[lanes[i]]]
  OBVIOUS
<1>4. PICK w : w = [i \in free |-> Weight(ws, lanes[i])]
  OBVIOUS
<1>5. PICK rest : rest = total - Total(pinned)
  OBVIOUS
<1>6. PICK given : given = Shares(rest, w)
  OBVIOUS
<1>7. AroundPins(total, ws, lanes) =
        [i \in DOMAIN lanes |-> IF i \in free THEN given[i] ELSE pinned[i]]
  BY <1>1, <1>2, <1>3, <1>4, <1>5, <1>6 DEF AroundPins
<1>8. Positions(free) /\ Positions(held)
  <2>1. free \subseteq 1..n /\ held \subseteq 1..n
    BY <1>1, <1>2 DEF Free
  <2> QED BY <2>1, PartOfAll
<1>9. pinned \in [held -> Nat]
  <2>1. \A i \in held : ws.pins[lanes[i]] \in Nat
    BY <1>1, <1>2 DEF Free, IsWorkspace
  <2> QED BY <1>3, <2>1
<1>10. rest \in Int
  <2>1. Total(pinned) \in Nat
    BY <1>8, <1>9, TotalNat DEF Positions
  <2> QED BY <1>5, <2>1
<1>11. w \in [free -> Nat]
  BY <1>4, WeightType
<1>12. given \in [free -> Nat]
  BY <1>6, <1>8, <1>10, <1>11, SharesType
<1>13. \A i \in 1..n : i \in free \/ i \in held
  BY <1>2
<1> QED BY <1>7, <1>9, <1>12, <1>13

\* A recomputed payload is one, with the same lanes.
LEMMA RecomputedMoney ==
  ASSUME NEW p, IsPayload(p), IsMoney(p),
         NEW ws, IsWorkspace(ws), DOMAIN ws.pins = LanesOf(p), NEW keepPins
  PROVE  /\ IsMoney(Recomputed(p, ws, keepPins))
         /\ Recomputed(p, ws, keepPins).date = p.date
         /\ LanesOf(Recomputed(p, ws, keepPins)) = LanesOf(p)
<1>1. CASE p.splits = <<>>
  BY <1>1 DEF Recomputed
<1>2. CASE p.splits # <<>>
  <2>1. PICK lanes : lanes = LaneOrder(p)
    OBVIOUS
  <2>2. PICK n \in Nat \ {0} : /\ DOMAIN lanes = 1..n /\ DOMAIN p.splits = 1..n
                               /\ LanesOf(p) = {lanes[i] : i \in 1..n}
    BY <1>2, <2>1, Lanes DEF IsMoney
  <2>3. PICK s : s = IF keepPins THEN AroundPins(p.total, ws, lanes)
                                 ELSE Suggested(p.total, ws, lanes)
    OBVIOUS
  <2>4. s \in [1..n -> Nat]
    <3>1. p.total \in Nat
      BY DEF IsMoney
    <3>2. Suggested(p.total, ws, lanes) \in [1..n -> Nat]
      BY <2>2, <3>1, SuggestedType
    <3>3. AroundPins(p.total, ws, lanes) \in [1..n -> Nat]
      BY <2>2, <3>1, AroundPinsType
    <3> QED BY <2>3, <3>2, <3>3
  <2>5. s \in Seq(Nat) /\ DOMAIN s = 1..n /\ s # <<>>
    BY <2>4, SequenceOf
  <2>6. PICK q : q = Recomputed(p, ws, keepPins)
    OBVIOUS
  <2>7. q = [p EXCEPT !.splits = s]
    BY <1>2, <2>1, <2>3, <2>6 DEF Recomputed
  <2>8. q.total = p.total /\ q.date = p.date /\ q.splits = s
    BY <2>7, WithSplits
  <2>9. LaneOrder(q) = LaneOrder(p)
    BY <1>2, <2>2, <2>5, <2>8 DEF LaneOrder
  <2>10. LanesOf(q) = LanesOf(p)
    BY <2>9 DEF LanesOf
  <2>11. IsMoney(q)
    BY <2>5, <2>8 DEF IsMoney
  <2> QED BY <2>6, <2>8, <2>10, <2>11
<1> QED BY <1>1, <1>2

-----------------------------------------------------------------------------
(* Folds of the library *)

\* it folds F from base over each part of S, its elements taken off by ch.
IsFold(it, V, base, F, ch, S) ==
  /\ it \in [SUBSET S -> V]
  /\ it[{}] = base
  /\ \A s \in SUBSET S : s # {} => it[s] = F[ch[s]][it[s \ {ch[s]}]]

IsChoice(ch, S) == \A s \in SUBSET S : s # {} => ch[s] \in s

LEMMA FoldExists ==
  ASSUME NEW S, IsFiniteSet(S), NEW V, NEW base \in V, NEW F \in [S -> [V -> V]],
         NEW ch, IsChoice(ch, S)
  PROVE  \E it : IsFold(it, V, base, F, ch, S)
<1> DEFINE D(n) == {s \in SUBSET S : Cardinality(s) <= n}
           Upto(it, n) == /\ it \in [D(n) -> V]
                          /\ it[{}] = base
                          /\ \A s \in D(n) : s # {} => it[s] = F[ch[s]][it[s \ {ch[s]}]]
           N == {n \in Nat : \E it : Upto(it, n)}
<1>1. \A s \in SUBSET S : IsFiniteSet(s) /\ Cardinality(s) \in Nat
  BY FS_Subset, FS_CardinalityType
<1>2. \A s \in SUBSET S : s # {} =>
        /\ ch[s] \in s /\ s \ {ch[s]} \in SUBSET S
        /\ Cardinality(s \ {ch[s]}) = Cardinality(s) - 1
  <2> SUFFICES ASSUME NEW s \in SUBSET S, s # {}
               PROVE  /\ ch[s] \in s /\ s \ {ch[s]} \in SUBSET S
                      /\ Cardinality(s \ {ch[s]}) = Cardinality(s) - 1
    OBVIOUS
  <2>1. ch[s] \in s
    BY DEF IsChoice
  <2>2. PICK x : x = ch[s]
    OBVIOUS
  <2>3. Cardinality(s \ {x}) = Cardinality(s) - 1
    BY <1>1, <2>1, <2>2, FS_RemoveElement
  <2> QED BY <2>1, <2>2, <2>3
<1>3. \A s \in SUBSET S : s # {} => Cardinality(s) \in Nat \ {0}
  BY <1>1, FS_EmptySet
<1>4. 0 \in N
  <2> DEFINE it == [s \in D(0) |-> base]
  <2>1. {} \in D(0) /\ \A s \in D(0) : s = {}
    BY <1>3, FS_EmptySet
  <2>2. Upto(it, 0)
    BY <2>1
  <2> QED BY <2>2
<1>5. ASSUME NEW n \in Nat, n \in N PROVE n + 1 \in N
  <2>1. PICK it : Upto(it, n)
    BY <1>5
  <2> DEFINE two == [s \in D(n + 1) |-> IF s \in D(n) THEN it[s]
                                        ELSE F[ch[s]][it[s \ {ch[s]}]]]
  <2>2. \A s \in D(n + 1) : s \notin D(n) => s # {} /\ s \ {ch[s]} \in D(n) /\ ch[s] \in S
    <3> SUFFICES ASSUME NEW s \in D(n + 1), s \notin D(n)
                 PROVE  s # {} /\ s \ {ch[s]} \in D(n) /\ ch[s] \in S
      OBVIOUS
    <3>1. Cardinality(s) = n + 1
      BY <1>1
    <3>2. s # {}
      BY <3>1, FS_EmptySet
    <3>3. Cardinality(s \ {ch[s]}) = n /\ s \ {ch[s]} \in SUBSET S /\ ch[s] \in S
      BY <1>2, <3>1, <3>2
    <3> QED BY <3>2, <3>3
  <2>3. \A s \in D(n) : s \in D(n + 1) /\ (s # {} => s \ {ch[s]} \in D(n))
    <3> SUFFICES ASSUME NEW s \in D(n)
                 PROVE  s \in D(n + 1) /\ (s # {} => s \ {ch[s]} \in D(n))
      OBVIOUS
    <3>1. Cardinality(s) \in Nat /\ Cardinality(s) <= n
      BY <1>1
    <3>2. s \in D(n + 1)
      BY <3>1
    <3>3. s # {} => Cardinality(s \ {ch[s]}) <= n /\ s \ {ch[s]} \in SUBSET S
      BY <1>2, <3>1
    <3> QED BY <3>2, <3>3
  <2>4. {} \in D(n)
    BY FS_EmptySet
  <2> HIDE DEF D
  <2>5. two \in [D(n + 1) -> V]
    <3>1. \A s \in D(n) : it[s] \in V
      BY <2>1
    <3>2. \A s \in D(n + 1) : s \notin D(n) => F[ch[s]][it[s \ {ch[s]}]] \in V
      BY <2>2, <3>1
    <3> QED BY <3>1, <3>2
  <2>6. two[{}] = base
    BY <2>1, <2>3, <2>4
  <2>7. ASSUME NEW s \in D(n + 1), s # {} PROVE two[s] = F[ch[s]][two[s \ {ch[s]}]]
    <3>1. s \ {ch[s]} \in D(n)
      BY <2>2, <2>3, <2>7
    <3>2. two[s \ {ch[s]}] = it[s \ {ch[s]}]
      BY <2>3, <3>1
    <3>3. two[s] = F[ch[s]][it[s \ {ch[s]}]]
      BY <2>1, <2>7
    <3> QED BY <3>2, <3>3
  <2>8. Upto(two, n + 1)
    <3> HIDE DEF two
    <3> QED BY <2>5, <2>6, <2>7
  <2> HIDE DEF Upto
  <2> QED BY <2>8
<1>6. Nat \subseteq N
  <2> HIDE DEF N
  <2> QED BY <1>4, <1>5, SetInduction
<1>7. PICK it : Upto(it, Cardinality(S))
  BY <1>1, <1>6
<1>8. D(Cardinality(S)) = SUBSET S
  BY <1>1, FS_Subset
<1> QED BY <1>7, <1>8 DEF IsFold

-----------------------------------------------------------------------------
(* The first draft of a workspace *)

LEMMA NearestLane ==
  ASSUME NEW n \in Nat \ {0}, NEW lanes, DOMAIN lanes = 1..n, NEW room,
         \A i \in 1..n : room[lanes[i]] \in Int, NEW size \in Int
  PROVE  Nearest(lanes, room, size) \in {lanes[i] : i \in 1..n}
<1> DEFINE far(i) == Magnitude(room[lanes[i]] - size)
           T == {far(i) : i \in 1..n}
<1>1. \A i \in 1..n : far(i) \in Nat
  BY DEF Magnitude
<1>2. T \subseteq Nat /\ T # {}
  <2>1. 1 \in 1..n
    OBVIOUS
  <2> HIDE DEF far
  <2> QED BY <1>1, <2>1
<1>3. PICK m \in T : \A y \in T : ~ (y < m)
  <2> HIDE DEF T
  <2> QED BY <1>2, NatLeast
<1> DEFINE U == {i \in 1..n : far(i) = m}
<1>4. U \subseteq Nat /\ U # {}
  <2> HIDE DEF far
  <2> QED BY <1>3
<1>5. PICK i \in U : \A y \in U : ~ (y < i)
  <2> HIDE DEF U
  <2> QED BY <1>4, NatLeast
<1>6. i \in DOMAIN lanes
      /\ \A j \in DOMAIN lanes : far(i) < far(j) \/ (far(i) = far(j) /\ i <= j)
  <2> SUFFICES ASSUME NEW j \in 1..n
               PROVE  i \in 1..n /\ (far(i) < far(j) \/ (far(i) = far(j) /\ i <= j))
    OBVIOUS
  <2>1. far(i) = m /\ i \in 1..n /\ far(j) \in T
    OBVIOUS
  <2>2. far(i) \in Nat /\ far(j) \in Nat /\ ~ (far(j) < far(i))
    BY <1>1, <1>3, <2>1
  <2>3. far(j) = far(i) => ~ (j < i)
    BY <1>5, <2>1
  <2> HIDE DEF far
  <2> QED BY <2>1, <2>2, <2>3
<1> DEFINE best == CHOOSE a \in DOMAIN lanes :
                     \A j \in DOMAIN lanes : far(a) < far(j) \/ (far(a) = far(j) /\ a <= j)
<1>7. best \in DOMAIN lanes
  <2> HIDE DEF far
  <2> QED BY <1>6
<1>8. Nearest(lanes, room, size) = lanes[best]
  BY DEF Nearest
<1> HIDE DEF best
<1> QED BY <1>7, <1>8

\* There is a smallest of some known items.
LEMMA LastIn ==
  ASSUME NEW items \in Seq(Amounts), NEW left \in SUBSET Known(items), left # {}
  PROVE  LastOf(items, left) \in left
<1> DEFINE R == {x \in left \X left : Ahead(items, x[1], x[2])}
<1>1. PICK n \in Nat : DOMAIN items = 1..n
  OBVIOUS
<1>2. IsFiniteSet(left)
  <2>1. left \subseteq 1..n
    BY <1>1 DEF Known
  <2>2. IsFiniteSet(1..n)
    BY FS_Interval
  <2> QED BY <2>1, <2>2, FS_Subset
<1>3. \A i \in left : i \in Int /\ Magnitude(items[i]) \in Int
  BY <1>1 DEF Known, Amounts, Magnitude
<1>4. \A i, j \in left : <<i, j>> \in R <=> Ahead(items, i, j)
  OBVIOUS
<1>5. Ranks(R, left)
  <2>1. \A i \in left : ~ Ahead(items, i, i)
    BY <1>3 DEF Ahead
  <2>2. \A i, j \in left : i # j => Ahead(items, i, j) \/ Ahead(items, j, i)
    BY <1>3 DEF Ahead
  <2>3. \A i, j, k \in left : Ahead(items, i, j) /\ Ahead(items, j, k) => Ahead(items, i, k)
    BY <1>3 DEF Ahead
  <2> HIDE DEF R
  <2> QED BY <1>4, <2>1, <2>2, <2>3 DEF Ranks
<1>6. PICK j \in left : \A i \in left \ {j} : <<i, j>> \in R
  <2> HIDE DEF R
  <2> QED BY <1>2, <1>5, LastThereIs
<1>7. \A i \in left \ {j} : Ahead(items, i, j)
  BY <1>6
<1> QED BY <1>7 DEF LastOf

\* Where items are placed: the room that is left, and the lane of each.
Places(L, D) == [room : [L -> Int], lane : [D -> L \cup {Unassigned}]]

PlacedOne(items, lanes, acc, i) ==
  LET l == Nearest(lanes, acc.room, Magnitude(items[i]))
  IN  [room |-> [acc.room EXCEPT ![l] = @ - Magnitude(items[i])],
       lane |-> [acc.lane EXCEPT ![i] = l]]

LEMMA PlacedIsPlace ==
  ASSUME NEW items \in Seq(Amounts), NEW n \in Nat \ {0}, NEW lanes, DOMAIN lanes = 1..n,
         NEW L, L = {lanes[i] : i \in 1..n}, NEW acc \in Places(L, DOMAIN items),
         NEW i \in Known(items)
  PROVE  PlacedOne(items, lanes, acc, i) \in Places(L, DOMAIN items)
<1>1. Magnitude(items[i]) \in Int /\ i \in DOMAIN items
  BY DEF Known, Amounts, Magnitude
<1>2. acc.room \in [L -> Int] /\ acc.lane \in [DOMAIN items -> L \cup {Unassigned}]
  BY DEF Places
<1>3. PICK m : m = Magnitude(items[i])
  OBVIOUS
<1>4. PICK l : l = Nearest(lanes, acc.room, m)
  OBVIOUS
<1>5. l \in L
  <2>1. \A k \in 1..n : acc.room[lanes[k]] \in Int
    BY <1>2
  <2> QED BY <1>1, <1>3, <1>4, <2>1, NearestLane
<1>6. [acc.room EXCEPT ![l] = @ - m] \in [L -> Int]
  <2>1. PICK r : r = acc.room
    OBVIOUS
  <2>2. r \in [L -> Int] /\ r[l] - m \in Int
    BY <1>1, <1>2, <1>3, <1>5, <2>1
  <2>3. [r EXCEPT ![l] = r[l] - m] \in [L -> Int]
    BY <2>2
  <2> QED BY <2>1, <2>3
<1>7. [acc.lane EXCEPT ![i] = l] \in [DOMAIN items -> L \cup {Unassigned}]
  BY <1>1, <1>2, <1>5
<1> QED BY <1>3, <1>4, <1>6, <1>7 DEF PlacedOne, Places


\* Every item is left where it was put: in a lane, or unassigned.
LEMMA GreedyType ==
  ASSUME NEW items \in Seq(Amounts), NEW n \in Nat \ {0}, NEW lanes, DOMAIN lanes = 1..n,
         NEW L, L = {lanes[i] : i \in 1..n}, NEW pins \in [L -> Int]
  PROVE  Greedy(items, lanes, pins) \in [DOMAIN items -> L \cup {Unassigned}]
<1> DEFINE S == Known(items)
           V == Places(L, DOMAIN items)
           base == [room |-> pins, lane |-> [i \in DOMAIN items |-> Unassigned]]
           F == [i \in S |-> [acc \in V |-> PlacedOne(items, lanes, acc, i)]]
           ch == [s \in SUBSET S |-> LastOf(items, s)]
           Eq(it) == it = [s \in SUBSET S |->
                            IF s = {} THEN base
                            ELSE PlacedOne(items, lanes, it[s \ {LastOf(items, s)}],
                                           LastOf(items, s))]
<1>1. IsFiniteSet(S)
  <2>1. PICK m \in Nat : DOMAIN items = 1..m
    OBVIOUS
  <2>2. IsFiniteSet(1..m) /\ S \subseteq 1..m
    BY <2>1, FS_Interval DEF Known
  <2> QED BY <2>2, FS_Subset
<1>2. base \in V
  BY DEF Places
<1>3. F \in [S -> [V -> V]]
  <2>1. \A i \in S : \A acc \in V : PlacedOne(items, lanes, acc, i) \in V
    BY PlacedIsPlace
  <2> QED BY <2>1
<1>4. IsChoice(ch, S)
  BY LastIn DEF IsChoice
<1>5. PICK G : IsFold(G, V, base, F, ch, S)
  <2> HIDE DEF S, V, base, F, ch
  <2> QED BY <1>1, <1>2, <1>3, <1>4, FoldExists
<1>6. \A s \in SUBSET S : s # {} =>
        /\ LastOf(items, s) \in s /\ s \ {LastOf(items, s)} \in SUBSET S
        /\ ch[s] = LastOf(items, s)
  BY LastIn
<1>7. \A s \in SUBSET S : s # {} =>
        G[s] = PlacedOne(items, lanes, G[s \ {LastOf(items, s)}], LastOf(items, s))
  <2> SUFFICES ASSUME NEW s \in SUBSET S, s # {}, NEW x, x = LastOf(items, s)
               PROVE  G[s] = PlacedOne(items, lanes, G[s \ {x}], x)
    BY Zenon
  <2>1. x \in s /\ s \ {x} \in SUBSET S /\ ch[s] = x
    BY <1>6
  <2>2. G[s] = F[x][G[s \ {x}]] /\ G[s \ {x}] \in V /\ x \in S
    BY <1>5, <2>1 DEF IsFold
  <2> HIDE DEF V, S
  <2> QED BY <2>2
<1>8. Eq(G)
  <2>1. G = [s \in SUBSET S |-> G[s]] /\ G[{}] = base
    BY <1>5 DEF IsFold
  <2> HIDE DEF S, ch, base
  <2> QED BY <1>7, <2>1, Zenon
<1>9. PICK it : it = CHOOSE i : Eq(i)
  OBVIOUS
<1>10. Eq(it)
  <2> HIDE DEF Eq
  <2> QED BY <1>8, <1>9
<1>11. Greedy(items, lanes, pins) = it[S].lane
  BY <1>9, Zenon DEF Greedy, PlacedOne, MapThenFoldSet
<1> DEFINE Q == {s \in SUBSET S : it[s] \in V}
<1>12. {} \in Q
  BY <1>2, <1>10
<1> DEFINE N == {m \in Nat : \A s \in SUBSET S : Cardinality(s) = m => s \in Q}
<1>13. 0 \in N
  <2> HIDE DEF Q, S
  <2> QED BY <1>1, <1>12, FS_Subset, FS_EmptySet
<1>14. ASSUME NEW m \in Nat, m \in N PROVE m + 1 \in N
  <2> SUFFICES ASSUME NEW s \in SUBSET S, Cardinality(s) = m + 1 PROVE s \in Q
    OBVIOUS
  <2>1. IsFiniteSet(s) /\ s # {}
    BY <1>1, FS_Subset, FS_EmptySet
  <2>2. PICK x : x = LastOf(items, s)
    OBVIOUS
  <2>3. x \in s /\ s \ {x} \in SUBSET S /\ x \in S
    BY <1>6, <2>1, <2>2
  <2>4. Cardinality(s \ {x}) = m
    BY <2>1, <2>3, OneLess
  <2>5. it[s \ {x}] \in V
    BY <1>14, <2>3, <2>4
  <2>6. it[s] = PlacedOne(items, lanes, it[s \ {x}], x)
    BY <1>10, <2>1, <2>2
  <2>7. it[s] \in V
    BY <2>3, <2>5, <2>6, PlacedIsPlace
  <2> QED BY <2>7
<1>15. Nat \subseteq N
  <2> HIDE DEF N
  <2> QED BY <1>13, <1>14, SetInduction
<1>16. it[S] \in V
  BY <1>1, <1>15, FS_CardinalityType
<1> QED BY <1>11, <1>16 DEF Places

LEMMA InitialFits ==
  ASSUME NEW p, IsMoney(p), NEW items \in Seq(Amounts), NEW ws,
         ws = InitialWorkspace(p, items)
  PROVE  IsWorkspace(ws) /\ Fits(p, ws)
<1>1. PICK lanes : lanes = LaneOrder(p)
  OBVIOUS
<1>2. PICK L : L = LanesOf(p)
  OBVIOUS
<1>3. PICK n \in Nat \ {0} : DOMAIN lanes = 1..n /\ L = {lanes[i] : i \in 1..n}
  BY <1>1, <1>2, Lanes DEF IsMoney
<1>4. PICK pins : pins = [l \in L |-> PinOf(p, l)]
  OBVIOUS
<1>5. pins \in [L -> Nat]
  <2>1. \A l \in L : PinOf(p, l) \in Nat
    BY <1>2, PinType
  <2> QED BY <1>4, <2>1
<1>6. PICK lane : lane = Greedy(items, lanes, pins)
  OBVIOUS
<1>7. lane \in [DOMAIN items -> L \cup {Unassigned}]
  <2>1. pins \in [L -> Int]
    BY <1>5
  <2> QED BY <1>3, <1>6, <2>1, GreedyType
<1>8. ws = [items |-> items, pins |-> pins, lane |-> lane]
  BY <1>1, <1>2, <1>4, <1>6 DEF InitialWorkspace
<1>9. \A l \in DOMAIN pins : pins[l] \in Nat \cup {Unknown}
  BY <1>5
<1>10. IsWorkspace(ws) /\ ws.items = items /\ ws.pins = pins /\ ws.lane = lane
  BY <1>8, <1>9, MadeWorkspace
<1> QED BY <1>2, <1>5, <1>7, <1>10 DEF Fits

LEMMA ReconciledFits ==
  ASSUME NEW p, IsMoney(p), NEW old, IsWorkspace(old), NEW items \in Seq(Amounts), NEW ws,
         ws = Reconciled(p, old, items)
  PROVE  IsWorkspace(ws) /\ Fits(p, ws)
<1>1. CASE old = NoWorkspace
  <2>1. ws = InitialWorkspace(p, items)
    BY <1>1 DEF Reconciled
  <2> QED BY <2>1, InitialFits
<1>2. CASE old # NoWorkspace
  <2>1. PICK a : a = old.items
    OBVIOUS
  <2>2. PICK b : b = [l \in LanesOf(p) |-> KeptPin(p, old.pins, l)]
    OBVIOUS
  <2>3. PICK c : c = [i \in DOMAIN a |-> IF i \in DOMAIN old.lane
                                         THEN Remapped(p, old.lane[i]) ELSE Unassigned]
    OBVIOUS
  <2>4. ws = [items |-> a, pins |-> b, lane |-> c]
    BY <1>2, <2>1, <2>2, <2>3 DEF Reconciled
  <2>5. a \in Seq(Amounts)
    BY <2>1 DEF IsWorkspace
  <2>6. DOMAIN b = LanesOf(p) /\ \A l \in DOMAIN b : b[l] \in Nat \cup {Unknown}
    <3>1. \A l \in LanesOf(p) : PinOf(p, l) \in Nat
      BY PinType
    <3>2. \A l \in LanesOf(p) : KeptPin(p, old.pins, l) \in Nat \cup {Unknown}
      BY <3>1 DEF KeptPin, IsWorkspace
    <3> QED BY <2>2, <3>2
  <2>7. IsWorkspace(ws) /\ ws.items = a /\ ws.pins = b /\ ws.lane = c
    BY <2>4, <2>5, <2>6, MadeWorkspace
  <2>8. LaneOrder(p)[1] \in LanesOf(p)
    <3>1. PICK n \in Nat \ {0} : LanesOf(p) = {LaneOrder(p)[i] : i \in 1..n}
      BY Lanes DEF IsMoney
    <3>2. 1 \in 1..n
      OBVIOUS
    <3> QED BY <3>1, <3>2
  <2>9. \A l : Remapped(p, l) \in LanesOf(p) \cup {Unassigned}
    BY <2>8 DEF Remapped
  <2>10. DOMAIN c = DOMAIN a /\ \A i \in DOMAIN a : c[i] \in LanesOf(p) \cup {Unassigned}
    BY <2>3, <2>9
  <2> QED BY <2>6, <2>7, <2>10 DEF Fits
<1> QED BY <1>1, <1>2

\* A workspace fits whatever has the lanes that it fits.
LEMMA FitsLanes ==
  ASSUME NEW p, NEW ws, Fits(p, ws), NEW q, LanesOf(q) = LanesOf(p)
  PROVE  Fits(q, ws)
BY DEF Fits

LEMMA SplitsMakeLanes ==
  ASSUME NEW p, NEW q, q.splits = p.splits
  PROVE  LanesOf(q) = LanesOf(p)
<1>1. LaneOrder(q) = LaneOrder(p)
  BY DEF LaneOrder
<1> QED BY <1>1 DEF LanesOf

LEMMA EmptyWorkspace == IsWorkspace(NoWorkspace)
<1>1. \A l \in DOMAIN NoWorkspace.pins : NoWorkspace.pins[l] \in Nat \cup {Unknown}
  BY DEF NoWorkspace
<1>2. NoWorkspace.items \in Seq(Amounts)
  BY DEF NoWorkspace
<1> QED BY <1>1, <1>2 DEF NoWorkspace, IsWorkspace

WeighsLanes(weight, p, ws) ==
  weight = [i \in DOMAIN LaneOrder(p) |-> Weight(ws, LaneOrder(p)[i])]

\* No split is a cent or more away from its exact share.
FairTo(splits, total, weight) ==
  Total(weight) > 0 => \A i \in DOMAIN splits :
    Magnitude(splits[i] * Total(weight) - total * weight[i]) < Total(weight)

LEMMA SharesFair ==
  ASSUME NEW S, Positions(S), S # {}, NEW weights \in [S -> Nat],
         NEW target \in Nat \ {0}, NEW s, s = Shares(target, weights)
  PROVE  Total(s) = target /\ FairTo(s, target, weights)
BY SharesAddUp DEF FairTo

\* Whatever the board, what is suggested on it adds up, to the cent.
LEMMA FairOnBoard ==
  ASSUME NEW p, IsPayload(p), IsMoney(p), p.total > 0, p.splits # <<>>,
         NEW ws, IsWorkspace(ws), NEW weight, WeighsLanes(weight, p, ws)
  PROVE  /\ SumsUp(Recomputed(p, ws, FALSE))
         /\ FairTo(Recomputed(p, ws, FALSE).splits, p.total, weight)
<1>1. PICK lanes : lanes = LaneOrder(p)
  OBVIOUS
<1>2. PICK n \in Nat \ {0} : DOMAIN lanes = 1..n
  BY <1>1, Lanes DEF IsMoney
<1>3. PICK S : S = 1..n
  OBVIOUS
<1>4. Positions(S) /\ S # {}
  <2>1. Positions(S)
    BY <1>3, PartOfAll
  <2>2. 1 \in 1..n
    OBVIOUS
  <2> QED BY <1>3, <2>1, <2>2
<1>5. weight \in [S -> Nat]
  <2>1. weight = [i \in S |-> Weight(ws, lanes[i])]
    BY <1>1, <1>2, <1>3 DEF WeighsLanes
  <2> QED BY <2>1, WeightType
<1>6. PICK target \in Nat \ {0} : target = p.total
  BY DEF IsMoney
<1>7. PICK s : s = Shares(target, weight)
  OBVIOUS
<1>8. Total(s) = target /\ FairTo(s, target, weight)
  BY <1>4, <1>5, <1>7, SharesFair
<1>9. PICK q : q = Recomputed(p, ws, FALSE)
  OBVIOUS
<1>10. q = [p EXCEPT !.splits = s]
  BY <1>1, <1>6, <1>7, <1>9 DEF Recomputed, Suggested, WeighsLanes
<1>11. q.total = target /\ q.splits = s
  BY <1>6, <1>10, WithSplits
<1> QED BY <1>6, <1>8, <1>9, <1>11 DEF SumsUp

-----------------------------------------------------------------------------
(* Locks and versions *)

Shapes ==
  /\ draft = [version |-> draft.version, payload |-> draft.payload, ws |-> draft.ws]
  /\ IsPayload(draft.payload)
  /\ IsPayload(snapshot.payload)
  /\ sync = [pc |-> sync.pc, draft |-> sync.draft] /\ IsPayload(sync.draft.payload)
  /\ twin = [version |-> twin.version, total |-> twin.total, date |-> twin.date,
             items |-> twin.items, dateOk |-> twin.dateOk, totalOk |-> twin.totalOk]
  /\ twin.dateOk \in BOOLEAN /\ twin.totalOk \in BOOLEAN

\* A job counts from what it loaded, which nothing has overtaken downwards.
Counts ==
  /\ draft.version \in Nat /\ draftCount = draft.version
  /\ twin.version \in Nat /\ twinCount = twin.version
  /\ job.drafts \in Nat /\ job.drafts <= draftCount
  /\ job.twins \in Nat /\ job.twins <= twinCount

Inv == Shapes /\ Counts /\ LocksHold /\ SyncedIsUnedited

\* What a step gives a version to.
Fresh ==
  /\ draft' # draft => draft'.version = draftCount' /\ draftCount' > draftCount
  /\ twin'.version # twin.version => twin'.version = twinCount' /\ twinCount' > twinCount

-----------------------------------------------------------------------------
\* A written draft is the next version of what it was given.
LEMMA WrittenDraft ==
  ASSUME Counts, NEW p, NEW ws, Write(p, ws)
  PROVE  /\ draft' = [version |-> draftCount + 1, payload |-> p, ws |-> ws]
         /\ draft'.version = draftCount + 1 /\ draft'.payload = p /\ draft'.ws = ws
         /\ draftCount' = draftCount + 1 /\ ~ bypassed'
BY DEF Counts, Write, Written

-----------------------------------------------------------------------------
LEMMA SaveKeeps ==
  ASSUME Inv, NEW sent, IsPayload(sent), NEW ws, Save(sent, ws)
  PROVE  Inv' /\ Fresh
<1> DEFINE p == Locked(sent, twin)
<1>1. PICK w : Write(p, w)
  BY DEF Save
<1>2. /\ draft' = [version |-> draftCount + 1, payload |-> p, ws |-> w]
      /\ draft'.version = draftCount + 1 /\ draft'.payload = p /\ draft'.ws = w
      /\ draftCount' = draftCount + 1 /\ ~ bypassed'
  BY <1>1, WrittenDraft DEF Inv
<1>3. UNCHANGED <<twin, twinCount, snapshot, job, sync, slipped>>
  BY DEF Save
<1>4. /\ IsPayload(p)
      /\ twin.dateOk => p.date = twin.date
      /\ twin.totalOk => p.total = twin.total
  BY LockedPayload DEF Inv, Shapes
<1>5. status' = "SYNCED" => status = "SYNCED" /\ p = draft.payload
  BY DEF Save, Edited
<1> HIDE DEF p
<1>6. Shapes' /\ Counts'
  BY <1>2, <1>3, <1>4 DEF Inv, Shapes, Counts
<1>7. LocksHold'
  BY <1>2, <1>3, <1>4 DEF LocksHold
<1>8. SyncedIsUnedited'
  BY <1>2, <1>3, <1>5 DEF Inv, SyncedIsUnedited
<1>9. Fresh
  BY <1>2, <1>3 DEF Inv, Counts, Fresh
<1>10. QED
  BY <1>6, <1>7, <1>8, <1>9 DEF Inv

LEMMA SaveDraftKeeps == Inv /\ SaveDraft => Inv' /\ Fresh
BY SaveKeeps, MadePayload DEF SaveDraft, Payload

LEMMA SaveAllocationKeeps ==
  ASSUME Inv, NEW keepPins \in BOOLEAN, SaveAllocation(keepPins)
  PROVE  Inv' /\ Fresh
<1>1. PICK ws \in AtHand :
        LET mine == Reconciled(draft.payload, ws, twin.items)
        IN  Save(Recomputed(draft.payload, mine, keepPins), mine)
  BY DEF SaveAllocation
<1>2. IsPayload(draft.payload)
  BY DEF Inv, Shapes
<1>3. QED
  BY <1>1, <1>2, RecomputedPayload, SaveKeeps

\* Whatever the twin says now, the draft follows it.
LEMMA RefreshKeeps ==
  ASSUME Inv, NEW t, twin' = t, Refresh(t),
         t = [version |-> t.version, total |-> t.total, date |-> t.date,
              items |-> t.items, dateOk |-> t.dateOk, totalOk |-> t.totalOk],
         t.dateOk \in BOOLEAN, t.totalOk \in BOOLEAN,
         t.version \in Nat, twinCount' = t.version, t.version >= twin.version,
         UNCHANGED <<snapshot, job, sync, slipped>>
  PROVE  Inv' /\ Fresh
<1> DEFINE p == Locked(draft.payload, t)
<1>1. /\ IsPayload(p)
      /\ t.dateOk => p.date = t.date
      /\ t.totalOk => p.total = t.total
  <2>1. IsPayload(draft.payload)
    BY DEF Inv, Shapes
  <2>2. QED
    BY <2>1, LockedPayload
<1>2. CASE draft.version = 0 \/ p = draft.payload
  <2>1. UNCHANGED <<draft, draftCount, status>> /\ ~ bypassed'
    BY <1>2 DEF Refresh
  <2> HIDE DEF p
  <2>2. Shapes' /\ Counts'
    BY <2>1 DEF Inv, Shapes, Counts
  <2>3. LocksHold'
    BY <1>1, <1>2, <2>1 DEF LocksHold
  <2>4. SyncedIsUnedited' /\ Fresh
    BY <2>1 DEF Inv, SyncedIsUnedited, Fresh, Counts
  <2>5. QED
    BY <2>2, <2>3, <2>4 DEF Inv
<1>3. CASE ~ (draft.version = 0 \/ p = draft.payload)
  <2>1. Write(p, draft.ws) /\ status' # "SYNCED"
    BY <1>3 DEF Refresh, Edited
  <2> HIDE DEF p
  <2>2. /\ draft' = [version |-> draftCount + 1, payload |-> p, ws |-> draft.ws]
        /\ draft'.version = draftCount + 1 /\ draft'.payload = p
        /\ draftCount' = draftCount + 1 /\ ~ bypassed'
    BY <2>1, WrittenDraft DEF Inv
  <2>3. Shapes' /\ Counts'
    BY <1>1, <2>2 DEF Inv, Shapes, Counts
  <2>4. LocksHold'
    BY <1>1, <2>2 DEF LocksHold
  <2>5. SyncedIsUnedited' /\ Fresh
    BY <2>1, <2>2 DEF Inv, SyncedIsUnedited, Fresh, Counts
  <2>6. QED
    BY <2>3, <2>4, <2>5 DEF Inv
<1>4. QED
  BY <1>2, <1>3

LEMMA EditedTwin ==
  ASSUME Inv, NEW r, NEW t, t = [twin EXCEPT !.version = @ + 1, !.total = r.total,
                                             !.date = r.date, !.items = r.items]
  PROVE  t = [version |-> twin.version + 1, total |-> r.total, date |-> r.date,
              items |-> r.items, dateOk |-> twin.dateOk, totalOk |-> twin.totalOk]
<1>1. PICK v, a, b, c, d, e : twin = [version |-> v, total |-> a, date |-> b,
                                      items |-> c, dateOk |-> d, totalOk |-> e]
  BY DEF Inv, Shapes
<1>2. PICK n : n = v + 1
  OBVIOUS
<1>3. PICK q : q = [twin EXCEPT !.version = n, !.total = r.total]
  OBVIOUS
<1>4. t = [q EXCEPT !.date = r.date, !.items = r.items]
  BY <1>1, <1>2, <1>3
<1>5. q = [version |-> n, total |-> r.total, date |-> b, items |-> c, dateOk |-> d,
           totalOk |-> e]
  BY <1>1, <1>3
<1>6. t = [version |-> n, total |-> r.total, date |-> r.date, items |-> r.items,
           dateOk |-> d, totalOk |-> e]
  BY <1>4, <1>5
<1>7. QED
  BY <1>1, <1>2, <1>6

LEMMA SaveTwinKeeps == Inv /\ SaveTwin => Inv' /\ Fresh
<1> SUFFICES ASSUME Inv, SaveTwin PROVE Inv' /\ Fresh
  OBVIOUS
<1>1. PICK r \in Readings :
        LET t == [twin EXCEPT !.version = @ + 1, !.total = r.total, !.date = r.date,
                              !.items = r.items]
            moved == \/ twin.dateOk /\ t.date # twin.date
                     \/ twin.totalOk /\ t.total # twin.total
        IN  /\ twin' = t /\ twinCount' = t.version
            /\ IF moved THEN Refresh(t) ELSE UNCHANGED <<draft, draftCount, status, bypassed>>
  BY DEF SaveTwin
<1>2. PICK t : t = [twin EXCEPT !.version = @ + 1, !.total = r.total, !.date = r.date,
                                !.items = r.items]
  OBVIOUS
<1>3. t = [version |-> twin.version + 1, total |-> r.total, date |-> r.date,
           items |-> r.items, dateOk |-> twin.dateOk, totalOk |-> twin.totalOk]
  BY <1>2, EditedTwin
<1>4. /\ t = [version |-> t.version, total |-> t.total, date |-> t.date,
              items |-> t.items, dateOk |-> t.dateOk, totalOk |-> t.totalOk]
      /\ t.dateOk = twin.dateOk /\ t.totalOk = twin.totalOk
      /\ t.dateOk \in BOOLEAN /\ t.totalOk \in BOOLEAN
      /\ t.version = twin.version + 1 /\ t.version \in Nat /\ t.version >= twin.version
  BY <1>3 DEF Inv, Shapes, Counts
<1>5. UNCHANGED <<snapshot, job, sync, slipped>>
  BY DEF SaveTwin
<1>6. twin' = t /\ twinCount' = t.version
  BY <1>1, <1>2
<1>7. CASE Refresh(t)
  BY <1>4, <1>5, <1>6, <1>7, RefreshKeeps
<1>8. CASE UNCHANGED <<draft, draftCount, status, bypassed>>
           /\ ~ (twin.dateOk /\ t.date # twin.date)
           /\ ~ (twin.totalOk /\ t.total # twin.total)
  <2>1. Shapes' /\ Counts'
    BY <1>4, <1>5, <1>6, <1>8 DEF Inv, Shapes, Counts
  <2>2. LocksHold' /\ SyncedIsUnedited'
    BY <1>4, <1>5, <1>6, <1>8 DEF Inv, LocksHold, SyncedIsUnedited
  <2>3. Fresh
    BY <1>4, <1>6, <1>8 DEF Inv, Counts, Fresh
  <2>4. QED
    BY <2>1, <2>2, <2>3 DEF Inv
<1>9. QED
  BY <1>1, <1>2, <1>7, <1>8

LEMMA TwinFlags ==
  ASSUME Inv, NEW x \in BOOLEAN, NEW t,
         t = [twin EXCEPT !.dateOk = x] \/ t = [twin EXCEPT !.totalOk = x]
  PROVE  /\ t = [version |-> t.version, total |-> t.total, date |-> t.date,
                 items |-> t.items, dateOk |-> t.dateOk, totalOk |-> t.totalOk]
         /\ t.dateOk \in BOOLEAN /\ t.totalOk \in BOOLEAN
         /\ t.version = twin.version /\ t.date = twin.date /\ t.total = twin.total
         /\ t.items = twin.items
         /\ t = [twin EXCEPT !.dateOk = x] => t.totalOk = twin.totalOk /\ t.dateOk = x
         /\ t = [twin EXCEPT !.totalOk = x] => t.dateOk = twin.dateOk /\ t.totalOk = x
<1>1. PICK v, a, b, c, d, e : twin = [version |-> v, total |-> a, date |-> b,
                                      items |-> c, dateOk |-> d, totalOk |-> e]
  BY DEF Inv, Shapes
<1>2. d \in BOOLEAN /\ e \in BOOLEAN
  BY <1>1 DEF Inv, Shapes
<1>3. CASE t = [twin EXCEPT !.dateOk = x]
  <2>1. t = [version |-> v, total |-> a, date |-> b, items |-> c, dateOk |-> x,
             totalOk |-> e]
    BY <1>1, <1>3
  <2>2. t = [twin EXCEPT !.totalOk = x] => e = x /\ d = x
    <3>1. [twin EXCEPT !.totalOk = x] = [version |-> v, total |-> a, date |-> b,
             items |-> c, dateOk |-> d, totalOk |-> x]
      BY <1>1
    <3>2. QED
      BY <2>1, <3>1
  <2>3. QED
    BY <1>1, <1>2, <2>1, <2>2
<1>4. CASE t = [twin EXCEPT !.totalOk = x]
  <2>1. t = [version |-> v, total |-> a, date |-> b, items |-> c, dateOk |-> d,
             totalOk |-> x]
    BY <1>1, <1>4
  <2>2. t = [twin EXCEPT !.dateOk = x] => e = x /\ d = x
    <3>1. [twin EXCEPT !.dateOk = x] = [version |-> v, total |-> a, date |-> b,
             items |-> c, dateOk |-> x, totalOk |-> e]
      BY <1>1
    <3>2. QED
      BY <2>1, <3>1
  <2>3. QED
    BY <1>1, <1>2, <2>1, <2>2
<1>5. QED
  BY <1>3, <1>4

LEMMA ConfirmKeeps ==
  ASSUME Inv, ConfirmDate \/ ConfirmTotal
  PROVE  Inv' /\ Fresh
<1>1. PICK t : /\ t = [twin EXCEPT !.dateOk = TRUE] \/ t = [twin EXCEPT !.totalOk = TRUE]
               /\ ConfirmSection(t)
  BY DEF ConfirmDate, ConfirmTotal
<1>2. /\ t = [version |-> t.version, total |-> t.total, date |-> t.date,
              items |-> t.items, dateOk |-> t.dateOk, totalOk |-> t.totalOk]
      /\ t.dateOk \in BOOLEAN /\ t.totalOk \in BOOLEAN /\ t.version = twin.version
  BY <1>1, TwinFlags
<1>3. twin' = t /\ Refresh(t) /\ UNCHANGED <<twinCount, snapshot, job, sync, slipped>>
  BY <1>1 DEF ConfirmSection
<1>4. t.version \in Nat /\ twinCount' = t.version /\ t.version >= twin.version
  BY <1>2, <1>3 DEF Inv, Counts
<1>5. QED
  BY <1>2, <1>3, <1>4, RefreshKeeps

LEMMA UnconfirmKeeps ==
  ASSUME Inv, Unconfirm
  PROVE  Inv' /\ Fresh
<1>1. PICK t : /\ t = [twin EXCEPT !.dateOk = FALSE] \/ t = [twin EXCEPT !.totalOk = FALSE]
               /\ twin' = t
  BY DEF Unconfirm
<1>2. UNCHANGED <<status, draft, draftCount, twinCount, snapshot, job, sync, bypassed,
                  slipped>>
  BY DEF Unconfirm
<1>3. /\ t = [version |-> t.version, total |-> t.total, date |-> t.date,
              items |-> t.items, dateOk |-> t.dateOk, totalOk |-> t.totalOk]
      /\ t.dateOk \in BOOLEAN /\ t.totalOk \in BOOLEAN
      /\ t.version = twin.version /\ t.date = twin.date /\ t.total = twin.total
      /\ t.dateOk => twin.dateOk
      /\ t.totalOk => twin.totalOk
  BY <1>1, TwinFlags
<1>4. Shapes' /\ Counts' /\ Fresh
  BY <1>1, <1>2, <1>3 DEF Inv, Shapes, Counts, Fresh
<1>5. LocksHold' /\ SyncedIsUnedited'
  BY <1>1, <1>2, <1>3 DEF Inv, LocksHold, SyncedIsUnedited
<1>6. QED
  BY <1>4, <1>5 DEF Inv

\* Choosing brings splits only, and what it brings is locked.
LEMMA ChooseKeeps ==
  ASSUME Inv, NEW s \in Structures, Choose(s)
  PROVE  /\ Inv' /\ Fresh
         /\ ~ bypassed => /\ draft'.payload.total = draft.payload.total
                          /\ draft'.payload.date = draft.payload.date
<1>1. PICK m : m = MergedWith(draft.payload, s)
  OBVIOUS
<1>2. IsPayload(m) /\ m.total = draft.payload.total /\ m.date = draft.payload.date
  BY <1>1, WithSplits DEF MergedWith, Inv, Shapes
<1>3. PICK p : p = Locked(m, twin)
  OBVIOUS
<1>4. /\ IsPayload(p)
      /\ twin.dateOk => p.date = twin.date
      /\ twin.totalOk => p.total = twin.total
      /\ ~ twin.dateOk => p.date = m.date
      /\ ~ twin.totalOk => p.total = m.total
  BY <1>2, <1>3, LockedPayload DEF Inv, Shapes
<1>5. PICK w : Write(p, w)
  BY <1>1, <1>3 DEF Choose
<1>6. /\ draft' = [version |-> draftCount + 1, payload |-> p, ws |-> w]
      /\ draft'.version = draftCount + 1 /\ draft'.payload = p
      /\ draftCount' = draftCount + 1 /\ ~ bypassed'
  BY <1>5, WrittenDraft DEF Inv
<1>7. /\ UNCHANGED <<twin, twinCount, snapshot, job, sync, slipped>>
      /\ draft.version > 0
      /\ status' = "SYNCED" => status = "SYNCED" /\ p = draft.payload
  BY <1>1, <1>3 DEF Choose, Edited
<1>8. Shapes' /\ Counts' /\ Fresh
  BY <1>4, <1>6, <1>7 DEF Inv, Shapes, Counts, Fresh
<1>9. LocksHold' /\ SyncedIsUnedited'
  BY <1>4, <1>6, <1>7 DEF Inv, LocksHold, SyncedIsUnedited
<1>10. ~ bypassed => p.total = draft.payload.total /\ p.date = draft.payload.date
  BY <1>2, <1>4, <1>7 DEF Inv, LocksHold, Shapes
<1>11. QED
  BY <1>6, <1>8, <1>9, <1>10 DEF Inv

LEMMA ResetKeeps ==
  ASSUME Inv, ResetToSynced
  PROVE  Inv' /\ Fresh
<1>1. /\ draft' = [version |-> draftCount + 1, payload |-> snapshot.payload,
                   ws |-> snapshot.ws]
      /\ draftCount' = draft'.version /\ bypassed' = TRUE
      /\ snapshot # NoCopy
      /\ UNCHANGED <<twin, twinCount, snapshot, job, sync>>
  BY DEF ResetToSynced, Written
<1>2. draft'.version = draftCount + 1 /\ draft'.payload = snapshot.payload
  BY <1>1
<1>3. Shapes' /\ Counts' /\ Fresh
  BY <1>1, <1>2 DEF Inv, Shapes, Counts, Fresh
<1>4. LocksHold' /\ SyncedIsUnedited'
  BY <1>1, <1>2 DEF Inv, LocksHold, SyncedIsUnedited
<1>5. QED
  BY <1>3, <1>4 DEF Inv

-----------------------------------------------------------------------------
(* The jobs *)

\* Steps that write neither a draft nor a twin.
LEMMA NothingWritten ==
  ASSUME Inv, UNCHANGED <<draft, draftCount, twin, twinCount, bypassed>>,
         IsPayload(snapshot'.payload),
         sync' = [pc |-> sync'.pc, draft |-> sync'.draft], IsPayload(sync'.draft.payload),
         job'.drafts \in Nat, job'.drafts <= draftCount,
         job'.twins \in Nat, job'.twins <= twinCount,
         status' = "SYNCED" /\ ~ slipped'
            => snapshot' # NoCopy /\ draft.payload = snapshot'.payload
  PROVE  Inv' /\ Fresh
<1>1. Shapes' /\ Counts' /\ Fresh
  BY DEF Inv, Shapes, Counts, Fresh, IsPayload
<1>2. LocksHold' /\ SyncedIsUnedited'
  BY DEF Inv, LocksHold, SyncedIsUnedited
<1>3. QED
  BY <1>1, <1>2 DEF Inv

LEMMA EmptyCopy ==
  /\ IsPayload(NoCopy.payload) /\ NoCopy.payload.total = 0
  /\ NoSync = [pc |-> NoSync.pc, draft |-> NoSync.draft] /\ NoSync.draft = NoCopy
  /\ NoJob.drafts = 0 /\ NoJob.twins = 0
BY DEF NoCopy, NoPayload, NoSync, NoJob, IsPayload

LEMMA ExtractionKeeps ==
  ASSUME Inv, ExtractionStarts \/ ExtractionFails
  PROVE  Inv' /\ Fresh
<1>1. CASE ExtractionStarts
  <2>1. /\ job'.drafts = draftCount /\ job'.twins = twinCount /\ status' # "SYNCED"
        /\ UNCHANGED <<draft, draftCount, twin, twinCount, snapshot, sync, bypassed>>
    BY <1>1 DEF ExtractionStarts
  <2>2. QED
    BY <2>1, NothingWritten DEF Inv, Shapes, Counts
<1>2. CASE ExtractionFails
  <2>1. /\ job' = NoJob /\ status' # "SYNCED"
        /\ UNCHANGED <<draft, draftCount, twin, twinCount, snapshot, sync, bypassed>>
    BY <1>2 DEF ExtractionFails
  <2>2. QED
    BY <2>1, EmptyCopy, NothingWritten DEF Inv, Shapes, Counts
<1>3. QED
  BY <1>1, <1>2

\* However long ago the counters were loaded, the version after them, or after
\* the second attempt, is the next one.
LEMMA NextIsFree ==
  ASSUME Counts
  PROVE  /\ NextVersion(job.drafts, draftCount, draft.version) = draftCount + 1
         /\ NextVersion(job.twins, twinCount, twin.version) = twinCount + 1
BY DEF Counts, NextVersion

LEMMA ExtractionSucceedsKeeps ==
  ASSUME Inv, NEW p, IsPayload(p), NEW items, NEW usable \in BOOLEAN,
         ExtractionSucceeds(p, items, usable)
  PROVE  Inv' /\ Fresh
<1>1. PICK q, w :
        /\ IsPayload(q)
        /\ draft' = [version |-> draftCount + 1, payload |-> q, ws |-> w]
        /\ draftCount' = draft'.version
  <2>1. \A x, w : Drafted(x, w) =>
          /\ draft' = [version |-> draftCount + 1, payload |-> x, ws |-> w]
          /\ draftCount' = draft'.version
    BY NextIsFree DEF Drafted, Inv
  <2>2. \A w : IsPayload(Recomputed(p, w, FALSE))
    BY RecomputedPayload
  <2>3. PICK x, w : Drafted(x, w) /\ (x = p \/ x = Recomputed(p, w, FALSE))
    BY DEF ExtractionSucceeds
  <2>4. QED
    BY <2>1, <2>2, <2>3
<1>2. draft'.version = draftCount + 1 /\ draft'.payload = q
  BY <1>1
<1>3. /\ status' = "NEEDS_REVIEW" /\ bypassed' = ~ usable /\ job' = NoJob
      /\ UNCHANGED <<snapshot, sync, slipped>>
  BY DEF ExtractionSucceeds
<1>4. \/ usable /\ twin' = [version |-> twinCount + 1, total |-> p.total, date |-> p.date,
                            items |-> items, dateOk |-> FALSE, totalOk |-> FALSE]
                /\ twinCount' = twin'.version
      \/ ~ usable /\ UNCHANGED <<twin, twinCount>>
  BY NextIsFree DEF ExtractionSucceeds, Inv
<1>5. LocksHold'
  <2>1. CASE usable
    <3>1. twin'.dateOk = FALSE /\ twin'.totalOk = FALSE
      BY <1>4, <2>1
    <3>2. QED
      BY <3>1 DEF LocksHold
  <2>2. CASE ~ usable
    BY <1>3, <2>2 DEF LocksHold
  <2>3. QED
    BY <2>1, <2>2
<1>6. SyncedIsUnedited'
  BY <1>3 DEF SyncedIsUnedited
<1>7. Shapes' /\ Counts' /\ Fresh
  <2>1. job'.drafts = 0 /\ job'.twins = 0
    BY <1>3, EmptyCopy
  <2>2. CASE usable
    <3>1. PICK n : n = twinCount + 1
      OBVIOUS
    <3>2. twin' = [version |-> n, total |-> p.total, date |-> p.date,
                   items |-> items, dateOk |-> FALSE, totalOk |-> FALSE]
      BY <2>2, <1>4, <3>1
    <3>3. /\ twin' = [version |-> twin'.version, total |-> twin'.total,
                      date |-> twin'.date, items |-> twin'.items,
                      dateOk |-> twin'.dateOk, totalOk |-> twin'.totalOk]
          /\ twin'.dateOk \in BOOLEAN /\ twin'.totalOk \in BOOLEAN /\ twin'.version = n
      BY <3>2
    <3>4. twinCount' = twinCount + 1 /\ twin'.version = twinCount + 1
      BY <2>2, <1>4, <3>1, <3>3
    <3>5. QED
      BY <1>1, <1>2, <1>3, <2>1, <3>3, <3>4 DEF Inv, Shapes, Counts, Fresh
  <2>3. CASE ~ usable
    BY <1>1, <1>2, <1>3, <1>4, <2>1, <2>3 DEF Inv, Shapes, Counts, Fresh
  <2>4. QED
    BY <2>2, <2>3
<1>8. QED
  BY <1>5, <1>6, <1>7 DEF Inv

LEMMA SyncKeeps ==
  ASSUME Inv, ClickSync \/ SyncReads \/ SyncSucceeds \/ SyncFails
  PROVE  Inv' /\ Fresh
<1>1. CASE ClickSync
  <2>1. /\ sync' = [pc |-> "queued", draft |-> NoCopy] /\ status' # "SYNCED"
        /\ UNCHANGED <<draft, draftCount, twin, twinCount, snapshot, job, bypassed>>
    BY <1>1 DEF ClickSync
  <2>2. sync'.draft = NoCopy /\ sync'.pc = "queued"
    BY <2>1
  <2>3. QED
    BY <2>1, <2>2, EmptyCopy, NothingWritten DEF Inv, Shapes, Counts
<1>2. CASE SyncReads
  <2>1. PICK c : c = [f \in DOMAIN NoCopy |-> draft[f]]
    OBVIOUS
  <2>2. c.payload = draft.payload
    BY <2>1 DEF NoCopy
  <2>3. /\ sync' = [pc |-> "running", draft |-> c]
        /\ UNCHANGED <<status, draft, draftCount, twin, twinCount, snapshot, job,
                       bypassed, slipped>>
    BY <1>2, <2>1 DEF SyncReads
  <2>4. sync'.draft = c /\ sync'.pc = "running"
    BY <2>3
  <2>5. QED
    BY <2>2, <2>3, <2>4, NothingWritten DEF Inv, Shapes, Counts, SyncedIsUnedited
<1>3. CASE SyncSucceeds
  <2>1. /\ sync.draft.payload.total > 0 /\ snapshot' = sync.draft /\ sync' = NoSync
        /\ slipped' = (draft.payload # sync.draft.payload)
        /\ UNCHANGED <<draft, draftCount, twin, twinCount, job, bypassed>>
    BY <1>3 DEF SyncSucceeds, SumsUp
  <2>2. sync.draft # NoCopy
    BY <2>1, EmptyCopy
  <2>3. QED
    BY <2>1, <2>2, EmptyCopy, NothingWritten DEF Inv, Shapes, Counts
<1>4. CASE SyncFails
  <2>1. /\ status' # "SYNCED" /\ sync' = NoSync
        /\ snapshot' = NoCopy \/ snapshot' = snapshot
        /\ UNCHANGED <<draft, draftCount, twin, twinCount, job, bypassed>>
    BY <1>4 DEF SyncFails
  <2>2. QED
    BY <2>1, EmptyCopy, NothingWritten DEF Inv, Shapes, Counts
<1>5. QED
  BY <1>1, <1>2, <1>3, <1>4

-----------------------------------------------------------------------------
LEMMA InvInit == Init => Inv
<1> SUFFICES ASSUME Init PROVE Inv
  OBVIOUS
<1>1. Shapes
  BY EmptyCopy DEF Init, Shapes, NoDraft, NoPayload, NoTwin, IsPayload
<1>2. Counts
  BY DEF Init, Counts, NoDraft, NoTwin, NoJob
<1>3. LocksHold /\ SyncedIsUnedited
  BY DEF Init, LocksHold, SyncedIsUnedited, NoDraft
<1>4. QED
  BY <1>1, <1>2, <1>3 DEF Inv

LEMMA StepKeeps == Inv /\ [Next]_vars => Inv' /\ (Fresh \/ UNCHANGED vars)
<1> SUFFICES ASSUME Inv, [Next]_vars PROVE Inv' /\ (Fresh \/ UNCHANGED vars)
  OBVIOUS
<1>1. CASE UNCHANGED vars
  BY <1>1 DEF vars, Inv, Shapes, Counts, LocksHold, SyncedIsUnedited, IsPayload
<1>2. CASE UserStep
  BY <1>2, SaveDraftKeeps, SaveAllocationKeeps, SaveTwinKeeps, ConfirmKeeps,
     UnconfirmKeeps, ChooseKeeps, ResetKeeps, SyncKeeps DEF UserStep
<1>3. CASE JobStep
  <2>1. ASSUME NEW r \in Readings, NEW s \in Structures, NEW usable \in BOOLEAN,
               ExtractionSucceeds(Payload(r, s), r.items, usable)
        PROVE  Inv' /\ Fresh
    BY <2>1, ExtractionSucceedsKeeps, MadePayload DEF Payload
  <2>2. QED
    BY <1>3, <2>1, ExtractionKeeps, SyncKeeps DEF JobStep
<1>4. QED
  BY <1>1, <1>2, <1>3 DEF Next

LEMMA Invariance == Spec => []Inv
<1>1. Inv /\ [Next]_vars => Inv'
  BY StepKeeps
<1>2. QED
  BY InvInit, <1>1, PTL DEF Spec

-----------------------------------------------------------------------------
(* The money and the boards.  A draft, a snapshot and what a sync job holds
   are complete: amounts, a date that was read, and a workspace that fits. *)

Dates == {r.date : r \in Readings}

Complete(d) ==
  /\ IsPayload(d.payload) /\ IsMoney(d.payload) /\ d.payload.date \in Dates
  /\ IsWorkspace(d.ws) /\ Fits(d.payload, d.ws)

DraftFine(d) ==
  /\ d.version = 0 => d = NoDraft
  /\ d.version > 0 => Complete(d)

TwinFine(t) ==
  /\ t.total \in Nat /\ t.items \in Seq(Amounts)
  /\ t.version > 0 => t.date \in Dates
  /\ t.dateOk => t.version > 0

SetFine(c) == c.items \in Seq(Amounts) /\ c.total \in Nat /\ c.choices \subseteq Structures

\* A sync was asked for a draft, and the snapshot is one that a job had read.
CopiesFine ==
  /\ sync.pc # "none" => draft.version > 0
  /\ sync.pc = "running" => Complete(sync.draft)
  /\ snapshot # NoCopy => Complete(snapshot)

Controls ==
  /\ status \in {"INGESTED", "EXTRACTING", "NEEDS_REVIEW", "ERROR_EXTRACT",
                 "SYNCING", "SYNCED", "ERROR_SYNC"}
  /\ job.pc \in {"none", "running"} /\ sync.pc \in {"none", "queued", "running"}
  /\ bypassed \in BOOLEAN /\ slipped \in BOOLEAN

Boards ==
  DraftFine(draft) /\ TwinFine(twin) /\ SetFine(candidates) /\ CopiesFine /\ Controls

LEMMA ReadingFields ==
  ASSUME NEW r \in Readings
  PROVE  r.total \in Nat /\ r.date \in Dates /\ r.items \in Seq(Amounts)
BY DraftConstants DEF Dates, Amounts

LEMMA ReadPayload ==
  ASSUME NEW r \in Readings, NEW s \in Structures, NEW p, p = Payload(r, s)
  PROVE  IsPayload(p) /\ IsMoney(p) /\ p.date \in Dates
<1>1. IsPayload(p) /\ p.total = r.total /\ p.date = r.date /\ p.splits = s
  BY MadePayload DEF Payload
<1>2. s \in Seq(Nat)
  BY DraftConstants
<1> QED BY <1>1, <1>2, ReadingFields DEF IsMoney

LEMMA LockedMoney ==
  ASSUME NEW p, IsPayload(p), IsMoney(p), p.date \in Dates,
         NEW t, t.dateOk \in BOOLEAN, t.totalOk \in BOOLEAN, TwinFine(t),
         NEW q, q = Locked(p, t)
  PROVE  IsPayload(q) /\ IsMoney(q) /\ q.date \in Dates /\ LanesOf(q) = LanesOf(p)
<1>1. /\ IsPayload(q) /\ q.splits = p.splits
      /\ q.date = p.date \/ (t.dateOk /\ q.date = t.date)
      /\ q.total = p.total \/ q.total = t.total
  BY LockedPayload
<1>2. LanesOf(q) = LanesOf(p)
  BY <1>1, SplitsMakeLanes
<1>3. t.dateOk => t.date \in Dates
  BY DEF TwinFine
<1> QED BY <1>1, <1>2, <1>3 DEF IsMoney, TwinFine

\* What is written is a draft.
LEMMA WrittenFine ==
  ASSUME Counts, NEW p, IsPayload(p), IsMoney(p), p.date \in Dates,
         NEW w, IsWorkspace(w), Fits(p, w),
         NEW d, d = [version |-> draftCount + 1, payload |-> p, ws |-> w]
  PROVE  DraftFine(d) /\ d.version > 0 /\ Complete(d)
<1>1. d.version = draftCount + 1 /\ d.payload = p /\ d.ws = w
  OBVIOUS
<1>2. draftCount + 1 > 0 /\ draftCount + 1 # 0
  BY DEF Counts
<1>3. Complete(d)
  BY <1>1 DEF Complete
<1> QED BY <1>1, <1>2, <1>3 DEF DraftFine

\* A copy of a complete draft is one.
LEMMA CopiedComplete ==
  ASSUME NEW d, Complete(d), NEW c, c.payload = d.payload, c.ws = d.ws
  PROVE  Complete(c)
BY DEF Complete

LEMMA BoardWritten ==
  ASSUME Inv, Boards, NEW p, IsPayload(p), IsMoney(p), p.date \in Dates,
         NEW w, IsWorkspace(w), Fits(p, w),
         draft' = [version |-> draftCount + 1, payload |-> p, ws |-> w],
         UNCHANGED <<sync, snapshot>>
  PROVE  DraftFine(draft)' /\ CopiesFine'
<1>1. DraftFine(draft') /\ draft'.version > 0
  BY WrittenFine DEF Inv
<1> QED BY <1>1 DEF Boards, CopiesFine

-----------------------------------------------------------------------------
LEMMA SaveBoards ==
  ASSUME Inv, Boards, NEW sent, IsPayload(sent), IsMoney(sent), sent.date \in Dates,
         NEW ws, IsWorkspace(ws), Save(sent, ws)
  PROVE  Boards'
<1>1. PICK p : p = Locked(sent, twin)
  OBVIOUS
<1>2. IsPayload(p) /\ IsMoney(p) /\ p.date \in Dates
  BY <1>1, LockedMoney DEF Inv, Shapes, Boards
<1>3. PICK w : w = Reconciled(p, ws, twin.items)
  OBVIOUS
<1>4. IsWorkspace(w) /\ Fits(p, w)
  BY <1>2, <1>3, ReconciledFits DEF Boards, TwinFine
<1>5. Write(p, w) /\ UNCHANGED <<twin, candidates, snapshot, job, sync, slipped>>
  BY <1>1, <1>3 DEF Save
<1>6. draft' = [version |-> draftCount + 1, payload |-> p, ws |-> w] /\ ~ bypassed'
  BY <1>5, WrittenDraft DEF Inv
<1>7. DraftFine(draft)' /\ CopiesFine'
  BY <1>2, <1>4, <1>5, <1>6, BoardWritten
<1>8. status' \in {"NEEDS_REVIEW", status}
  BY DEF Save, Edited
<1>9. Controls'
  BY <1>5, <1>6, <1>8 DEF Boards, Controls, Write
<1> QED BY <1>5, <1>7, <1>9 DEF Boards

LEMMA SaveDraftBoards == Inv /\ Boards /\ SaveDraft => Boards'
<1> SUFFICES ASSUME Inv, Boards, SaveDraft PROVE Boards'
  OBVIOUS
<1>1. PICK r \in Readings, s \in Structures : Save(Payload(r, s), draft.ws)
  BY DEF SaveDraft
<1>2. PICK p : p = Payload(r, s)
  OBVIOUS
<1>3. IsPayload(p) /\ IsMoney(p) /\ p.date \in Dates
  BY <1>2, ReadPayload
<1>4. IsWorkspace(draft.ws)
  <2>1. CASE draft.version = 0
    <3>1. draft.ws = NoWorkspace
      BY <2>1 DEF Boards, DraftFine, NoDraft
    <3> QED BY <3>1, EmptyWorkspace
  <2>2. CASE draft.version # 0
    BY <2>2 DEF Inv, Counts, Boards, DraftFine, Complete
  <2> QED BY <2>1, <2>2
<1> QED BY <1>1, <1>2, <1>3, <1>4, SaveBoards

\* A board that was moved or unpinned is still one.
LEMMA BoardsAtHand ==
  ASSUME NEW w, IsWorkspace(w), NEW ws \in {w} \cup Moved(w) \cup Unpinned(w)
  PROVE  IsWorkspace(ws)
<1>1. PICK a, b, c : w = [items |-> a, pins |-> b, lane |-> c]
  BY DEF IsWorkspace
<1>2. a \in Seq(Amounts) /\ \A l \in DOMAIN b : b[l] \in Nat \cup {Unknown}
  <2>1. w.items = a /\ w.pins = b
    BY <1>1
  <2> QED BY <2>1 DEF IsWorkspace
<1>3. CASE ws \in Moved(w)
  <2>1. PICK i, l : ws = [w EXCEPT !.lane[i] = l]
    BY <1>3 DEF Moved
  <2>2. PICK d : d = [c EXCEPT ![i] = l]
    OBVIOUS
  <2>3. ws = [items |-> a, pins |-> b, lane |-> d]
    BY <1>1, <2>1, <2>2
  <2> QED BY <1>2, <2>3, MadeWorkspace
<1>4. CASE ws \in Unpinned(w)
  <2>1. PICK l : ws = [w EXCEPT !.pins[l] = Unknown]
    BY <1>4 DEF Unpinned
  <2>2. PICK d : d = [b EXCEPT ![l] = Unknown]
    OBVIOUS
  <2>3. ws = [items |-> a, pins |-> d, lane |-> c]
    BY <1>1, <2>1, <2>2
  <2>4. \A k \in DOMAIN d : d[k] \in Nat \cup {Unknown}
    BY <1>2, <2>2
  <2> QED BY <1>2, <2>3, <2>4, MadeWorkspace
<1> QED BY <1>3, <1>4

LEMMA SaveAllocationBoards ==
  ASSUME Inv, Boards, NEW keepPins \in BOOLEAN, SaveAllocation(keepPins)
  PROVE  Boards'
<1>1. PICK ws \in AtHand :
        LET mine == Reconciled(draft.payload, ws, twin.items)
        IN  Save(Recomputed(draft.payload, mine, keepPins), mine)
  BY DEF SaveAllocation
<1>2. Complete(draft)
  BY DEF SaveAllocation, Boards, DraftFine
<1>3. PICK p : p = draft.payload
  OBVIOUS
<1>4. IsPayload(p) /\ IsMoney(p) /\ p.date \in Dates /\ IsWorkspace(draft.ws)
  BY <1>2, <1>3 DEF Complete
<1>5. IsWorkspace(ws)
  <2>1. CASE ws = NoWorkspace
    BY <2>1, EmptyWorkspace
  <2>2. CASE ws # NoWorkspace
    <3>1. ws \in {draft.ws} \cup Moved(draft.ws) \cup Unpinned(draft.ws)
      BY <1>1, <2>2 DEF AtHand
    <3> QED BY <1>4, <3>1, BoardsAtHand
  <2> QED BY <2>1, <2>2
<1>6. PICK mine : mine = Reconciled(p, ws, twin.items)
  OBVIOUS
<1>7. IsWorkspace(mine) /\ Fits(p, mine)
  BY <1>4, <1>5, <1>6, ReconciledFits DEF Boards, TwinFine
<1>8. PICK q : q = Recomputed(p, mine, keepPins)
  OBVIOUS
<1>9. IsPayload(q)
  BY <1>4, <1>8, RecomputedPayload
<1>10. IsMoney(q) /\ q.date = p.date
  <2>1. DOMAIN mine.pins = LanesOf(p)
    BY <1>7 DEF Fits
  <2> QED BY <1>4, <1>7, <1>8, <2>1, RecomputedMoney
<1>11. Save(q, mine)
  BY <1>1, <1>3, <1>6, <1>8
<1> QED BY <1>4, <1>7, <1>9, <1>10, <1>11, SaveBoards

LEMMA RefreshBoards ==
  ASSUME Inv, Boards, NEW t, twin' = t, Refresh(t), TwinFine(t),
         t.dateOk \in BOOLEAN, t.totalOk \in BOOLEAN,
         UNCHANGED <<candidates, snapshot, job, sync, slipped>>
  PROVE  Boards'
<1>1. PICK p : p = Locked(draft.payload, t)
  OBVIOUS
<1>2. CASE draft.version = 0 \/ p = draft.payload
  <2>1. UNCHANGED <<draft, status>> /\ bypassed' = FALSE
    BY <1>1, <1>2 DEF Refresh
  <2> QED BY <2>1 DEF Boards, CopiesFine, Controls
<1>3. CASE ~ (draft.version = 0 \/ p = draft.payload)
  <2>1. Complete(draft)
    BY <1>3 DEF Inv, Counts, Boards, DraftFine
  <2>2. PICK q : q = draft.payload
    OBVIOUS
  <2>3. IsPayload(q) /\ IsMoney(q) /\ q.date \in Dates /\ IsWorkspace(draft.ws)
        /\ Fits(q, draft.ws)
    BY <2>1, <2>2 DEF Complete
  <2>4. IsPayload(p) /\ IsMoney(p) /\ p.date \in Dates /\ LanesOf(p) = LanesOf(q)
    BY <1>1, <2>2, <2>3, LockedMoney
  <2>5. Fits(p, draft.ws)
    BY <2>3, <2>4, FitsLanes
  <2>6. Write(p, draft.ws) /\ status' = Edited(TRUE, NoPayload)
    BY <1>1, <1>3 DEF Refresh
  <2>7. draft' = [version |-> draftCount + 1, payload |-> p, ws |-> draft.ws] /\ ~ bypassed'
    BY <2>6, WrittenDraft DEF Inv
  <2>8. DraftFine(draft)' /\ CopiesFine'
    BY <2>3, <2>4, <2>5, <2>7, BoardWritten
  <2>9. status' \in {"NEEDS_REVIEW", status}
    BY <2>6 DEF Edited
  <2>10. Controls'
    BY <2>6, <2>9 DEF Boards, Controls, Write
  <2> QED BY <2>8, <2>10 DEF Boards
<1> QED BY <1>2, <1>3

LEMMA SaveTwinBoards == Inv /\ Boards /\ SaveTwin => Boards'
<1> SUFFICES ASSUME Inv, Boards, SaveTwin PROVE Boards'
  OBVIOUS
<1>0. PICK r \in Readings :
        LET t == [twin EXCEPT !.version = @ + 1, !.total = r.total, !.date = r.date,
                              !.items = r.items]
        IN  twin' = t /\ (Refresh(t) \/ UNCHANGED <<draft, draftCount, status, bypassed>>)
  BY DEF SaveTwin
<1>1. PICK t :
        /\ t = [twin EXCEPT !.version = @ + 1, !.total = r.total, !.date = r.date,
                            !.items = r.items]
        /\ twin' = t
        /\ Refresh(t) \/ UNCHANGED <<draft, draftCount, status, bypassed>>
  BY <1>0
<1>2. UNCHANGED <<candidates, snapshot, job, sync, slipped>> /\ twin.version \in Nat
  BY DEF SaveTwin, Inv, Counts
<1>3. t = [version |-> twin.version + 1, total |-> r.total, date |-> r.date,
           items |-> r.items, dateOk |-> twin.dateOk, totalOk |-> twin.totalOk]
  BY <1>1, EditedTwin
<1>4. /\ t.version = twin.version + 1 /\ t.total = r.total /\ t.date = r.date
      /\ t.items = r.items /\ t.dateOk = twin.dateOk /\ t.totalOk = twin.totalOk
  BY <1>3
<1>5. TwinFine(t) /\ t.dateOk \in BOOLEAN /\ t.totalOk \in BOOLEAN
  BY <1>2, <1>4, ReadingFields DEF TwinFine, Inv, Shapes
<1>6. CASE Refresh(t)
  BY <1>1, <1>2, <1>5, <1>6, RefreshBoards
<1>7. CASE UNCHANGED <<draft, draftCount, status, bypassed>>
  BY <1>1, <1>2, <1>5, <1>7 DEF Boards, CopiesFine, Controls
<1> QED BY <1>1, <1>6, <1>7

LEMMA ConfirmBoards ==
  ASSUME Inv, Boards, ConfirmDate \/ ConfirmTotal
  PROVE  Boards'
<1>1. PICK t : /\ t = [twin EXCEPT !.dateOk = TRUE] \/ t = [twin EXCEPT !.totalOk = TRUE]
               /\ ConfirmSection(t)
  BY DEF ConfirmDate, ConfirmTotal
<1>2. /\ t.dateOk \in BOOLEAN /\ t.totalOk \in BOOLEAN
      /\ t.version = twin.version /\ t.date = twin.date /\ t.total = twin.total
      /\ t.items = twin.items
  BY <1>1, TwinFlags
<1>3. /\ twin.version > 0 /\ twin' = t /\ Refresh(t)
      /\ UNCHANGED <<candidates, snapshot, job, sync, slipped>>
  BY <1>1 DEF ConfirmSection
<1>4. TwinFine(t)
  BY <1>2, <1>3 DEF Boards, TwinFine
<1> QED BY <1>2, <1>3, <1>4, RefreshBoards

LEMMA UnconfirmBoards ==
  ASSUME Inv, Boards, Unconfirm
  PROVE  Boards'
<1>1. PICK t : /\ t = [twin EXCEPT !.dateOk = FALSE] \/ t = [twin EXCEPT !.totalOk = FALSE]
               /\ twin' = t
  BY DEF Unconfirm
<1>2. /\ t.version = twin.version /\ t.date = twin.date /\ t.total = twin.total
      /\ t.items = twin.items /\ (t.dateOk => twin.dateOk)
  BY <1>1, TwinFlags
<1>3. UNCHANGED <<status, draft, draftCount, candidates, snapshot, job, sync, bypassed,
                  slipped>>
  BY DEF Unconfirm
<1>4. TwinFine(t)
  BY <1>2 DEF Boards, TwinFine
<1> QED BY <1>1, <1>3, <1>4 DEF Boards, CopiesFine, Controls

LEMMA ChooseBoards ==
  ASSUME Inv, Boards, NEW s \in Structures, Choose(s)
  PROVE  Boards'
<1>1. Complete(draft) /\ s \in Seq(Nat)
  BY DraftConstants DEF Choose, Boards, DraftFine
<1>2. PICK d : d = draft.payload
  OBVIOUS
<1>3. IsPayload(d) /\ IsMoney(d) /\ d.date \in Dates
  BY <1>1, <1>2 DEF Complete
<1>4. PICK m : m = MergedWith(d, s)
  OBVIOUS
<1>5. IsPayload(m) /\ IsMoney(m) /\ m.date \in Dates
  <2>1. IsPayload(m) /\ m.total = d.total /\ m.date = d.date /\ m.splits = s
    BY <1>3, <1>4, WithSplits DEF MergedWith
  <2> QED BY <1>1, <1>3, <2>1 DEF IsMoney
<1>6. PICK p : p = Locked(m, twin)
  OBVIOUS
<1>7. IsPayload(p) /\ IsMoney(p) /\ p.date \in Dates
  BY <1>5, <1>6, LockedMoney DEF Inv, Shapes, Boards
<1>8. PICK made : made = [d EXCEPT !.total = candidates.total, !.splits = s]
  OBVIOUS
<1>9. IsMoney(made)
  <2>1. PICK a, b, c : d = [total |-> a, date |-> b, splits |-> c]
    BY <1>3 DEF IsPayload
  <2>2. PICK n : n = candidates.total
    OBVIOUS
  <2>3. made = [total |-> n, date |-> b, splits |-> s]
    BY <1>8, <2>1, <2>2
  <2>4. made.total = n /\ made.splits = s
    BY <2>3, MadePayload
  <2> QED BY <1>1, <2>2, <2>4 DEF IsMoney, Boards, SetFine
<1>10. PICK old : old = InitialWorkspace(made, candidates.items)
  OBVIOUS
<1>11. IsWorkspace(old)
  BY <1>9, <1>10, InitialFits DEF Boards, SetFine
<1>12. PICK w : w = Reconciled(p, old, twin.items)
  OBVIOUS
<1>13. IsWorkspace(w) /\ Fits(p, w)
  BY <1>7, <1>11, <1>12, ReconciledFits DEF Boards, TwinFine
<1>14. /\ Write(p, w) /\ UNCHANGED <<twin, candidates, snapshot, job, sync, slipped>>
       /\ status' = Edited(p # draft.payload, NoPayload)
  BY <1>2, <1>4, <1>6, <1>8, <1>10, <1>12 DEF Choose
<1>15. draft' = [version |-> draftCount + 1, payload |-> p, ws |-> w] /\ ~ bypassed'
  BY <1>14, WrittenDraft DEF Inv
<1>16. DraftFine(draft)' /\ CopiesFine'
  BY <1>7, <1>13, <1>14, <1>15, BoardWritten
<1>17. status' \in {"NEEDS_REVIEW", status}
  BY <1>14 DEF Edited
<1>18. Controls'
  BY <1>14, <1>17 DEF Boards, Controls, Write
<1> QED BY <1>14, <1>16, <1>18 DEF Boards

LEMMA ResetBoards ==
  ASSUME Inv, Boards, ResetToSynced
  PROVE  Boards'
<1>1. PICK p, w : p = snapshot.payload /\ w = snapshot.ws
  OBVIOUS
<1>2. /\ draft' = [version |-> draftCount + 1, payload |-> p, ws |-> w]
      /\ status' = "SYNCED" /\ bypassed' = TRUE /\ slipped' = FALSE /\ snapshot # NoCopy
      /\ UNCHANGED <<twin, candidates, snapshot, job, sync>>
  BY <1>1 DEF ResetToSynced, Written
<1>3. IsPayload(p) /\ IsMoney(p) /\ p.date \in Dates /\ IsWorkspace(w) /\ Fits(p, w)
  BY <1>1, <1>2 DEF Boards, CopiesFine, Complete
<1>4. DraftFine(draft)' /\ CopiesFine'
  BY <1>2, <1>3, BoardWritten
<1>5. Controls'
  BY <1>2 DEF Boards, Controls
<1> QED BY <1>2, <1>4, <1>5 DEF Boards

-----------------------------------------------------------------------------
LEMMA ExtractionBoards ==
  ASSUME Inv, Boards, ExtractionStarts \/ ExtractionFails
  PROVE  Boards'
<1>1. UNCHANGED <<draft, twin, candidates, snapshot, sync, bypassed, slipped>>
  BY DEF ExtractionStarts, ExtractionFails
<1>2. job'.pc \in {"none", "running"} /\ status' \in {"EXTRACTING", "ERROR_EXTRACT"}
  BY DEF ExtractionStarts, ExtractionFails, NoJob
<1> QED BY <1>1, <1>2 DEF Boards, CopiesFine, Controls

\* The lanes of a split that was learned carry no pins, and every item has one.
LEMMA LearnedFits ==
  ASSUME NEW p, IsMoney(p), NEW items \in Seq(Amounts), NEW ws \in Learned(p, items)
  PROVE  IsWorkspace(ws) /\ Fits(p, ws)
<1>1. PICK lane \in [DOMAIN items -> LanesOf(p)] :
        ws = [items |-> items, pins |-> [l \in LanesOf(p) |-> Unknown], lane |-> lane]
  BY DEF Learned
<1>2. PICK b : b = [l \in LanesOf(p) |-> Unknown]
  OBVIOUS
<1>3. DOMAIN b = LanesOf(p) /\ \A l \in DOMAIN b : b[l] \in Nat \cup {Unknown}
  BY <1>2
<1>4. IsWorkspace(ws) /\ ws.items = items /\ ws.pins = b /\ ws.lane = lane
  BY <1>1, <1>2, <1>3, MadeWorkspace
<1> QED BY <1>3, <1>4 DEF Fits

LEMMA ExtractionSucceedsBoards ==
  ASSUME Inv, Boards, NEW r \in Readings, NEW s \in Structures, NEW usable \in BOOLEAN,
         ExtractionSucceeds(Payload(r, s), r.items, usable)
  PROVE  Boards'
<1>1. PICK p : p = Payload(r, s)
  OBVIOUS
<1>2. IsPayload(p) /\ IsMoney(p) /\ p.date \in Dates
  BY <1>1, ReadPayload
<1>3. PICK lines : lines = IF usable THEN r.items ELSE <<>>
  OBVIOUS
<1>4. lines \in Seq(Amounts) /\ r.items \in Seq(Amounts)
  BY <1>3, ReadingFields
<1>5. PICK q, w : /\ IsPayload(q) /\ IsMoney(q) /\ q.date \in Dates
                  /\ IsWorkspace(w) /\ Fits(q, w) /\ Drafted(q, w)
  <2>1. CASE Drafted(p, InitialWorkspace(p, lines))
    <3>1. PICK w : w = InitialWorkspace(p, lines)
      OBVIOUS
    <3>2. IsWorkspace(w) /\ Fits(p, w)
      BY <1>2, <1>4, <3>1, InitialFits
    <3> QED BY <1>2, <2>1, <3>1, <3>2
  <2>2. ASSUME NEW w \in Learned(p, lines), Drafted(Recomputed(p, w, FALSE), w)
        PROVE  \E q : /\ IsPayload(q) /\ IsMoney(q) /\ q.date \in Dates
                      /\ IsWorkspace(w) /\ Fits(q, w) /\ Drafted(q, w)
    <3>1. IsWorkspace(w) /\ Fits(p, w)
      BY <1>2, <1>4, LearnedFits
    <3>2. PICK q : q = Recomputed(p, w, FALSE)
      OBVIOUS
    <3>3. IsPayload(q)
      BY <1>2, <3>2, RecomputedPayload
    <3>4. IsMoney(q) /\ q.date = p.date /\ LanesOf(q) = LanesOf(p)
      <4>1. DOMAIN w.pins = LanesOf(p)
        BY <3>1 DEF Fits
      <4> QED BY <1>2, <3>1, <3>2, <4>1, RecomputedMoney
    <3>5. Fits(q, w)
      BY <3>1, <3>4, FitsLanes
    <3> QED BY <1>2, <2>2, <3>1, <3>2, <3>3, <3>4, <3>5
  <2>3. \/ Drafted(p, InitialWorkspace(p, lines))
        \/ \E w \in Learned(p, lines) : Drafted(Recomputed(p, w, FALSE), w)
    BY <1>1, <1>3 DEF ExtractionSucceeds
  <2> QED BY <2>1, <2>2, <2>3
<1>6. draft' = [version |-> draftCount + 1, payload |-> q, ws |-> w]
  BY <1>5, NextIsFree DEF Drafted, Inv
<1>7. /\ status' = "NEEDS_REVIEW" /\ bypassed' = ~ usable /\ job' = NoJob
      /\ UNCHANGED <<snapshot, sync, slipped>>
  BY DEF ExtractionSucceeds
<1>8. DraftFine(draft)' /\ CopiesFine'
  BY <1>5, <1>6, <1>7, BoardWritten
<1>9. TwinFine(twin)'
  <2>1. CASE usable
    <3>1. PICK n : n = NextVersion(job.twins, twinCount, twin.version)
      OBVIOUS
    <3>2. twin' = [version |-> n, total |-> p.total, date |-> p.date, items |-> r.items,
                   dateOk |-> FALSE, totalOk |-> FALSE]
      BY <1>1, <2>1, <3>1 DEF ExtractionSucceeds
    <3>3. twin'.total = p.total /\ twin'.date = p.date /\ twin'.items = r.items
          /\ ~ twin'.dateOk
      BY <3>2
    <3> QED BY <1>2, <1>4, <3>3 DEF TwinFine, IsMoney
  <2>2. CASE ~ usable
    BY <2>2 DEF ExtractionSucceeds, Boards
  <2> QED BY <2>1, <2>2
<1>10. SetFine(candidates)'
  <2>1. CASE UNCHANGED candidates
    BY <2>1 DEF Boards
  <2>2. CASE candidates' # candidates
    <3>1. PICK from : candidates' = [total |-> p.total, items |-> lines, twin |-> from,
                                     choices |-> Fitting(p)]
      BY <1>1, <1>3, <2>2 DEF ExtractionSucceeds
    <3>2. candidates'.items = lines /\ candidates'.total = p.total
          /\ candidates'.choices = Fitting(p)
      BY <3>1
    <3> QED BY <1>2, <1>4, <3>2 DEF SetFine, IsMoney, Fitting
  <2> QED BY <2>1, <2>2
<1>11. Controls'
  BY <1>7 DEF Boards, Controls, NoJob
<1> QED BY <1>8, <1>9, <1>10, <1>11 DEF Boards

LEMMA SyncBoards ==
  ASSUME Inv, Boards, ClickSync \/ SyncReads \/ SyncSucceeds \/ SyncFails
  PROVE  Boards'
<1>1. UNCHANGED <<draft, twin, candidates, job, bypassed>>
  BY DEF ClickSync, SyncReads, SyncSucceeds, SyncFails
<1>2. CASE ClickSync
  <2>1. /\ draft.payload.total > 0 /\ status' = "SYNCING"
        /\ sync' = [pc |-> "queued", draft |-> NoCopy]
        /\ UNCHANGED <<snapshot, slipped>>
    BY <1>2 DEF ClickSync, SyncGates, SumsUp
  <2>2. draft.version > 0
    <3>1. draft.version # 0
      BY <2>1 DEF Boards, DraftFine, NoDraft, NoPayload
    <3> QED BY <3>1 DEF Inv, Counts
  <2>3. sync'.pc = "queued"
    BY <2>1
  <2> QED BY <1>1, <2>1, <2>2, <2>3 DEF Boards, CopiesFine, Controls
<1>3. CASE SyncReads
  <2>1. PICK c : c = [f \in DOMAIN NoCopy |-> draft[f]]
    OBVIOUS
  <2>2. c.payload = draft.payload /\ c.ws = draft.ws
    BY <2>1 DEF NoCopy
  <2>3. /\ sync.pc = "queued" /\ sync' = [pc |-> "running", draft |-> c]
        /\ UNCHANGED <<status, snapshot, slipped>>
    BY <1>3, <2>1 DEF SyncReads
  <2>4. Complete(draft)
    BY <2>3 DEF Boards, CopiesFine, DraftFine
  <2>5. Complete(c)
    BY <2>2, <2>4, CopiedComplete
  <2>6. sync'.pc = "running" /\ sync'.draft = c
    BY <2>3
  <2> QED BY <1>1, <2>3, <2>5, <2>6 DEF Boards, CopiesFine, Controls
<1>4. CASE SyncSucceeds
  <2>1. /\ sync.pc = "running" /\ snapshot' = sync.draft /\ sync' = NoSync
        /\ status' = "SYNCED" /\ slipped' = (draft.payload # sync.draft.payload)
    BY <1>4 DEF SyncSucceeds
  <2>2. slipped' \in BOOLEAN
    BY <2>1, Zenon
  <2>3. sync'.pc = "none"
    BY <2>1 DEF NoSync
  <2> HIDE <1>4
  <2> QED BY <1>1, <2>1, <2>2, <2>3 DEF Boards, CopiesFine, Controls
<1>5. CASE SyncFails
  <2>1. /\ sync' = NoSync /\ status' = "ERROR_SYNC"
        /\ snapshot' = NoCopy \/ snapshot' = snapshot
        /\ UNCHANGED slipped
    BY <1>5 DEF SyncFails
  <2>2. sync'.pc = "none"
    BY <2>1 DEF NoSync
  <2> QED BY <1>1, <2>1, <2>2 DEF Boards, CopiesFine, Controls
<1> QED BY <1>2, <1>3, <1>4, <1>5

-----------------------------------------------------------------------------
LEMMA BoardsInit == Init => Boards
<1> SUFFICES ASSUME Init PROVE Boards
  OBVIOUS
<1>1. DraftFine(draft)
  BY DEF Init, DraftFine, NoDraft
<1>2. TwinFine(twin) /\ SetFine(candidates)
  BY DEF Init, TwinFine, SetFine, NoTwin, NoSet
<1>3. CopiesFine /\ Controls
  BY DEF Init, CopiesFine, Controls, NoSync, NoJob
<1> QED BY <1>1, <1>2, <1>3 DEF Boards

LEMMA BoardsStep == Inv /\ Boards /\ [Next]_vars => Boards'
<1> SUFFICES ASSUME Inv, Boards, [Next]_vars PROVE Boards'
  OBVIOUS
<1>1. CASE UNCHANGED vars
  BY <1>1 DEF vars, Boards, CopiesFine, Controls
<1>2. CASE UserStep
  BY <1>2, SaveDraftBoards, SaveAllocationBoards, SaveTwinBoards, ConfirmBoards,
     UnconfirmBoards, ChooseBoards, ResetBoards, SyncBoards DEF UserStep
<1>3. CASE JobStep
  BY <1>3, ExtractionBoards, ExtractionSucceedsBoards, SyncBoards DEF JobStep
<1> QED BY <1>1, <1>2, <1>3 DEF Next

LEMMA BoardsInvariance == Spec => []Boards
<1>1. Inv /\ Boards /\ [Next]_vars => Boards'
  BY BoardsStep
<1> QED BY BoardsInit, <1>1, Invariance, PTL DEF Spec

-----------------------------------------------------------------------------
(***************************************************************************)
(* No order of saves, confirmations, edits of the twin, choices and        *)
(* extractions leaves a draft that contradicts what was confirmed, but for *)
(* the two writes that do not look at the locks.                           *)
(***************************************************************************)
THEOREM ConfirmedIsLocked == Spec => []LocksHold
<1>1. Inv => LocksHold
  BY DEF Inv
<1>2. QED
  BY <1>1, Invariance, PTL

(***************************************************************************)
(* A receipt that says SYNCED shows the draft of its last successful sync. *)
(***************************************************************************)
THEOREM SyncedShowsSnapshot == Spec => []SyncedIsUnedited
<1>1. Inv => SyncedIsUnedited
  BY DEF Inv
<1>2. QED
  BY <1>1, Invariance, PTL

(***************************************************************************)
(* A candidate chosen on a draft under the locks changes no money.         *)
(***************************************************************************)
THEOREM ChoicesKeepMoney == Spec => ChoiceKeepsMoney
<1>1. Inv /\ [Next]_vars =>
        [(\E s \in Structures : Choose(s)) /\ ~ bypassed =>
           /\ draft'.payload.total = draft.payload.total
           /\ draft'.payload.date = draft.payload.date]_vars
  BY ChooseKeeps
<1>2. QED
  BY <1>1, Invariance, PTL DEF Spec, ChoiceKeepsMoney

(***************************************************************************)
(* Versions never repeat, however stale the counters of a job are.         *)
(***************************************************************************)
THEOREM VersionsStayFree == Spec => VersionsAreFree
<1>1. Inv /\ [Next]_vars =>
        [/\ draft' # draft => draft'.version = draftCount' /\ draftCount' > draftCount
         /\ twin'.version # twin.version
              => twin'.version = twinCount' /\ twinCount' > twinCount]_vars
  BY StepKeeps DEF Fresh
<1>2. QED
  BY <1>1, Invariance, PTL DEF Spec, VersionsAreFree

(***************************************************************************)
(* Amounts are whole cents and dates are dates that were read, in every    *)
(* draft, in every snapshot and on the twin.                               *)
(***************************************************************************)
THEOREM DraftTypes == Spec => []TypeOK
<1>1. ASSUME NEW d, Complete(d) PROVE d.payload \in Payloads
  <2>1. PICK p : p = d.payload
    OBVIOUS
  <2>2. p = [total |-> p.total, date |-> p.date, splits |-> p.splits]
    BY <1>1, <2>1 DEF Complete, IsPayload
  <2>3. p.total \in Nat /\ p.splits \in Seq(Nat) /\ p.date \in {r.date : r \in Readings}
    BY <1>1, <2>1 DEF Complete, IsMoney, Dates
  <2>4. p \in Payloads
    BY <2>2, <2>3 DEF Payloads
  <2> QED BY <2>1, <2>4
<1>2. Inv /\ Boards => TypeOK
  <2> SUFFICES ASSUME Inv, Boards PROVE TypeOK
    OBVIOUS
  <2>1. draft.payload \in IF draft.version > 0 THEN Payloads ELSE {NoPayload}
    <3>1. CASE draft.version > 0
      BY <1>1, <3>1 DEF Boards, DraftFine
    <3>2. CASE ~ (draft.version > 0)
      <4>1. draft.version = 0
        BY <3>2 DEF Inv, Counts
      <4> QED BY <3>2, <4>1 DEF Boards, DraftFine, NoDraft
    <3> QED BY <3>1, <3>2
  <2>2. snapshot # NoCopy => snapshot.payload \in Payloads
    BY <1>1 DEF Boards, CopiesFine
  <2>3. twin.total \in Nat /\ twin.dateOk \in BOOLEAN /\ twin.totalOk \in BOOLEAN
    BY DEF Inv, Shapes, Boards, TwinFine
  <2> QED BY <2>1, <2>2, <2>3 DEF TypeOK, Boards, Controls
<1> QED BY <1>2, Invariance, BoardsInvariance, PTL

(***************************************************************************)
(* The board of the latest draft can always be drawn, whoever wrote it and *)
(* whatever was restored: its lanes are the lanes of the draft, and every  *)
(* item is in one of them or unassigned.                                   *)
(***************************************************************************)
THEOREM BoardsCanBeDrawn == Spec => []WorkspaceFits
<1>1. Boards => WorkspaceFits
  BY DEF Boards, DraftFine, Complete, Fits, WorkspaceFits
<1> QED BY <1>1, BoardsInvariance, PTL

(***************************************************************************)
(* Recomputing from any board that can be reached adds up to the total to  *)
(* the cent, and no split is a cent or more away from its exact share.     *)
(***************************************************************************)
THEOREM SuggestionsAreFair == Spec => []SuggestionFair
<1>1. Boards => SuggestionFair
  <2> SUFFICES ASSUME Boards, draft.version > 0, draft.payload.total > 0,
                      NEW p, p = draft.payload,
                      NEW weight, weight = [i \in DOMAIN LaneOrder(p) |->
                                              Weight(Board, LaneOrder(p)[i])],
                      NEW q, q = Recomputed(p, Board, FALSE)
               PROVE  SumsUp(q) /\ FairTo(q.splits, p.total, weight)
    BY DEF SuggestionFair, FairTo
  <2>1. Complete(draft) /\ TwinFine(twin)
    BY DEF Boards, DraftFine
  <2>2. IsPayload(p) /\ IsMoney(p) /\ IsWorkspace(draft.ws) /\ twin.items \in Seq(Amounts)
        /\ p.total > 0
    BY <2>1 DEF Complete, TwinFine
  <2>3. PICK ws : ws = Board
    OBVIOUS
  <2>4. ws = Reconciled(p, draft.ws, twin.items)
    BY <2>3 DEF Board
  <2>5. IsWorkspace(ws)
    BY <2>2, <2>4, ReconciledFits
  <2>6. CASE p.splits = <<>>
    <3>1. q = p
      BY <2>6 DEF Recomputed
    <3>2. DOMAIN q.splits = {}
      <4>1. q.splits = <<>>
        BY <2>6, <3>1
      <4>2. DOMAIN <<>> = {}
        OBVIOUS
      <4> QED BY <4>1, <4>2
    <3>3. SumsUp(q)
      BY <2>2, <2>6, <3>1 DEF SumsUp
    <3> QED BY <3>2, <3>3 DEF FairTo
  <2>7. CASE p.splits # <<>>
    <3>1. WeighsLanes(weight, p, ws)
      BY <2>3 DEF WeighsLanes
    <3> QED BY <2>2, <2>3, <2>5, <2>7, <3>1, FairOnBoard
  <2> QED BY <2>6, <2>7
<1> QED BY <1>1, BoardsInvariance, PTL
=============================================================================
