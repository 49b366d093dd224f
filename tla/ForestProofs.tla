----------------------------- MODULE ForestProofs -----------------------------
(***************************************************************************)
(* Theorems about Forest, for any receipts, any number of weeks and any    *)
(* number of weeks per pass.                                               *)
(***************************************************************************)
EXTENDS Forest, FiniteSetTheorems, TLAPS

\* A request that got past its guards saw a token
AsksOK == \A r \in Receipts : ask[r] # None => ask[r].balance > 0

\* What a bookkeeping will write is for a receipt, and a token for every pass
BookOK == book # None => booking # None /\ book.gain = Cardinality(book.won)

\* The inductive invariant
FInv == TypeOK /\ AsksOK /\ BookOK /\ ShredsPaid

-----------------------------------------------------------------------------
(* Lemmas about the operators *)

\* Passes are deserved for weeks of the calendar
LEMMA WonWeeks ==
  ASSUME TypeOK, NEW f
  PROVE  Deserved(f) \in SUBSET Weeks
BY ForestConstants DEF Deserved, TypeOK, Weeks

LEMMA PlantedType ==
  ASSUME NEW r \in Receipts, NEW w \in Weeks
  PROVE  Planted(r, w) \in Tree
BY DEF Planted, Tree, Grade, Grades

LEMMA WeeksFinite == IsFiniteSet(Weeks)
BY ForestConstants, FS_Interval DEF Weeks

\* As many tokens are earned as passes are added to the record
LEMMA EarnedCounts ==
  ASSUME TypeOK, NEW won \in SUBSET Weeks
  PROVE  /\ Earned(won) = Cardinality(won \ passes)
         /\ Earned(won) \in Nat
         /\ Cardinality(passes) \in Nat
         /\ Cardinality(passes \cup won) = Cardinality(passes) + Earned(won)
<1>1. IsFiniteSet(passes) /\ IsFiniteSet(won) /\ IsFiniteSet(won \ passes)
  BY WeeksFinite, FS_Subset, FS_Difference DEF TypeOK
<1>2. Cardinality(passes) \in Nat /\ Cardinality(won \ passes) \in Nat
  BY <1>1, FS_CardinalityType
<1>3. passes \cap (won \ passes) = {} /\ passes \cup (won \ passes) = passes \cup won
  OBVIOUS
<1>4. Cardinality(passes \cup (won \ passes))
        = Cardinality(passes) + Cardinality(won \ passes) - Cardinality(passes \cap (won \ passes))
  BY <1>1, FS_Union
<1>5. Cardinality(passes \cup won)
        = Cardinality(passes) + Cardinality(won \ passes) - Cardinality({})
  BY <1>3, <1>4, Zenon
<1>6. Cardinality(passes \cup won) = Cardinality(passes) + Cardinality(won \ passes)
  BY <1>2, <1>5, FS_EmptySet
<1> QED
  BY <1>2, <1>6 DEF Earned

\* Paying for one more receipt adds one to the receipts paid for
LEMMA SpentCounts ==
  ASSUME TypeOK
  PROVE  /\ Cardinality(spent) \in Nat
         /\ \A r \in Receipts \ spent :
              Cardinality(spent \cup {r}) = Cardinality(spent) + 1
<1>1. IsFiniteSet(spent)
  BY ForestConstants, FS_Subset DEF TypeOK
<1> QED
  BY <1>1, FS_CardinalityType, FS_AddElement

-----------------------------------------------------------------------------
LEMMA InitInv == Init => FInv
<1> SUFFICES ASSUME Init PROVE FInv
  OBVIOUS
<1>1. 1 \in 1 .. LastWeek
  BY ForestConstants
<1>2. TypeOK
  <2>1. today \in 1 .. LastWeek /\ grace \in 0 .. 1
    BY <1>1 DEF Init
  <2>2. /\ synced \in [Receipts -> Weeks \cup {None}]
        /\ forest \in [Receipts -> Tree \cup {None}]
        /\ ask \in [Receipts -> Ask \cup {None}]
        /\ booking \in Receipts \cup {None} /\ book \in Book \cup {None}
        /\ regrow \in Regrow \cup {None}
    BY DEF Init
  <2>3. tokens \in Tokens
    BY DEF Init, Tokens
  <2>4. /\ passes \in SUBSET Weeks /\ spent \in SUBSET Receipts
        /\ marred \in SUBSET Weeks /\ stale \in BOOLEAN
    BY DEF Init
  <2> QED
    BY <2>1, <2>2, <2>3, <2>4 DEF TypeOK
<1>3. AsksOK /\ BookOK
  BY DEF Init, AsksOK, BookOK
<1>4. ShredsPaid
  BY FS_EmptySet DEF Init, ShredsPaid
<1> QED
  BY <1>2, <1>3, <1>4 DEF FInv

-----------------------------------------------------------------------------
(* The steps that move no token *)

\* Steps that leave tokens, passes and payments alone keep the account
LEMMA AccountUntouched ==
  ASSUME ShredsPaid, UNCHANGED <<tokens, passes, spent, stale>>
  PROVE  ShredsPaid'
BY DEF ShredsPaid

LEMMA AsksUntouched ==
  ASSUME AsksOK, UNCHANGED ask
  PROVE  AsksOK'
BY DEF AsksOK

LEMMA BookUntouched ==
  ASSUME BookOK, UNCHANGED <<booking, book>>
  PROVE  BookOK'
BY DEF BookOK

LEMMA SyncSteps ==
  ASSUME FInv, NEW r \in Receipts, NEW redone \in BOOLEAN,
         SyncCommits(r, redone) \/ ResyncFails(r) \/ BookkeepingLost
  PROVE  FInv'
<1> USE DEF FInv
<1>1. CASE SyncCommits(r, redone)
  <2>1. today \in Weeks
    BY DEF TypeOK, Weeks
  <2>2. synced' \in [Receipts -> Weeks \cup {None}]
    BY <1>1, <2>1 DEF SyncCommits, TypeOK
  <2>3. TypeOK'
    BY <1>1, <2>2 DEF SyncCommits, stock, TypeOK
  <2>4. book' = None \/ booking # None
    BY <1>1 DEF SyncCommits, BookOK
  <2>5. BookOK'
    BY <1>1, <2>4 DEF SyncCommits, BookOK
  <2> QED
    BY <1>1, <2>3, <2>5, AccountUntouched, AsksUntouched DEF SyncCommits, stock
<1>2. CASE ResyncFails(r)
  <2>1. synced' \in [Receipts -> Weeks \cup {None}]
    BY <1>2 DEF ResyncFails, TypeOK
  <2>2. TypeOK'
    BY <1>2, <2>1 DEF ResyncFails, stock, TypeOK
  <2> QED
    BY <1>2, <2>2, AccountUntouched, AsksUntouched, BookUntouched DEF ResyncFails, stock
<1>3. CASE BookkeepingLost
  <2>1. TypeOK' /\ BookOK'
    BY <1>3 DEF BookkeepingLost, stock, TypeOK, BookOK
  <2> QED
    BY <1>3, <2>1, AccountUntouched, AsksUntouched DEF BookkeepingLost, stock
<1> QED
  BY <1>1, <1>2, <1>3

LEMMA CalendarSteps ==
  ASSUME FInv, NEW w \in Weeks, ChangeThresholds \/ NextWeek \/ Ignite(w) \/ Douse(w)
  PROVE  FInv'
<1> USE DEF FInv
<1>1. CASE ChangeThresholds
  <2>1. grace' \in 0 .. 1
    BY <1>1 DEF ChangeThresholds, TypeOK
  <2>2. ASSUME NEW r \in Receipts, forest[r] # None
        PROVE  [forest[r] EXCEPT !.state = Grade(r, forest[r].week, 1 - grace)] \in Tree
    BY <2>2 DEF TypeOK, Tree, Grade, Grades
  <2>3. forest' \in [Receipts -> Tree \cup {None}]
    BY <1>1, <2>2 DEF ChangeThresholds
  <2>4. TypeOK'
    BY <1>1, <2>1, <2>3 DEF ChangeThresholds, jobs, stock, TypeOK
  <2> QED
    BY <1>1, <2>4, AccountUntouched, AsksUntouched, BookUntouched
    DEF ChangeThresholds, jobs, stock
<1>2. CASE NextWeek
  <2>1. today' \in 1 .. LastWeek
    BY <1>2, ForestConstants DEF NextWeek, TypeOK
  <2>2. TypeOK'
    BY <1>2, <2>1 DEF NextWeek, jobs, stock, TypeOK
  <2> QED
    BY <1>2, <2>2, AccountUntouched, AsksUntouched, BookUntouched DEF NextWeek, jobs, stock
<1>3. CASE Ignite(w) \/ Douse(w)
  <2>1. marred' \in SUBSET Weeks
    BY <1>3 DEF Ignite, Douse, TypeOK
  <2>2. TypeOK'
    BY <1>3, <2>1 DEF Ignite, Douse, jobs, stock, TypeOK
  <2> QED
    BY <1>3, <2>2, AccountUntouched, AsksUntouched, BookUntouched DEF Ignite, Douse, jobs, stock
<1> QED
  BY <1>1, <1>2, <1>3

\* What a step reads before it writes has the types of what it will write
LEMMA ReadSteps ==
  ASSUME FInv,
         \/ \E r \in Receipts : ShredRead(r) \/ ShredFails(r)
         \/ RebuildRead \/ RebuildFails
  PROVE  FInv'
<1> USE DEF FInv
<1>1. [balance |-> tokens.balance, spent |-> tokens.spent] \in Ask
  BY DEF TypeOK, Tokens, Ask
<1>2. ask' \in [Receipts -> Ask \cup {None}]
  BY <1>1 DEF ShredRead, ShredFails, RebuildRead, RebuildFails, TypeOK
<1>3. [shredded |-> {q \in Receipts : forest[q] # None /\ forest[q].shredded},
       spent |-> Cardinality(spent)] \in Regrow
  BY SpentCounts DEF Regrow
<1>4. regrow' \in Regrow \cup {None}
  BY <1>3 DEF ShredRead, ShredFails, RebuildRead, RebuildFails, TypeOK
<1>5. TypeOK'
  BY <1>2, <1>4
  DEF ShredRead, ShredFails, RebuildRead, RebuildFails, jobs, stock, TypeOK
<1>6. AsksOK'
  BY DEF ShredRead, ShredFails, RebuildRead, RebuildFails, TokenAtHand, TypeOK, AsksOK
<1> QED
  BY <1>5, <1>6, AccountUntouched, BookUntouched
  DEF ShredRead, ShredFails, RebuildRead, RebuildFails, jobs, stock

LEMMA BookkeepingReads ==
  ASSUME FInv, BookkeepingRead
  PROVE  FInv'
<1> DEFINE won == Deserved(forest)
<1> USE DEF FInv
<1>1. won \in SUBSET Weeks
  BY WonWeeks
<1>2. booking \in Receipts /\ today \in Weeks
  BY DEF BookkeepingRead, TypeOK, Weeks
<1>3. /\ book'.earned = tokens.earned /\ book'.balance = tokens.balance
      /\ book'.won = won \ passes /\ book'.gain = Earned(won)
      /\ book'.tree \in {None, Planted(booking, today)}
      /\ book' = [earned |-> book'.earned, balance |-> book'.balance, won |-> book'.won,
                  gain |-> book'.gain, tree |-> book'.tree]
  BY DEF BookkeepingRead
<1> HIDE DEF won
<1>4. book' \in Book
  <2>1. tokens.earned \in Nat /\ tokens.balance \in Nat
    BY DEF TypeOK, Tokens
  <2>2. won \ passes \in SUBSET Weeks /\ Earned(won) \in Nat
    BY <1>1, EarnedCounts
  <2>3. book'.tree \in Tree \cup {None}
    BY <1>2, <1>3, PlantedType
  <2> QED
    BY <1>3, <2>1, <2>2, <2>3 DEF Book
<1>5. TypeOK'
  BY <1>4 DEF BookkeepingRead, stock, TypeOK
<1>6. BookOK'
  BY <1>1, <1>2, <1>3, EarnedCounts DEF BookkeepingRead, BookOK
<1> QED
  BY <1>5, <1>6, AccountUntouched, AsksUntouched DEF BookkeepingRead, stock

-----------------------------------------------------------------------------
(* The steps that move tokens *)

\* A bookkeeping adds as many tokens to the balance as passes to the record, if
\* it wrote what it had read
LEMMA BookkeepingWrites ==
  ASSUME FInv, BookkeepingWrite
  PROVE  FInv'
<1> USE DEF FInv
<1>1. /\ book \in Book /\ booking \in Receipts
      /\ book.gain = Cardinality(book.won) /\ book.won \cap passes = {}
  BY DEF BookkeepingWrite, TypeOK, BookOK
<1>2. book.won \in SUBSET Weeks /\ book.won \ passes = book.won
  BY <1>1 DEF Book
<1>3. /\ Cardinality(passes') = Cardinality(passes) + book.gain
      /\ Cardinality(passes) \in Nat /\ book.gain \in Nat
  BY <1>1, <1>2, EarnedCounts DEF BookkeepingWrite
<1>4. forest' \in [Receipts -> Tree \cup {None}]
  BY <1>1 DEF BookkeepingWrite, TypeOK, Book
<1>5. passes' \in SUBSET Weeks /\ booking' \in Receipts \cup {None} /\ book' \in Book \cup {None}
  BY <1>2 DEF BookkeepingWrite, TypeOK
<1>6. AsksOK' /\ BookOK'
  BY AsksUntouched DEF BookkeepingWrite, BookOK
<1>7. CASE book.gain = 0
  <2>1. tokens' = tokens /\ stale' = stale /\ spent' = spent
    BY <1>7 DEF BookkeepingWrite
  <2>2. TypeOK'
    BY <1>4, <1>5, <2>1 DEF BookkeepingWrite, TypeOK
  <2>3. ShredsPaid'
    BY <1>3, <1>7, <2>1 DEF ShredsPaid
  <2> QED
    BY <1>6, <2>2, <2>3
<1>8. CASE book.gain # 0
  <2>1. /\ tokens' = [tokens EXCEPT !.earned = book.earned + book.gain,
                                    !.balance = book.balance + book.gain]
        /\ stale' = (\/ stale
                     \/ book.earned # tokens.earned \/ book.balance # tokens.balance)
        /\ spent' = spent
    BY <1>8 DEF BookkeepingWrite
  <2>2. tokens \in Tokens /\ tokens.balance \in Nat
    BY DEF TypeOK, Tokens
  <2>3. tokens' \in Tokens /\ tokens'.balance = book.balance + book.gain
    <3>1. /\ book.earned + book.gain \in Nat /\ book.balance + book.gain \in Nat
      BY <1>1 DEF Book
    <3>2. tokens = [earned |-> tokens.earned, spent |-> tokens.spent,
                    balance |-> tokens.balance]
      BY <2>2 DEF Tokens
    <3>3. tokens' = [earned |-> book.earned + book.gain, spent |-> tokens.spent,
                     balance |-> book.balance + book.gain]
      BY <2>1, <3>2
    <3> QED
      BY <2>2, <3>1, <3>3 DEF Tokens
  <2>4. stale' \in BOOLEAN
    BY <2>1 DEF TypeOK
  <2>5. TypeOK'
    BY <1>4, <1>5, <2>1, <2>3, <2>4 DEF BookkeepingWrite, TypeOK
  <2>6. ShredsPaid'
    <3>1. SUFFICES ASSUME ~stale'
                   PROVE  tokens'.balance + Cardinality(spent') <= Cardinality(passes')
      BY DEF ShredsPaid
    <3>2. ~stale /\ book.balance = tokens.balance
      BY <2>1, <3>1, Zenon
    <3>3. tokens.balance + Cardinality(spent) <= Cardinality(passes)
      BY <3>2 DEF ShredsPaid
    <3>4. Cardinality(spent) \in Nat
      BY SpentCounts
    <3> QED
      BY <1>3, <2>1, <2>2, <2>3, <3>2, <3>3, <3>4
  <2> QED
    BY <1>6, <2>5, <2>6
<1> QED
  BY <1>7, <1>8

\* A shred takes one token for one receipt, if it wrote what it had read
LEMMA ShredWrites ==
  ASSUME FInv, NEW r \in Receipts, ShredWrite(r)
  PROVE  FInv'
<1> USE DEF FInv
<1>1. ask[r] # None /\ ask[r] \in Ask /\ ask[r].balance > 0
  BY DEF ShredWrite, TypeOK, AsksOK
<1>2. ask[r].balance - 1 \in Nat /\ ask[r].spent + 1 \in Nat
  BY <1>1 DEF Ask
<1>3. forest' \in [Receipts -> Tree \cup {None}]
  <2>1. forest[r] \in Tree
    BY DEF ShredWrite, TypeOK
  <2>2. [forest[r] EXCEPT !.shredded = TRUE] \in Tree
    BY <2>1 DEF Tree
  <2> QED
    BY <2>2 DEF ShredWrite, TypeOK
<1>4. ask' \in [Receipts -> Ask \cup {None}]
  BY DEF ShredWrite, TypeOK
<1>5. BookOK'
  BY BookUntouched DEF ShredWrite, jobs
<1>6. AsksOK'
  BY DEF ShredWrite, AsksOK, TypeOK
<1>7. CASE r \in spent
  <2>1. TypeOK'
    BY <1>3, <1>4, <1>7 DEF ShredWrite, jobs, TypeOK
  <2> QED
    BY <1>5, <1>6, <1>7, <2>1, AccountUntouched DEF ShredWrite
<1>8. CASE r \notin spent
  <2>1. /\ tokens' = [tokens EXCEPT !.balance = ask[r].balance - 1,
                                    !.spent = ask[r].spent + 1]
        /\ spent' = spent \cup {r} /\ passes' = passes
        /\ stale' = (stale \/ ask[r] # [balance |-> tokens.balance, spent |-> tokens.spent])
    BY <1>8 DEF ShredWrite
  <2>2. tokens' \in Tokens /\ tokens'.balance = ask[r].balance - 1
    <3>1. tokens \in Tokens
      BY DEF TypeOK
    <3>2. tokens = [earned |-> tokens.earned, spent |-> tokens.spent,
                    balance |-> tokens.balance]
      BY <3>1 DEF Tokens
    <3>3. tokens' = [earned |-> tokens.earned, spent |-> ask[r].spent + 1,
                     balance |-> ask[r].balance - 1]
      BY <2>1, <3>2
    <3> QED
      BY <1>2, <3>1, <3>3 DEF Tokens
  <2>3. spent' \in SUBSET Receipts /\ stale' \in BOOLEAN
    BY <2>1 DEF TypeOK
  <2>4. TypeOK'
    BY <1>3, <1>4, <2>2, <2>3 DEF ShredWrite, jobs, TypeOK
  <2>5. ShredsPaid'
    <3>1. SUFFICES ASSUME ~stale'
                   PROVE  tokens'.balance + Cardinality(spent') <= Cardinality(passes')
      BY DEF ShredsPaid
    <3>2. ~stale /\ ask[r].balance = tokens.balance
      <4>1. ~stale /\ ask[r] = [balance |-> tokens.balance, spent |-> tokens.spent]
        BY <2>1, <3>1, Zenon
      <4> QED
        BY <4>1
    <3>3. Cardinality(spent') = Cardinality(spent) + 1 /\ Cardinality(spent) \in Nat
      BY <1>8, <2>1, SpentCounts
    <3>4. tokens.balance + Cardinality(spent) <= Cardinality(passes)
      BY <3>2 DEF ShredsPaid
    <3>5. tokens.balance \in Nat
      BY DEF TypeOK, Tokens
    <3> QED
      BY <2>1, <2>2, <3>2, <3>3, <3>4, <3>5
  <2> QED
    BY <1>5, <1>6, <2>4, <2>5
<1> QED
  BY <1>7, <1>8

\* A rebuild leaves at most one token for every pass that it adds to the record,
\* and the passes on record before pay for the shreds, those committed since it
\* read included
LEMMA RebuildWrites ==
  ASSUME FInv, RebuildWrite
  PROVE  FInv'
<1> DEFINE f == [r \in Receipts |-> Regrown(r)]
           won == Deserved(f)
           n == Earned(won)
<1> USE DEF FInv
<1>1. /\ forest' = f /\ passes' = passes \cup won /\ regrow' = None
      /\ tokens' = [earned |-> n, spent |-> regrow.spent, balance |-> Monus(n, regrow.spent)]
      /\ UNCHANGED <<today, grace, jobs, spent, marred, ask, stale>>
  BY DEF RebuildWrite
<1>2. won \in SUBSET Weeks
  BY WonWeeks
<1>3. regrow.spent \in Nat
  BY DEF RebuildWrite, TypeOK, Regrow
<1>4. f \in [Receipts -> Tree \cup {None}]
  <2>1. SUFFICES ASSUME NEW r \in Receipts, synced[r] # None PROVE Regrown(r) \in Tree
    BY DEF Regrown
  <2>2. Planted(r, synced[r]) \in Tree
    BY <2>1, PlantedType DEF TypeOK
  <2> QED
    BY <2>1, <2>2 DEF Regrown, Tree
<1> HIDE DEF f, won
<1>5. /\ n \in Nat /\ Cardinality(passes) \in Nat
      /\ Cardinality(passes') = Cardinality(passes) + n
  BY <1>1, <1>2, EarnedCounts
<1> HIDE DEF n
<1>6. Monus(n, regrow.spent) \in Nat /\ Monus(n, regrow.spent) <= n
  BY <1>3, <1>5 DEF Monus
<1>7. tokens' \in Tokens /\ tokens'.balance = Monus(n, regrow.spent)
  BY <1>1, <1>3, <1>5, <1>6 DEF Tokens
<1>8. TypeOK'
  BY <1>1, <1>2, <1>4, <1>7 DEF jobs, TypeOK
<1>9. AsksOK' /\ BookOK'
  BY <1>1, AsksUntouched, BookUntouched DEF jobs
<1>10. ShredsPaid'
  <2>1. SUFFICES ASSUME ~stale
                 PROVE  tokens'.balance + Cardinality(spent) <= Cardinality(passes')
    BY <1>1 DEF ShredsPaid
  <2>2. tokens.balance \in Nat /\ tokens.balance + Cardinality(spent) <= Cardinality(passes)
    BY <2>1 DEF ShredsPaid, TypeOK, Tokens
  <2>3. Cardinality(spent) \in Nat
    BY SpentCounts
  <2> QED
    BY <1>5, <1>6, <1>7, <2>2, <2>3
<1> QED
  BY <1>8, <1>9, <1>10

-----------------------------------------------------------------------------
LEMMA NextInv == FInv /\ [Next]_vars => FInv'
<1> SUFFICES ASSUME FInv, [Next]_vars PROVE FInv'
  OBVIOUS
<1>1. CASE \E r \in Receipts :
             \/ \E redone \in BOOLEAN : SyncCommits(r, redone)
             \/ ResyncFails(r)
  BY <1>1, SyncSteps
<1>2. CASE BookkeepingLost
  <2>1. booking \in Receipts
    BY <1>2 DEF BookkeepingLost, FInv, TypeOK
  <2> QED
    BY <1>2, <2>1, SyncSteps
<1>3. CASE BookkeepingRead \/ BookkeepingWrite
  BY <1>3, BookkeepingReads, BookkeepingWrites
<1>4. CASE \E r \in Receipts : ShredRead(r) \/ ShredFails(r)
  BY <1>4, ReadSteps
<1>5. CASE RebuildRead \/ RebuildFails
  BY <1>5, ReadSteps
<1>6. CASE \E r \in Receipts : ShredWrite(r)
  BY <1>6, ShredWrites
<1>7. CASE RebuildWrite
  BY <1>7, RebuildWrites
<1>8. CASE ChangeThresholds \/ NextWeek \/ \E w \in Weeks : Ignite(w) \/ Douse(w)
  <2>1. 1 \in Weeks
    BY ForestConstants DEF Weeks
  <2> QED
    BY <1>8, <2>1, CalendarSteps
<1>9. CASE \E w \in Flammable : Ignite(w) \/ Douse(w)
  BY <1>9, <1>8, ForestConstants DEF Weeks
<1>10. CASE UNCHANGED vars
  <2>1. TypeOK' /\ AsksOK' /\ BookOK' /\ ShredsPaid'
    BY <1>10 DEF vars, jobs, stock, FInv, TypeOK, AsksOK, BookOK, ShredsPaid
  <2> QED
    BY <2>1 DEF FInv
<1> QED
  BY <1>1, <1>2, <1>3, <1>4, <1>5, <1>6, <1>7, <1>8, <1>9, <1>10 DEF Next

\* The inductive invariant holds in every behaviour
THEOREM ForestInvariant == Spec => []FInv
BY InitInv, NextInv, PTL DEF Spec

\* The types of the forest hold for any receipts, weeks and weeks per pass:
\* no counter of tokens becomes negative, whatever the requests, losses and
\* rebuilds (game.py:523-636, 762-820).
THEOREM ForestTypes == Spec => []TypeOK
<1>1. FInv => TypeOK
  BY DEF FInv
<1> QED
  BY <1>1, ForestInvariant, PTL

\* However many receipts are synced, lost, shredded and rebuilt, the receipts
\* paid for and the tokens left never outnumber the passes awarded, unless a
\* shred or a bookkeeping wrote back counters that had changed since it read
\* them (game.py:788-804, ynab.py:994-1026).  A rebuild cannot break it, even
\* one that overlaps a shred.
THEOREM ShredsAlwaysPaid == Spec => []ShredsPaid
<1>1. FInv => ShredsPaid
  BY DEF FInv
<1> QED
  BY <1>1, ForestInvariant, PTL
=============================================================================
