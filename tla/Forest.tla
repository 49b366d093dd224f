-------------------------------- MODULE Forest --------------------------------
(***************************************************************************)
(* Momentum: the forest of graded receipts, skip passes for clean green    *)
(* weeks, tokens and the receipts shredded with them, and the rebuild of   *)
(* all of it from the sync rows (services/game.py, the bookkeeping that    *)
(* follows a sync in services/ynab.py, the requests of api/game.py).       *)
(*                                                                         *)
(* Time is counted in weeks; the age of a receipt is the number of weeks   *)
(* from its purchase to its sync.  The board of WeekFire is seen here as   *)
(* the weeks that have flames or are ash.  One worker runs the sync jobs,  *)
(* as docker-compose.yml starts it, so one bookkeeping is due at a time.   *)
(*                                                                         *)
(* SQLite lets a transaction read without a lock and write the values it   *)
(* computed from what it read later.  The bookkeeping, a request to shred  *)
(* and a rebuild are therefore two steps each, one that reads and one that *)
(* writes.                                                                 *)
(***************************************************************************)
EXTENDS Integers, FiniteSets

CONSTANTS
  Receipts,
  Bought,    \* the week of a receipt's purchase date
  LastWeek,  \* bound: weeks of the model
  Every,     \* game_pass_every_green_weeks
  Window,    \* shred_window_weeks
  Flammable, \* bound: the weeks that may catch fire
  None

ASSUME ForestConstants ==
  /\ IsFiniteSet(Receipts)
  /\ LastWeek \in Nat \ {0}
  /\ Bought \in [Receipts -> 1 .. LastWeek]
  /\ Every \in Nat \ {0}
  /\ Window \in Nat
  /\ Flammable \subseteq 1 .. LastWeek
  /\ None \notin 1 .. LastWeek

Weeks == 1 .. LastWeek

VARIABLES
  today,   \* the week in progress
  grace,   \* game_settings: the age up to which a receipt is green
  synced,  \* the earliest successful sync row of a receipt: the week it completed
  booking, \* the receipt whose sync committed and whose bookkeeping is to come
  book,    \* what the bookkeeping will write
  forest,  \* game_receipt_states
  tokens,  \* game_tokens
  passes,  \* game_events PASS_EARNED, keyed by the week
  spent,   \* game_events TOKEN_SPENT, keyed by the receipt
  marred,  \* weeks with flames or burnt to ash
  ask,     \* shred requests between their reads and their write
  regrow,  \* what a rebuild has read: the shredded receipts, the tokens spent
  stale    \* history: counters were written that had changed since they were read

jobs == <<synced, booking, book>>
stock == <<tokens, passes, spent>>
vars == <<today, grace, jobs, forest, stock, marred, ask, regrow, stale>>

Grades == {"green", "yellow", "brown"}
Tokens == [earned : Nat, spent : Nat, balance : Nat]
Tree == [week : Weeks, state : Grades, shredded : BOOLEAN]
Book == [earned : Nat, balance : Nat, won : SUBSET Weeks, gain : Nat, tree : Tree \cup {None}]
Ask == [balance : Nat, spent : Nat]
Regrow == [shredded : SUBSET Receipts, spent : Nat]

Monus(a, b) == IF a < b THEN 0 ELSE a - b

(***************************************************************************)
(* Grades, and the passes that a forest deserves.                          *)
(***************************************************************************)
\* The grade of receipt r synced in week w
Grade(r, w, g) ==
  IF w - Bought[r] <= g THEN "green" ELSE IF w - Bought[r] > g + 1 THEN "brown" ELSE "yellow"

Planted(r, w) == [week |-> w, state |-> Grade(r, w, grace), shredded |-> FALSE]

Scored(f, w) == {r \in Receipts : f[r] # None /\ f[r].week = w /\ ~f[r].shredded}

CleanGreen(f, w) ==
  /\ \A r \in Scored(f, w) : f[r].state = "green"
  /\ w \notin marred

Clean(f, w) == Scored(f, w) # {} /\ CleanGreen(f, w)
Spoilt(f, w) == Scored(f, w) # {} /\ ~CleanGreen(f, w)

\* The run of clean weeks that w ends; empty weeks neither count nor break it
RunUpTo(f, w) ==
  {v \in 1 .. w : Clean(f, v) /\ \A u \in v .. w : ~Spoilt(f, u)}

\* The completed weeks whose position in their run is a multiple of Every
Deserved(f) ==
  {w \in 1 .. today - 1 : Clean(f, w) /\ Cardinality(RunUpTo(f, w)) % Every = 0}

\* Mutant: a pass that is on record earns a token again
EarnedAgain(won) == Cardinality(won)

\* _evaluate_passes: a pass whose event exists earns no token again
Earned(won) == Cardinality(won \ passes)

-----------------------------------------------------------------------------
(***************************************************************************)
(* Sync jobs.                                                              *)
(***************************************************************************)
\* A sync job committed its result; a job for a draft that was synced before
\* rewrites its row, one for a new draft leaves the earliest row alone
SyncCommits(r, redone) ==
  /\ booking = None
  /\ synced' = [synced EXCEPT ![r] = IF @ = None \/ redone THEN today ELSE @]
  /\ booking' = r
  /\ UNCHANGED <<today, grace, book, forest, stock, marred, ask, regrow, stale>>

\* A job for a draft that was synced before fails: its row is no longer a success
ResyncFails(r) ==
  /\ booking = None /\ synced[r] # None
  /\ synced' = [synced EXCEPT ![r] = None]
  /\ UNCHANGED <<today, grace, booking, book, forest, stock, marred, ask, regrow, stale>>

\* The tree, if the receipt has none, and the passes that the trees already in
\* the table deserve: the new one is not flushed when they are evaluated
BookkeepingRead ==
  /\ booking # None /\ book = None
  /\ book' = [earned |-> tokens.earned, balance |-> tokens.balance,
              won |-> Deserved(forest) \ passes, gain |-> Earned(Deserved(forest)),
              tree |-> IF forest[booking] # None THEN None ELSE Planted(booking, today)]
  /\ UNCHANGED <<today, grace, synced, booking, forest, stock, marred, ask, regrow, stale>>

\* Its commit fails when a rebuild has written the tree or a pass meanwhile
BookkeepingWrite ==
  /\ book # None
  /\ book.tree # None => forest[booking] = None
  /\ book.won \cap passes = {}
  /\ forest' = IF book.tree = None THEN forest ELSE [forest EXCEPT ![booking] = book.tree]
  /\ IF book.gain = 0 THEN UNCHANGED <<tokens, stale>>
     ELSE /\ tokens' = [tokens EXCEPT !.earned = book.earned + book.gain,
                                      !.balance = book.balance + book.gain]
          /\ stale' = (\/ stale
                       \/ book.earned # tokens.earned \/ book.balance # tokens.balance)
  /\ passes' = passes \cup book.won
  /\ booking' = None /\ book' = None
  /\ UNCHANGED <<today, grace, synced, spent, marred, ask, regrow>>

\* The worker dies after commit 1, or the bookkeeping raises
BookkeepingLost ==
  /\ booking # None
  /\ booking' = None /\ book' = None
  /\ UNCHANGED <<today, grace, synced, forest, stock, marred, ask, regrow, stale>>

(***************************************************************************)
(* Requests.                                                               *)
(***************************************************************************)
\* spend_shred_token up to its write: the receipt may still be shredded and
\* there is a token
MayShred(r) ==
  /\ forest[r] # None /\ ~forest[r].shredded
  /\ forest[r].state # "green"
  /\ today - forest[r].week < Window

\* Mutant: the balance is not looked at
AnyBalance == TRUE
TokenAtHand == tokens.balance > 0

ShredRead(r) ==
  /\ ask[r] = None /\ MayShred(r) /\ TokenAtHand
  /\ ask' = [ask EXCEPT ![r] = [balance |-> tokens.balance, spent |-> tokens.spent]]
  /\ UNCHANGED <<today, grace, jobs, forest, stock, marred, regrow, stale>>

\* A receipt paid for before is shredded again without a token
ShredWrite(r) ==
  /\ ask[r] # None /\ forest[r] # None
  /\ forest' = [forest EXCEPT ![r].shredded = TRUE]
  /\ IF r \in spent
     THEN UNCHANGED <<tokens, spent, stale>>
     ELSE /\ tokens' = [tokens EXCEPT !.balance = ask[r].balance - 1,
                                      !.spent = ask[r].spent + 1]
          /\ spent' = spent \cup {r}
          /\ stale' = (stale \/ ask[r] # [balance |-> tokens.balance, spent |-> tokens.spent])
  /\ ask' = [ask EXCEPT ![r] = None]
  /\ UNCHANGED <<today, grace, jobs, passes, marred, regrow>>

\* The database is locked or the receipt's row is gone
ShredFails(r) ==
  /\ ask[r] # None
  /\ ask' = [ask EXCEPT ![r] = None]
  /\ UNCHANGED <<today, grace, jobs, forest, stock, marred, regrow, stale>>

\* POST /game/settings: a change of the thresholds grades every tree again
ChangeThresholds ==
  LET g == 1 - grace IN
  /\ grace' = g
  /\ forest' = [r \in Receipts |->
       IF forest[r] = None THEN None
       ELSE [forest[r] EXCEPT !.state = Grade(r, forest[r].week, g)]]
  /\ UNCHANGED <<today, jobs, stock, marred, ask, regrow, stale>>

\* POST /game/rebuild, the part that concerns the forest and the tokens: it
\* notes what must be kept before its first DELETE takes the lock
RebuildRead ==
  /\ regrow = None
  /\ regrow' = [shredded |-> {r \in Receipts : forest[r] # None /\ forest[r].shredded},
                spent |-> Cardinality(spent)]
  /\ UNCHANGED <<today, grace, jobs, forest, stock, marred, ask, stale>>

\* A tree of the rebuilt forest: a paid shred is kept while the receipt decays
Regrown(r) ==
  LET tree == Planted(r, synced[r]) IN
  IF synced[r] = None THEN None
  ELSE [tree EXCEPT !.shredded = r \in regrow.shredded /\ tree.state # "green"]

RebuildWrite ==
  LET f == [r \in Receipts |-> Regrown(r)]
      n == Earned(Deserved(f))
  IN  /\ regrow # None
      /\ forest' = f
      /\ tokens' = [earned |-> n, spent |-> regrow.spent, balance |-> Monus(n, regrow.spent)]
      /\ passes' = passes \cup Deserved(f)
      /\ regrow' = None
      /\ UNCHANGED <<today, grace, jobs, spent, marred, ask, stale>>

\* The database is locked
RebuildFails ==
  /\ regrow # None
  /\ regrow' = None
  /\ UNCHANGED <<today, grace, jobs, forest, stock, marred, ask, stale>>

-----------------------------------------------------------------------------
(***************************************************************************)
(* The calendar, and the board of WeekFire: a burnt week is never doused.  *)
(***************************************************************************)
NextWeek ==
  /\ today < LastWeek
  /\ today' = today + 1
  /\ UNCHANGED <<grace, jobs, forest, stock, marred, ask, regrow, stale>>

Ignite(w) ==
  /\ w <= today
  /\ marred' = marred \cup {w}
  /\ UNCHANGED <<today, grace, jobs, forest, stock, ask, regrow, stale>>

Douse(w) ==
  /\ w \in marred
  /\ marred' = marred \ {w}
  /\ UNCHANGED <<today, grace, jobs, forest, stock, ask, regrow, stale>>

Init ==
  /\ today = 1
  /\ grace = 0
  /\ synced = [r \in Receipts |-> None]
  /\ booking = None
  /\ book = None
  /\ forest = [r \in Receipts |-> None]
  /\ tokens = [earned |-> 0, spent |-> 0, balance |-> 0]
  /\ passes = {}
  /\ spent = {}
  /\ marred = {}
  /\ ask = [r \in Receipts |-> None]
  /\ regrow = None
  /\ stale = FALSE

Next ==
  \/ \E r \in Receipts :
       \/ \E redone \in BOOLEAN : SyncCommits(r, redone)
       \/ ResyncFails(r)
       \/ ShredRead(r)
       \/ ShredWrite(r)
       \/ ShredFails(r)
  \/ ChangeThresholds
  \/ BookkeepingRead \/ BookkeepingWrite \/ BookkeepingLost
  \/ RebuildRead \/ RebuildWrite \/ RebuildFails
  \/ NextWeek
  \/ \E w \in Flammable : Ignite(w) \/ Douse(w)

Spec == Init /\ [][Next]_vars

-----------------------------------------------------------------------------
\* Types: trees stand for receipts, counters of tokens are never negative.
TypeOK ==
  /\ today \in 1 .. LastWeek
  /\ grace \in 0 .. 1
  /\ synced \in [Receipts -> Weeks \cup {None}]
  /\ booking \in Receipts \cup {None}
  /\ book \in Book \cup {None}
  /\ forest \in [Receipts -> Tree \cup {None}]
  /\ tokens \in Tokens
  /\ passes \in SUBSET Weeks
  /\ spent \in SUBSET Receipts
  /\ marred \in SUBSET Weeks
  /\ ask \in [Receipts -> Ask \cup {None}]
  /\ regrow \in Regrow \cup {None}
  /\ stale \in BOOLEAN

\* No token is spent that was not earned: receipts paid for, with the tokens
\* still to spend, never outnumber the passes awarded, rebuilds that overlap
\* shreds included, as long as no shred and no bookkeeping wrote back counters
\* that had changed since it read them (game.py:762-820, 523-636, ynab.py:994-1026).
ShredsPaid ==
  ~stale => tokens.balance + Cardinality(spent) <= Cardinality(passes)
=============================================================================
