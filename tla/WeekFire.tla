------------------------------ MODULE WeekFire ------------------------------
(***************************************************************************)
(* The correctness economy: droplets of water, flames on weeks, weeks that *)
(* burn to ash (services/correctness.py, services/reconciliation.py, the   *)
(* replay of services/game.py and the requests of api/game.py).            *)
(*                                                                         *)
(* A reconciliation run is one database transaction.  Its first statement  *)
(* takes SQLite's write lock (reconciliation.py:358), so from RunStart to  *)
(* RunCommit nobody else writes.  Inside the run the ORM session holds the *)
(* rows in memory and SQL sees only what was flushed: SessionLocal is made *)
(* with autoflush=False (db.py:17), so `board' and `sql' of a run differ   *)
(* until a flush.                                                          *)
(***************************************************************************)
EXTENDS Integers, Sequences, FiniteSets, SequencesExt

CONSTANTS
  Weeks,       \* the weeks of the board, numbered in time order
  Capacity,    \* game_water_capacity
  Corrections, \* differences between a synced receipt and YNAB, one per signature
  Edits,       \* receipts whose category the user corrects by hand
  MaxDouses,   \* bound: manual douses asked for
  WeekOf,      \* the week of a correction's receipt, from its validated_at
  NoRow, NoRun, NoAsk

ASSUME WeekFireConstants ==
  /\ Weeks \subseteq Nat /\ IsFiniteSet(Weeks)
  /\ Capacity \in Nat
  /\ MaxDouses \in Nat
  /\ WeekOf \in [Corrections -> Weeks]

\* A week without a row is told from every row.
ASSUME NoRowIsNoRow ==
  NoRow \notin [id : Nat \ {0}, flames : Nat, burnt : BOOLEAN]

VARIABLES
  board,     \* game_week_fires: the row of each week
  water,     \* game_correctness_state.water_units
  log,       \* game_events that move water or fire, by created_at then id
  corrected, \* receipt_corrections: the corrections recorded
  run,       \* the reconciliation transaction in progress
  ask,       \* a manual douse between its reads and its write
  douses,    \* bound counter: manual douses asked for
  stale      \* history: a douse wrote back values after something else was recorded

vars == <<board, water, log, corrected, run, ask, douses, stale>>

Row == [id : Nat \ {0}, flames : Nat, burnt : BOOLEAN]
Board == [Weeks -> Row \cup {NoRow}]
Event ==
  [kind : {"fire", "void"}, week : Weeks, by : Corrections]
    \cup [kind : {"forced"}, week : Weeks, by : Corrections, units : {1}]
    \cup [kind : {"doused"}, week : Weeks, units : Nat]
    \cup [kind : {"burned"}, week : Weeks]
    \cup [kind : {"earned"}, by : Edits, units : Nat]

Lesser(a, b) == IF a < b THEN a ELSE b
Monus(a, b) == IF a < b THEN 0 ELSE a - b

(***************************************************************************)
(* Queries on the table of weeks.                                          *)
(***************************************************************************)
Kept(b) == {w \in Weeks : b[w] # NoRow}
Alight(b) == {w \in Kept(b) : ~b[w].burnt}

TotalFlames(b) == FoldSet(LAMBDA w, n : n + b[w].flames, 0, Alight(b))

\* ORDER BY flames_active DESC, week_start_at ASC
Worst(b) ==
  CHOOSE w \in Alight(b) :
    \A v \in Alight(b) : \/ b[w].flames > b[v].flames
                         \/ b[w].flames = b[v].flames /\ w <= v

NextId(b) ==
  1 + FoldSet(LAMBDA w, m : IF b[w].id > m THEN b[w].id ELSE m, 0, Kept(b))

Touched(b, w) ==
  IF b[w] # NoRow THEN b
  ELSE [b EXCEPT ![w] = [id |-> NextId(b), flames |-> 0, burnt |-> FALSE]]

\* One flame more on week w; week w gone to ash
Lit(b, w) == [b EXCEPT ![w].flames = @ + 1]
Ash(b, w) == [b EXCEPT ![w].burnt = TRUE, ![w].flames = 0]

(***************************************************************************)
(* Reading the history: the rebuild of the board and of the droplets.      *)
(***************************************************************************)
\* Mutant: an auto-douse is not recognised on replay
NeverForced(l, c) == FALSE

\* Whether the flame of correction c was smothered by a droplet as it came
WasForced(l, c) == \E i \in DOMAIN l : l[i].kind = "forced" /\ l[i].by = c

\* Mutant: a burn only clears the flames
ReplayedUnburnt(l, b, e) ==
  IF e.kind = "burned" THEN [Touched(b, e.week) EXCEPT ![e.week].flames = 0]
  ELSE IF e.kind = "fire" /\ ~WasForced(l, e.by)
  THEN Lit(Touched(b, e.week), e.week)
  ELSE b

\* What one event does to the board being rebuilt from log l
Replayed(l, b, e) ==
  CASE e.kind = "fire" ->
         LET t == Touched(b, e.week) IN
         IF t[e.week].burnt \/ WasForced(l, e.by) THEN t
         ELSE Lit(t, e.week)
    [] e.kind = "burned" -> Ash(Touched(b, e.week), e.week)
    [] e.kind = "doused" ->
         [Touched(b, e.week) EXCEPT ![e.week].flames = Monus(@, e.units)]
    [] OTHER -> b

NoWeeks == [w \in Weeks |-> NoRow]
Replay(l) == FoldLeft(LAMBDA b, e : Replayed(l, b, e), NoWeeks, l)

\* Mutant: only the droplets the user spends are counted
RefilledManualOnly(n, e) ==
  CASE e.kind = "earned" -> Lesser(n + e.units, Capacity)
    [] e.kind = "doused" -> Monus(n, e.units)
    [] OTHER -> n

Refilled(n, e) ==
  CASE e.kind = "earned" -> Lesser(n + e.units, Capacity)
    [] e.kind \in {"forced", "doused"} -> Monus(n, e.units)
    [] OTHER -> n

Refill(l) == FoldLeft(Refilled, 0, l)

-----------------------------------------------------------------------------
(***************************************************************************)
(* A reconciliation run.  r is the state of its session.                   *)
(***************************************************************************)
Session == [board : Board, sql : Board, water : Nat, log : Seq(Event),
            corrected : SUBSET Corrections]

Flushed(r) == [r EXCEPT !.sql = r.board]

\* _get_or_create_week_fire: a new row is flushed, and everything pending with it
WithWeek(r, w) ==
  IF r.board[w] # NoRow THEN r ELSE Flushed([r EXCEPT !.board = Touched(@, w)])

Fire(c) == [kind |-> "fire", week |-> WeekOf[c], by |-> c]

OnBurntWeek(r, c) ==
  [r EXCEPT !.log = Append(@, [kind |-> "void", week |-> WeekOf[c], by |-> c])]

Landed(r, c) ==
  [r EXCEPT !.board = Lit(@, WeekOf[c]), !.log = Append(@, Fire(c))]

\* The incident that narrates the douse is flushed (incidents.py:38)
AutoDoused(r, c) ==
  Flushed([r EXCEPT !.water = @ - 1,
                    !.log = @ \o <<Fire(c), [kind |-> "forced", week |-> WeekOf[c],
                                             by |-> c, units |-> 1]>>])

\* The victim is selected by SQL, so before the flame that landed is flushed
VictimOf(r) == Worst(r.sql)

Burned(r, c) ==
  LET v == VictimOf(r)
      l == Landed(r, c)
  IN  IF l.board[v].burnt THEN l
      ELSE Flushed([l EXCEPT !.board = Ash(@, v),
                             !.log = Append(@, [kind |-> "burned", week |-> v])])

\* add_fire with one unit
AddFire(r, c) ==
  LET s == WithWeek(r, WeekOf[c]) IN
  IF s.board[WeekOf[c]].burnt THEN OnBurntWeek(s, c)
  ELSE IF TotalFlames(s.sql) + 1 <= s.water THEN Landed(s, c)
  ELSE IF s.water > 0 THEN AutoDoused(s, c)
  ELSE Burned(s, c)

RunStart ==
  /\ run = NoRun
  /\ run' = [board |-> board, sql |-> board, water |-> water, log |-> log,
             corrected |-> corrected]
  /\ UNCHANGED <<board, water, log, corrected, ask, douses, stale>>

\* Mutant: corrections already recorded are charged again
CorrectAgain(c, valid) ==
  /\ run # NoRun
  /\ LET r == AddFire([run EXCEPT !.corrected = @ \cup {c}], c)
     IN  run' = IF valid THEN Flushed(r) ELSE r
  /\ UNCHANGED <<board, water, log, corrected, ask, douses, stale>>

\* One receipt whose YNAB transaction no longer matches.  The corrected draft
\* is written, and flushed, only when it validates
Correct(c, valid) ==
  /\ run # NoRun
  /\ c \notin run.corrected
  /\ LET r == AddFire([run EXCEPT !.corrected = @ \cup {c}], c)
     IN  run' = IF valid THEN Flushed(r) ELSE r
  /\ UNCHANGED <<board, water, log, corrected, ask, douses, stale>>

RunCommit ==
  /\ run # NoRun
  /\ board' = run.board
  /\ water' = run.water
  /\ log' = run.log
  /\ corrected' = run.corrected
  /\ run' = NoRun
  /\ UNCHANGED <<ask, douses, stale>>

\* The worker is killed or the run raises: everything is rolled back
RunDies ==
  /\ run # NoRun
  /\ run' = NoRun
  /\ UNCHANGED <<board, water, log, corrected, ask, douses, stale>>

-----------------------------------------------------------------------------
(***************************************************************************)
(* Requests.  A draft that corrects the category by hand has written its   *)
(* validation before it reads the droplets, so it holds the lock.          *)
(***************************************************************************)
AwardWater(r) ==
  /\ run = NoRun
  /\ ~\E i \in DOMAIN log : log[i].kind = "earned" /\ log[i].by = r
  /\ water < Capacity
  /\ water' = Lesser(water + 1, Capacity)
  /\ log' = Append(log, [kind |-> "earned", by |-> r, units |-> water' - water])
  /\ UNCHANGED <<board, corrected, run, ask, douses, stale>>

\* Mutant: the droplets at hand do not bound what is spent
SpendableUnbounded(w, units) == Lesser(units, board[w].flames)

Spendable(w, units) == Lesser(units, Lesser(water, board[w].flames))

\* POST /game/water/spend reads the row and the droplets without the lock and
\* stamps its events now: `at' is their place in the history
SpendRead(w, units) ==
  /\ ask = NoAsk /\ douses < MaxDouses
  /\ board[w] # NoRow /\ ~board[w].burnt
  /\ LET n == Spendable(w, units) IN
     /\ n > 0
     /\ ask' = [week |-> w, id |-> board[w].id, units |-> n, water |-> water,
                flames |-> board[w].flames,
                at |-> IF run = NoRun THEN Len(log) ELSE Len(run.log)]
  /\ douses' = douses + 1
  /\ UNCHANGED <<board, water, log, corrected, run, stale>>

\* ... and writes what it computed from them when it gets the lock.  The row is
\* addressed by its id; a rebuild may have given the id to another week
RowWithId(i) == {w \in Kept(board) : board[w].id = i}

SpendWrite ==
  /\ ask # NoAsk /\ run = NoRun
  /\ \E w \in RowWithId(ask.id) :
       board' = [board EXCEPT ![w].flames = ask.flames - ask.units]
  /\ water' = ask.water - ask.units
  /\ log' = LET k == Lesser(ask.at, Len(log)) IN
            SubSeq(log, 1, k)
              \o <<[kind |-> "doused", week |-> ask.week, units |-> ask.units]>>
              \o SubSeq(log, k + 1, Len(log))
  /\ stale' = (\/ stale
                \/ ask.at < Len(log)
                \/ water # ask.water
                \/ board[ask.week] # [id |-> ask.id, flames |-> ask.flames, burnt |-> FALSE])
  /\ ask' = NoAsk
  /\ UNCHANGED <<corrected, run, douses>>

\* "database is locked", or the row is gone: the request fails with nothing written
SpendFails ==
  /\ ask # NoAsk
  /\ run # NoRun \/ RowWithId(ask.id) = {}
  /\ ask' = NoAsk
  /\ UNCHANGED <<board, water, log, corrected, run, douses, stale>>

\* POST /game/rebuild: the part that concerns the board
Rebuild ==
  /\ run = NoRun
  /\ board' = Replay(log)
  /\ UNCHANGED <<water, log, corrected, run, ask, douses, stale>>

\* POST /game/correctness/recompute; it writes only when the droplets it loaded
\* differ from those it counts, so its reads and its write are taken together
Recompute ==
  /\ run = NoRun
  /\ water' = Refill(log)
  /\ UNCHANGED <<board, log, corrected, run, ask, douses, stale>>

-----------------------------------------------------------------------------
Init ==
  /\ board = NoWeeks
  /\ water = 0
  /\ log = <<>>
  /\ corrected = {}
  /\ run = NoRun
  /\ ask = NoAsk
  /\ douses = 0
  /\ stale = FALSE

Next ==
  \/ RunStart
  \/ \E c \in Corrections, valid \in BOOLEAN : Correct(c, valid)
  \/ RunCommit
  \/ RunDies
  \/ \E r \in Edits : AwardWater(r)
  \/ \E w \in Weeks, units \in 1 .. Capacity : SpendRead(w, units)
  \/ SpendWrite
  \/ SpendFails
  \/ Rebuild
  \/ Recompute

Spec == Init /\ [][Next]_vars

-----------------------------------------------------------------------------
\* Types: the droplets stay within the capacity, in the table and in a run.
TypeOK ==
  /\ board \in Board
  /\ water \in 0 .. Capacity
  /\ log \in Seq(Event)
  /\ corrected \in SUBSET Corrections
  /\ run \in Session \cup {NoRun}
  /\ ask \in [week : Weeks, id : Nat, units : Nat, water : 0 .. Capacity,
              flames : Nat, at : Nat] \cup {NoAsk}
  /\ douses \in 0 .. MaxDouses
  /\ stale \in BOOLEAN

\* Rows without their ids
Shown(b) == [w \in Weeks |-> IF b[w] = NoRow THEN NoRow ELSE <<b[w].flames, b[w].burnt>>]

\* A rebuild reproduces the board of live accrual (game.py:526-529), whatever
\* runs, crashes, forced and manual douses and earlier rebuilds made it, as long
\* as no douse was written back after something else was recorded.
RebuildParity == ~stale => Shown(Replay(log)) = Shown(board)

\* Recomputing the droplets from the history gives the droplets the board has
\* (correctness.py:478-534), the cap and the forced douses included.
RecomputeParity == ~stale => Refill(log) = water

\* The events that charge a correction
Charges(c) == {i \in DOMAIN log : log[i].kind \in {"fire", "void"} /\ log[i].by = c}

\* A correction costs its flame exactly once: a run that dies charges nothing,
\* and a later run does not charge again (reconciliation.py:395-420).
ChargedOnce ==
  \A c \in Corrections :
    IF c \in corrected THEN \E i \in DOMAIN log : Charges(c) = {i} ELSE Charges(c) = {}

\* A burnt week stays burnt, through later flames, douses, dead runs and
\* rebuilds (correctness.py:118 "marked burnt for good").
BurntForGood ==
  [][\A w \in Weeks : board[w] # NoRow /\ board[w].burnt
                        => board'[w] # NoRow /\ board'[w].burnt]_vars
=============================================================================
