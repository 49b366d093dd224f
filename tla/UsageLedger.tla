----------------------------- MODULE UsageLedger -----------------------------
(***************************************************************************)
(* The gateway for calls to the language model (receipt_shared/ai): what a *)
(* request will use is estimated, reserved in the ledger against every cap *)
(* that applies, the provider is called, and the reservation is settled    *)
(* with what the call used.                                                *)
(*                                                                         *)
(* Extraction jobs run in the worker and POST .../organize in the API, so  *)
(* requests overlap.  The clock and the limits file are read before the    *)
(* ledger is locked.  The reservation and the settlement are one           *)
(* transaction each (BEGIN IMMEDIATE), and between them the process may    *)
(* die, or RQ may kill the job.                                            *)
(*                                                                         *)
(* A usage is one number per dimension (tokens, USD): prices are not       *)
(* negative, and nothing else about them matters here.  Instants are       *)
(* counted in the shortest window.                                         *)
(***************************************************************************)
EXTENDS Integers, FiniteSets, FiniteSetsExt

CONSTANTS
  Requests,  \* requests; each has one row in the ledger
  Models,
  ModelOf,   \* the model a request asks for
  Dims,      \* dimensions of a cap
  Usages,    \* what a request may use
  Estimate,  \* estimate_usage: what the prompt of a request is taken to use
  Windows,   \* kinds of window: hourly, daily, ...
  Start,     \* windows.py!window_start: the start of the window an instant is in
  Limits,    \* contents the limits file may have
  Times,     \* bound: instants of the model
  Global, NoLimit, None

ASSUME LedgerConstants ==
  /\ IsFiniteSet(Requests) /\ IsFiniteSet(Times)
  /\ ModelOf \in [Requests -> Models]
  /\ Global \notin Models
  /\ Usages \subseteq [Dims -> Nat]
  /\ Estimate \in [Requests -> Usages]
  /\ Times \subseteq Nat /\ Times # {}
  /\ Start \in [Windows -> [Times -> Times]]
  /\ \A w \in Windows, t \in Times : Start[w][t] <= t
  /\ Limits \subseteq [{Global} \cup Models -> [Windows -> [Dims -> Nat \cup {NoLimit}]]]
  /\ None \notin Usages /\ None \notin Limits

VARIABLES
  now,    \* the clock
  limits, \* the limits file
  call,   \* what a request's process holds
  ledger  \* ai_usage_ledger; `admitted', a history field, has the limits it was admitted under

ledgerVars == <<now, limits, call, ledger>>

Scopes == {Global} \cup Models
Nothing == [d \in Dims |-> 0]

PCs == {"idle", "prepared", "admitted", "answered", "refused", "over", "dead"}
Call == [pc : PCs, at : Times \cup {None}, limits : Limits \cup {None},
         reply : Usages \cup {None}]
Blank == [pc |-> "idle", at |-> None, limits |-> None, reply |-> None]
Ended(pc) == [Blank EXCEPT !.pc = pc]

Statuses == {"none", "pending", "success", "rejected_by_limit", "provider_error"}
UsageEvent == [status : Statuses, at : Times \cup {None}, used : Usages \cup {Nothing},
               admitted : Limits \cup {None}]
NoEvent == [status |-> "none", at |-> None, used |-> Nothing, admitted |-> None]

-----------------------------------------------------------------------------
(***************************************************************************)
(* Sums over the ledger.                                                   *)
(***************************************************************************)
\* Mutant: reservations in flight do not count
SettledOnly == {"success"}

Countable == {"pending", "success"}

InScope(r, scope) == scope = Global \/ ModelOf[r] = scope

\* _sum_usage: from an instant on, with no end
CountedFrom(scope, t) ==
  {r \in Requests : /\ ledger[r].status \in Countable
                    /\ InScope(r, scope) /\ ledger[r].at >= t}

Used(rows, d) == MapThenSumSet(LAMBDA r : ledger[r].used[d], rows)

\* _check_window_limit, for every window: nothing may be exceeded
Fits(r) ==
  \A scope \in {Global, ModelOf[r]}, w \in Windows, d \in Dims :
    LET cap == call[r].limits[scope][w][d] IN
    cap # NoLimit =>
      Used(CountedFrom(scope, Start[w][call[r].at]), d) + Estimate[r][d] <= cap

-----------------------------------------------------------------------------
(***************************************************************************)
(* AIClient._generate.                                                     *)
(***************************************************************************)
Prepare(r) ==
  /\ call[r].pc = "idle"
  /\ call' = [call EXCEPT ![r] =
       [pc |-> "prepared", at |-> now, limits |-> limits, reply |-> None]]
  /\ UNCHANGED <<now, limits, ledger>>

Reserve(r) ==
  /\ call[r].pc = "prepared" /\ Fits(r)
  /\ ledger' = [ledger EXCEPT ![r] =
       [status |-> "pending", at |-> call[r].at, used |-> Estimate[r],
        admitted |-> call[r].limits]]
  /\ call' = [call EXCEPT ![r].pc = "admitted", ![r].at = None, ![r].limits = None]
  /\ UNCHANGED <<now, limits>>

\* The refusal is recorded with no usage; the caller gets an error or a refusal
Reject(r) ==
  /\ call[r].pc = "prepared" /\ ~Fits(r)
  /\ ledger' = [ledger EXCEPT ![r] =
       [NoEvent EXCEPT !.status = "rejected_by_limit", !.at = call[r].at]]
  /\ call' = [call EXCEPT ![r] = Ended("over")]
  /\ UNCHANGED <<now, limits>>

\* The provider answers; it may leave out what the call used
Answer(r, reply) ==
  /\ call[r].pc = "admitted"
  /\ call' = [call EXCEPT ![r].pc = "answered", ![r].reply = reply]
  /\ UNCHANGED <<now, limits, ledger>>

\* The provider, or the last retry, fails
Refuse(r) ==
  /\ call[r].pc = "admitted"
  /\ call' = [call EXCEPT ![r].pc = "refused"]
  /\ UNCHANGED <<now, limits, ledger>>

\* Mutant: a usage the provider left out is stored as it came
ReplyAsItCame(r) == call[r].reply

FinalUsage(r) == IF call[r].reply = None THEN Estimate[r] ELSE call[r].reply

Settle(r) ==
  /\ call[r].pc = "answered"
  /\ ledger' = [ledger EXCEPT ![r].status = "success", ![r].used = FinalUsage(r)]
  /\ call' = [call EXCEPT ![r] = Ended("over")]
  /\ UNCHANGED <<now, limits>>

\* Mutant: after an error of the provider the row is left alone
GiveUp(r) ==
  /\ call[r].pc = "refused"
  /\ call' = [call EXCEPT ![r] = Ended("over")]
  /\ UNCHANGED <<now, limits, ledger>>

SettleError(r) ==
  /\ call[r].pc = "refused"
  /\ ledger' = [ledger EXCEPT ![r].status = "provider_error", ![r].used = Nothing,
                                      ![r].admitted = None]
  /\ call' = [call EXCEPT ![r] = Ended("over")]
  /\ UNCHANGED <<now, limits>>

\* The process dies, or the ledger stays locked for thirty seconds and the
\* request ends with that error: the row stays as it is
Dies(r) ==
  /\ call[r].pc \notin {"idle", "over", "dead"}
  /\ call' = [call EXCEPT ![r] = Ended("dead")]
  /\ UNCHANGED <<now, limits, ledger>>

-----------------------------------------------------------------------------
(***************************************************************************)
(* Time, and the operator, who replaces the limits file as a whole.        *)
(***************************************************************************)
Tick ==
  /\ now + 1 \in Times
  /\ now' = now + 1
  /\ UNCHANGED <<limits, call, ledger>>

SetLimits(l) ==
  /\ l # limits
  /\ limits' = l
  /\ UNCHANGED <<now, call, ledger>>

LedgerInit ==
  /\ now \in {t \in Times : \A u \in Times : t <= u}
  /\ limits \in Limits
  /\ call = [r \in Requests |-> Blank]
  /\ ledger = [r \in Requests |-> NoEvent]

Progress(r) ==
  \/ Reserve(r) \/ Reject(r)
  \/ Refuse(r)
  \/ \E reply \in Usages \cup {None} : Answer(r, reply)
  \/ Settle(r) \/ SettleError(r)

LedgerNext ==
  \/ \E r \in Requests :
       \/ Prepare(r)
       \/ Progress(r)
       \/ Dies(r)
  \/ Tick
  \/ \E l \in Limits : SetLimits(l)

LedgerSpec == LedgerInit /\ [][LedgerNext]_ledgerVars

\* A request that was begun goes on unless its process dies; the provider
\* answers or its client times out.
FairLedger == LedgerSpec /\ \A r \in Requests : WF_ledgerVars(Progress(r))

-----------------------------------------------------------------------------
\* Types: every row that counts has a usage in every dimension.
LedgerTypeOK ==
  /\ now \in Times
  /\ limits \in Limits
  /\ call \in [Requests -> Call]
  /\ ledger \in [Requests -> UsageEvent]

\* The rows of one window that count against a scope
InWindow(scope, w, start) ==
  {r \in Requests : /\ ledger[r].status \in {"pending", "success"}
                    /\ InScope(r, scope)
                    /\ Start[w][ledger[r].at] = start}

\* What settled calls used beyond their estimates
Excess(rows, d) ==
  MapThenSumSet(LAMBDA r : IF ledger[r].used[d] > Estimate[r][d]
                           THEN ledger[r].used[d] - Estimate[r][d] ELSE 0, rows)

\* Concurrent requests do not exceed a cap together (docs/ai-usage-limiter.md,
\* docs/architecture.md:108-109): in every window and scope, what is reserved or
\* used stays within a cap one of its requests was admitted under, but for what
\* single calls used beyond their own estimates.  Late reservations with an old
\* time stamp, stale limits, deaths and settlements included.
CapsHold ==
  \A scope \in Scopes, w \in Windows, d \in Dims, start \in Times :
    LET rows == InWindow(scope, w, start) IN
    rows # {} =>
      \E r \in rows :
        LET cap == ledger[r].admitted[scope][w][d] IN
        cap = NoLimit \/ Used(rows, d) <= cap + Excess(rows, d)

\* A reservation is settled, unless its process died (store.py!finalize): it
\* does not go on counting with an estimate after the call is over.
Settles ==
  \A r \in Requests :
    ledger[r].status = "pending" ~> ledger[r].status # "pending" \/ call[r].pc = "dead"
=============================================================================
