----------------------------- MODULE Extraction -----------------------------
(***************************************************************************)
(* From the ingested file to a draft that the user can review: the         *)
(* extraction job of jobs/tasks.py, the sweep that re-enqueues receipts    *)
(* stranded at INGESTED, retry-extract, and the reset of stuck receipts    *)
(* when the API starts.                                                    *)
(*                                                                         *)
(* Jobs are pushed to Redis before the status that announces them is       *)
(* committed, so a job may be over by then; Redis and the worker may lose  *)
(* a job; and from its first failed analysis to its end a job holds        *)
(* SQLite's write lock through two calls of the model, during which every  *)
(* other writer is refused.                                                *)
(*                                                                         *)
(* One worker process serves the queue (docker-compose.yml).  Versions of  *)
(* drafts and twins are the subject of Drafts; whether the duplicate check *)
(* finds another receipt is an input here (found).  The statuses of the    *)
(* write path follow on NEEDS_REVIEW and are the subject of YnabSync.      *)
(***************************************************************************)
EXTENDS Naturals, Sequences

CONSTANTS
    Receipts,    \* receipt ids
    Touched,     \* the receipts the user acts on
    MaxQueue,    \* bound: jobs in the queue
    MaxFaults,   \* bound: things that go wrong
    Nobody       \* "no receipt"

ASSUME ExtractionConstants ==
    /\ MaxQueue \in Nat /\ MaxFaults \in Nat
    /\ Nobody \notin Receipts
    /\ Touched \subseteq Receipts

VARIABLES
    life,     \* "none" before the ingestion, deleted_at, "gone" without a row
    status,   \* Receipt.status
    aged,     \* ingested_at is older than ingested_reenqueue_after_seconds
    fresh,    \* extraction_started_at is within stuck_job_timeout_minutes
    queue,    \* the RQ extraction queue
    job,      \* what the worker is doing
    sweep,    \* what recover_orphaned_ingested is doing
    asked,    \* by receipt: whether a retry-extract in progress will write the status
    lost,     \* history: receipts whose job was lost, or was over when announced
    faults    \* number of faults so far

vars == <<life, status, aged, fresh, queue, job, sweep, asked, lost, faults>>

Lives    == {"none", "live", "deleted", "gone"}
Settled  == {"NEEDS_REVIEW", "DUPLICATE_REVIEW", "ERROR_EXTRACT"}
Statuses == Settled \cup {"INGESTED", "EXTRACTING"}

Exists(r) == life[r] \in {"live", "deleted"}

(* "fallback": the first analysis was unusable and its run is written but not
   committed, so the job's transaction has the write lock. *)
Job == [pc : {"idle", "analysing", "fallback"}, r : Receipts \cup {Nobody}]
NoJob == [pc |-> "idle", r |-> Nobody]

Locked == job.pc = "fallback"

Sweep == [pc : {"idle", "pushing"}, todo : SUBSET Receipts, pushed : SUBSET Receipts]
NoSweep == [pc |-> "idle", todo |-> {}, pushed |-> {}]

Queued(r)  == \E i \in 1..Len(queue) : queue[i] = r
Pending(r) == Queued(r) \/ job.r = r

(* The user cannot fill the queue against the sweep. *)
Room      == Len(queue) < MaxQueue
SweepRoom == Len(queue) <= MaxQueue
Fault == faults < MaxFaults /\ faults' = faults + 1

-----------------------------------------------------------------------------
(* ingest_file: the row is committed, then the job is pushed; a push that
   fails is left to the sweep. *)
Ingest(r) ==
    /\ life[r] = "none"
    /\ ~ Locked
    /\ life'   = [life EXCEPT ![r] = "live"]
    /\ status' = [status EXCEPT ![r] = "INGESTED"]
    /\ \/ Room /\ queue' = Append(queue, r) /\ UNCHANGED faults
       \/ Fault /\ UNCHANGED queue
    /\ UNCHANGED <<aged, fresh, job, sweep, asked, lost>>

-----------------------------------------------------------------------------
(* run_extraction_job *)

JobForNobody ==
    /\ job.pc = "idle" /\ queue # <<>>
    /\ life[Head(queue)] = "gone"
    /\ queue' = Tail(queue)
    /\ UNCHANGED <<life, status, aged, fresh, job, sweep, asked, lost, faults>>

(* EXTRACTING is committed whatever the status is and also when the receipt is
   deleted. *)
JobStarts ==
    LET r == Head(queue)
    IN  /\ job.pc = "idle" /\ queue # <<>>
        /\ Exists(r)
        /\ queue'  = Tail(queue)
        /\ status' = [status EXCEPT ![r] = "EXTRACTING"]
        /\ fresh'  = [fresh EXCEPT ![r] = TRUE]
        /\ job'    = [pc |-> "analysing", r |-> r]
        /\ lost'   = lost \ {r}
        /\ UNCHANGED <<life, aged, sweep, asked, faults>>

(* _run_unified_attempt: nothing usable, the two fallback passes follow.
   _record_extraction_run has flushed by then. *)
FallsBack ==
    /\ job.pc = "analysing"
    /\ job' = [job EXCEPT !.pc = "fallback"]
    /\ UNCHANGED <<life, status, aged, fresh, queue, sweep, asked, lost, faults>>

JobEnds(st) ==
    /\ job.pc # "idle"
    /\ Exists(job.r)
    /\ status' = [status EXCEPT ![job.r] = st]
    /\ job'    = NoJob
    /\ UNCHANGED <<life, aged, fresh, queue, sweep, asked, lost, faults>>

(* _run_simple_extraction, _finalize_unified_success, or a fallback that
   succeeds: draft and twin, the primary run, the status and the duplicate
   check are one commit. *)
JobSucceeds(found) == JobEnds(IF found THEN "DUPLICATE_REVIEW" ELSE "NEEDS_REVIEW")

(* Mutants: the failure is logged and nothing else; the write path's status. *)
FailQuietly ==
    /\ job.pc # "idle"
    /\ job' = NoJob
    /\ UNCHANGED <<life, status, aged, fresh, queue, sweep, asked, lost, faults>>

FailAsSync == JobEnds("ERROR_SYNC")

(* No usable analysis, no API key, no file, a provider error, the job's time
   limit: ERROR_EXTRACT, together with the runs recorded so far. *)
JobFails == JobEnds("ERROR_EXTRACT")

(* The row was removed under the job: its last commit fails. *)
JobVanishes ==
    /\ job.pc # "idle" /\ ~ Exists(job.r)
    /\ job' = NoJob
    /\ UNCHANGED <<life, status, aged, fresh, queue, sweep, asked, lost, faults>>

(* The work horse dies, or the exception came from the database, so that the
   except branch cannot commit either.  RQ does not run the job again. *)
JobDies ==
    /\ job.pc # "idle"
    /\ Fault
    /\ lost' = lost \cup {job.r}
    /\ job'  = NoJob
    /\ UNCHANGED <<life, status, aged, fresh, queue, sweep, asked>>

(* run-app starts a fresh Redis: what was queued is gone. *)
RedisRestarts ==
    /\ queue # <<>>
    /\ Fault
    /\ lost'  = lost \cup {r \in Receipts : Queued(r)}
    /\ queue' = <<>>
    /\ UNCHANGED <<life, status, aged, fresh, job, sweep, asked>>

-----------------------------------------------------------------------------
(* recover_orphaned_ingested: read the orphans, push one job each, set
   EXTRACTING for all of them in one commit. *)

Orphans == {r \in Receipts : life[r] = "live" /\ status[r] = "INGESTED" /\ aged[r]}

SweepReads ==
    /\ sweep.pc = "idle"
    /\ Orphans # {}
    /\ sweep' = [pc |-> "pushing", todo |-> Orphans, pushed |-> {}]
    /\ UNCHANGED <<life, status, aged, fresh, queue, job, asked, lost, faults>>

(* The push raises, before or after it took effect: the receipt is skipped. *)
SweepPushes(r) ==
    /\ sweep.pc = "pushing"
    /\ r \in sweep.todo
    /\ \/ /\ SweepRoom
          /\ queue' = Append(queue, r)
          /\ sweep' = [sweep EXCEPT !.todo = @ \ {r}, !.pushed = @ \cup {r}]
          /\ UNCHANGED faults
       \/ /\ Fault
          /\ sweep' = [sweep EXCEPT !.todo = @ \ {r}]
          /\ UNCHANGED queue \/ (SweepRoom /\ queue' = Append(queue, r))
    /\ UNCHANGED <<life, status, aged, fresh, job, asked, lost>>

Announced(rs) ==
    /\ status' = [r \in Receipts |-> IF r \in rs THEN "EXTRACTING" ELSE status[r]]
    /\ fresh'  = [r \in Receipts |-> r \in rs \/ fresh[r]]
    /\ lost'   = lost \cup {r \in rs : ~ Pending(r)}

SweepDone == sweep.pc = "pushing" /\ sweep.todo = {}

SweepCommits ==
    /\ SweepDone
    /\ ~ Locked \/ sweep.pushed = {}
    /\ \A r \in sweep.pushed : Exists(r)
    /\ Announced(sweep.pushed)
    /\ sweep' = NoSweep
    /\ UNCHANGED <<life, aged, queue, job, asked, faults>>

(* "database is locked", or one of the rows is gone: nothing is written, the
   jobs are out all the same. *)
SweepRefused ==
    /\ SweepDone
    /\ sweep.pushed # {}
    /\ Locked \/ \E r \in sweep.pushed : ~ Exists(r)
    /\ sweep' = NoSweep
    /\ UNCHANGED <<life, status, aged, fresh, queue, job, asked, lost, faults>>

-----------------------------------------------------------------------------
(* POST /receipts/{id}/twin/retry-extract: push, then EXTRACTING.  There is no
   check of the status or of deleted_at; an unchanged status is not written. *)

RetryPushes(r) ==
    /\ asked[r] = "no"
    /\ Exists(r)
    /\ \/ /\ Room
          /\ queue' = Append(queue, r)
          /\ asked' = [asked EXCEPT ![r] = IF status[r] = "EXTRACTING" THEN "same" ELSE "write"]
          /\ UNCHANGED faults
       \/ /\ Room
          /\ Fault
          /\ queue' = Append(queue, r)
          /\ UNCHANGED asked
    /\ UNCHANGED <<life, status, aged, fresh, job, sweep, lost>>

RetryCommits(r) ==
    /\ asked[r] # "no"
    /\ ~ Locked
    /\ Exists(r)
    /\ asked' = [asked EXCEPT ![r] = "no"]
    /\ \/ /\ asked[r] = "write"
          /\ Announced({r})
       \/ /\ asked[r] = "same"
          /\ fresh' = [fresh EXCEPT ![r] = TRUE]
          /\ UNCHANGED <<status, lost>>
    /\ UNCHANGED <<life, aged, queue, job, sweep, faults>>

RetryRefused(r) ==
    /\ asked[r] # "no"
    /\ Locked \/ ~ Exists(r)
    /\ asked' = [asked EXCEPT ![r] = "no"]
    /\ UNCHANGED <<life, status, aged, fresh, queue, job, sweep, lost, faults>>

-----------------------------------------------------------------------------
(* The user's other requests.  While the lock is held they fail. *)

UserWrites(r) == Exists(r) /\ ~ Locked

SetStatus(r, st) ==
    /\ status' = [status EXCEPT ![r] = st]
    /\ UNCHANGED <<life, aged, fresh, queue, job, sweep, asked, lost, faults>>

AfterCheck(st, found) ==
    IF found THEN "DUPLICATE_REVIEW"
    ELSE IF st = "DUPLICATE_REVIEW" THEN "NEEDS_REVIEW" ELSE st

(* POST /receipts/{id}/draft: a valid draft rescues a failed extraction. *)
SaveDraft(r, valid, found) ==
    LET rescued == IF valid /\ status[r] = "ERROR_EXTRACT" THEN "NEEDS_REVIEW" ELSE status[r]
    IN  /\ UserWrites(r)
        /\ found => valid
        /\ SetStatus(r, AfterCheck(rescued, found))

OverrideDuplicate(r) == UserWrites(r) /\ SetStatus(r, AfterCheck(status[r], FALSE))

SetLife(r, from, to) ==
    /\ life[r] = from
    /\ ~ Locked
    /\ life' = [life EXCEPT ![r] = to]
    /\ UNCHANGED <<status, aged, fresh, queue, job, sweep, asked, lost, faults>>

DeleteReceipt(r)    == SetLife(r, "live", "deleted")
RestoreReceipt(r)   == SetLife(r, "deleted", "live")
Purge(r)            == SetLife(r, "deleted", "gone")
ConfirmDuplicate(r) == /\ status[r] = "DUPLICATE_REVIEW"
                       /\ SetLife(r, "live", "gone") \/ SetLife(r, "deleted", "gone")

-----------------------------------------------------------------------------
(* Time and restarts *)

Ages(r) ==
    /\ life[r] # "none" /\ ~ aged[r]
    /\ aged' = [aged EXCEPT ![r] = TRUE]
    /\ UNCHANGED <<life, status, fresh, queue, job, sweep, asked, lost, faults>>

(* A job that runs started less than 15 minutes ago (job_timeout), so only a
   receipt that nobody is working on becomes stale.  One that waits in the
   queue may.  Nobody looks at fresh in another status. *)
BecomesStale(r) ==
    /\ fresh[r] /\ job.r # r
    /\ status[r] = "EXTRACTING"
    /\ fresh' = [fresh EXCEPT ![r] = FALSE]
    /\ UNCHANGED <<life, status, aged, queue, job, sweep, asked, lost, faults>>

(* _reset_stuck_jobs.  A request or a sweep in progress dies with the API.
   Restarts that no stuck receipt waits for are counted as faults. *)
(* Mutant: the cut-off is compared the wrong way round. *)
StuckWhenFresh(r) == life[r] = "live" /\ status[r] = "EXTRACTING" /\ fresh[r]

Stuck(r) == life[r] = "live" /\ status[r] = "EXTRACTING" /\ ~ fresh[r]

ApiRestarts ==
    /\ ~ Locked
    /\ \/ (\E r \in Receipts : Stuck(r)) /\ UNCHANGED faults
       \/ Fault
    /\ status' = [r \in Receipts |-> IF Stuck(r) THEN "INGESTED" ELSE status[r]]
    /\ sweep'  = NoSweep
    /\ asked'  = [r \in Receipts |-> "no"]
    /\ UNCHANGED <<life, aged, fresh, queue, job, lost>>

-----------------------------------------------------------------------------
Init ==
    /\ life   = [r \in Receipts |-> "none"]
    /\ status = [r \in Receipts |-> "INGESTED"]
    /\ aged   = [r \in Receipts |-> FALSE]
    /\ fresh  = [r \in Receipts |-> FALSE]
    /\ queue  = <<>>
    /\ job    = NoJob
    /\ sweep  = NoSweep
    /\ asked  = [r \in Receipts |-> "no"]
    /\ lost   = {}
    /\ faults = 0

WorkerStep ==
    \/ JobForNobody \/ JobStarts
    \/ FallsBack \/ (\E found \in BOOLEAN : JobSucceeds(found)) \/ JobFails
    \/ JobVanishes

SweepStep ==
    \/ SweepReads \/ SweepCommits \/ SweepRefused
    \/ \E r \in Receipts : SweepPushes(r)

RequestStep(r) == RetryCommits(r) \/ RetryRefused(r)

UserStep(r) ==
    \/ RetryPushes(r)
    \/ \E valid, found \in BOOLEAN : SaveDraft(r, valid, found)
    \/ OverrideDuplicate(r) \/ ConfirmDuplicate(r)
    \/ DeleteReceipt(r) \/ RestoreReceipt(r) \/ Purge(r)

Next ==
    \/ WorkerStep \/ JobDies \/ RedisRestarts
    \/ SweepStep \/ ApiRestarts
    \/ \E r \in Receipts : Ingest(r) \/ Ages(r) \/ BecomesStale(r)
    \/ \E r \in Touched : UserStep(r) \/ RequestStep(r)

Spec == Init /\ [][Next]_vars

(* RQ runs what is queued, the API repeats the sweep every two minutes and ends
   its requests and is not always restarted in the middle of a sweep, time passes;
   and the API is restarted after a receipt got stuck, which recovery.py counts
   on, and not always while the database is locked (the reset would fail).
   Nothing is assumed of the user. *)
Fairness ==
    /\ WF_vars(WorkerStep) /\ WF_vars(SweepStep)
    /\ WF_vars(\E r \in Receipts : Ages(r))
    /\ \A r \in Touched : WF_vars(RequestStep(r))
    /\ \A r \in Receipts : WF_vars(BecomesStale(r)) /\ SF_vars(SweepPushes(r))
    /\ SF_vars(ApiRestarts /\ \E r \in Receipts : Stuck(r))

FairSpec == Spec /\ Fairness

-----------------------------------------------------------------------------
(* Properties *)

\* Types: receipts, queue, and what the worker, a sweep and a request hold.
TypeOK ==
    /\ life   \in [Receipts -> Lives]
    /\ status \in [Receipts -> Statuses]
    /\ aged   \in [Receipts -> BOOLEAN]
    /\ fresh  \in [Receipts -> BOOLEAN]
    /\ queue  \in Seq(Receipts)
    /\ job    \in Job
    /\ sweep  \in Sweep
    /\ asked  \in [Receipts -> {"no", "write", "same"}]
    /\ lost   \in SUBSET Receipts
    /\ faults \in Nat

(* A receipt shows as being extracted only while a job of it is queued or
   running, unless that job was lost (worker, Redis) or was already over when
   the sweep or the retry announced it: no other order of the handlers leaves
   a receipt at EXTRACTING for nothing. *)
ExtractingIsReal ==
    \A r \in Receipts :
      Exists(r) /\ status[r] = "EXTRACTING" => Pending(r) \/ r \in lost

(* The self-healing loop of recovery.py: whatever was lost on the way, a
   receipt that is not deleted gets to review or to an error. *)
Waiting(r) == life[r] = "live" /\ status[r] \in {"INGESTED", "EXTRACTING"}

SelfHealing == \A r \in Receipts : Waiting(r) ~> ~ Waiting(r)
=============================================================================
