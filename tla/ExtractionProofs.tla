-------------------------- MODULE ExtractionProofs --------------------------
(***************************************************************************)
(* Proofs about Extraction, for any receipts, faults and length of the     *)
(* queue: types, and that EXTRACTING is shown for nothing only when a job  *)
(* was lost, or over when it was announced.                                *)
(***************************************************************************)
EXTENDS Extraction, TLAPS

\* An idle worker has no receipt, a busy one has one.
WorkerOK == /\ job.pc = "idle" => job.r = Nobody
            /\ job.pc # "idle" => job.r \in Receipts

XInv == TypeOK /\ WorkerOK /\ ExtractingIsReal

-----------------------------------------------------------------------------
(* The queue *)

LEMMA PushedIsQueued ==
  ASSUME queue \in Seq(Receipts), NEW r \in Receipts, queue' = Append(queue, r)
  PROVE  /\ queue' \in Seq(Receipts)
         /\ \A x \in Receipts : Queued(x) => Queued(x)'
         /\ Queued(r)'
<1>1. queue' \in Seq(Receipts) /\ Len(queue') = Len(queue) + 1 /\ Len(queue) \in Nat
  OBVIOUS
<1>2. \A i \in 1..Len(queue) : queue'[i] = queue[i]
  OBVIOUS
<1>3. queue'[Len(queue) + 1] = r
  OBVIOUS
<1>4. \A x \in Receipts : Queued(x) => Queued(x)'
  BY <1>1, <1>2 DEF Queued
<1>5. Queued(r)'
  BY <1>1, <1>3 DEF Queued
<1>6. QED
  BY <1>1, <1>4, <1>5

LEMMA TakenIsHead ==
  ASSUME queue \in Seq(Receipts), queue # <<>>, queue' = Tail(queue)
  PROVE  /\ queue' \in Seq(Receipts) /\ Head(queue) \in Receipts
         /\ \A x \in Receipts : Queued(x) => Queued(x)' \/ x = Head(queue)
<1>1. queue' \in Seq(Receipts) /\ Head(queue) \in Receipts
      /\ Len(queue') = Len(queue) - 1 /\ Len(queue) \in Nat
  OBVIOUS
<1>2. \A i \in 1..Len(queue') : queue'[i] = queue[i + 1]
  OBVIOUS
<1>3. ASSUME NEW x \in Receipts, NEW i \in 1..Len(queue), queue[i] = x
      PROVE  Queued(x)' \/ x = Head(queue)
  <2>1. CASE i = 1
    BY <1>3, <2>1
  <2>2. CASE i # 1
    <3>1. i - 1 \in 1..Len(queue') /\ (i - 1) + 1 = i
      BY <1>1, <2>2
    <3>2. queue'[i - 1] = x
      BY <1>2, <1>3, <3>1
    <3>3. QED
      BY <3>1, <3>2 DEF Queued
  <2>3. QED
    BY <2>1, <2>2
<1>4. QED
  BY <1>1, <1>3 DEF Queued

-----------------------------------------------------------------------------
\* A step that leaves the queue, the worker and what is known to be lost alone,
\* brings no row back and shows no further receipt as EXTRACTING.
LEMMA QuietStep ==
  ASSUME XInv, TypeOK', UNCHANGED <<queue, job, lost>>,
         \A r \in Receipts :
           Exists(r)' /\ status'[r] = "EXTRACTING"
             => Exists(r) /\ status[r] = "EXTRACTING"
  PROVE  XInv'
BY DEF XInv, WorkerOK, ExtractingIsReal, Pending, Queued

\* A job that ends: its receipt is not EXTRACTING, or has no row, or is lost.
LEMMA JobIsOver ==
  ASSUME XInv, TypeOK', UNCHANGED <<life, queue>>, job' = NoJob,
         job.r \in Receipts,
         lost \subseteq lost',
         \A r \in Receipts \ {job.r} : status'[r] = status[r],
         Exists(job.r) /\ status'[job.r] = "EXTRACTING" => job.r \in lost'
  PROVE  XInv'
BY DEF XInv, WorkerOK, ExtractingIsReal, Pending, Queued, NoJob, Exists

LEMMA WorkerSteps ==
  ASSUME XInv, WorkerStep \/ JobDies
  PROVE  XInv'
<1> USE DEF XInv
<1>1. CASE JobForNobody
  <2>1. queue' \in Seq(Receipts)
        /\ \A x \in Receipts : Queued(x) => Queued(x)' \/ x = Head(queue)
    BY <1>1, TakenIsHead DEF JobForNobody, TypeOK
  <2>2. TypeOK'
    BY <1>1, <2>1 DEF JobForNobody, TypeOK
  <2>3. ExtractingIsReal'
    BY <1>1, <2>1 DEF JobForNobody, ExtractingIsReal, Pending, Exists
  <2>4. QED
    BY <1>1, <2>2, <2>3 DEF JobForNobody, WorkerOK
<1>2. CASE JobStarts
  <2> DEFINE h == Head(queue)
  <2>1. queue' \in Seq(Receipts) /\ h \in Receipts
        /\ \A x \in Receipts : Queued(x) => Queued(x)' \/ x = h
    BY <1>2, TakenIsHead DEF JobStarts, TypeOK
  <2>2. /\ job.pc = "idle" /\ job' = [pc |-> "analysing", r |-> h]
        /\ status' = [status EXCEPT ![h] = "EXTRACTING"]
        /\ fresh' = [fresh EXCEPT ![h] = TRUE]
        /\ lost' = lost \ {h}
        /\ UNCHANGED <<life, aged, sweep, asked, faults>>
    BY <1>2 DEF JobStarts
  <2> HIDE DEF h
  <2>3. TypeOK'
    BY <2>1, <2>2 DEF TypeOK, Job, Statuses
  <2>4. ExtractingIsReal'
    <3> SUFFICES ASSUME NEW r \in Receipts, Exists(r)', status'[r] = "EXTRACTING"
                 PROVE  Pending(r)' \/ r \in lost'
      BY DEF ExtractingIsReal
    <3>1. CASE r = h
      BY <2>2, <3>1 DEF Pending
    <3>2. CASE r # h
      <4>1. Queued(r) \/ job.r = r \/ r \in lost
        BY <2>2, <3>2 DEF ExtractingIsReal, TypeOK, Exists, Pending
      <4>2. job.r = Nobody
        BY <2>2 DEF WorkerOK
      <4>3. QED
        BY <2>1, <2>2, <3>2, <4>1, <4>2, ExtractionConstants DEF Pending
    <3>3. QED
      BY <3>1, <3>2
  <2>5. QED
    BY <2>1, <2>2, <2>3, <2>4 DEF WorkerOK
<1>3. CASE FallsBack
  <2>1. job' = [pc |-> "fallback", r |-> job.r] /\ job.r \in Receipts
    BY <1>3 DEF FallsBack, WorkerOK, TypeOK, Job
  <2>2. TypeOK'
    BY <1>3, <2>1 DEF FallsBack, TypeOK, Job
  <2>3. QED
    BY <1>3, <2>1, <2>2 DEF FallsBack, WorkerOK, ExtractingIsReal, Pending, Queued, Exists
<1>4. ASSUME NEW st \in Settled, JobEnds(st) PROVE XInv'
  <2>1. TypeOK' /\ job.r \in Receipts /\ status'[job.r] = st
    BY <1>4 DEF JobEnds, TypeOK, WorkerOK, Statuses, NoJob, Job
  <2>2. QED
    BY <1>4, <2>1, JobIsOver DEF JobEnds, TypeOK, Settled
<1>5. CASE JobVanishes
  BY <1>5, JobIsOver DEF JobVanishes, TypeOK, WorkerOK, NoJob, Job
<1>6. CASE JobDies
  BY <1>6, JobIsOver DEF JobDies, Fault, TypeOK, WorkerOK, NoJob, Job
<1>7. QED
  BY <1>1, <1>2, <1>3, <1>4, <1>5, <1>6
     DEF WorkerStep, JobSucceeds, JobFails, Settled

LEMMA RedisStep ==
  ASSUME XInv, RedisRestarts
  PROVE  XInv'
<1>1. TypeOK'
  BY DEF XInv, RedisRestarts, Fault, TypeOK
<1>2. QED
  BY <1>1 DEF XInv, RedisRestarts, Fault, TypeOK, WorkerOK, ExtractingIsReal, Pending, Exists

-----------------------------------------------------------------------------
(* The sweep and the retry *)

\* A push adds a job and takes none away.
LEMMA PushStep ==
  ASSUME XInv, NEW r \in Receipts, TypeOK',
         queue' = Append(queue, r) \/ queue' = queue,
         UNCHANGED <<job, lost>>,
         \A x \in Receipts :
           Exists(x)' /\ status'[x] = "EXTRACTING"
             => Exists(x) /\ status[x] = "EXTRACTING"
  PROVE  XInv'
<1>1. CASE queue' = queue
  BY <1>1, QuietStep
<1>2. CASE queue' = Append(queue, r)
  <2>1. \A x \in Receipts : Queued(x) => Queued(x)'
    BY <1>2, PushedIsQueued DEF XInv, TypeOK
  <2>2. QED
    BY <2>1 DEF XInv, WorkerOK, ExtractingIsReal, Pending
<1>3. QED
  BY <1>1, <1>2

\* What is announced is pending, or known to be lost.
LEMMA AnnouncedStep ==
  ASSUME XInv, TypeOK', NEW rs \in SUBSET Receipts, Announced(rs),
         UNCHANGED <<life, queue, job>>
  PROVE  XInv'
<1>1. ASSUME NEW x \in Receipts, Exists(x)', status'[x] = "EXTRACTING"
      PROVE  Pending(x)' \/ x \in lost'
  <2>1. CASE x \in rs
    BY <2>1 DEF Announced, Pending, Queued
  <2>2. CASE x \notin rs
    BY <1>1, <2>2 DEF Announced, XInv, ExtractingIsReal, Pending, Queued, Exists, TypeOK
  <2>3. QED
    BY <2>1, <2>2
<1>2. QED
  BY <1>1 DEF XInv, ExtractingIsReal, WorkerOK

LEMMA SweepSteps ==
  ASSUME XInv, SweepStep
  PROVE  XInv'
<1>1. CASE SweepReads
  <2>1. TypeOK'
    BY <1>1 DEF SweepReads, XInv, TypeOK, Sweep, Orphans
  <2>2. QED
    BY <1>1, <2>1, QuietStep DEF SweepReads, Exists
<1>2. ASSUME NEW r \in Receipts, SweepPushes(r) PROVE XInv'
  <2>1. queue' \in Seq(Receipts) /\ (queue' = Append(queue, r) \/ queue' = queue)
    BY <1>2, PushedIsQueued DEF SweepPushes, XInv, TypeOK
  <2>2. /\ faults' \in Nat
        /\ \/ sweep' = [sweep EXCEPT !.todo = @ \ {r}, !.pushed = @ \cup {r}]
           \/ sweep' = [sweep EXCEPT !.todo = @ \ {r}]
    BY <1>2 DEF SweepPushes, Fault, XInv, TypeOK
  <2>3. sweep' \in Sweep
    <3>1. /\ sweep.todo \ {r} \in SUBSET Receipts
          /\ sweep.pushed \cup {r} \in SUBSET Receipts
          /\ sweep.pc \in {"idle", "pushing"} /\ sweep.pushed \in SUBSET Receipts
          /\ sweep = [pc |-> sweep.pc, todo |-> sweep.todo, pushed |-> sweep.pushed]
      BY DEF XInv, TypeOK, Sweep
    <3>2. \E p \in {sweep.pushed, sweep.pushed \cup {r}} :
            sweep' = [pc |-> sweep.pc, todo |-> sweep.todo \ {r}, pushed |-> p]
      BY <2>2, <3>1
    <3>3. QED
      BY <3>1, <3>2 DEF Sweep
  <2>4. TypeOK'
    BY <1>2, <2>1, <2>2, <2>3 DEF SweepPushes, XInv, TypeOK
  <2>5. QED
    BY <1>2, <2>1, <2>4, PushStep DEF SweepPushes, Exists
<1>3. CASE SweepCommits
  <2>1. sweep.pushed \in SUBSET Receipts
    BY DEF XInv, TypeOK, Sweep
  <2>2. Announced(sweep.pushed) /\ sweep' = NoSweep
        /\ UNCHANGED <<life, aged, queue, job, asked, faults>>
    BY <1>3 DEF SweepCommits
  <2>3. /\ status' \in [Receipts -> Statuses] /\ fresh' \in [Receipts -> BOOLEAN]
        /\ lost' \subseteq Receipts
    BY <2>1, <2>2 DEF Announced, XInv, TypeOK, Statuses
  <2>4. TypeOK'
    BY <2>2, <2>3 DEF XInv, TypeOK, Sweep, NoSweep
  <2>5. QED
    BY <2>1, <2>2, <2>4, AnnouncedStep
<1>4. CASE SweepRefused
  <2>1. TypeOK'
    BY <1>4 DEF SweepRefused, XInv, TypeOK, Sweep, NoSweep
  <2>2. QED
    BY <1>4, <2>1, QuietStep DEF SweepRefused, Exists
<1>5. QED
  BY <1>1, <1>2, <1>3, <1>4 DEF SweepStep

LEMMA RequestSteps ==
  ASSUME XInv, NEW r \in Receipts, RequestStep(r) \/ RetryPushes(r)
  PROVE  XInv'
<1>1. CASE RetryPushes(r)
  <2>1. queue' = Append(queue, r) /\ queue' \in Seq(Receipts)
    BY <1>1, PushedIsQueued DEF RetryPushes, XInv, TypeOK
  <2>2. TypeOK'
    BY <1>1, <2>1 DEF RetryPushes, Fault, XInv, TypeOK
  <2>3. QED
    BY <1>1, <2>1, <2>2, PushStep DEF RetryPushes, Exists
<1>2. CASE RetryCommits(r)
  <2>1. CASE asked[r] = "write"
    <3>1. TypeOK' /\ Announced({r})
      BY <1>2, <2>1 DEF RetryCommits, Announced, XInv, TypeOK, Statuses
    <3>2. QED
      BY <1>2, <3>1, AnnouncedStep DEF RetryCommits
  <2>2. CASE asked[r] # "write"
    <3>1. TypeOK' /\ status' = status /\ lost' = lost
      BY <1>2, <2>2 DEF RetryCommits, XInv, TypeOK
    <3>2. QED
      BY <1>2, <3>1, QuietStep DEF RetryCommits, Exists
  <2>3. QED
    BY <2>1, <2>2
<1>3. CASE RetryRefused(r)
  <2>1. TypeOK'
    BY <1>3 DEF RetryRefused, XInv, TypeOK
  <2>2. QED
    BY <1>3, <2>1, QuietStep DEF RetryRefused, Exists
<1>4. QED
  BY <1>1, <1>2, <1>3 DEF RequestStep

-----------------------------------------------------------------------------
(* The other requests, time and restarts *)

LEMMA OtherRequests ==
  ASSUME XInv, NEW r \in Receipts, UserStep(r), ~ RetryPushes(r)
  PROVE  XInv'
<1>1. ASSUME NEW st \in Statuses, SetStatus(r, st),
             st = "EXTRACTING" => status[r] = "EXTRACTING"
      PROVE  XInv'
  <2>1. TypeOK'
    BY <1>1 DEF SetStatus, XInv, TypeOK
  <2>2. QED
    BY <1>1, <2>1, QuietStep DEF SetStatus, Exists, XInv, TypeOK
<1>2. ASSUME NEW valid \in BOOLEAN, NEW found \in BOOLEAN, SaveDraft(r, valid, found)
      PROVE  XInv'
  <2> DEFINE rescued == IF valid /\ status[r] = "ERROR_EXTRACT" THEN "NEEDS_REVIEW"
                                                             ELSE status[r]
  <2>1. rescued \in Statuses /\ (rescued = "EXTRACTING" => status[r] = "EXTRACTING")
    BY DEF XInv, TypeOK, Statuses, Settled
  <2>2. SetStatus(r, AfterCheck(rescued, found))
    BY <1>2 DEF SaveDraft
  <2> HIDE DEF rescued
  <2>3. AfterCheck(rescued, found) \in Statuses
        /\ (AfterCheck(rescued, found) = "EXTRACTING" => status[r] = "EXTRACTING")
    BY <2>1 DEF AfterCheck, Statuses, Settled
  <2>4. QED
    BY <1>1, <2>2, <2>3
<1>3. CASE OverrideDuplicate(r)
  <2>1. AfterCheck(status[r], FALSE) \in Statuses
        /\ (AfterCheck(status[r], FALSE) = "EXTRACTING" => status[r] = "EXTRACTING")
    BY DEF AfterCheck, Statuses, Settled, XInv, TypeOK
  <2>2. QED
    BY <1>1, <1>3, <2>1 DEF OverrideDuplicate
<1>4. ASSUME NEW from \in {"live", "deleted"}, NEW to \in Lives, SetLife(r, from, to)
      PROVE  XInv'
  <2>1. TypeOK'
    BY <1>4 DEF SetLife, XInv, TypeOK
  <2>2. QED
    BY <1>4, <2>1, QuietStep DEF SetLife, Exists, XInv, TypeOK
<1>5. QED
  BY <1>2, <1>3, <1>4
     DEF UserStep, DeleteReceipt, RestoreReceipt, Purge, ConfirmDuplicate, Lives

LEMMA TimeAndRestarts ==
  ASSUME XInv,
         \/ ApiRestarts
         \/ \E r \in Receipts : Ingest(r) \/ Ages(r) \/ BecomesStale(r)
  PROVE  XInv'
<1>1. CASE ApiRestarts
  <2>1. TypeOK'
    BY <1>1 DEF ApiRestarts, Fault, XInv, TypeOK, Sweep, NoSweep, Statuses
  <2>2. QED
    BY <1>1, <2>1, QuietStep DEF ApiRestarts, Exists
<1>2. ASSUME NEW r \in Receipts, Ingest(r) PROVE XInv'
  <2>1. queue' \in Seq(Receipts) /\ (queue' = Append(queue, r) \/ queue' = queue)
    BY <1>2, PushedIsQueued DEF Ingest, XInv, TypeOK
  <2>2. TypeOK'
    BY <1>2, <2>1 DEF Ingest, Fault, XInv, TypeOK, Lives, Statuses
  <2>3. QED
    BY <1>2, <2>1, <2>2, PushStep DEF Ingest, Exists, XInv, TypeOK
<1>3. ASSUME NEW r \in Receipts, Ages(r) \/ BecomesStale(r) PROVE XInv'
  <2>1. TypeOK'
    BY <1>3 DEF Ages, BecomesStale, XInv, TypeOK
  <2>2. QED
    BY <1>3, <2>1, QuietStep DEF Ages, BecomesStale, Exists
<1>4. QED
  BY <1>1, <1>2, <1>3

-----------------------------------------------------------------------------
LEMMA InitInvariant == Init => XInv
BY DEF Init, XInv, TypeOK, WorkerOK, ExtractingIsReal, Exists, NoJob, NoSweep, Job, Sweep,
       Lives, Statuses

LEMMA StepInvariant == XInv /\ [Next]_vars => XInv'
<1> SUFFICES ASSUME XInv, [Next]_vars PROVE XInv'
  OBVIOUS
<1>1. CASE UNCHANGED vars
  BY <1>1 DEF vars, XInv, TypeOK, WorkerOK, ExtractingIsReal, Pending, Queued, Exists
<1>2. CASE Next
  BY <1>2, WorkerSteps, RedisStep, SweepSteps, RequestSteps, OtherRequests,
     TimeAndRestarts, ExtractionConstants DEF Next
<1>3. QED
  BY <1>1, <1>2

LEMMA Invariant == Spec => []XInv
BY InitInvariant, StepInvariant, PTL DEF Spec

\* Type correctness of queue, job, sweep and requests for any number of receipts.
THEOREM ExtractionTypes == Spec => []TypeOK
<1>1. XInv => TypeOK
  BY DEF XInv
<1>2. QED
  BY <1>1, Invariant, PTL

\* No order of the sweep, the retries, the job and the user's requests leaves a
\* receipt at EXTRACTING without a job, unless a job of it was lost or was over
\* when it was announced (tasks.py:936-974, recovery.py:53-73, receipts.py:1050-1074).
THEOREM ExtractingStaysReal == Spec => []ExtractingIsReal
<1>1. XInv => ExtractingIsReal
  BY DEF XInv
<1>2. QED
  BY <1>1, Invariant, PTL
=============================================================================
