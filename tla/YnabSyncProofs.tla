--------------------------- MODULE YnabSyncProofs ---------------------------
(* Theorems about YnabSync for every value of its constants. *)
EXTENDS YnabSync, FiniteSetTheorems, TLAPS

(* A busy worker knows its receipt, its row and its draft. *)
WorkerOK ==
    \A w \in Workers : worker[w].pc # "idle" =>
        /\ worker[w].r \in Receipts
        /\ worker[w].key \in Keys
        /\ worker[w].draft \in Draft

(* A transaction that exists has an account and a signature. *)
TxnOK ==
    \A t \in TxnIds : txn[t].state # "absent" =>
        txn[t].acct \in Accounts /\ txn[t].sig \in Sigs

TInv == TypeOK /\ WorkerOK /\ TxnOK

USE ConstantsOK

-----------------------------------------------------------------------------
(* Helpers *)

LEMMA NoRowType == NoRow \in Row
BY DEF NoRow, Row, RowStatuses, TxnRef

LEMMA NoTxnType == NoTxn \in Txn
BY DEF NoTxn, Txn

LEMMA IdleWorkerType == IdleWorker \in WorkerState
BY DEF IdleWorker, WorkerState, PCs, TxnRef, RowStatuses, AllSettings

LEMMA LiteralTypes ==
    /\ {"idle", "loaded", "claimed", "planned", "written", "failing"} \subseteq PCs
    /\ {"RUNNING", "MATCHED_UPDATED", "CREATED", "DRY_RUN", "FAILED"} \subseteq RowStatuses
BY DEF PCs, RowStatuses

LEMMA LiveInTxnIds == ASSUME NEW t, Live(t) PROVE t \in TxnIds /\ t # None
BY DEF Live

LEMMA CheckType ==
    ASSUME NEW st \in Statuses, NEW found \in BOOLEAN
    PROVE  StatusAfterCheck(st, found) \in Statuses
BY DEF StatusAfterCheck, Statuses

LEMMA KeyType == ASSUME TypeOK, NEW r \in Receipts, NEW m \in AllModes
                 PROVE  Key(ver[r], m) \in Keys
BY DEF TypeOK, Key, Keys, AllModes

LEMMA InitType == Init => TInv
<1> SUFFICES ASSUME Init PROVE TInv
  OBVIOUS
<1>1. status \in [Receipts -> Statuses] /\ life \in [Receipts -> {"live", "deleted", "purged"}]
      /\ since \in [Receipts -> BOOLEAN] /\ ver \in [Receipts -> 1..MaxVer]
      /\ undo \in SUBSET Receipts
      /\ queue \in Seq(Job) /\ syncs \in Nat /\ clock \in Nat
  BY DEF Init, Statuses
<1>2. draft \in [Receipts -> Draft]
  BY DEF Init, Draft, AllQualities
<1>3. rows \in [Receipts -> [Keys -> Row]]
  BY NoRowType DEF Init
<1>4. worker \in [Workers -> WorkerState] /\ WorkerOK
  BY IdleWorkerType DEF Init, WorkerOK, IdleWorker
<1>5. txn \in [TxnIds -> Txn] /\ TxnOK
  <2>1. PICK f \in Foreign : txn = [t \in TxnIds |-> IF \A u \in TxnIds : t <= u THEN f ELSE NoTxn]
    BY DEF Init
  <2>2. f \in Txn /\ (f.state # "absent" => f.acct \in Accounts /\ f.sig \in Sigs)
    BY NoTxnType DEF Foreign, Txn, NoTxn
  <2>3. NoTxn.state = "absent"
    BY DEF NoTxn
  <2> QED BY <2>1, <2>2, <2>3, NoTxnType DEF TxnOK
<1>6. setting \in AllSettings
  BY DEF Init
<1> QED BY <1>1, <1>2, <1>3, <1>4, <1>5, <1>6 DEF TInv, TypeOK

-----------------------------------------------------------------------------
(* The handlers of the API keep the types; they touch neither the workers nor
   YNAB. *)

LEMMA UserStepType ==
    ASSUME TInv, NEW r \in Receipts, UserStep(r)
    PROVE  TInv'
<1> USE DEF TInv, TypeOK
<1>0. UNCHANGED <<worker, txn>> => WorkerOK' /\ TxnOK'
  BY DEF WorkerOK, TxnOK
<1>1. ASSUME ClickBlocked(r) PROVE TInv'
  BY <1>0, <1>1 DEF ClickBlocked, Statuses
<1>2. ASSUME TakeBack(r) PROVE TInv'
  BY <1>0, <1>2 DEF TakeBack, Statuses
<1>3. ASSUME NEW m \in Modes, NEW pushed \in BOOLEAN, NEW outcome \in {"ok", "error", "died"},
             ClickClaimed(r, m, pushed, outcome)
      PROVE  TInv'
  <2>1. [r |-> r, mode |-> m] \in Job
    BY DEF Job
  <2>2. queue' \in Seq(Job)
    BY <1>3, <2>1 DEF ClickClaimed
  <2>3. status' \in [Receipts -> Statuses] /\ since' \in [Receipts -> BOOLEAN]
    BY <1>3 DEF ClickClaimed, Statuses
  <2>4. undo' \in SUBSET Receipts
    BY <1>3 DEF ClickClaimed
  <2> QED BY <1>0, <1>3, <2>2, <2>3, <2>4 DEF ClickClaimed
<1>4. ASSUME NEW a \in Accounts, NEW s \in Sigs, NEW q \in Qualities,
             NEW changed \in BOOLEAN, NEW found \in BOOLEAN,
             SaveDraft(r, [acct |-> a, sig |-> s, quality |-> q], changed, found)
      PROVE  TInv'
  <2> DEFINE d == [acct |-> a, sig |-> s, quality |-> q]
             edited == IF changed /\ status[r] \in {"SYNCED", "ERROR_SYNC"}
                       THEN "NEEDS_REVIEW" ELSE status[r]
  <2>1. d \in Draft
    BY DEF Draft
  <2>2. edited \in Statuses
    BY DEF Statuses
  <2>3. StatusAfterCheck(edited, found) \in Statuses
    BY <2>2, CheckType
  <2>5. status' = [status EXCEPT ![r] = StatusAfterCheck(edited, found)]
        /\ draft' = [draft EXCEPT ![r] = d]
        /\ ver' = [ver EXCEPT ![r] = @ + 1]
        /\ ver[r] < MaxVer
        /\ UNCHANGED <<undo, life, since, rows, queue, worker, txn, setting, syncs, clock>>
    BY <1>4 DEF SaveDraft
  <2> HIDE DEF d, edited
  <2> QED BY <1>0, <2>1, <2>3, <2>5
<1>5. ASSUME ResetToSynced(r) PROVE TInv'
  <2>1. PICK k \in RestoreSources(r) :
            /\ rows[r][k].draft # None
            /\ draft' = [draft EXCEPT ![r] = rows[r][k].draft]
    BY <1>5 DEF ResetToSynced
  <2>2. rows[r][k] \in Row
    BY DEF RestoreSources
  <2>3. rows[r][k].draft \in Draft
    BY <2>1, <2>2 DEF Row
  <2> QED BY <1>0, <1>5, <2>1, <2>3 DEF ResetToSynced, Statuses
<1>6. ASSUME DeleteReceipt(r) PROVE TInv'
  BY <1>0, <1>6 DEF DeleteReceipt
<1>7. ASSUME RestoreReceipt(r) PROVE TInv'
  BY <1>0, <1>7 DEF RestoreReceipt
<1>8. ASSUME Purge(r) \/ ConfirmDuplicate(r) PROVE TInv'
  <2>1. Remove(r)
    BY <1>8 DEF Purge, ConfirmDuplicate
  <2> QED BY <1>0, <2>1, NoRowType DEF Remove
<1>9. ASSUME OverrideDuplicate(r) PROVE TInv'
  <2>1. StatusAfterCheck(status[r], FALSE) \in Statuses
    BY CheckType
  <2> QED BY <1>0, <1>9, <2>1 DEF OverrideDuplicate, Draft
<1>12. ASSUME NEW q \in Qualities, NEW s \in Sigs, EditTwin(r, s, q) PROVE TInv'
  <2>0. draft[r] \in Draft /\ q \in AllQualities
    OBVIOUS
  <2>1. [draft[r] EXCEPT !.sig = s, !.quality = q] \in Draft
    BY <2>0 DEF Draft
  <2>2. draft' = [draft EXCEPT ![r] = [draft[r] EXCEPT !.sig = s, !.quality = q]]
    BY <1>12 DEF EditTwin
  <2> QED BY <1>0, <1>12, <2>1, <2>2 DEF EditTwin, Statuses
<1> HIDE DEF TInv, TypeOK
<1>13. Twin(r) => TInv'
  BY <1>12 DEF Twin
<1>10. Click(r) => TInv'
  BY <1>1, <1>3 DEF Click
<1>11. Edit(r) => TInv'
  BY <1>4 DEF Edit
<1> QED BY <1>2, <1>5, <1>6, <1>7, <1>8, <1>9, <1>10, <1>11, <1>13 DEF UserStep

-----------------------------------------------------------------------------
(* The steps of a job.  Each one changes one worker, and through it at most one
   sync row, one receipt's status and one transaction. *)

LEMMA StopType ==
    ASSUME TInv, NEW w \in Workers, Stop(w)
    PROVE  worker' \in [Workers -> WorkerState] /\ WorkerOK'
BY IdleWorkerType DEF TInv, TypeOK, Stop, WorkerOK, IdleWorker

LEMMA BusyType ==
    ASSUME TInv, NEW w \in Workers, worker[w].pc # "idle"
    PROVE  /\ worker[w] \in WorkerState
           /\ worker[w].r \in Receipts
           /\ worker[w].key \in Keys
           /\ worker[w].draft \in Draft
           /\ Content(worker[w].draft) \in Payload
           /\ rows[worker[w].r][worker[w].key] \in Row
           /\ Earlier(w) \in TxnRef
<1>1. worker[w] \in WorkerState /\ worker[w].r \in Receipts /\ worker[w].key \in Keys
      /\ worker[w].draft \in Draft
  BY DEF TInv, TypeOK, WorkerOK
<1>2. Content(worker[w].draft) \in Payload
  BY <1>1 DEF Content, Payload, Draft
<1>3. rows[worker[w].r][worker[w].key] \in Row
  BY <1>1 DEF TInv, TypeOK
<1>4. Earlier(w) \in TxnRef
  BY <1>3 DEF Earlier, Row
<1> QED BY <1>1, <1>2, <1>3, <1>4

(* A job that keeps its receipt, row and draft stays well formed. *)
LEMMA SameJobType ==
    ASSUME TInv, NEW w \in Workers, worker[w].pc # "idle", NEW x \in WorkerState,
           x.r = worker[w].r, x.key = worker[w].key, x.draft = worker[w].draft,
           worker' = [worker EXCEPT ![w] = x]
    PROVE  worker' \in [Workers -> WorkerState] /\ WorkerOK'
BY DEF TInv, TypeOK, WorkerOK

LEMMA QueueType ==
    ASSUME TypeOK, queue # <<>>
    PROVE  /\ Tail(queue) \in Seq(Job)
           /\ Head(queue).r \in Receipts /\ Head(queue).mode \in AllModes
<1>1. Head(queue) \in Job /\ Tail(queue) \in Seq(Job)
  BY DEF TypeOK
<1> QED BY <1>1 DEF Job

LEMMA StartType ==
    ASSUME TInv, NEW w \in Workers, JobRejected(w) \/ JobLoaded(w)
    PROVE  TInv'
<1> DEFINE r == Head(queue).r
           k == Key(ver[r], Head(queue).mode)
<1>q. queue # <<>> /\ queue' = Tail(queue)
      /\ UNCHANGED <<life, since, ver, draft, undo, rows, txn, setting, syncs, clock>>
  BY DEF JobRejected, JobLoaded, receiptVars
<1>r. /\ r \in Receipts /\ Head(queue).mode \in AllModes
      /\ queue' \in Seq(Job) /\ k \in Keys
  BY <1>q, QueueType, KeyType DEF TInv
<1>1. ASSUME JobRejected(w) PROVE TInv'
  <2>1. worker' = worker
        /\ (UNCHANGED status \/ status' = [status EXCEPT ![r] = "DUPLICATE_REVIEW"])
    BY <1>1 DEF JobRejected
  <2> HIDE DEF r, k
  <2>2. status' \in [Receipts -> Statuses]
    <3>1. status \in [Receipts -> Statuses] /\ "DUPLICATE_REVIEW" \in Statuses
      BY DEF TInv, TypeOK, Statuses
    <3> QED BY <2>1, <3>1
  <2> QED BY <1>q, <1>r, <2>1, <2>2 DEF TInv, TypeOK, WorkerOK, TxnOK
<1>2. ASSUME JobLoaded(w) PROVE TInv'
  <2> DEFINE quiet == /\ Seen(rows[r][k]) # "absent"
                      /\ status[r] = "SYNCING"
             job(p) == [IdleWorker EXCEPT !.pc = "loaded", !.r = r, !.key = k,
                                       !.draft = draft[r], !.seen = Seen(rows[r][k]),
                                       !.prior = p, !.setting = setting,
                                       !.unwritten = quiet]
  <2>1. PICK p \in PriorSuccess(r) : worker' = [worker EXCEPT ![w] = job(p)]
    BY <1>2 DEF JobLoaded
  <2>2. p \in Keys \cup {None}
    BY DEF PriorSuccess
  <2>3. Seen(rows[r][k]) \in {"absent", "busy", "free"} /\ quiet \in BOOLEAN
    BY DEF Seen
  <2>4. draft[r] \in Draft /\ setting \in AllSettings
    BY <1>r DEF TInv, TypeOK
  <2>5. job(p) \in WorkerState /\ job(p).r = r /\ job(p).key = k /\ job(p).draft = draft[r]
    <3> HIDE DEF quiet, r, k
    <3> QED BY ZenonT(40), <1>r, <2>2, <2>3, <2>4, IdleWorkerType DEF WorkerState, IdleWorker, PCs
  <2> HIDE DEF job, r, k
  <2>6. worker' \in [Workers -> WorkerState] /\ WorkerOK'
    BY <1>r, <2>1, <2>4, <2>5 DEF TInv, TypeOK, WorkerOK
  <2>7. UNCHANGED status
    BY <1>2 DEF JobLoaded, receiptVars
  <2> QED BY <1>q, <1>r, <2>6, <2>7 DEF TInv, TypeOK, TxnOK
<1> QED BY <1>1, <1>2

(* Writing one row and the status of its receipt. *)
LEMMA RowWriteType ==
    ASSUME TypeOK, NEW r \in Receipts, NEW k \in Keys, NEW x \in Row, NEW s \in Statuses,
           rows' = [rows EXCEPT ![r][k] = x],
           status' = [status EXCEPT ![r] = s]
    PROVE  rows' \in [Receipts -> [Keys -> Row]] /\ status' \in [Receipts -> Statuses]
<1>1. rows \in [Receipts -> [Keys -> Row]] /\ status \in [Receipts -> Statuses]
  BY DEF TypeOK
<1> QED BY <1>1

LEMMA ClaimType ==
    ASSUME TInv, NEW w \in Workers, ClaimSkipped(w) \/ ClaimRow(w) \/ DryRun(w)
    PROVE  TInv'
<1> DEFINE r == worker[w].r
           k == worker[w].key
           d == worker[w].draft
<1>b. worker[w].pc # "idle"
  BY DEF ClaimSkipped, ClaimRow, DryRun
<1>t. /\ r \in Receipts /\ k \in Keys /\ d \in Draft /\ Content(d) \in Payload
      /\ rows[r][k] \in Row /\ worker[w] \in WorkerState /\ TypeOK
  BY <1>b, BusyType DEF TInv
<1>1. ASSUME ClaimSkipped(w) PROVE TInv'
  BY <1>1, StopType DEF ClaimSkipped, receiptVars, TInv, TypeOK, TxnOK
<1>2. ASSUME ClaimRow(w) PROVE TInv'
  <2> DEFINE s == IF worker[w].unwritten THEN status[r] ELSE "SYNCING"
             x == [worker[w] EXCEPT !.pc = "claimed"]
  <2>1. /\ rows' = [rows EXCEPT ![r][k] = ClaimedRow(rows[r][k], d)]
        /\ status' = [status EXCEPT ![r] = s]
        /\ since' = [since EXCEPT ![r] = TRUE]
        /\ worker' = [worker EXCEPT ![w] = x]
        /\ UNCHANGED <<life, ver, draft, undo, queue, txn, setting, syncs, clock>>
    BY <1>2, <1>t DEF ClaimRow
  <2>2. ClaimedRow(rows[r][k], d) \in Row
    <3> HIDE DEF r, k, d
    <3> QED BY <1>t DEF ClaimedRow, Row, RowStatuses
  <2>3. s \in Statuses
    BY <1>t DEF TypeOK, Statuses
  <2>4. x \in WorkerState /\ x.r = r /\ x.key = k /\ x.draft = d
    BY <1>t DEF WorkerState, PCs
  <2> HIDE DEF x, s
  <2>5. worker' \in [Workers -> WorkerState] /\ WorkerOK'
    BY <1>b, <2>1, <2>4, SameJobType
  <2> HIDE DEF r, k, d
  <2>6. rows' \in [Receipts -> [Keys -> Row]] /\ status' \in [Receipts -> Statuses]
    BY <1>t, <2>1, <2>2, <2>3, RowWriteType
  <2> QED BY <1>t, <2>1, <2>5, <2>6 DEF TInv, TypeOK, TxnOK
<1>3. ASSUME DryRun(w) PROVE TInv'
  <2>1. DryRow(rows[r][k], d) \in Row
    <3> HIDE DEF r, k, d
    <3> QED BY <1>t DEF DryRow, Row, RowStatuses, TxnRef
  <2>2. /\ rows' = [rows EXCEPT ![r][k] = DryRow(rows[r][k], d)]
        /\ status' = [status EXCEPT ![r] = "NEEDS_REVIEW"]
    BY <1>3, <1>t DEF DryRun
  <2>3. "NEEDS_REVIEW" \in Statuses
    BY DEF Statuses
  <2> HIDE DEF r, k, d
  <2>4. rows' \in [Receipts -> [Keys -> Row]] /\ status' \in [Receipts -> Statuses]
    BY <1>t, <2>1, <2>2, <2>3, RowWriteType
  <2> QED BY <1>3, <2>4, StopType DEF DryRun, TInv, TypeOK, TxnOK
<1> QED BY <1>1, <1>2, <1>3

LEMMA PlanType ==
    ASSUME TInv, NEW w \in Workers,
           FoundOwn(w) \/ PlanUpdate(w) \/ PriorGone(w) \/ PlanMatch(w) \/ PlanCreate(w)
    PROVE  TInv'
<1> DEFINE d == worker[w].draft
           gone == (Earlier(w) # None)
<1>b. /\ worker[w].pc # "idle"
      /\ UNCHANGED <<receiptVars, rows, queue, txn, setting, syncs, clock>>
  BY DEF FoundOwn, PlanUpdate, PriorGone, PlanMatch, PlanCreate, UpdatesPrior, MatchesOrCreates
<1>t. /\ Content(d) \in Payload /\ worker[w] \in WorkerState /\ Earlier(w) \in TxnRef
  BY <1>b, BusyType DEF TInv
<1>g. gone \in BOOLEAN
  OBVIOUS
<1>w. ASSUME NEW x \in WorkerState, x.r = worker[w].r, x.key = worker[w].key, x.draft = d,
             worker' = [worker EXCEPT ![w] = x]
      PROVE  TInv'
  <2>1. worker' \in [Workers -> WorkerState] /\ WorkerOK'
    BY <1>w, <1>b, SameJobType
  <2> QED BY <2>1, <1>b DEF TInv, TypeOK, TxnOK, receiptVars
<1>p. ASSUME NEW plan \in {"update", "adopt", "create"}, NEW t \in TxnRef,
             plan = "adopt" => t \in TxnIds /\ txn[t].state = "live",
             Planned(w, plan, t)
      PROVE  TInv'
  <2> DEFINE what == Content(IF plan = "adopt" THEN txn[t] ELSE d)
             x == [worker[w] EXCEPT !.pc = "planned", !.plan = plan, !.target = t,
                                    !.wiped = gone, !.sent = what]
  <2>1. what \in Payload
    BY <1>p, <1>t DEF Content, Payload, TInv, TxnOK
  <2>2. worker' = [worker EXCEPT ![w] = x]
    BY <1>p, <1>t DEF Planned, TInv, TypeOK
  <2> HIDE DEF what, gone
  <2>3. x \in WorkerState /\ x.r = worker[w].r /\ x.key = worker[w].key /\ x.draft = d
    BY ZenonT(40), <1>t, <1>g, <2>1, LiteralTypes DEF WorkerState
  <2> HIDE DEF x
  <2> QED BY <2>2, <2>3, <1>w
<1>1. ASSUME FoundOwn(w) PROVE TInv'
  <2> DEFINE x == [worker[w] EXCEPT !.pc = "written", !.result = "CREATED",
                                    !.target = Earlier(w)]
  <2>1. worker' = [worker EXCEPT ![w] = x]
    BY <1>1, <1>t DEF FoundOwn
  <2> HIDE DEF gone
  <2>2. x \in WorkerState /\ x.r = worker[w].r /\ x.key = worker[w].key /\ x.draft = d
    BY <1>t, <1>g, LiteralTypes DEF WorkerState
  <2> HIDE DEF x
  <2> QED BY <2>1, <2>2, <1>w
<1>2. ASSUME PriorGone(w) PROVE TInv'
  <2> DEFINE x == [worker[w] EXCEPT !.pc = "written", !.result = "FAILED",
                                    !.structure = FALSE, !.wiped = gone,
                                    !.sent = Content(d)]
  <2>1. worker' = [worker EXCEPT ![w] = x]
    BY <1>2, <1>t DEF PriorGone
  <2> HIDE DEF gone
  <2>2. x \in WorkerState /\ x.r = worker[w].r /\ x.key = worker[w].key /\ x.draft = d
    BY ZenonT(40), <1>t, <1>g, LiteralTypes DEF WorkerState
  <2> HIDE DEF x
  <2> QED BY <2>1, <2>2, <1>w
<1>3. ASSUME PlanUpdate(w) PROVE TInv'
  <2>1. PICK t \in TxnIds : Planned(w, "update", t)
    BY <1>3, LiveInTxnIds DEF PlanUpdate, ExactMatches
  <2> QED BY <2>1, <1>p DEF TxnRef
<1>4. ASSUME PlanMatch(w) PROVE TInv'
  <2>1. PICK t \in Matches(d), plan \in {"update", "adopt"} : Planned(w, plan, t)
    BY <1>4 DEF PlanMatch
  <2> QED BY <2>1, <1>p DEF Matches, Live, TxnRef
<1>5. ASSUME PlanCreate(w) PROVE TInv'
  BY <1>5, <1>p DEF PlanCreate, TxnRef
<1> QED BY <1>1, <1>2, <1>3, <1>4, <1>5

(* Writing one transaction: it keeps or gets an account and a signature. *)
LEMMA TxnWriteType ==
    ASSUME TInv, NEW t \in TxnIds, NEW y \in Txn,
           y.acct \in Accounts, y.sig \in Sigs,
           txn' = [txn EXCEPT ![t] = y]
    PROVE  txn' \in [TxnIds -> Txn] /\ TxnOK'
<1>1. txn \in [TxnIds -> Txn] /\ TxnOK
  BY DEF TInv, TypeOK
<1> QED BY <1>1 DEF TxnOK

LEMMA WriteType ==
    ASSUME TInv, NEW w \in Workers, WriteStep(w)
    PROVE  TInv'
<1> DEFINE d == worker[w].draft
           r == worker[w].r
<1>b. /\ worker[w].pc # "idle"
      /\ UNCHANGED <<receiptVars, rows, queue, setting, syncs, clock>>
  BY DEF WriteStep, Update, Adopt, CreateAccepted, TargetVanished, ConflictResolved,
         ConflictUnresolved, Creating, Conflict
<1>t. worker[w] \in WorkerState /\ r \in Receipts /\ d \in Draft
  BY <1>b, BusyType DEF TInv
<1>w. ASSUME NEW x \in WorkerState, x.r = r, x.key = worker[w].key, x.draft = d,
             worker' = [worker EXCEPT ![w] = x],
             txn' \in [TxnIds -> Txn] /\ TxnOK'
      PROVE  TInv'
  <2>1. worker' \in [Workers -> WorkerState] /\ WorkerOK'
    BY <1>w, <1>b, SameJobType
  <2> QED BY <2>1, <1>w, <1>b DEF TInv, TypeOK, receiptVars
<1>n. UNCHANGED txn => txn' \in [TxnIds -> Txn] /\ TxnOK'
  BY DEF TInv, TypeOK, TxnOK
<1>1. ASSUME NEW structure \in BOOLEAN, NEW answered \in BOOLEAN, Update(w, structure, answered)
      PROVE  TInv'
  <2> DEFINE t == worker[w].target
             x == [worker[w] EXCEPT !.pc = IF answered THEN "written" ELSE "failing",
                                    !.result = "MATCHED_UPDATED",
                                    !.structure = structure]
             y == PutTxn(txn[t], d, r)
  <2>1. /\ t \in TxnIds
        /\ txn' = [txn EXCEPT ![t] = y]
        /\ worker' = [worker EXCEPT ![w] = x]
    BY <1>1, <1>t, LiveInTxnIds DEF Update, TInv, TypeOK
  <2>2. x \in WorkerState /\ x.r = r /\ x.key = worker[w].key /\ x.draft = d
    BY <1>t, LiteralTypes DEF WorkerState
  <2>3. txn[t] \in Txn
    BY <2>1 DEF TInv, TypeOK
  <2>4. y \in Txn /\ y.acct \in Accounts /\ y.sig \in Sigs
    <3> HIDE DEF r, d
    <3> QED BY <1>t, <2>3 DEF PutTxn, Txn, Draft
  <2> HIDE DEF x, y, t
  <2>5. txn' \in [TxnIds -> Txn] /\ TxnOK'
    BY <2>1, <2>4, TxnWriteType
  <2> QED BY <2>1, <2>2, <2>5, <1>w
<1>2. ASSUME NEW structure \in BOOLEAN, NEW answered \in BOOLEAN, Adopt(w, structure, answered)
      PROVE  TInv'
  <2> DEFINE t == worker[w].target
             x == [worker[w] EXCEPT !.pc = IF answered THEN "written" ELSE "failing",
                                    !.result = "MATCHED_UPDATED",
                                    !.structure = structure]
             y == [txn[t] EXCEPT !.marks = @ \cup {r}]
  <2>1. /\ t \in TxnIds /\ txn[t].state = "live"
        /\ txn' = [txn EXCEPT ![t] = y]
        /\ worker' = [worker EXCEPT ![w] = x]
    BY <1>2, <1>t DEF Adopt, TInv, TypeOK, Live
  <2>2. x \in WorkerState /\ x.r = r /\ x.key = worker[w].key /\ x.draft = d
    BY <1>t, LiteralTypes DEF WorkerState
  <2>3. txn[t] \in Txn /\ txn[t].acct \in Accounts /\ txn[t].sig \in Sigs
    BY <2>1 DEF TInv, TypeOK, TxnOK
  <2>4. y \in Txn /\ y.acct \in Accounts /\ y.sig \in Sigs
    <3> HIDE DEF r, d, t
    <3> QED BY <1>t, <2>3 DEF Txn
  <2> HIDE DEF x, y, t
  <2>5. txn' \in [TxnIds -> Txn] /\ TxnOK'
    BY <2>1, <2>4, TxnWriteType
  <2> QED BY <2>1, <2>2, <2>5, <1>w
<1>3. ASSUME NEW answered \in BOOLEAN, CreateAccepted(w, answered)
      PROVE  TInv'
  <2> DEFINE y == [state |-> "live", acct |-> d.acct, sig |-> d.sig,
                   imp |-> ImportId(r, d), marks |-> {r}]
             x(t) == [worker[w] EXCEPT !.pc = IF answered THEN "written" ELSE "failing",
                                       !.target = IF answered THEN t ELSE None,
                                       !.created = IF answered THEN t ELSE None,
                                       !.result = "CREATED"]
  <2>0. PICK t \in FreshIds :
           /\ txn' = [txn EXCEPT ![t] = y]
           /\ worker' = [worker EXCEPT ![w].pc = IF answered THEN "written" ELSE "failing",
                                       ![w].target = IF answered THEN t ELSE None,
                                       ![w].created = IF answered THEN t ELSE None,
                                       ![w].result = "CREATED"]
    BY <1>3 DEF CreateAccepted
  <2>1. /\ txn' = [txn EXCEPT ![t] = y]
        /\ worker' = [worker EXCEPT ![w] = x(t)]
    BY <2>0
  <2>2. t \in TxnIds /\ t \in TxnRef /\ None \in TxnRef
    BY DEF FreshIds, TxnRef
  <2>3. x(t) \in WorkerState /\ x(t).r = r /\ x(t).key = worker[w].key /\ x(t).draft = d
    BY <1>t, <2>2, LiteralTypes DEF WorkerState
  <2>4. y \in Txn /\ y.acct \in Accounts /\ y.sig \in Sigs
    <3> HIDE DEF r, d
    <3> QED BY <1>t DEF Txn, Draft, ImportId
  <2> HIDE DEF x, y
  <2>5. txn' \in [TxnIds -> Txn] /\ TxnOK'
    BY <2>1, <2>2, <2>4, TxnWriteType
  <2> QED BY <2>1, <2>3, <2>5, <1>w
<1>4. ASSUME TargetVanished(w) \/ ConflictUnresolved(w) PROVE TInv'
  <2> DEFINE x == [worker[w] EXCEPT !.pc = "failing"]
  <2>1. worker' = [worker EXCEPT ![w] = x] /\ UNCHANGED txn
    BY <1>4, <1>t DEF TargetVanished, ConflictUnresolved
  <2>2. x \in WorkerState /\ x.r = r /\ x.key = worker[w].key /\ x.draft = d
    BY <1>t, LiteralTypes DEF WorkerState
  <2> HIDE DEF x
  <2> QED BY <2>1, <2>2, <1>n, <1>w
<1>5. ASSUME ConflictResolved(w) PROVE TInv'
  <2> DEFINE x(t) == [worker[w] EXCEPT !.pc = "written", !.target = t, !.created = t,
                                       !.result = "CREATED"]
  <2>1. PICK t \in Own(r) : worker' = [worker EXCEPT ![w] = x(t)]
    BY ZenonT(40), <1>5, <1>t DEF ConflictResolved
  <2>2. t \in TxnRef
    BY DEF Own, TxnRef
  <2>3. x(t) \in WorkerState /\ x(t).r = r /\ x(t).key = worker[w].key /\ x(t).draft = d
    BY <1>t, <2>2, LiteralTypes DEF WorkerState
  <2>4. UNCHANGED txn
    BY <1>5 DEF ConflictResolved
  <2> HIDE DEF x
  <2> QED BY <2>1, <2>3, <2>4, <1>n, <1>w
<1> QED BY <1>1, <1>2, <1>3, <1>4, <1>5 DEF WriteStep

LEMMA EndType ==
    ASSUME TInv, NEW w \in Workers, Commit(w) \/ Fail(w) \/ RowVanished(w) \/ Crash(w)
    PROVE  TInv'
<1> DEFINE r == worker[w].r
           k == worker[w].key
           row == rows[r][k]
<1>b. worker[w].pc # "idle" /\ Stop(w)
  BY DEF Commit, Fail, RowVanished, Crash
<1>t. /\ r \in Receipts /\ k \in Keys /\ row \in Row /\ worker[w] \in WorkerState
      /\ TypeOK /\ clock \in Nat
  BY <1>b, BusyType DEF TInv, TypeOK
<1>s. worker' \in [Workers -> WorkerState] /\ WorkerOK'
  BY <1>b, StopType
<1>f. /\ CreatedNow(row, w) \in TxnRef
      /\ SentNow(row, w) \in Payload \cup {None}
  <2> HIDE DEF row
  <2> QED BY <1>t DEF CreatedNow, SentNow, Row, WorkerState, TxnRef
<1>1. ASSUME Commit(w) PROVE TInv'
  <2> DEFINE s == IF worker[w].structure THEN "SYNCED" ELSE "NEEDS_REVIEW"
  <2>1. /\ rows' = [rows EXCEPT ![r][k] = CommittedRow(row, w)]
        /\ status' = [status EXCEPT ![r] = s]
        /\ clock' = clock + 1
        /\ UNCHANGED <<life, since, ver, draft, undo, queue, txn, setting, syncs>>
    BY <1>1 DEF Commit
  <2>2. s \in Statuses
    BY DEF Statuses
  <2> HIDE DEF row, s
  <2>3. CommittedRow(row, w) \in Row
    BY <1>t, <1>f DEF CommittedRow, Row, WorkerState
  <2>4. rows' \in [Receipts -> [Keys -> Row]] /\ status' \in [Receipts -> Statuses]
    BY <1>t, <2>1, <2>2, <2>3, RowWriteType
  <2> QED BY <1>t, <1>s, <2>1, <2>4 DEF TInv, TypeOK, TxnOK
<1>2. ASSUME Fail(w) PROVE TInv'
  <2>1. /\ rows' = [rows EXCEPT ![r][k] = FailedRow(row, w)]
        /\ status' = [status EXCEPT ![r] = "ERROR_SYNC"]
        /\ UNCHANGED <<life, since, ver, draft, undo, queue, txn, setting, syncs, clock>>
    BY <1>2 DEF Fail
  <2>2. "ERROR_SYNC" \in Statuses
    BY DEF Statuses
  <2> HIDE DEF row
  <2>3. FailedRow(row, w) \in Row
    BY <1>t, <1>f, LiteralTypes DEF FailedRow, Row
  <2>4. rows' \in [Receipts -> [Keys -> Row]] /\ status' \in [Receipts -> Statuses]
    BY <1>t, <2>1, <2>2, <2>3, RowWriteType
  <2> QED BY <1>s, <2>1, <2>4 DEF TInv, TypeOK, TxnOK
<1>3. ASSUME RowVanished(w) \/ Crash(w) PROVE TInv'
  BY <1>3, <1>s DEF RowVanished, Crash, receiptVars, TInv, TypeOK, TxnOK
<1> QED BY <1>1, <1>2, <1>3

LEMMA WorkerStepType ==
    ASSUME TInv, NEW w \in Workers, WorkerStep(w) \/ Crash(w)
    PROVE  TInv'
BY StartType, ClaimType, PlanType, WriteType, EndType DEF WorkerStep

-----------------------------------------------------------------------------
(* Time, restarts, and what people do outside the application. *)

LEMMA ResetRowType == ASSUME NEW row \in Row PROVE ResetRow(row) \in Row
BY LiteralTypes DEF ResetRow, Row

LEMMA OutsideType ==
    ASSUME TInv,
           \/ TimePasses \/ ApiRestart
           \/ \E t \in TxnIds : UserDeletesTxn(t)
           \/ \E s \in Settings : OperatorSets(s)
    PROVE  TInv'
<1>t. rows \in [Receipts -> [Keys -> Row]] /\ status \in [Receipts -> Statuses]
      /\ txn \in [TxnIds -> Txn]
  BY DEF TInv, TypeOK
<1>1. ASSUME TimePasses PROVE TInv'
  <2>1. \A row \in Row : [row EXCEPT !.fresh = FALSE] \in Row
    BY DEF Row
  <2>2. rows' \in [Receipts -> [Keys -> Row]]
    BY <1>t, <1>1, <2>1 DEF TimePasses
  <2> QED BY <1>1, <2>2 DEF TimePasses, TInv, TypeOK, WorkerOK, TxnOK
<1>2. ASSUME ApiRestart PROVE TInv'
  <2>1. rows' \in [Receipts -> [Keys -> Row]]
    BY <1>t, <1>2, ResetRowType DEF ApiRestart
  <2>2. status' \in [Receipts -> Statuses]
    BY <1>t, <1>2 DEF ApiRestart, Statuses
  <2> QED BY <1>2, <2>1, <2>2 DEF ApiRestart, TInv, TypeOK, WorkerOK, TxnOK
<1>3. ASSUME NEW t \in TxnIds, UserDeletesTxn(t) PROVE TInv'
  <2> DEFINE y == [txn[t] EXCEPT !.state = "deleted"]
  <2>1. txn' = [txn EXCEPT ![t] = y] /\ txn[t].state = "live"
    BY <1>3, <1>t DEF UserDeletesTxn
  <2>2. y \in Txn /\ y.acct \in Accounts /\ y.sig \in Sigs
    BY <1>t, <2>1 DEF Txn, TInv, TxnOK
  <2> HIDE DEF y
  <2>3. txn' \in [TxnIds -> Txn] /\ TxnOK'
    BY <2>1, <2>2, TxnWriteType
  <2> QED BY <1>3, <2>3 DEF UserDeletesTxn, receiptVars, TInv, TypeOK, WorkerOK
<1>4. ASSUME NEW s \in Settings, OperatorSets(s) PROVE TInv'
  <2>1. setting' \in AllSettings
    BY <1>4 DEF OperatorSets
  <2> QED BY <1>4, <2>1 DEF OperatorSets, receiptVars, TInv, TypeOK, WorkerOK, TxnOK
<1> QED BY <1>1, <1>2, <1>3, <1>4

(* Every step, and stuttering, keeps the types. *)
LEMMA NextType == TInv /\ [Next]_vars => TInv'
<1> SUFFICES ASSUME TInv, [Next]_vars PROVE TInv'
  OBVIOUS
<1>1. CASE UNCHANGED vars
  BY <1>1 DEF vars, TInv, TypeOK, WorkerOK, TxnOK
<1>2. CASE Next
  BY <1>2, UserStepType, WorkerStepType, OutsideType DEF Next
<1> QED BY <1>1, <1>2

(* Type correctness: every variable of the write path keeps its type, every
   busy worker knows its receipt, row and draft, and every transaction in YNAB
   has an account and a signature. *)
THEOREM TypeCorrect == Spec => [](TypeOK /\ WorkerOK /\ TxnOK)
<1>1. Spec => []TInv
  BY InitType, NextType, PTL DEF Spec
<1>2. TInv <=> TypeOK /\ WorkerOK /\ TxnOK
  BY DEF TInv
<1> QED BY <1>1, <1>2, PTL

-----------------------------------------------------------------------------
(* One receipt, at most one transaction *)

(* YNAB's import_id guard is per account.  With a single account it covers
   every transaction the application ever created for the receipt. *)
OneAccount == \A a, b \in Accounts : a = b

LEMMA OneTxnInit == Init => OneTxnPerReceipt
<1> SUFFICES ASSUME Init, NEW r \in Receipts, NEW t \in TxnIds PROVE txn[t].imp # r
  BY DEF OneTxnPerReceipt, CreatedFor
<1>1. PICK f \in Foreign : txn = [u \in TxnIds |-> IF \A v \in TxnIds : u <= v THEN f ELSE NoTxn]
  BY DEF Init
<1>2. f.imp = None /\ NoTxn.imp = None
  BY DEF Foreign, NoTxn
<1> QED BY <1>1, <1>2

(* A step that neither revives a transaction nor changes an import_id. *)
LEMMA OneTxnKept ==
    ASSUME OneTxnPerReceipt,
           \A t \in TxnIds : /\ txn'[t].state = "live" => txn[t].state = "live"
                             /\ txn'[t].imp = txn[t].imp
    PROVE  OneTxnPerReceipt'
BY DEF OneTxnPerReceipt, CreatedFor

LEMMA OneTxnCreate ==
    ASSUME TInv, OneAccount, OneTxnPerReceipt,
           NEW w \in Workers, NEW answered \in BOOLEAN, CreateAccepted(w, answered)
    PROVE  OneTxnPerReceipt'
<1> DEFINE r == worker[w].r
           d == worker[w].draft
<1>1. r \in Receipts /\ d.acct \in Accounts
  BY BusyType DEF CreateAccepted, Creating, Draft
<1>2. PICK t \in FreshIds :
         txn' = [txn EXCEPT ![t] = [state |-> "live", acct |-> d.acct, sig |-> d.sig,
                                    imp |-> ImportId(r, d), marks |-> {r}]]
  BY DEF CreateAccepted
<1>3. t \in TxnIds /\ txn \in [TxnIds -> Txn]
  BY DEF FreshIds, TInv, TypeOK
<1>4. \A u \in TxnIds : txn[u].state = "live" => txn[u].imp # r
  <2> SUFFICES ASSUME NEW u \in TxnIds, txn[u].state = "live", txn[u].imp = r PROVE FALSE
    OBVIOUS
  <2>1. txn[u].acct = d.acct
    BY <1>1 DEF TInv, TxnOK, OneAccount
  <2>2. u \in SameImport(r, d, "live")
    BY <2>1 DEF SameImport, ImportId
  <2> QED BY <2>2 DEF CreateAccepted
<1>5. txn'[t].imp = r /\ \A u \in TxnIds \ {t} : txn'[u] = txn[u]
  BY <1>2, <1>3 DEF ImportId
<1> HIDE DEF r, d
<1> QED BY <1>3, <1>4, <1>5 DEF OneTxnPerReceipt, CreatedFor

LEMMA OneTxnWorker ==
    ASSUME TInv, OneAccount, OneTxnPerReceipt, NEW w \in Workers, WorkerStep(w) \/ Crash(w)
    PROVE  OneTxnPerReceipt'
<1>t. txn \in [TxnIds -> Txn]
  BY DEF TInv, TypeOK
<1>1. ASSUME NEW structure \in BOOLEAN, NEW answered \in BOOLEAN, Update(w, structure, answered)
      PROVE  OneTxnPerReceipt'
  <2>1. \A t \in TxnIds : txn'[t].state = txn[t].state /\ txn'[t].imp = txn[t].imp
    BY <1>1, <1>t DEF Update, PutTxn, Txn
  <2> QED BY <2>1, OneTxnKept
<1>2. ASSUME NEW structure \in BOOLEAN, NEW answered \in BOOLEAN, Adopt(w, structure, answered)
      PROVE  OneTxnPerReceipt'
  <2>1. \A t \in TxnIds : txn'[t].state = txn[t].state /\ txn'[t].imp = txn[t].imp
    BY <1>2, <1>t DEF Adopt, Txn
  <2> QED BY <2>1, OneTxnKept
<1>3. ASSUME NEW answered \in BOOLEAN, CreateAccepted(w, answered) PROVE OneTxnPerReceipt'
  BY <1>3, OneTxnCreate
<1>4. UNCHANGED txn => OneTxnPerReceipt'
  BY OneTxnKept
<1>5. ASSUME TargetVanished(w) \/ ConflictResolved(w) \/ ConflictUnresolved(w)
      PROVE  OneTxnPerReceipt'
  BY <1>4, <1>5 DEF TargetVanished, ConflictResolved, ConflictUnresolved
<1>6. WriteStep(w) => OneTxnPerReceipt'
  BY <1>1, <1>2, <1>3, <1>5 DEF WriteStep
<1>7. ASSUME JobRejected(w) \/ JobLoaded(w) \/ ClaimSkipped(w) \/ ClaimRow(w) \/ DryRun(w)
      PROVE  OneTxnPerReceipt'
  BY <1>4, <1>7 DEF JobRejected, JobLoaded, ClaimSkipped, ClaimRow, DryRun
<1>8. ASSUME FoundOwn(w) \/ PlanUpdate(w) \/ PriorGone(w) \/ PlanMatch(w) \/ PlanCreate(w)
      PROVE  OneTxnPerReceipt'
  BY <1>4, <1>8 DEF FoundOwn, PlanUpdate, PriorGone, PlanMatch, PlanCreate
<1>9. ASSUME Commit(w) \/ Fail(w) \/ RowVanished(w) \/ Crash(w) PROVE OneTxnPerReceipt'
  BY <1>4, <1>9 DEF Commit, Fail, RowVanished, Crash
<1> QED BY <1>6, <1>7, <1>8, <1>9 DEF WorkerStep

LEMMA UserKeepsTxn == ASSUME NEW r \in Receipts, UserStep(r) PROVE UNCHANGED txn
<1>1. Click(r) => UNCHANGED txn
  BY DEF Click, ClickBlocked, ClickClaimed
<1>2. Edit(r) => UNCHANGED txn
  BY DEF Edit, SaveDraft
<1>5. Twin(r) => UNCHANGED txn
  BY DEF Twin, EditTwin
<1>3. ResetToSynced(r) \/ DeleteReceipt(r) \/ RestoreReceipt(r) => UNCHANGED txn
  BY DEF ResetToSynced, DeleteReceipt, RestoreReceipt
<1>4. Purge(r) \/ ConfirmDuplicate(r) \/ OverrideDuplicate(r) \/ TakeBack(r) => UNCHANGED txn
  BY DEF Purge, ConfirmDuplicate, OverrideDuplicate, TakeBack, Remove
<1> QED BY <1>1, <1>2, <1>3, <1>4, <1>5 DEF UserStep

LEMMA OneTxnNext ==
    ASSUME OneAccount
    PROVE  TInv /\ OneTxnPerReceipt /\ [Next]_vars => OneTxnPerReceipt'
<1> SUFFICES ASSUME TInv, OneTxnPerReceipt, [Next]_vars PROVE OneTxnPerReceipt'
  OBVIOUS
<1>1. UNCHANGED txn => OneTxnPerReceipt'
  BY OneTxnKept
<1>2. CASE UNCHANGED vars
  BY <1>1, <1>2 DEF vars
<1>3. ASSUME NEW r \in Receipts, UserStep(r) PROVE OneTxnPerReceipt'
  BY <1>1, <1>3, UserKeepsTxn
<1>4. ASSUME NEW w \in Workers, WorkerStep(w) \/ Crash(w) PROVE OneTxnPerReceipt'
  BY <1>4, OneTxnWorker
<1>5. ASSUME NEW t \in TxnIds, UserDeletesTxn(t) PROVE OneTxnPerReceipt'
  <2>1. \A u \in TxnIds : /\ txn'[u].state = "live" => txn[u].state = "live"
                          /\ txn'[u].imp = txn[u].imp
    BY <1>5 DEF UserDeletesTxn, TInv, TypeOK, Txn
  <2> QED BY <2>1, OneTxnKept
<1>6. ASSUME TimePasses \/ ApiRestart \/ \E s \in Settings : OperatorSets(s)
      PROVE  OneTxnPerReceipt'
  BY <1>1, <1>6 DEF TimePasses, ApiRestart, OperatorSets
<1> QED BY <1>2, <1>3, <1>4, <1>5, <1>6 DEF Next

(* Exactly-one-create: in a budget with one account, whatever the workers, the
   crashes, the lost answers and the clicks, YNAB never holds two live
   transactions created for one receipt.  The import_id alone achieves it. *)
THEOREM ExactlyOneCreate == ASSUME OneAccount PROVE Spec => []OneTxnPerReceipt
<1>1. Init => TInv /\ OneTxnPerReceipt
  BY InitType, OneTxnInit
<1>2. (TInv /\ OneTxnPerReceipt) /\ [Next]_vars => (TInv /\ OneTxnPerReceipt)'
  BY NextType, OneTxnNext
<1> QED BY <1>1, <1>2, PTL DEF Spec

-----------------------------------------------------------------------------
(* A synced receipt has its evidence *)

(* The deployment runs one worker process on the sync queue. *)
OneWorker == \A v, w \in Workers : v = w

(* A successful row names its transaction. *)
RowsOK ==
    \A r \in Receipts, k \in Keys :
      rows[r][k].status \in Success => TargetOf(rows[r][k]) # None

(* What a job is about to commit names a transaction, or leaves the receipt in
   review. *)
WrittenOK ==
    \A w \in Workers :
      worker[w].pc = "written" /\ life[worker[w].r] # "purged" =>
        \/ /\ worker[w].result = "CREATED"
           /\ CreatedNow(rows[worker[w].r][worker[w].key], w) # None
        \/ worker[w].result = "MATCHED_UPDATED" /\ worker[w].target # None
        \/ worker[w].result = "FAILED" /\ ~ worker[w].structure

(* A job clears an id only after it has claimed its row and looked. *)
NotWipedYet ==
    \A w \in Workers : worker[w].pc \in {"loaded", "claimed"} => ~ worker[w].wiped

EInv == TInv /\ RowsOK /\ WrittenOK /\ NotWipedYet /\ SyncedHasEvidence

LEMMA EvidenceInit == Init => RowsOK /\ WrittenOK /\ NotWipedYet /\ SyncedHasEvidence
BY DEF Init, RowsOK, WrittenOK, NotWipedYet, SyncedHasEvidence, NoRow, IdleWorker, Success

(* A step that leaves the jobs and the ids in the rows alone, and shows nothing
   as synced that was not, unless a row names a transaction. *)
LEMMA EvidenceKeptByOthers ==
    ASSUME EInv, UNCHANGED worker,
           \A r \in Receipts : life[r] = "purged" => life'[r] = "purged",
           \A r \in Receipts, k \in Keys :
             life'[r] # "purged" =>
               /\ rows'[r][k].created = rows[r][k].created
               /\ rows'[r][k].matched = rows[r][k].matched,
           \A r \in Receipts, k \in Keys :
             rows'[r][k].status \in Success =>
               /\ rows'[r][k].status = rows[r][k].status
               /\ TargetOf(rows'[r][k]) = TargetOf(rows[r][k]),
           \A r \in Receipts :
             status'[r] = "SYNCED" /\ status[r] # "SYNCED" =>
               \E k \in Keys : TargetOf(rows[r][k]) # None
    PROVE  RowsOK' /\ WrittenOK' /\ NotWipedYet' /\ SyncedHasEvidence'
<1>1. RowsOK'
  BY DEF EInv, RowsOK
<1>2. WrittenOK'
  <2> SUFFICES ASSUME NEW w \in Workers, worker[w].pc = "written",
                      life'[worker[w].r] # "purged"
               PROVE  \/ /\ worker[w].result = "CREATED"
                         /\ CreatedNow(rows[worker[w].r][worker[w].key], w)' # None
                      \/ worker[w].result = "MATCHED_UPDATED" /\ worker[w].target # None
                      \/ worker[w].result = "FAILED" /\ ~ worker[w].structure
    BY DEF WrittenOK
  <2>1. worker[w].r \in Receipts /\ worker[w].key \in Keys
    BY DEF EInv, TInv, WorkerOK
  <2>2. CreatedNow(rows[worker[w].r][worker[w].key], w)'
        = CreatedNow(rows[worker[w].r][worker[w].key], w)
    BY <2>1 DEF CreatedNow
  <2> QED BY <2>1, <2>2 DEF EInv, WrittenOK
<1>3. SyncedHasEvidence'
  BY DEF EInv, SyncedHasEvidence, TargetOf
<1>4. NotWipedYet'
  BY DEF EInv, NotWipedYet
<1> QED BY <1>1, <1>2, <1>3, <1>4

LEMMA EvidenceUser ==
    ASSUME EInv, NEW r \in Receipts, UserStep(r)
    PROVE  RowsOK' /\ WrittenOK' /\ NotWipedYet' /\ SyncedHasEvidence'
<1>t. /\ status \in [Receipts -> Statuses] /\ rows \in [Receipts -> [Keys -> Row]]
      /\ life \in [Receipts -> {"live", "deleted", "purged"}]
  BY DEF EInv, TInv, TypeOK
<1>1. ASSUME Click(r) \/ TakeBack(r) \/ OverrideDuplicate(r) PROVE RowsOK' /\ WrittenOK' /\ NotWipedYet' /\ SyncedHasEvidence'
  <2>1. UNCHANGED <<life, rows, worker>>
    BY <1>1 DEF Click, ClickBlocked, ClickClaimed, TakeBack, OverrideDuplicate
  <2>2. \A q \in Receipts : status'[q] = "SYNCED" => status[q] = "SYNCED"
    BY <1>1, <1>t DEF Click, ClickBlocked, ClickClaimed, TakeBack, OverrideDuplicate,
                      StatusAfterCheck
  <2> QED BY <2>1, <2>2, EvidenceKeptByOthers
<1>2. ASSUME Edit(r) PROVE RowsOK' /\ WrittenOK' /\ NotWipedYet' /\ SyncedHasEvidence'
  <2>1. UNCHANGED <<life, rows, worker>>
    BY <1>2 DEF Edit, SaveDraft
  <2>2. \A q \in Receipts : status'[q] = "SYNCED" => status[q] = "SYNCED"
    BY <1>2, <1>t DEF Edit, SaveDraft, StatusAfterCheck
  <2> QED BY <2>1, <2>2, EvidenceKeptByOthers
<1>6. ASSUME Twin(r) PROVE RowsOK' /\ WrittenOK' /\ NotWipedYet' /\ SyncedHasEvidence'
  <2>1. UNCHANGED <<life, rows, worker>>
    BY <1>6 DEF Twin, EditTwin
  <2>2. \/ UNCHANGED status
        \/ status' = [status EXCEPT ![r] = IF @ \in {"SYNCED", "ERROR_SYNC"}
                                           THEN "NEEDS_REVIEW" ELSE @]
    BY <1>6 DEF Twin, EditTwin
  <2>3. \A q \in Receipts : status'[q] = "SYNCED" => status[q] = "SYNCED"
    BY <2>2, <1>t
  <2> QED BY <2>1, <2>3, EvidenceKeptByOthers
<1>3. ASSUME ResetToSynced(r) PROVE RowsOK' /\ WrittenOK' /\ NotWipedYet' /\ SyncedHasEvidence'
  <2>1. PICK k \in Keys : rows[r][k].status \in Success
    BY <1>3 DEF ResetToSynced, RestoreSources
  <2>2. TargetOf(rows[r][k]) # None
    BY <2>1 DEF EInv, RowsOK
  <2>3. UNCHANGED <<life, rows, worker>> /\ status' = [status EXCEPT ![r] = "SYNCED"]
    BY <1>3 DEF ResetToSynced
  <2>4. \A q \in Receipts : status'[q] = "SYNCED" /\ status[q] # "SYNCED" => q = r
    BY <1>t, <2>3
  <2> QED BY <2>2, <2>3, <2>4, EvidenceKeptByOthers
<1>4. ASSUME DeleteReceipt(r) \/ RestoreReceipt(r) PROVE RowsOK' /\ WrittenOK' /\ NotWipedYet' /\ SyncedHasEvidence'
  <2>1. UNCHANGED <<status, rows, worker>> /\ life[r] # "purged"
        /\ \A q \in Receipts \ {r} : life'[q] = life[q]
    BY <1>4, <1>t DEF DeleteReceipt, MayDelete, RestoreReceipt
  <2> QED BY <2>1, EvidenceKeptByOthers
<1>5. ASSUME Purge(r) \/ ConfirmDuplicate(r) PROVE RowsOK' /\ WrittenOK' /\ NotWipedYet' /\ SyncedHasEvidence'
  <2>1. Remove(r)
    BY <1>5 DEF Purge, ConfirmDuplicate
  <2>2. /\ UNCHANGED <<status, worker>>
        /\ life'[r] = "purged" /\ \A k \in Keys : rows'[r][k] = NoRow
        /\ \A q \in Receipts \ {r} : life'[q] = life[q] /\ rows'[q] = rows[q]
    BY <1>t, <2>1 DEF Remove
  <2>3. NoRow.status \notin Success
    BY DEF NoRow, Success
  <2> QED BY <2>2, <2>3, EvidenceKeptByOthers
<1> QED BY <1>1, <1>2, <1>3, <1>4, <1>5, <1>6 DEF UserStep

LEMMA EvidenceOutside ==
    ASSUME EInv,
           \/ TimePasses \/ ApiRestart
           \/ \E t \in TxnIds : UserDeletesTxn(t)
           \/ \E s \in Settings : OperatorSets(s)
    PROVE  RowsOK' /\ WrittenOK' /\ NotWipedYet' /\ SyncedHasEvidence'
<1>t. status \in [Receipts -> Statuses] /\ rows \in [Receipts -> [Keys -> Row]]
  BY DEF EInv, TInv, TypeOK
<1>1. UNCHANGED <<status, life, rows, worker>> => RowsOK' /\ WrittenOK' /\ NotWipedYet' /\ SyncedHasEvidence'
  BY EvidenceKeptByOthers
<1>2. ASSUME (\E t \in TxnIds : UserDeletesTxn(t)) \/ \E s \in Settings : OperatorSets(s)
      PROVE  RowsOK' /\ WrittenOK' /\ NotWipedYet' /\ SyncedHasEvidence'
  BY <1>1, <1>2 DEF UserDeletesTxn, OperatorSets, receiptVars
<1>3. ASSUME TimePasses PROVE RowsOK' /\ WrittenOK' /\ NotWipedYet' /\ SyncedHasEvidence'
  <2>1. ASSUME NEW r \in Receipts, NEW k \in Keys
        PROVE  /\ rows'[r][k].created = rows[r][k].created
               /\ rows'[r][k].matched = rows[r][k].matched
               /\ rows'[r][k].status = rows[r][k].status
    <3>1. rows'[r][k] = [rows[r][k] EXCEPT !.fresh = FALSE]
      BY <1>3 DEF TimePasses
    <3>2. rows[r][k] \in Row
      BY <1>t
    <3> QED BY <3>1, <3>2 DEF Row
  <2>2. UNCHANGED <<status, life, worker>>
    BY <1>3 DEF TimePasses
  <2> QED BY <2>1, <2>2, EvidenceKeptByOthers DEF TargetOf
<1>4. ASSUME ApiRestart PROVE RowsOK' /\ WrittenOK' /\ NotWipedYet' /\ SyncedHasEvidence'
  <2>1. \A r \in Receipts, k \in Keys :
          /\ rows'[r][k].created = rows[r][k].created
          /\ rows'[r][k].matched = rows[r][k].matched
          /\ rows'[r][k].status \in Success => rows'[r][k] = rows[r][k]
    BY <1>4, <1>t DEF ApiRestart, ResetRow, Row, Success
  <2>2. \A r \in Receipts : status'[r] = "SYNCED" => status[r] = "SYNCED"
    BY <1>4 DEF ApiRestart
  <2>3. UNCHANGED <<life, worker>>
    BY <1>4 DEF ApiRestart
  <2> QED BY <2>1, <2>2, <2>3, EvidenceKeptByOthers
<1> QED BY <1>2, <1>3, <1>4

(* Steps that change the job only. *)
LEMMA EvidenceWorkerOnly ==
    ASSUME OneWorker, EInv, NEW w \in Workers, UNCHANGED <<life, rows>>,
           \A r \in Receipts : status'[r] = "SYNCED" => status[r] = "SYNCED",
           worker'[w].pc = "written" =>
             \/ /\ worker'[w].result = "CREATED"
                /\ CreatedNow(rows[worker[w].r][worker[w].key], w)' # None
             \/ worker'[w].result = "MATCHED_UPDATED" /\ worker'[w].target # None
             \/ worker'[w].result = "FAILED" /\ ~ worker'[w].structure,
           worker'[w].pc \in {"loaded", "claimed"} => ~ worker'[w].wiped
    PROVE  RowsOK' /\ WrittenOK' /\ NotWipedYet' /\ SyncedHasEvidence'
<1>1. \A v \in Workers : v = w
  BY DEF OneWorker
<1>2. RowsOK' /\ SyncedHasEvidence'
  BY DEF EInv, RowsOK, SyncedHasEvidence
<1>3. WrittenOK' /\ NotWipedYet'
  BY <1>1 DEF WrittenOK, NotWipedYet
<1> QED BY <1>2, <1>3

LEMMA EvidenceJob ==
    ASSUME OneWorker, EInv, NEW w \in Workers,
           \/ JobRejected(w) \/ JobLoaded(w) \/ ClaimSkipped(w) \/ RowVanished(w) \/ Crash(w)
           \/ FoundOwn(w) \/ PlanUpdate(w) \/ PriorGone(w) \/ PlanMatch(w) \/ PlanCreate(w)
    PROVE  RowsOK' /\ WrittenOK' /\ NotWipedYet' /\ SyncedHasEvidence'
<1>t. worker \in [Workers -> WorkerState] /\ status \in [Receipts -> Statuses]
  BY DEF EInv, TInv, TypeOK
<1>1. ASSUME JobRejected(w) PROVE RowsOK' /\ WrittenOK' /\ NotWipedYet' /\ SyncedHasEvidence'
  <2>1. UNCHANGED <<life, rows, worker>>
    BY <1>1 DEF JobRejected
  <2>2. \A r \in Receipts : status'[r] = "SYNCED" => status[r] = "SYNCED"
    BY <1>1, <1>t DEF JobRejected
  <2> QED BY <2>1, <2>2, EvidenceKeptByOthers
<1>2. ASSUME JobLoaded(w) PROVE RowsOK' /\ WrittenOK' /\ NotWipedYet' /\ SyncedHasEvidence'
  <2>1. worker'[w].pc = "loaded" /\ ~ worker'[w].wiped
    <3> DEFINE r == Head(queue).r
               k == Key(ver[r], Head(queue).mode)
    <3>1. PICK p : worker' = [worker EXCEPT ![w] =
                    [IdleWorker EXCEPT !.pc = "loaded", !.r = r, !.key = k,
                                       !.draft = draft[r], !.seen = Seen(rows[r][k]),
                                       !.prior = p, !.setting = setting,
                                       !.unwritten = /\ Seen(rows[r][k]) # "absent"
                                                     /\ status[r] = "SYNCING"]]
      BY <1>2 DEF JobLoaded
    <3> HIDE DEF r, k
    <3> QED BY <3>1, <1>t DEF IdleWorker
  <2>2. UNCHANGED <<status, life, rows>>
    BY <1>2 DEF JobLoaded, receiptVars
  <2> QED BY <2>1, <2>2, EvidenceWorkerOnly
<1>3. ASSUME ClaimSkipped(w) \/ RowVanished(w) \/ Crash(w)
      PROVE  RowsOK' /\ WrittenOK' /\ NotWipedYet' /\ SyncedHasEvidence'
  <2>1. worker'[w].pc = "idle"
    BY <1>3, <1>t DEF ClaimSkipped, RowVanished, Crash, Stop, IdleWorker
  <2>2. UNCHANGED <<status, life, rows>>
    BY <1>3 DEF ClaimSkipped, RowVanished, Crash, receiptVars
  <2> QED BY <2>1, <2>2, EvidenceWorkerOnly
<1>4. ASSUME FoundOwn(w) PROVE RowsOK' /\ WrittenOK' /\ NotWipedYet' /\ SyncedHasEvidence'
  <2>1. worker' = [worker EXCEPT ![w].pc = "written", ![w].result = "CREATED",
                                 ![w].target = Earlier(w)]
        /\ UNCHANGED <<status, life, rows>> /\ worker[w].pc = "claimed"
    BY <1>4 DEF FoundOwn, receiptVars
  <2>2. Earlier(w) # None /\ ~ worker[w].wiped
    BY <1>4, <2>1, LiveInTxnIds DEF FoundOwn, EInv, NotWipedYet
  <2>3. /\ worker'[w].pc = "written" /\ worker'[w].result = "CREATED"
        /\ worker'[w].r = worker[w].r /\ worker'[w].key = worker[w].key
        /\ worker'[w].created = worker[w].created /\ worker'[w].wiped = worker[w].wiped
    BY <2>1, <1>t DEF WorkerState
  <2>4. CreatedNow(rows[worker[w].r][worker[w].key], w)' # None
    BY <2>1, <2>2, <2>3 DEF CreatedNow, Earlier
  <2> QED BY <2>1, <2>3, <2>4, EvidenceWorkerOnly
<1>5. ASSUME PriorGone(w) PROVE RowsOK' /\ WrittenOK' /\ NotWipedYet' /\ SyncedHasEvidence'
  <2>1. worker'[w].pc = "written" /\ worker'[w].result = "FAILED" /\ worker'[w].structure = FALSE
    BY <1>5, <1>t DEF PriorGone, WorkerState
  <2>2. UNCHANGED <<status, life, rows>>
    BY <1>5 DEF PriorGone, receiptVars
  <2> QED BY <2>1, <2>2, EvidenceWorkerOnly
<1>6. ASSUME PlanUpdate(w) \/ PlanMatch(w) \/ PlanCreate(w)
      PROVE  RowsOK' /\ WrittenOK' /\ NotWipedYet' /\ SyncedHasEvidence'
  <2>1. worker'[w].pc = "planned"
    <3>1. PICK plan, t : Planned(w, plan, t)
      BY <1>6 DEF PlanUpdate, PlanMatch, PlanCreate
    <3> DEFINE what == Content(IF plan = "adopt" THEN txn[t] ELSE worker[w].draft)
               gone == (Earlier(w) # None)
    <3>2. worker' = [worker EXCEPT ![w].pc = "planned", ![w].plan = plan,
                                   ![w].target = t, ![w].wiped = gone, ![w].sent = what]
      BY <3>1 DEF Planned
    <3> HIDE DEF what, gone
    <3> QED BY <3>2, <1>t DEF WorkerState
  <2>2. UNCHANGED <<status, life, rows>>
    BY <1>6 DEF PlanUpdate, PlanMatch, PlanCreate, receiptVars
  <2> QED BY <2>1, <2>2, EvidenceWorkerOnly
<1> QED BY <1>1, <1>2, <1>3, <1>4, <1>5, <1>6

LEMMA EvidenceWrite ==
    ASSUME OneWorker, EInv, NEW w \in Workers, WriteStep(w)
    PROVE  RowsOK' /\ WrittenOK' /\ NotWipedYet' /\ SyncedHasEvidence'
<1>t. worker \in [Workers -> WorkerState]
  BY DEF EInv, TInv, TypeOK
<1>u. UNCHANGED <<status, life, rows>>
  BY DEF WriteStep, Update, Adopt, CreateAccepted, TargetVanished, ConflictResolved,
         ConflictUnresolved, receiptVars
<1>1. ASSUME NEW structure \in BOOLEAN, NEW answered \in BOOLEAN,
             Update(w, structure, answered) \/ Adopt(w, structure, answered)
      PROVE  RowsOK' /\ WrittenOK' /\ NotWipedYet' /\ SyncedHasEvidence'
  <2>1. /\ worker'[w].pc \in {"written", "failing"}
        /\ worker'[w].result = "MATCHED_UPDATED" /\ worker'[w].target = worker[w].target
    BY <1>1, <1>t DEF Update, Adopt, WorkerState
  <2>2. worker[w].target # None
    BY <1>1, LiveInTxnIds DEF Update, Adopt
  <2> QED BY <1>u, <2>1, <2>2, EvidenceWorkerOnly
<1>2. ASSUME NEW answered \in BOOLEAN, CreateAccepted(w, answered)
      PROVE  RowsOK' /\ WrittenOK' /\ NotWipedYet' /\ SyncedHasEvidence'
  <2>1. PICK t \in FreshIds :
           worker' = [worker EXCEPT ![w].pc = IF answered THEN "written" ELSE "failing",
                                    ![w].target = IF answered THEN t ELSE None,
                                    ![w].created = IF answered THEN t ELSE None,
                                    ![w].result = "CREATED"]
    BY <1>2 DEF CreateAccepted
  <2>2. t # None
    BY DEF FreshIds
  <2>3. /\ worker'[w].pc = IF answered THEN "written" ELSE "failing"
        /\ worker'[w].created = IF answered THEN t ELSE None
        /\ worker'[w].result = "CREATED"
    BY <2>1, <1>t DEF WorkerState
  <2> QED BY <1>u, <2>2, <2>3, EvidenceWorkerOnly DEF CreatedNow
<1>3. ASSUME TargetVanished(w) \/ ConflictUnresolved(w)
      PROVE  RowsOK' /\ WrittenOK' /\ NotWipedYet' /\ SyncedHasEvidence'
  <2>1. worker'[w].pc = "failing"
    BY <1>3, <1>t DEF TargetVanished, ConflictUnresolved, WorkerState
  <2> QED BY <1>u, <2>1, EvidenceWorkerOnly
<1>4. ASSUME ConflictResolved(w)
      PROVE  RowsOK' /\ WrittenOK' /\ NotWipedYet' /\ SyncedHasEvidence'
  <2>1. PICK t \in Own(worker[w].r) :
           worker' = [worker EXCEPT ![w].pc = "written", ![w].target = t,
                                    ![w].created = t, ![w].result = "CREATED"]
    BY <1>4 DEF ConflictResolved
  <2>2. t # None
    BY DEF Own
  <2>3. /\ worker'[w].pc = "written" /\ worker'[w].created = t
        /\ worker'[w].result = "CREATED"
    BY <2>1, <1>t DEF WorkerState
  <2> QED BY <1>u, <2>2, <2>3, EvidenceWorkerOnly DEF CreatedNow
<1> QED BY <1>1, <1>2, <1>3, <1>4 DEF WriteStep

(* Steps that write one row and the status of its receipt. *)
LEMMA EvidenceRowWrite ==
    ASSUME OneWorker, EInv, NEW w \in Workers, NEW r \in Receipts, NEW k \in Keys,
           NEW x, NEW s, UNCHANGED life,
           rows' = [rows EXCEPT ![r][k] = x],
           status' = [status EXCEPT ![r] = s],
           x.status \in Success => TargetOf(x) # None,
           s = "SYNCED" => \/ TargetOf(x) # None
                           \/ s = status[r] /\ TargetOf(x) = TargetOf(rows[r][k]),
           worker'[w].pc # "written",
           worker'[w].pc \in {"loaded", "claimed"} => ~ worker'[w].wiped
    PROVE  RowsOK' /\ WrittenOK' /\ NotWipedYet' /\ SyncedHasEvidence'
<1>1. \A v \in Workers : v = w
  BY DEF OneWorker
<1>2. rows \in [Receipts -> [Keys -> Row]] /\ status \in [Receipts -> Statuses]
  BY DEF EInv, TInv, TypeOK
<1>3. /\ rows'[r][k] = x /\ status'[r] = s
      /\ \A q \in Receipts, j \in Keys : q # r \/ j # k => rows'[q][j] = rows[q][j]
      /\ \A q \in Receipts \ {r} : status'[q] = status[q]
  BY <1>2
<1>4. RowsOK'
  BY <1>3 DEF EInv, RowsOK
<1>5. SyncedHasEvidence'
  <2> SUFFICES ASSUME NEW q \in Receipts, status'[q] = "SYNCED", life[q] # "purged"
               PROVE  \E j \in Keys : TargetOf(rows'[q][j]) # None
    BY DEF SyncedHasEvidence, TargetOf
  <2>1. CASE q # r
    BY <1>3, <2>1 DEF EInv, SyncedHasEvidence
  <2>2. CASE q = r /\ TargetOf(x) # None
    BY <1>3, <2>2
  <2>3. CASE q = r /\ s = status[r] /\ TargetOf(x) = TargetOf(rows[r][k])
    <3>1. PICK j \in Keys : TargetOf(rows[r][j]) # None
      BY <1>3, <2>3 DEF EInv, SyncedHasEvidence
    <3> QED BY <1>3, <2>3, <3>1
  <2> QED BY <1>3, <2>1, <2>2, <2>3
<1>6. WrittenOK' /\ NotWipedYet'
  BY <1>1 DEF WrittenOK, NotWipedYet
<1> QED BY <1>4, <1>5, <1>6

LEMMA EvidenceRow ==
    ASSUME OneWorker, EInv, NEW w \in Workers,
           ClaimRow(w) \/ DryRun(w) \/ Commit(w) \/ Fail(w)
    PROVE  RowsOK' /\ WrittenOK' /\ NotWipedYet' /\ SyncedHasEvidence'
<1> DEFINE r == worker[w].r
           k == worker[w].key
           d == worker[w].draft
           row == rows[r][k]
<1>b. worker[w].pc # "idle" /\ UNCHANGED life /\ life[r] # "purged"
  BY DEF ClaimRow, DryRun, Commit, Fail
<1>t. /\ r \in Receipts /\ k \in Keys /\ row \in Row
      /\ worker \in [Workers -> WorkerState] /\ worker[w] \in WorkerState
  BY <1>b, BusyType DEF EInv, TInv, TypeOK
<1>i. Stop(w) => worker'[w].pc = "idle"
  BY <1>t DEF Stop, IdleWorker
<1>1. ASSUME ClaimRow(w) PROVE RowsOK' /\ WrittenOK' /\ NotWipedYet' /\ SyncedHasEvidence'
  <2> DEFINE s == IF worker[w].unwritten THEN status[r] ELSE "SYNCING"
             x == ClaimedRow(row, d)
  <2>1. rows' = [rows EXCEPT ![r][k] = x] /\ status' = [status EXCEPT ![r] = s]
    BY <1>1 DEF ClaimRow
  <2>2. x.status \notin Success /\ TargetOf(x) = TargetOf(row) /\ (s = "SYNCED" => s = status[r])
    <3> HIDE DEF r, k, row
    <3> QED BY <1>t DEF ClaimedRow, Row, Success, TargetOf
  <2>3. worker'[w].pc = "claimed" /\ worker'[w].wiped = worker[w].wiped
    BY <1>1, <1>t DEF ClaimRow, WorkerState
  <2>4. ~ worker[w].wiped
    BY <1>1 DEF ClaimRow, EInv, NotWipedYet
  <2> HIDE DEF r, k, x, s
  <2> QED BY <1>b, <1>t, <2>1, <2>2, <2>3, <2>4, EvidenceRowWrite DEF row
<1>2. ASSUME DryRun(w) PROVE RowsOK' /\ WrittenOK' /\ NotWipedYet' /\ SyncedHasEvidence'
  <2> DEFINE x == DryRow(row, d)
  <2>1. rows' = [rows EXCEPT ![r][k] = x] /\ status' = [status EXCEPT ![r] = "NEEDS_REVIEW"]
        /\ Stop(w)
    BY <1>2 DEF DryRun
  <2>2. x.status \notin Success
    <3> HIDE DEF r, k, row
    <3> QED BY <1>t DEF DryRow, Row, Success
  <2> HIDE DEF r, k, x
  <2> QED BY <1>b, <1>t, <1>i, <2>1, <2>2, EvidenceRowWrite DEF row
<1>3. ASSUME Fail(w) PROVE RowsOK' /\ WrittenOK' /\ NotWipedYet' /\ SyncedHasEvidence'
  <2> DEFINE x == FailedRow(row, w)
  <2>1. rows' = [rows EXCEPT ![r][k] = x] /\ status' = [status EXCEPT ![r] = "ERROR_SYNC"]
        /\ Stop(w)
    BY <1>3 DEF Fail
  <2>2. x.status \notin Success
    <3> HIDE DEF r, k, row
    <3> QED BY <1>t DEF FailedRow, Row, Success
  <2> HIDE DEF r, k, x
  <2> QED BY <1>b, <1>t, <1>i, <2>1, <2>2, EvidenceRowWrite DEF row
<1>4. ASSUME Commit(w) PROVE RowsOK' /\ WrittenOK' /\ NotWipedYet' /\ SyncedHasEvidence'
  <2> DEFINE x == CommittedRow(row, w)
             s == IF worker[w].structure THEN "SYNCED" ELSE "NEEDS_REVIEW"
  <2>1. rows' = [rows EXCEPT ![r][k] = x] /\ status' = [status EXCEPT ![r] = s] /\ Stop(w)
    BY <1>4 DEF Commit
  <2>2. \/ worker[w].result = "CREATED" /\ CreatedNow(row, w) # None
        \/ worker[w].result = "MATCHED_UPDATED" /\ worker[w].target # None
        \/ worker[w].result = "FAILED" /\ ~ worker[w].structure
    BY <1>4, <1>b DEF Commit, EInv, WrittenOK
  <2>3. /\ x.status = worker[w].result /\ x.created = CreatedNow(row, w)
        /\ worker[w].result = "MATCHED_UPDATED" => x.matched = worker[w].target
    <3> HIDE DEF r, k, row
    <3> QED BY <1>t DEF CommittedRow, Row
  <2>4. /\ x.status \in Success => TargetOf(x) # None
        /\ s = "SYNCED" => TargetOf(x) # None
    <3> HIDE DEF r, k, row, x
    <3> QED BY <2>2, <2>3 DEF Success, TargetOf
  <2> HIDE DEF r, k, x, s
  <2> QED BY <1>b, <1>t, <1>i, <2>1, <2>4, EvidenceRowWrite DEF row
<1> QED BY <1>1, <1>2, <1>3, <1>4

LEMMA EvidenceNext == ASSUME OneWorker PROVE EInv /\ [Next]_vars => EInv'
<1> SUFFICES ASSUME EInv, [Next]_vars PROVE EInv'
  OBVIOUS
<1>1. TInv'
  BY NextType DEF EInv
<1>2. RowsOK' /\ WrittenOK' /\ NotWipedYet' /\ SyncedHasEvidence'
  <2>1. CASE UNCHANGED vars
    BY <2>1, EvidenceKeptByOthers DEF vars
  <2>2. CASE Next
    BY <2>2, EvidenceUser, EvidenceOutside, EvidenceJob, EvidenceWrite, EvidenceRow
       DEF Next, WorkerStep
  <2> QED BY <2>1, <2>2
<1> QED BY <1>1, <1>2 DEF EInv

(* With one worker process, as deployed, a receipt that shows as synced always
   has a sync row that names the transaction it was synced to. *)
THEOREM SyncedEvidence == ASSUME OneWorker PROVE Spec => []SyncedHasEvidence
<1>1. Init => EInv
  BY InitType, EvidenceInit DEF EInv
<1>2. EInv /\ [Next]_vars => EInv'
  BY EvidenceNext
<1>3. EInv => SyncedHasEvidence
  BY DEF EInv
<1> QED BY <1>1, <1>2, <1>3, PTL DEF Spec

-----------------------------------------------------------------------------
(* One job per receipt.  A receipt with a job, waiting or at a worker, is
   SYNCING, and that is what a second click is refused for; the push to Redis
   and the restart of the API are what can break the link. *)

OrderlyFaults == Faults \subseteq {"crash", "lost"}

JobsOK ==
    /\ undo = {}
    /\ \A i, j \in DOMAIN queue : queue[i].r = queue[j].r => i = j
    /\ \A v, w \in Workers :
         worker[v].r \in Receipts /\ worker[v].r = worker[w].r => v = w
    /\ \A i \in DOMAIN queue, w \in Workers : queue[i].r # worker[w].r
    /\ \A i \in DOMAIN queue : status[queue[i].r] = "SYNCING"
    /\ \A w \in Workers : worker[w].r \in Receipts => status[worker[w].r] = "SYNCING"

LEMMA QueuedReceipts ==
    ASSUME TypeOK
    PROVE  /\ Len(queue) \in Nat /\ DOMAIN queue = 1..Len(queue)
           /\ \A i \in DOMAIN queue : queue[i].r \in Receipts
<1>1. queue \in Seq(Job)
  BY DEF TypeOK
<1>2. \A i \in DOMAIN queue : queue[i] \in Job
  BY <1>1
<1> QED BY <1>1, <1>2 DEF Job

LEMMA AppendParts ==
    ASSUME NEW S, NEW s \in Seq(S), NEW x \in S
    PROVE  /\ DOMAIN Append(s, x) = 1..(Len(s) + 1)
           /\ \A i \in 1..Len(s) : Append(s, x)[i] = s[i]
           /\ Append(s, x)[Len(s) + 1] = x
OBVIOUS

LEMMA TailParts ==
    ASSUME NEW S, NEW s \in Seq(S), s # <<>>
    PROVE  /\ Len(s) \in Nat \ {0} /\ DOMAIN Tail(s) = 1..(Len(s) - 1)
           /\ \A i \in 1..(Len(s) - 1) : Tail(s)[i] = s[i + 1]
           /\ Head(s) = s[1]
OBVIOUS

LEMMA JobsInit == Init => JobsOK
<1> SUFFICES ASSUME Init PROVE JobsOK
  OBVIOUS
<1>1. queue = <<>> /\ undo = {} /\ \A w \in Workers : worker[w].r = None
  BY DEF Init, IdleWorker
<1>2. DOMAIN queue = {}
  BY <1>1
<1> QED BY <1>1, <1>2 DEF JobsOK

(* Steps that start and stop no job leave the receipts that have one SYNCING. *)
LEMMA JobsStay ==
    ASSUME TInv, JobsOK, UNCHANGED <<undo, queue>>,
           \A w \in Workers : worker'[w].r = worker[w].r,
           \A r \in Receipts : status[r] = "SYNCING" => status'[r] = "SYNCING"
    PROVE  JobsOK'
<1>1. \A i \in DOMAIN queue : queue[i].r \in Receipts
  BY QueuedReceipts DEF TInv
<1> QED BY <1>1 DEF JobsOK

(* A job that ends takes its receipt with it: no other job has it. *)
LEMMA JobsEnd ==
    ASSUME TInv, JobsOK, NEW w \in Workers, worker[w].r \in Receipts, Stop(w),
           UNCHANGED <<undo, queue>>,
           \A r \in Receipts \ {worker[w].r} : status'[r] = status[r]
    PROVE  JobsOK'
<1>1. worker'[w].r = None /\ \A v \in Workers \ {w} : worker'[v] = worker[v]
  BY DEF Stop, IdleWorker, TInv, TypeOK
<1>2. \A i \in DOMAIN queue : queue[i].r \in Receipts
  BY QueuedReceipts DEF TInv
<1>3. \A i \in DOMAIN queue : queue[i].r # worker[w].r
  BY DEF JobsOK
<1>4. \A v \in Workers \ {w} : worker[v].r # worker[w].r
  BY DEF JobsOK
<1> QED BY <1>1, <1>2, <1>3, <1>4 DEF JobsOK

LEMMA JobsUser ==
    ASSUME OrderlyFaults, TInv, JobsOK, NEW r \in Receipts, UserStep(r)
    PROVE  JobsOK'
<1>0. "enqueue" \notin Faults /\ "duplicate" \notin Faults
  BY DEF OrderlyFaults
<1>t. status \in [Receipts -> Statuses]
  BY DEF TInv, TypeOK
<1>1. ASSUME NEW m \in Modes, NEW pushed \in BOOLEAN, NEW outcome \in {"ok", "error", "died"},
             ClickClaimed(r, m, pushed, outcome)
      PROVE  JobsOK'
  <2>1. /\ status[r] # "SYNCING" /\ pushed
        /\ status' = [status EXCEPT ![r] = "SYNCING"]
        /\ queue' = Append(queue, [r |-> r, mode |-> m])
        /\ UNCHANGED <<undo, worker>>
    BY <1>0, <1>1 DEF ClickClaimed, MayClaim
  <2>2. /\ Len(queue) \in Nat /\ DOMAIN queue = 1..Len(queue)
        /\ DOMAIN queue' = 1..(Len(queue) + 1)
        /\ \A i \in DOMAIN queue : queue'[i] = queue[i]
        /\ queue'[Len(queue) + 1].r = r
        /\ \A i \in DOMAIN queue : queue[i].r \in Receipts
    <3>1. queue \in Seq(Job) /\ [r |-> r, mode |-> m] \in Job
      BY DEF TInv, TypeOK, Job
    <3>2. [r |-> r, mode |-> m].r = r
      OBVIOUS
    <3> QED BY <2>1, <3>1, <3>2, QueuedReceipts, AppendParts DEF TInv
  <2>3. /\ \A i \in DOMAIN queue : queue[i].r # r
        /\ \A w \in Workers : worker[w].r # r
    BY <2>1 DEF JobsOK
  <2>4. \A i \in DOMAIN queue' : (i \in DOMAIN queue /\ queue'[i].r = queue[i].r)
                                 \/ (i = Len(queue) + 1 /\ queue'[i].r = r)
    BY <2>2
  <2> QED BY <1>t, <2>1, <2>2, <2>3, <2>4 DEF JobsOK
<1>2. ASSUME UNCHANGED <<undo, queue, worker>>,
             \A x \in Receipts : status[x] = "SYNCING" => status'[x] = "SYNCING"
      PROVE  JobsOK'
  BY <1>2, JobsStay
<1>4. ASSUME NEW d, NEW changed \in BOOLEAN, NEW found \in BOOLEAN,
             SaveDraft(r, d, changed, found)
      PROVE  JobsOK'
  <2>1. ~ found
    BY <1>0, <1>4 DEF SaveDraft, MayFind
  <2> QED BY <1>2, <1>4, <1>t, <2>1 DEF SaveDraft, StatusAfterCheck
<1>5. CASE ClickBlocked(r) \/ TakeBack(r)
  BY <1>0, <1>5 DEF ClickBlocked, MayFind, TakeBack, JobsOK
<1>6. CASE Twin(r) \/ ResetToSynced(r)
  BY <1>2, <1>6, <1>t DEF Twin, EditTwin, ResetToSynced
<1>7. CASE DeleteReceipt(r) \/ RestoreReceipt(r) \/ Purge(r) \/ ConfirmDuplicate(r)
  BY <1>2, <1>7 DEF DeleteReceipt, RestoreReceipt, Purge, ConfirmDuplicate, Remove
<1>8. CASE OverrideDuplicate(r)
  BY <1>2, <1>8, <1>t DEF OverrideDuplicate, StatusAfterCheck
<1> QED BY <1>1, <1>4, <1>5, <1>6, <1>7, <1>8 DEF UserStep, Click, Edit

(* A job leaves the queue, for a worker or for good. *)
LEMMA JobsStart ==
    ASSUME OrderlyFaults, TInv, JobsOK, NEW w \in Workers, JobRejected(w) \/ JobLoaded(w)
    PROVE  JobsOK'
<1>1. /\ queue # <<>> /\ queue' = Tail(queue) /\ UNCHANGED <<undo, status>>
      /\ worker[w].pc = "idle"
  BY DEF JobRejected, JobLoaded, receiptVars, OrderlyFaults, MayFind
<1>2. /\ Len(queue) \in Nat \ {0} /\ DOMAIN queue = 1..Len(queue)
      /\ DOMAIN queue' = 1..(Len(queue) - 1)
      /\ \A i \in DOMAIN queue' : queue'[i] = queue[i + 1]
      /\ Head(queue) = queue[1]
      /\ \A i \in DOMAIN queue : queue[i].r \in Receipts
  <2>1. queue \in Seq(Job)
    BY DEF TInv, TypeOK
  <2>2. DOMAIN Tail(queue) = 1..(Len(queue) - 1) /\ Len(queue) \in Nat \ {0}
    BY <1>1, <2>1, TailParts
  <2>3. \A i \in 1..(Len(queue) - 1) : Tail(queue)[i] = queue[i + 1]
    BY <1>1, <2>1, TailParts
  <2>4. Head(queue) = queue[1]
    BY <1>1, <2>1, TailParts
  <2> QED BY <1>1, <2>2, <2>3, <2>4, QueuedReceipts DEF TInv
<1>3. \A i \in DOMAIN queue' : i + 1 \in DOMAIN queue /\ i + 1 # 1
  BY <1>2
<1>4. /\ \A i, j \in DOMAIN queue' : queue'[i].r = queue'[j].r => i = j
      /\ \A i \in DOMAIN queue' : status[queue'[i].r] = "SYNCING"
      /\ \A i \in DOMAIN queue' : queue'[i].r # Head(queue).r
      /\ \A i \in DOMAIN queue', v \in Workers : queue'[i].r # worker[v].r
  <2>1. 1 \in DOMAIN queue
    BY <1>2
  <2>2. \A i, j \in DOMAIN queue' : queue'[i].r = queue'[j].r => i + 1 = j + 1
    BY <1>2, <1>3 DEF JobsOK
  <2> QED BY <1>2, <1>3, <2>1, <2>2 DEF JobsOK
<1>5. CASE JobRejected(w)
  BY <1>1, <1>4, <1>5 DEF JobsOK, JobRejected
<1>6. CASE JobLoaded(w)
  <2>1. worker'[w].r = Head(queue).r /\ \A v \in Workers \ {w} : worker'[v] = worker[v]
    <3>1. PICK p, k, u :
            worker' = [worker EXCEPT ![w] =
                    [IdleWorker EXCEPT !.pc = "loaded", !.r = Head(queue).r, !.key = k,
                                       !.draft = draft[Head(queue).r],
                                       !.seen = Seen(rows[Head(queue).r][k]),
                                       !.prior = p, !.setting = setting,
                                       !.unwritten = u]]
      BY ZenonT(40), <1>6 DEF JobLoaded
    <3> QED BY <3>1 DEF TInv, TypeOK, IdleWorker
  <2>2. /\ \A v \in Workers : worker[v].r # Head(queue).r
        /\ status[Head(queue).r] = "SYNCING"
    BY <1>2 DEF JobsOK
  <2>3. \A v, x \in Workers :
          worker'[v].r \in Receipts /\ worker'[v].r = worker'[x].r => v = x
    BY <2>1, <2>2 DEF JobsOK
  <2>4. \A i \in DOMAIN queue', v \in Workers : queue'[i].r # worker'[v].r
    BY <1>4, <2>1
  <2>5. \A v \in Workers : worker'[v].r \in Receipts => status'[worker'[v].r] = "SYNCING"
    BY <1>1, <2>1, <2>2 DEF JobsOK
  <2> QED BY <1>1, <1>4, <2>3, <2>4, <2>5 DEF JobsOK
<1> QED BY <1>5, <1>6

(* A job at work keeps its receipt until it stops. *)
LEMMA JobsWork ==
    ASSUME TInv, JobsOK, NEW w \in Workers, worker[w].pc # "idle",
           WorkerStep(w) \/ Crash(w)
    PROVE  JobsOK'
<1>r. worker[w].r \in Receipts /\ worker \in [Workers -> WorkerState]
      /\ status \in [Receipts -> Statuses]
  BY DEF TInv, TypeOK, WorkerOK
<1>1. CASE ClaimSkipped(w) \/ RowVanished(w) \/ Crash(w)
  BY <1>1, <1>r, JobsEnd DEF ClaimSkipped, RowVanished, Crash, receiptVars
<1>2. CASE DryRun(w) \/ Commit(w) \/ Fail(w)
  BY <1>2, <1>r, JobsEnd DEF DryRun, Commit, Fail
<1>3. CASE ClaimRow(w)
  <2>1. /\ worker' = [worker EXCEPT ![w].pc = "claimed"] /\ UNCHANGED <<undo, queue>>
        /\ status[worker[w].r] = "SYNCING" => status'[worker[w].r] = "SYNCING"
        /\ \A x \in Receipts \ {worker[w].r} : status'[x] = status[x]
    BY <1>3, <1>r DEF ClaimRow
  <2>2. \A v \in Workers : worker'[v].r = worker[v].r
    BY <1>r, <2>1 DEF WorkerState
  <2> QED BY <2>1, <2>2, JobsStay
<1>4. ASSUME UNCHANGED <<undo, queue, status>>, \A v \in Workers : worker'[v].r = worker[v].r
      PROVE  JobsOK'
  BY <1>4, JobsStay
<1>5. CASE FoundOwn(w) \/ PriorGone(w)
  BY <1>4, <1>5, <1>r DEF FoundOwn, PriorGone, receiptVars, WorkerState
<1>6. CASE PlanUpdate(w) \/ PlanMatch(w) \/ PlanCreate(w)
  <2>1. PICK plan, t : Planned(w, plan, t)
    BY <1>6 DEF PlanUpdate, PlanMatch, PlanCreate
  <2>2. \A v \in Workers : worker'[v].r = worker[v].r
    BY <1>r, <2>1 DEF Planned, WorkerState
  <2> QED BY <1>4, <1>6, <2>2 DEF PlanUpdate, PlanMatch, PlanCreate, receiptVars
<1>7. CASE WriteStep(w)
  <2>1. UNCHANGED <<undo, queue, status>>
    BY <1>7 DEF WriteStep, Update, Adopt, CreateAccepted, TargetVanished,
       ConflictResolved, ConflictUnresolved, receiptVars
  <2>2. \A v \in Workers : worker'[v].r = worker[v].r
    <3>1. ASSUME NEW structure, NEW answered,
                 Update(w, structure, answered) \/ Adopt(w, structure, answered)
          PROVE  \A v \in Workers : worker'[v].r = worker[v].r
      BY <3>1, <1>r DEF Update, Adopt, WorkerState
    <3>2. ASSUME NEW answered, CreateAccepted(w, answered)
          PROVE  \A v \in Workers : worker'[v].r = worker[v].r
      <4>1. PICK t \in FreshIds :
              worker' = [worker EXCEPT ![w].pc = IF answered THEN "written" ELSE "failing",
                                       ![w].target = IF answered THEN t ELSE None,
                                       ![w].created = IF answered THEN t ELSE None,
                                       ![w].result = "CREATED"]
        BY <3>2 DEF CreateAccepted
      <4>2. t \in TxnRef /\ None \in TxnRef
        BY DEF FreshIds, TxnRef
      <4> DEFINE x == [worker[w] EXCEPT !.pc = IF answered THEN "written" ELSE "failing",
                                        !.target = IF answered THEN t ELSE None,
                                        !.created = IF answered THEN t ELSE None,
                                        !.result = "CREATED"]
      <4>3. worker' = [worker EXCEPT ![w] = x]
        BY <4>1
      <4>4. x.r = worker[w].r
        BY <1>r, <4>2, LiteralTypes DEF WorkerState
      <4> HIDE DEF x
      <4> QED BY <1>r, <4>3, <4>4
    <3>3. CASE TargetVanished(w) \/ ConflictUnresolved(w)
      BY <3>3, <1>r DEF TargetVanished, ConflictUnresolved, WorkerState
    <3>4. CASE ConflictResolved(w)
      <4>1. PICK t \in Own(worker[w].r) :
              worker' = [worker EXCEPT ![w].pc = "written", ![w].target = t,
                                       ![w].created = t, ![w].result = "CREATED"]
        BY <3>4 DEF ConflictResolved
      <4> DEFINE x == [worker[w] EXCEPT !.pc = "written", !.target = t, !.created = t,
                                        !.result = "CREATED"]
      <4>2. worker' = [worker EXCEPT ![w] = x]
        BY <4>1
      <4>3. x.r = worker[w].r
        BY <1>r DEF WorkerState
      <4> HIDE DEF x
      <4> QED BY <1>r, <4>2, <4>3
    <3> QED BY <1>7, <3>1, <3>2, <3>3, <3>4 DEF WriteStep
  <2> QED BY <1>4, <2>1, <2>2
<1> QED BY <1>1, <1>2, <1>3, <1>5, <1>6, <1>7 DEF WorkerStep, JobRejected, JobLoaded

LEMMA JobsNext == ASSUME OrderlyFaults PROVE TInv /\ JobsOK /\ [Next]_vars => JobsOK'
<1> SUFFICES ASSUME TInv, JobsOK, [Next]_vars PROVE JobsOK'
  OBVIOUS
<1>1. CASE UNCHANGED vars
  BY <1>1, JobsStay DEF vars
<1>2. ASSUME NEW w \in Workers, WorkerStep(w) \/ Crash(w)
      PROVE  JobsOK'
  <2>1. CASE worker[w].pc # "idle"
    BY <1>2, <2>1, JobsWork
  <2>2. CASE worker[w].pc = "idle"
    <3>1. JobRejected(w) \/ JobLoaded(w)
      BY <1>2, <2>2 DEF WorkerStep, ClaimSkipped, ClaimRow, DryRun, FoundOwn, PlanUpdate,
         UpdatesPrior, PriorGone, PlanMatch, PlanCreate, MatchesOrCreates, WriteStep, Update,
         Adopt, CreateAccepted, Creating, TargetVanished, ConflictResolved,
         ConflictUnresolved, Conflict, Commit, Fail, RowVanished, Crash
    <3> QED BY <3>1, JobsStart
  <2> QED BY <2>1, <2>2
<1>3. CASE TimePasses \/ ApiRestart
  BY <1>3 DEF TimePasses, ApiRestart, OrderlyFaults
<1>4. CASE \/ \E t \in TxnIds : UserDeletesTxn(t)
           \/ \E s \in Settings : OperatorSets(s)
  BY <1>4, JobsStay DEF UserDeletesTxn, OperatorSets, receiptVars
<1> QED BY <1>1, <1>2, <1>3, <1>4, JobsUser DEF Next

LEMMA AtMostOne ==
    ASSUME NEW S, \A x, y \in S : x = y
    PROVE  /\ Cardinality(S) \in {0, 1}
           /\ S = {} => Cardinality(S) = 0
<1>1. CASE S = {}
  BY <1>1, FS_EmptySet
<1>2. CASE S # {}
  <2>1. PICK x : S = {x}
    BY <1>2
  <2> QED BY <2>1, FS_Singleton
<1> QED BY <1>1, <1>2

LEMMA JobsCounted == TInv /\ JobsOK => OneJobPerReceipt
<1> SUFFICES ASSUME TInv, JobsOK, NEW r \in Receipts PROVE InFlight(r) <= 1
  BY DEF OneJobPerReceipt
<1> DEFINE waiting == {i \in DOMAIN queue : queue[i].r = r}
           atWork  == {w \in Workers : worker[w].r = r}
<1>1. /\ \A x, y \in waiting : x = y
      /\ \A x, y \in atWork : x = y
      /\ waiting = {} \/ atWork = {}
  BY DEF JobsOK
<1>2. InFlight(r) = Cardinality(waiting) + Cardinality(atWork)
  BY DEF InFlight
<1> HIDE DEF waiting, atWork
<1> QED BY <1>1, <1>2, AtMostOne

(* However often the user clicks, whatever else is edited, deleted and synced
   meanwhile, and however many workers there are, a receipt has one job at
   most, as long as pushes to Redis succeed, no duplicate turns up during a sync
   and the API does not restart; jobs may die and answers get lost. *)
THEOREM OneJob == ASSUME OrderlyFaults PROVE Spec => []OneJobPerReceipt
<1>1. Init => TInv /\ JobsOK
  BY InitType, JobsInit
<1>2. TInv /\ JobsOK /\ [Next]_vars => (TInv /\ JobsOK)'
  BY NextType, JobsNext
<1>3. TInv /\ JobsOK => OneJobPerReceipt
  BY JobsCounted
<1> QED BY <1>1, <1>2, <1>3, PTL DEF Spec

-----------------------------------------------------------------------------
(* What a job remembers, and what it may therefore write *)

Named(t) == t # None => t \in TxnIds /\ txn[t].state # "absent"

(* A recorded id is that of a transaction which was there once. *)
NamedOK ==
    /\ \A r \in Receipts, k \in Keys : Named(rows[r][k].created)
    /\ \A w \in Workers : Named(worker[w].created)

(* A job that goes past the verification, clears the id or brings another has
   seen that the transaction its row names is gone. *)
LookedOK ==
    \A w \in Workers :
      /\ worker[w].pc # "idle"
      /\ worker[w].pc = "planned" \/ worker[w].wiped \/ worker[w].created # None
      => ~ Live(Earlier(w))

(* A job that knows of no earlier success is right, and only such a job plans
   to create without being told to. *)
PriorOK ==
    \A w \in Workers : worker[w].pc # "idle" =>
      /\ worker[w].prior = None => ~ HasSuccess(worker[w].r)
      /\ worker[w].pc = "planned" /\ worker[w].plan = "create" /\ ~ worker[w].key.force
         => worker[w].prior = None

MInv == NamedOK /\ LookedOK /\ PriorOK

LEMMA MemoryInit == Init => MInv
BY DEF Init, MInv, NamedOK, LookedOK, PriorOK, Named, NoRow, IdleWorker

(* A step of someone else: ids are left alone or go with the receipt, no row
   succeeds, and transactions are at most deleted. *)
LEMMA MemoryKeptByOthers ==
    ASSUME TInv, MInv, UNCHANGED worker,
           \A r \in Receipts, k \in Keys :
             /\ rows'[r][k].created \in {rows[r][k].created, None}
             /\ rows'[r][k].status \in Success => rows[r][k].status \in Success,
           \A t \in TxnIds :
             \/ txn'[t].state = txn[t].state
             \/ txn[t].state = "live" /\ txn'[t].state = "deleted"
    PROVE  MInv'
<1>1. \A t : Named(t) => Named(t)'
  BY DEF Named
<1>2. \A t : Live(t)' => Live(t)
  BY DEF Live
<1>3. NamedOK'
  <2>1. \A r \in Receipts, k \in Keys : Named(rows[r][k].created)'
    BY <1>1 DEF MInv, NamedOK, Named
  <2>2. \A w \in Workers : Named(worker[w].created)'
    BY <1>1 DEF MInv, NamedOK
  <2> QED BY <2>1, <2>2 DEF NamedOK, Named
<1>4. LookedOK'
  <2> SUFFICES ASSUME NEW w \in Workers, worker[w].pc # "idle",
                      worker[w].pc = "planned" \/ worker[w].wiped \/ worker[w].created # None,
                      Live(Earlier(w))'
               PROVE  FALSE
    BY DEF LookedOK
  <2>1. worker[w].r \in Receipts /\ worker[w].key \in Keys
    BY DEF TInv, WorkerOK
  <2>2. Earlier(w)' \in {Earlier(w), None}
    BY <2>1 DEF Earlier
  <2>3. Live(Earlier(w)')
    BY <1>2
  <2>4. Live(Earlier(w))
    BY <2>2, <2>3, LiveInTxnIds
  <2> QED BY <2>4 DEF MInv, LookedOK
<1>5. PriorOK'
  BY DEF TInv, WorkerOK, MInv, PriorOK, HasSuccess
<1> QED BY <1>3, <1>4, <1>5 DEF MInv

LEMMA MemoryUser ==
    ASSUME TInv, MInv, NEW r \in Receipts, UserStep(r)
    PROVE  MInv'
<1>t. rows \in [Receipts -> [Keys -> Row]]
  BY DEF TInv, TypeOK
<1>1. UNCHANGED <<rows, worker, txn>> => MInv'
  BY MemoryKeptByOthers
<1>2. ASSUME Click(r) \/ TakeBack(r) \/ Edit(r) \/ Twin(r) PROVE MInv'
  BY ZenonT(40), <1>1, <1>2 DEF Click, ClickBlocked, ClickClaimed, TakeBack, Edit, SaveDraft, Twin, EditTwin
<1>3. ASSUME ResetToSynced(r) \/ DeleteReceipt(r) \/ RestoreReceipt(r) \/ OverrideDuplicate(r)
      PROVE  MInv'
  BY <1>1, <1>3 DEF ResetToSynced, DeleteReceipt, RestoreReceipt, OverrideDuplicate
<1>4. ASSUME Purge(r) \/ ConfirmDuplicate(r) PROVE MInv'
  <2>1. UNCHANGED <<worker, txn>> /\ rows' = [rows EXCEPT ![r] = [k \in Keys |-> NoRow]]
    BY <1>4 DEF Purge, ConfirmDuplicate, Remove
  <2>2. NoRow.created = None /\ NoRow.status \notin Success
    BY DEF NoRow, Success
  <2>3. \A q \in Receipts, k \in Keys : rows'[q][k] = IF q = r THEN NoRow ELSE rows[q][k]
    BY <1>t, <2>1
  <2> QED BY <2>1, <2>2, <2>3, MemoryKeptByOthers
<1> QED BY <1>2, <1>3, <1>4 DEF UserStep

(* A restart of the API and the passing of time leave the ids in the rows, and
   make no row a success. *)
LEMMA RecoveryKeepsRows ==
    ASSUME rows \in [Receipts -> [Keys -> Row]], TimePasses \/ ApiRestart,
           NEW r \in Receipts, NEW k \in Keys
    PROVE  /\ rows'[r][k].created = rows[r][k].created
           /\ rows'[r][k].status \in Success => rows[r][k].status \in Success
<1>1. PICK x \in Row : x = rows[r][k]
  OBVIOUS
<1>2. /\ ResetRow(x).created = x.created /\ [x EXCEPT !.fresh = FALSE].created = x.created
      /\ ResetRow(x).status \in {x.status, "FAILED"}
      /\ [x EXCEPT !.fresh = FALSE].status = x.status
  BY DEF ResetRow, Row
<1>3. TimePasses => rows'[r][k] = [x EXCEPT !.fresh = FALSE]
  BY <1>1 DEF TimePasses
<1>4. ApiRestart => rows'[r][k] = ResetRow(x)
  BY <1>1 DEF ApiRestart
<1>5. "FAILED" \notin Success
  BY DEF Success
<1> QED BY <1>1, <1>2, <1>3, <1>4, <1>5

LEMMA MemoryOutside ==
    ASSUME TInv, MInv,
           \/ TimePasses \/ ApiRestart
           \/ \E t \in TxnIds : UserDeletesTxn(t)
           \/ \E s \in Settings : OperatorSets(s)
    PROVE  MInv'
<1>t. rows \in [Receipts -> [Keys -> Row]] /\ txn \in [TxnIds -> Txn]
  BY DEF TInv, TypeOK
<1>1. ASSUME TimePasses \/ ApiRestart PROVE MInv'
  <2>1. UNCHANGED <<worker, txn>>
    BY <1>1 DEF TimePasses, ApiRestart
  <2>2. \A r \in Receipts, k \in Keys :
          /\ rows'[r][k].created = rows[r][k].created
          /\ rows'[r][k].status \in Success => rows[r][k].status \in Success
    BY <1>1, <1>t, RecoveryKeepsRows
  <2> QED BY <2>1, <2>2, MemoryKeptByOthers
<1>2. ASSUME NEW t \in TxnIds, UserDeletesTxn(t) PROVE MInv'
  <2>1. UNCHANGED <<rows, worker>>
    BY <1>2 DEF UserDeletesTxn
  <2>2. \A u \in TxnIds : \/ txn'[u].state = txn[u].state
                          \/ txn[u].state = "live" /\ txn'[u].state = "deleted"
    BY <1>2, <1>t DEF UserDeletesTxn, Txn
  <2> QED BY <2>1, <2>2, MemoryKeptByOthers
<1>3. ASSUME NEW s \in Settings, OperatorSets(s) PROVE MInv'
  BY <1>3, MemoryKeptByOthers DEF OperatorSets
<1> QED BY <1>1, <1>2, <1>3

(* A step of the one job that writes no row: what it now remembers is right. *)
LEMMA MemoryOfJob ==
    ASSUME OneWorker, MInv, NEW w \in Workers, UNCHANGED rows,
           \A t \in TxnIds : txn[t].state # "absent" => txn'[t].state # "absent",
           Named(worker[w].created)',
           /\ worker'[w].pc # "idle"
           /\ worker'[w].pc = "planned" \/ worker'[w].wiped \/ worker'[w].created # None
           => ~ Live(Earlier(w))',
           worker'[w].pc # "idle" /\ worker'[w].prior = None => ~ HasSuccess(worker'[w].r),
           /\ worker'[w].pc = "planned" /\ worker'[w].plan = "create"
           /\ ~ worker'[w].key.force
           => worker'[w].prior = None
    PROVE  MInv'
<1>1. \A v \in Workers : v = w
  BY DEF OneWorker
<1>2. NamedOK'
  <2>1. \A r \in Receipts, k \in Keys : Named(rows[r][k].created)'
    BY DEF MInv, NamedOK, Named
  <2>2. \A v \in Workers : Named(worker[v].created)'
    BY <1>1
  <2> QED BY <2>1, <2>2 DEF NamedOK, Named
<1>3. LookedOK'
  BY <1>1 DEF LookedOK
<1>4. \A r : HasSuccess(r)' = HasSuccess(r)
  BY DEF HasSuccess
<1>5. PriorOK'
  BY <1>1, <1>4 DEF PriorOK
<1> QED BY <1>2, <1>3, <1>5 DEF MInv


LEMMA MemoryJob ==
    ASSUME OneWorker, TInv, MInv, NEW w \in Workers,
           \/ JobRejected(w) \/ JobLoaded(w) \/ ClaimSkipped(w) \/ RowVanished(w) \/ Crash(w)
           \/ FoundOwn(w) \/ PlanUpdate(w) \/ PriorGone(w) \/ PlanMatch(w) \/ PlanCreate(w)
    PROVE  MInv'
<1>t. worker \in [Workers -> WorkerState]
  BY DEF TInv, TypeOK
<1>1. ASSUME JobRejected(w) PROVE MInv'
  <2>1. UNCHANGED <<rows, worker, txn>>
    BY <1>1 DEF JobRejected
  <2> QED BY <2>1, MemoryKeptByOthers
<1>2. ASSUME JobLoaded(w) PROVE MInv'
  <2> DEFINE r == Head(queue).r
             k == Key(ver[r], Head(queue).mode)
             quiet == Seen(rows[r][k]) # "absent" /\ status[r] = "SYNCING"
  <2>1. PICK p \in PriorSuccess(r) : worker' = [worker EXCEPT ![w] =
                  [IdleWorker EXCEPT !.pc = "loaded", !.r = r, !.key = k,
                                     !.draft = draft[r], !.seen = Seen(rows[r][k]),
                                     !.prior = p, !.setting = setting,
                                     !.unwritten = quiet]]
    BY <1>2 DEF JobLoaded
  <2>2. UNCHANGED <<rows, txn>>
    BY <1>2 DEF JobLoaded
  <2>3. p = None => ~ HasSuccess(r)
    BY NoneIsNoKey DEF PriorSuccess, HasSuccess
  <2>4. /\ worker'[w].pc = "loaded" /\ worker'[w].created = None /\ ~ worker'[w].wiped
        /\ worker'[w].prior = p /\ worker'[w].r = r
    <3> HIDE DEF r, k, quiet
    <3> QED BY <2>1, <1>t DEF IdleWorker
  <2> HIDE DEF r, k, quiet
  <2> QED BY <2>2, <2>3, <2>4, MemoryOfJob DEF Named
<1>3. ASSUME ClaimSkipped(w) \/ RowVanished(w) \/ Crash(w) PROVE MInv'
  <2>1. UNCHANGED <<rows, txn>> /\ Stop(w)
    BY <1>3 DEF ClaimSkipped, RowVanished, Crash
  <2>2. worker'[w].pc = "idle" /\ worker'[w].created = None
    BY <2>1, <1>t DEF Stop, IdleWorker
  <2> QED BY <2>1, <2>2, MemoryOfJob DEF Named
<1>4. ASSUME FoundOwn(w) PROVE MInv'
  <2>1. /\ UNCHANGED <<rows, txn>> /\ worker[w].pc = "claimed"
        /\ worker' = [worker EXCEPT ![w].pc = "written", ![w].result = "CREATED",
                                    ![w].target = Earlier(w)]
    BY <1>4 DEF FoundOwn
  <2>2. /\ worker'[w].pc = "written" /\ worker'[w].created = worker[w].created
        /\ worker'[w].wiped = worker[w].wiped /\ worker'[w].prior = worker[w].prior
        /\ worker'[w].r = worker[w].r /\ worker'[w].key = worker[w].key
    BY <2>1, <1>t DEF WorkerState
  <2>3. worker'[w].wiped \/ worker'[w].created # None => ~ Live(Earlier(w))'
    BY <2>1, <2>2 DEF MInv, LookedOK, Earlier, Live
  <2>4. Named(worker[w].created)'
    BY <2>1, <2>2 DEF MInv, NamedOK, Named
  <2>5. worker'[w].prior = None => ~ HasSuccess(worker'[w].r)
    BY <2>1, <2>2 DEF MInv, PriorOK
  <2> QED BY <2>1, <2>2, <2>3, <2>4, <2>5, MemoryOfJob
<1>5. ASSUME PriorGone(w) PROVE MInv'
  <2> DEFINE gone == (Earlier(w) # None)
             what == Content(worker[w].draft)
  <2>1. /\ UNCHANGED <<rows, txn>> /\ worker[w].pc = "claimed" /\ ~ Live(Earlier(w))
        /\ worker[w].prior # None
        /\ worker' = [worker EXCEPT ![w].pc = "written", ![w].result = "FAILED",
                                    ![w].structure = FALSE, ![w].wiped = gone,
                                    ![w].sent = what]
    BY <1>5 DEF PriorGone, UpdatesPrior
  <2>2. /\ worker'[w].pc = "written" /\ worker'[w].created = worker[w].created
        /\ worker'[w].prior = worker[w].prior
        /\ worker'[w].r = worker[w].r /\ worker'[w].key = worker[w].key
    <3> HIDE DEF gone, what
    <3> QED BY <2>1, <1>t DEF WorkerState
  <2>3. ~ Live(Earlier(w))'
    BY <2>1, <2>2 DEF Earlier, Live
  <2>4. Named(worker[w].created)'
    BY <2>1, <2>2 DEF MInv, NamedOK, Named
  <2> QED BY <2>1, <2>2, <2>3, <2>4, MemoryOfJob
<1>6. ASSUME PlanUpdate(w) \/ PlanMatch(w) \/ PlanCreate(w) PROVE MInv'
  <2>1. PICK plan, t : Planned(w, plan, t) /\ (plan = "create" => PlanCreate(w))
    BY <1>6 DEF PlanUpdate, PlanMatch, PlanCreate
  <2> DEFINE what == Content(IF plan = "adopt" THEN txn[t] ELSE worker[w].draft)
             gone == (Earlier(w) # None)
  <2>2. worker' = [worker EXCEPT ![w].pc = "planned", ![w].plan = plan,
                                 ![w].target = t, ![w].wiped = gone, ![w].sent = what]
    BY <2>1 DEF Planned
  <2>3. UNCHANGED <<rows, txn>> /\ worker[w].pc = "claimed" /\ ~ Live(Earlier(w))
    BY <1>6 DEF PlanUpdate, PlanMatch, PlanCreate, UpdatesPrior, MatchesOrCreates
  <2>4. plan = "create" => worker[w].prior = None \/ worker[w].key.force
    BY <2>1 DEF PlanCreate, MatchesOrCreates
  <2>5. /\ worker'[w].pc = "planned" /\ worker'[w].created = worker[w].created
        /\ worker'[w].prior = worker[w].prior /\ worker'[w].plan = plan
        /\ worker'[w].r = worker[w].r /\ worker'[w].key = worker[w].key
    <3> HIDE DEF gone, what
    <3> QED BY <2>2, <1>t DEF WorkerState
  <2>6. ~ Live(Earlier(w))'
    BY <2>3, <2>5 DEF Earlier, Live
  <2>7. Named(worker[w].created)'
    BY <2>3, <2>5 DEF MInv, NamedOK, Named
  <2>8. worker'[w].prior = None => ~ HasSuccess(worker'[w].r)
    BY <2>3, <2>5 DEF MInv, PriorOK
  <2> QED BY <2>3, <2>4, <2>5, <2>6, <2>7, <2>8, MemoryOfJob
<1> QED BY <1>1, <1>2, <1>3, <1>4, <1>5, <1>6

(* The two calls that write to a transaction that is there leave its state. *)
LEMMA WriteKeepsStates ==
    ASSUME txn \in [TxnIds -> Txn], NEW w, NEW structure, NEW answered,
           Update(w, structure, answered) \/ Adopt(w, structure, answered), NEW t \in TxnIds
    PROVE  txn'[t].state = txn[t].state
<1>t. txn[t] \in Txn
  OBVIOUS
<1>1. ASSUME NEW u, NEW d, NEW r, txn' = [txn EXCEPT ![u] = PutTxn(@, d, r)]
      PROVE  txn'[t].state = txn[t].state
  <2>1. txn'[t] = IF t = u THEN PutTxn(txn[t], d, r) ELSE txn[t]
    BY <1>1
  <2>2. PutTxn(txn[t], d, r).state = txn[t].state
    BY <1>t DEF PutTxn, Txn
  <2> QED BY <2>1, <2>2
<1>2. ASSUME NEW u, NEW r, txn' = [txn EXCEPT ![u].marks = @ \cup {r}]
      PROVE  txn'[t].state = txn[t].state
  <2>1. txn'[t] = IF t = u THEN [txn[t] EXCEPT !.marks = @ \cup {r}] ELSE txn[t]
    BY <1>2
  <2>2. [txn[t] EXCEPT !.marks = @ \cup {r}].state = txn[t].state
    BY <1>t DEF Txn
  <2> QED BY <2>1, <2>2
<1>3. CASE Update(w, structure, answered)
  BY <1>1, <1>3 DEF Update
<1>4. CASE Adopt(w, structure, answered)
  BY <1>2, <1>4 DEF Adopt
<1> QED BY <1>3, <1>4

LEMMA MemoryWrite ==
    ASSUME OneWorker, TInv, MInv, NEW w \in Workers, WriteStep(w)
    PROVE  MInv'
<1>t. /\ worker \in [Workers -> WorkerState] /\ txn \in [TxnIds -> Txn]
      /\ worker[w].pc = "planned" /\ UNCHANGED rows
  BY DEF TInv, TypeOK, WriteStep, Update, Adopt, CreateAccepted, TargetVanished,
         ConflictResolved, ConflictUnresolved, Conflict, Creating
<1>e. worker[w].r \in Receipts /\ worker[w].key \in Keys /\ ~ Live(Earlier(w))
      /\ Named(Earlier(w))
  BY <1>t DEF TInv, WorkerOK, MInv, LookedOK, NamedOK, Earlier
<1>p. worker[w].prior = None => ~ HasSuccess(worker[w].r)
  BY <1>t DEF MInv, PriorOK
<1>0. ASSUME NEW c, Named(c)',
             \A t \in TxnIds : txn[t].state # "absent" => txn'[t].state # "absent",
             ~ Live(Earlier(w))',
             worker'[w].pc \in {"written", "failing"}, worker'[w].created = c,
             worker'[w].prior = worker[w].prior, worker'[w].r = worker[w].r
      PROVE  MInv'
  BY <1>t, <1>p, <1>0, MemoryOfJob
<1>1. ASSUME NEW structure \in BOOLEAN, NEW answered \in BOOLEAN,
             Update(w, structure, answered) \/ Adopt(w, structure, answered)
      PROVE  MInv'
  <2>1. /\ worker'[w].pc \in {"written", "failing"}
        /\ worker'[w].created = worker[w].created /\ worker'[w].key = worker[w].key
        /\ worker'[w].prior = worker[w].prior /\ worker'[w].r = worker[w].r
    BY <1>1, <1>t DEF Update, Adopt, WorkerState
  <2>2. \A t \in TxnIds : txn'[t].state = txn[t].state
    BY <1>1, <1>t, WriteKeepsStates
  <2>3. Earlier(w)' = Earlier(w)
    BY <2>1, <1>t DEF Earlier
  <2>4. ~ Live(Earlier(w))'
    BY <2>2, <2>3, <1>e DEF Live
  <2>5. Named(worker[w].created)
    BY DEF MInv, NamedOK
  <2>6. Named(worker[w].created)'
    BY <2>1, <2>2, <2>5 DEF Named
  <2> QED BY <1>0, <1>e, <2>1, <2>2, <2>4, <2>6
<1>2. ASSUME NEW answered \in BOOLEAN, CreateAccepted(w, answered) PROVE MInv'
  <2> DEFINE made(t) == [state |-> "live", acct |-> worker[w].draft.acct,
                         sig |-> worker[w].draft.sig,
                         imp |-> ImportId(worker[w].r, worker[w].draft),
                         marks |-> {worker[w].r}]
  <2>1. PICK t \in FreshIds :
           /\ txn' = [txn EXCEPT ![t] = made(t)]
           /\ worker' = [worker EXCEPT ![w].pc = IF answered THEN "written" ELSE "failing",
                                    ![w].target = IF answered THEN t ELSE None,
                                    ![w].created = IF answered THEN t ELSE None,
                                    ![w].result = "CREATED"]
    BY <1>2 DEF CreateAccepted
  <2>2. t \in TxnIds /\ txn[t].state = "absent"
    BY DEF FreshIds
  <2>3. /\ worker'[w].pc \in {"written", "failing"}
        /\ worker'[w].created \in {t, None} /\ worker'[w].key = worker[w].key
        /\ worker'[w].prior = worker[w].prior /\ worker'[w].r = worker[w].r
    BY <2>1, <1>t DEF WorkerState
  <2>4. txn'[t].state = "live" /\ \A u \in TxnIds \ {t} : txn'[u] = txn[u]
    BY <2>1, <2>2, <1>t
  <2>5. Earlier(w)' = Earlier(w) /\ Earlier(w) # t
    BY <2>2, <2>3, <1>t, <1>e DEF Earlier, Named
  <2>6. ~ Live(Earlier(w))' /\ Named(worker[w].created)'
    BY <2>2, <2>3, <2>4, <2>5, <1>e DEF Live, Named
  <2> QED BY <1>0, <1>e, <2>2, <2>3, <2>4, <2>5, <2>6
<1>3. ASSUME TargetVanished(w) \/ ConflictUnresolved(w) PROVE MInv'
  <2>1. /\ worker'[w].pc = "failing" /\ UNCHANGED txn
        /\ worker'[w].created = worker[w].created /\ worker'[w].key = worker[w].key
        /\ worker'[w].prior = worker[w].prior /\ worker'[w].r = worker[w].r
    BY <1>3, <1>t DEF TargetVanished, ConflictUnresolved, WorkerState
  <2>2. Earlier(w)' = Earlier(w)
    BY <2>1, <1>t DEF Earlier
  <2>3. ~ Live(Earlier(w))' /\ Named(worker[w].created)'
    BY <2>1, <2>2, <1>e DEF Live, MInv, NamedOK, Named
  <2> QED BY <1>0, <1>e, <2>1, <2>2, <2>3
<1>4. ASSUME ConflictResolved(w) PROVE MInv'
  <2>1. PICK t \in Own(worker[w].r) :
           worker' = [worker EXCEPT ![w].pc = "written", ![w].target = t,
                                    ![w].created = t, ![w].result = "CREATED"]
    BY <1>4 DEF ConflictResolved
  <2>2. t \in TxnIds /\ txn[t].state = "live" /\ UNCHANGED txn
    BY <1>4 DEF Own, Live, ConflictResolved
  <2>3. /\ worker'[w].pc = "written"
        /\ worker'[w].created = t /\ worker'[w].key = worker[w].key
        /\ worker'[w].prior = worker[w].prior /\ worker'[w].r = worker[w].r
    BY <2>1, <1>t DEF WorkerState
  <2>4. Earlier(w)' = Earlier(w)
    BY <2>3, <1>t DEF Earlier
  <2>5. ~ Live(Earlier(w))' /\ Named(t)'
    BY <2>2, <2>4, <1>e DEF Live, Named
  <2> QED BY <1>0, <1>e, <2>2, <2>3, <2>4, <2>5
<1> QED BY <1>1, <1>2, <1>3, <1>4 DEF WriteStep

(* The id a job writes is the one its row has, unless that transaction is gone. *)
LEMMA CreatedNowIs ==
    ASSUME TInv, MInv, NEW w \in Workers, worker[w].pc # "idle"
    PROVE  LET now == CreatedNow(rows[worker[w].r][worker[w].key], w)
           IN  Named(now) /\ (now = Earlier(w) \/ ~ Live(Earlier(w)))
<1>1. worker[w].r \in Receipts /\ worker[w].key \in Keys
  BY DEF TInv, WorkerOK
<1>2. Named(Earlier(w)) /\ Named(worker[w].created) /\ Named(None)
  BY <1>1 DEF MInv, NamedOK, Earlier, Named
<1>3. worker[w].wiped \/ worker[w].created # None => ~ Live(Earlier(w))
  BY DEF MInv, LookedOK
<1> QED BY <1>2, <1>3 DEF CreatedNow, Earlier

(* The four steps that write a row: which one, and what becomes of its id. *)
LEMMA RowWritten ==
    ASSUME TInv, MInv, NEW w \in Workers,
           ClaimRow(w) \/ DryRun(w) \/ Commit(w) \/ Fail(w)
    PROVE  /\ worker[w].pc # "idle" /\ UNCHANGED txn
           /\ worker[w].r \in Receipts /\ worker[w].key \in Keys
           /\ \A q \in Receipts, j \in Keys :
                q # worker[w].r \/ j # worker[w].key => rows'[q][j] = rows[q][j]
           /\ Named(rows'[worker[w].r][worker[w].key].created)
           /\ LET new == rows'[worker[w].r][worker[w].key]
              IN  \/ new.created = Earlier(w) /\ new.status \notin Success /\ ClaimRow(w)
                  \/ worker'[w].pc = "idle" /\ worker'[w].created = None /\
                     (new.created = Earlier(w) \/ ~ Live(Earlier(w)) \/ new.status = "DRY_RUN")
<1> DEFINE r == worker[w].r
           k == worker[w].key
           d == worker[w].draft
           row == rows[r][k]
<1>b. worker[w].pc # "idle" /\ UNCHANGED txn
  BY DEF ClaimRow, DryRun, Commit, Fail
<1>t. /\ r \in Receipts /\ k \in Keys /\ row \in Row
      /\ worker \in [Workers -> WorkerState] /\ worker[w] \in WorkerState
      /\ rows \in [Receipts -> [Keys -> Row]]
  BY <1>b, BusyType DEF TInv, TypeOK
<1>i. Stop(w) => worker'[w].pc = "idle" /\ worker'[w].created = None
  BY <1>t DEF Stop, IdleWorker
<1>e. Earlier(w) = row.created /\ Named(row.created) /\ Named(None)
  BY <1>t DEF Earlier, MInv, NamedOK, Named
<1>c. /\ Named(CreatedNow(row, w))
      /\ CreatedNow(row, w) = Earlier(w) \/ ~ Live(Earlier(w))
  BY <1>b, CreatedNowIs
<1>x. ASSUME NEW x, rows' = [rows EXCEPT ![r][k] = x]
      PROVE  /\ rows'[r][k] = x
             /\ \A q \in Receipts, j \in Keys : q # r \/ j # k => rows'[q][j] = rows[q][j]
  BY <1>t, <1>x
<1>1. CASE ClaimRow(w)
  <2> DEFINE x == ClaimedRow(row, d)
  <2>1. rows' = [rows EXCEPT ![r][k] = x]
    BY <1>1 DEF ClaimRow
  <2>2. x.created = row.created /\ x.status \notin Success
    <3> HIDE DEF r, k, row
    <3> QED BY <1>t DEF ClaimedRow, Row, Success
  <2> HIDE DEF x
  <2>3. /\ rows'[r][k] = x
        /\ \A q \in Receipts, j \in Keys : q # r \/ j # k => rows'[q][j] = rows[q][j]
    BY <1>x, <2>1
  <2> QED BY <1>1, <1>b, <1>t, <1>e, <2>2, <2>3
<1>2. CASE DryRun(w)
  <2> DEFINE x == DryRow(row, d)
  <2>1. rows' = [rows EXCEPT ![r][k] = x] /\ Stop(w)
    BY <1>2 DEF DryRun
  <2>2. x.created = None /\ x.status = "DRY_RUN"
    <3> HIDE DEF r, k, row
    <3> QED BY <1>t DEF DryRow, Row
  <2> HIDE DEF x
  <2>3. /\ rows'[r][k] = x
        /\ \A q \in Receipts, j \in Keys : q # r \/ j # k => rows'[q][j] = rows[q][j]
    BY <1>x, <2>1
  <2> QED BY <1>b, <1>t, <1>e, <1>i, <2>1, <2>2, <2>3
<1>3. CASE Fail(w)
  <2> DEFINE x == FailedRow(row, w)
  <2>1. rows' = [rows EXCEPT ![r][k] = x] /\ Stop(w)
    BY <1>3 DEF Fail
  <2>2. x.created = CreatedNow(row, w)
    <3> HIDE DEF r, k, row
    <3> QED BY <1>t DEF FailedRow, Row
  <2> HIDE DEF x
  <2>3. /\ rows'[r][k] = x
        /\ \A q \in Receipts, j \in Keys : q # r \/ j # k => rows'[q][j] = rows[q][j]
    BY <1>x, <2>1
  <2> QED BY SMTT(30), <1>b, <1>t, <1>c, <1>i, <2>1, <2>2, <2>3
<1>4. CASE Commit(w)
  <2> DEFINE x == CommittedRow(row, w)
  <2>1. rows' = [rows EXCEPT ![r][k] = x] /\ Stop(w)
    BY <1>4 DEF Commit
  <2>2. x.created = CreatedNow(row, w)
    <3> HIDE DEF r, k, row
    <3> QED BY <1>t DEF CommittedRow, Row
  <2> HIDE DEF x
  <2>3. /\ rows'[r][k] = x
        /\ \A q \in Receipts, j \in Keys : q # r \/ j # k => rows'[q][j] = rows[q][j]
    BY <1>x, <2>1
  <2> QED BY SMTT(30), <1>b, <1>t, <1>c, <1>i, <2>1, <2>2, <2>3
<1> QED BY <1>1, <1>2, <1>3, <1>4

LEMMA MemoryRow ==
    ASSUME OneWorker, TInv, MInv, NEW w \in Workers,
           ClaimRow(w) \/ DryRun(w) \/ Commit(w) \/ Fail(w)
    PROVE  MInv'
<1> DEFINE r == worker[w].r
           k == worker[w].key
           new == rows'[r][k]
<1>1. \A v \in Workers : v = w
  BY DEF OneWorker
<1>2. /\ worker[w].pc # "idle" /\ UNCHANGED txn /\ r \in Receipts /\ k \in Keys
      /\ \A q \in Receipts, j \in Keys : q # r \/ j # k => rows'[q][j] = rows[q][j]
      /\ Named(new.created)
      /\ \/ new.created = Earlier(w) /\ new.status \notin Success /\ ClaimRow(w)
         \/ worker'[w].pc = "idle" /\ worker'[w].created = None
  BY RowWritten
<1>3. \A t : (Named(t)' <=> Named(t)) /\ (Live(t)' <=> Live(t))
  BY <1>2 DEF Named, Live
<1> HIDE DEF r, k, new
<1>4. \A q \in Receipts, j \in Keys : Named(rows'[q][j].created)
  BY <1>2 DEF MInv, NamedOK, new
<1>5. CASE worker'[w].pc = "idle" /\ worker'[w].created = None
  <2>1. NamedOK'
    BY <1>1, <1>4, <1>5, <1>2 DEF NamedOK, Named
  <2>2. LookedOK' /\ PriorOK'
    BY <1>1, <1>5 DEF LookedOK, PriorOK
  <2> QED BY <2>1, <2>2 DEF MInv
<1>6. CASE new.created = Earlier(w) /\ new.status \notin Success /\ ClaimRow(w)
  <2>1. worker' = [worker EXCEPT ![w].pc = "claimed"] /\ worker \in [Workers -> WorkerState]
    BY <1>6 DEF ClaimRow, TInv, TypeOK
  <2>2. /\ worker'[w].pc = "claimed" /\ worker'[w].created = worker[w].created
        /\ worker'[w].wiped = worker[w].wiped /\ worker'[w].prior = worker[w].prior
        /\ worker'[w].r = r /\ worker'[w].key = k
    BY <2>1 DEF WorkerState, r, k
  <2>3. NamedOK'
    <3>1. \A v \in Workers : Named(worker'[v].created)
      BY <1>1, <2>2 DEF MInv, NamedOK
    <3> QED BY <1>2, <1>4, <3>1 DEF NamedOK, Named
  <2>4. LookedOK'
    <3>1. Earlier(w)' = Earlier(w)
      BY <1>6, <2>2 DEF Earlier, new
    <3>2. worker'[w].wiped \/ worker'[w].created # None => ~ Live(Earlier(w))
      BY <1>2, <2>2 DEF MInv, LookedOK
    <3>3. Live(Earlier(w))' => Live(Earlier(w))
      BY <1>2, <3>1 DEF Live
    <3> QED BY <1>1, <2>2, <3>2, <3>3 DEF LookedOK
  <2>5. PriorOK'
    <3> DEFINE synced(q) == \E j \in Keys : rows'[q][j].status \in Success
    <3>0. rows'[r][k].status \notin Success
      BY <1>6 DEF new
    <3>1. synced(r) => HasSuccess(r)
      BY <1>2, <3>0 DEF HasSuccess
    <3>p. HasSuccess(worker[w].r)' => synced(worker'[w].r)
      BY DEF HasSuccess
    <3>2. worker[w].prior = None => ~ HasSuccess(r)
      BY <1>2 DEF MInv, PriorOK, r
    <3> HIDE DEF synced
    <3>3. worker'[w].prior = None => ~ HasSuccess(worker[w].r)'
      BY <2>2, <3>1, <3>2, <3>p
    <3> QED BY <1>1, <2>2, <3>3 DEF PriorOK
  <2> QED BY <2>3, <2>4, <2>5 DEF MInv
<1> QED BY <1>2, <1>5, <1>6

MemInv == TInv /\ MInv

LEMMA MemoryNext == ASSUME OneWorker PROVE MemInv /\ [Next]_vars => MemInv'
<1> SUFFICES ASSUME MemInv, [Next]_vars PROVE MemInv'
  OBVIOUS
<1>0. TInv /\ MInv
  BY DEF MemInv
<1>1. TInv'
  BY <1>0, NextType
<1>2. MInv'
  <2>1. CASE UNCHANGED vars
    BY <1>0, <2>1, MemoryKeptByOthers DEF vars
  <2>2. CASE Next
    BY <1>0, <2>2, MemoryUser, MemoryOutside, MemoryJob, MemoryWrite, MemoryRow
       DEF Next, WorkerStep
  <2> QED BY <2>1, <2>2
<1> QED BY <1>1, <1>2 DEF MemInv

(* The ids in the rows change only where a job ends or a receipt goes. *)
LEMMA EvidenceStep ==
    ASSUME MemInv, Next, NEW r \in Receipts, NEW k \in Keys,
           rows'[r][k].created # rows[r][k].created
    PROVE  \/ ~ Live(rows[r][k].created)
           \/ rows'[r][k].status = "DRY_RUN"
           \/ life'[r] = "purged"
<1>t. TInv /\ MInv /\ rows \in [Receipts -> [Keys -> Row]]
      /\ life \in [Receipts -> {"live", "deleted", "purged"}]
  BY DEF MemInv, TInv, TypeOK
<1>1. ASSUME NEW q \in Receipts, UserStep(q) PROVE life'[r] = "purged"
  <2>1. Purge(q) \/ ConfirmDuplicate(q) \/ UNCHANGED rows
    BY ZenonT(40), <1>1 DEF UserStep, Click, ClickBlocked, ClickClaimed, TakeBack, Edit, SaveDraft, Twin,
                EditTwin, ResetToSynced, DeleteReceipt, RestoreReceipt, OverrideDuplicate
  <2>2. Remove(q)
    BY <2>1 DEF Purge, ConfirmDuplicate
  <2>3. q = r
    BY <2>2, <1>t DEF Remove
  <2> QED BY <2>2, <2>3, <1>t DEF Remove
<1>2. ASSUME NEW w \in Workers, ClaimRow(w) \/ DryRun(w) \/ Commit(w) \/ Fail(w)
      PROVE  ~ Live(rows[r][k].created) \/ rows'[r][k].status = "DRY_RUN"
  <2>1. /\ \A q \in Receipts, j \in Keys :
             q # worker[w].r \/ j # worker[w].key => rows'[q][j] = rows[q][j]
        /\ LET new == rows'[worker[w].r][worker[w].key]
           IN  \/ new.created = Earlier(w)
               \/ ~ Live(Earlier(w)) \/ new.status = "DRY_RUN"
    BY <1>t, <1>2, RowWritten
  <2>2. r = worker[w].r /\ k = worker[w].key
    BY <2>1
  <2> QED BY <2>1, <2>2 DEF Earlier
<1>3. ASSUME NEW w \in Workers,
             ~ (ClaimRow(w) \/ DryRun(w) \/ Commit(w) \/ Fail(w)), WorkerStep(w) \/ Crash(w)
      PROVE  FALSE
  <2>1. UNCHANGED rows
    BY <1>3 DEF WorkerStep, JobRejected, JobLoaded, ClaimSkipped, FoundOwn, PlanUpdate,
                PriorGone, PlanMatch, PlanCreate, WriteStep, Update, Adopt, CreateAccepted,
                TargetVanished, ConflictResolved, ConflictUnresolved, RowVanished, Crash
  <2> QED BY <2>1
<1>4. ASSUME TimePasses \/ ApiRestart PROVE FALSE
  BY <1>4, <1>t, RecoveryKeepsRows
<1>5. ASSUME (\E t \in TxnIds : UserDeletesTxn(t)) \/ \E s \in Settings : OperatorSets(s)
      PROVE  FALSE
  BY <1>5 DEF UserDeletesTxn, OperatorSets
<1> QED BY <1>1, <1>2, <1>3, <1>4, <1>5 DEF Next, WorkerStep

(* With one worker process, as deployed, the id of a transaction that is still
   in YNAB is never lost from the sync row that recorded it: not by a retry, a
   failure, a recovery or an edit, only by a dry run or with the receipt. *)
THEOREM RecordedIdsAreKept == ASSUME OneWorker PROVE Spec => EvidenceKept
<1>1. Init => MemInv
  BY InitType, MemoryInit DEF MemInv
<1>2. MemInv /\ [Next]_vars => MemInv'
  BY MemoryNext
<1>3. MemInv /\ [Next]_vars =>
        [\A r \in Receipts, k \in Keys :
           LET old == rows[r][k].created
           IN  old # None /\ rows'[r][k].created # old =>
                 \/ ~ Live(old)
                 \/ rows'[r][k].status = "DRY_RUN"
                 \/ life'[r] = "purged"]_vars
  BY EvidenceStep
<1> QED BY <1>1, <1>2, <1>3, PTL DEF Spec, EvidenceKept

(* Only the POST of a job that plans to create brings a transaction about. *)
LEMMA CreatedBy ==
    ASSUME MemInv, Next, NEW t \in TxnIds, txn[t].state = "absent", txn'[t].state # "absent"
    PROVE  \E w \in Workers : Creating(w)
<1>t. TInv /\ txn \in [TxnIds -> Txn]
  BY DEF MemInv, TInv, TypeOK
<1>1. ASSUME NEW q \in Receipts, UserStep(q) PROVE FALSE
  BY <1>1, UserKeepsTxn
<1>2. ASSUME NEW w \in Workers, WorkerStep(w) \/ Crash(w) PROVE Creating(w)
  <2>1. UNCHANGED txn \/ WriteStep(w)
    BY <1>2 DEF WorkerStep, JobRejected, JobLoaded, ClaimSkipped, ClaimRow, DryRun, FoundOwn,
                PlanUpdate, PriorGone, PlanMatch, PlanCreate, Commit, Fail, RowVanished, Crash,
                receiptVars
  <2>2. ASSUME NEW structure \in BOOLEAN, NEW answered \in BOOLEAN,
               Update(w, structure, answered) \/ Adopt(w, structure, answered)
        PROVE  FALSE
    BY <2>2, <1>t, WriteKeepsStates
  <2> QED BY <2>1, <2>2 DEF WriteStep, CreateAccepted, TargetVanished, ConflictResolved,
                            ConflictUnresolved
<1>3. ASSUME NEW u \in TxnIds, UserDeletesTxn(u) PROVE FALSE
  BY <1>3, <1>t DEF UserDeletesTxn, Txn
<1>4. ASSUME TimePasses \/ ApiRestart \/ \E s \in Settings : OperatorSets(s) PROVE FALSE
  BY <1>4 DEF TimePasses, ApiRestart, OperatorSets
<1> QED BY <1>1, <1>2, <1>3, <1>4 DEF Next

(* With one worker process, as deployed, a job that was not told to force
   creates nothing for a receipt that was synced before, whatever happened to
   the receipt, its rows and its transactions since the job read them. *)
THEOREM NoRecreate == ASSUME OneWorker PROVE Spec => NoSilentRecreate
<1>1. Init => MemInv
  BY InitType, MemoryInit DEF MemInv
<1>2. MemInv /\ [Next]_vars => MemInv'
  BY MemoryNext
<1>3. ASSUME MemInv, Next, NEW w \in Workers, worker[w].pc = "planned", ~ worker[w].key.force,
             HasSuccess(worker[w].r), NEW t \in TxnIds, txn[t].state = "absent"
      PROVE  txn'[t].state = "absent"
  <2> SUFFICES ASSUME txn'[t].state # "absent" PROVE FALSE
    OBVIOUS
  <2>1. Creating(w)
    BY <1>3, CreatedBy DEF OneWorker
  <2>2. worker[w].prior = None /\ ~ HasSuccess(worker[w].r)
    BY <1>3, <2>1 DEF Creating, MemInv, MInv, PriorOK
  <2> QED BY <1>3, <2>2
<1>4. MemInv /\ [Next]_vars =>
        [\A w \in Workers :
           worker[w].pc = "planned" /\ ~ worker[w].key.force
           /\ HasSuccess(worker[w].r) =>
             \A t \in TxnIds : txn[t].state = "absent" => txn'[t].state = "absent"]_vars
  BY <1>3
<1> QED BY <1>1, <1>2, <1>4, PTL DEF Spec, NoSilentRecreate
=============================================================================
