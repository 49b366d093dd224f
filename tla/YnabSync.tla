------------------------------ MODULE YnabSync ------------------------------
(***************************************************************************)
(* The YNAB write path: what happens between the user's click on "sync"    *)
(* and the transaction in the budget.                                      *)
(*                                                                         *)
(* Actors: the API handlers of api/receipts.py, the RQ workers running     *)
(* services/ynab.py!sync_receipt_to_ynab, the startup recovery of main.py, *)
(* the user (in the app and in YNAB itself) and the YNAB server, which is  *)
(* external: it refuses a second transaction with the same import_id on    *)
(* the same account (HTTP 409).                                            *)
(*                                                                         *)
(* An API handler is one step, because it is one short database            *)
(* transaction.  A sync job is several: the worker commits its claim, asks *)
(* YNAB, writes to YNAB and commits the result, and everyone else may run  *)
(* between any two of these; the worker may also die there.                *)
(*                                                                         *)
(* Data is reduced to what the properties tell apart.  A validation draft  *)
(* is an account, a signature (payee, date, total: the fields by which the *)
(* code recognises a transaction) and a quality:                           *)
(*    "ready"    valid, and passes the payee and date gates of POST /sync, *)
(*    "ungated"  valid, but one of the two would refuse it,                *)
(*    "invalid"  does not validate.                                        *)
(* The third gate, confirmation of the twin, is not in the draft and is    *)
(* left out: the model lets more clicks through than the code does.        *)
(***************************************************************************)
EXTENDS Integers, Sequences, FiniteSets

CONSTANTS
    Receipts,     \* receipt ids
    Workers,      \* RQ worker processes
    Accounts,     \* YNAB accounts
    Sigs,         \* (payee, date, total) signatures
    TxnIds,       \* ids of YNAB transactions, a set of numbers
    Qualities,    \* qualities a new draft may have
    Modes,        \* [force, allow] pairs a click may carry
    Settings,     \* values of the two YNAB switches: "live", "dry", "off"
    Faults,       \* which of the things that can go wrong do
    MaxVer,       \* bound: validation versions per receipt
    MaxSyncs,     \* bound: accepted sync requests
    None          \* "no receipt", "no transaction"

AllQualities == {"ready", "ungated", "invalid"}
AllModes     == [force : BOOLEAN, allow : BOOLEAN]
AllSettings  == {"live", "dry", "off"}
AllFaults    == {"crash", "lost", "enqueue", "duplicate", "restart"}

ASSUME ConstantsOK ==
    /\ TxnIds \subseteq Nat
    /\ None \notin TxnIds /\ None \notin Receipts
    /\ Qualities \subseteq AllQualities
    /\ Modes \subseteq AllModes
    /\ Settings \subseteq AllSettings
    /\ Faults \subseteq AllFaults
    /\ MaxVer \in Nat \ {0} /\ MaxSyncs \in Nat

VARIABLES
    status,    \* Receipt.status
    life,      \* Receipt.deleted_at: "live", "deleted"; "purged" when the row is gone
    since,     \* Receipt.sync_started_at is within stuck_job_timeout_minutes
    ver,       \* Receipt.latest_validation_version
    draft,     \* the latest Validation
    undo,      \* receipts whose claim an API handler is about to take back
    rows,      \* the ynab_sync table, by receipt and idempotency key
    queue,     \* the RQ sync queue
    worker,    \* what each worker holds in memory
    txn,       \* the transactions YNAB holds
    setting,   \* YNAB_SYNC_ENABLED / YNAB_DRY_RUN
    syncs,     \* number of accepted sync requests (bounds the model)
    clock      \* completed_at of the next sync to complete

receiptVars == <<status, life, since, ver, draft, undo>>
vars == <<status, life, since, ver, draft, undo, rows, queue, worker,
          txn, setting, syncs, clock>>

Statuses    == {"NEEDS_REVIEW", "DUPLICATE_REVIEW", "SYNCING", "SYNCED", "ERROR_SYNC"}
RowStatuses == {"NONE", "RUNNING", "MATCHED_UPDATED", "CREATED", "DRY_RUN", "FAILED"}
Success     == {"MATCHED_UPDATED", "CREATED"}

Payload == [acct : Accounts, sig : Sigs]
Draft   == [acct : Accounts, sig : Sigs, quality : AllQualities]
Content(d) == [acct |-> d.acct, sig |-> d.sig]

(* make_idempotency_key: a job's key is its receipt with the validation and
   the two flags it was called with; rows[r] holds the other three. *)
Keys == [ver : 1..MaxVer, force : BOOLEAN, allow : BOOLEAN]
ASSUME NoneIsNoKey == None \notin Keys

Key(v, m) == [ver |-> v, force |-> m.force, allow |-> m.allow]

TxnRef == TxnIds \cup {None}

Row == [status    : RowStatuses,
        draft     : Draft \cup {None},     \* validation_id
        created   : TxnRef,                \* created_transaction_id
        matched   : TxnRef,                \* matched_transaction_id
        sent      : Payload \cup {None},   \* raw_request
        structure : BOOLEAN,               \* structure_applied
        fresh     : BOOLEAN,               \* started_at is after the stuck cutoff
        done      : Nat]                   \* completed_at

NoRow == [status |-> "NONE", draft |-> None, created |-> None, matched |-> None,
          sent |-> None, structure |-> TRUE, fresh |-> FALSE, done |-> 0]

Txn == [state : {"absent", "live", "deleted"},
        acct  : Accounts \cup {None},
        sig   : Sigs \cup {None},
        imp   : Receipts \cup {None},   \* receipt encoded in import_id
        marks : SUBSET Receipts]        \* [receipt_id:...] markers in the memo

NoTxn == [state |-> "absent", acct |-> None, sig |-> None, imp |-> None, marks |-> {}]

Job == [r : Receipts, mode : AllModes]

PCs == {"idle", "loaded", "claimed", "planned", "written", "failing"}

WorkerState ==
    [pc        : PCs,
     r         : Receipts \cup {None},
     key       : Keys \cup {None},
     draft     : Draft \cup {None},
     seen      : {"absent", "busy", "free"},  \* the sync row when the job read it
     prior     : Keys \cup {None},            \* prior_success_sync
     setting   : AllSettings,
     unwritten : BOOLEAN,                     \* the claim leaves the status alone
     wiped     : BOOLEAN,                     \* created_transaction_id was cleared
     created   : TxnRef,                      \* created_transaction_id, when set
     sent      : Payload \cup {None},         \* raw_request, when set
     plan      : {"update", "adopt", "create"},
     target    : TxnRef,
     result    : RowStatuses,
     structure : BOOLEAN]

IdleWorker ==
    [pc |-> "idle", r |-> None, key |-> None, draft |-> None, seen |-> "absent",
     prior |-> None, setting |-> "live", unwritten |-> FALSE, wiped |-> FALSE,
     created |-> None, sent |-> None, plan |-> "create", target |-> None,
     result |-> "NONE", structure |-> TRUE]

-----------------------------------------------------------------------------
(* Reading the tables *)

HasSuccess(r) == \E k \in Keys : rows[r][k].status \in Success

(* Mutant: an adopted transaction does not count as an earlier sync. *)
PriorCreatedOnly(r) ==
    LET ok == {k \in Keys : rows[r][k].status = "CREATED"}
    IN  IF ok = {} THEN {None}
        ELSE {k \in ok : \A j \in ok : rows[r][j].done <= rows[r][k].done}

(* _latest_successful_sync_for_receipt: a singleton, {None} if there is none *)
PriorSuccess(r) ==
    LET ok == {k \in Keys : rows[r][k].status \in Success}
    IN  IF ok = {} THEN {None}
        ELSE {k \in ok : \A j \in ok : rows[r][j].done <= rows[r][k].done}

(* _last_synced_validation: the sync rows "Restore synced" may copy *)
RestoreSources(r) ==
    LET ok == {k \in Keys : rows[r][k].status \in Success /\ rows[r][k].structure}
    IN  {k \in ok : \A j \in ok : rows[r][j].done <= rows[r][k].done}

TargetOf(row) == IF row.created # None THEN row.created ELSE row.matched

Live(t) == t \in TxnIds /\ txn[t].state = "live"

FreshIds == {t \in TxnIds : /\ txn[t].state = "absent"
                            /\ \A u \in TxnIds : u < t => txn[u].state # "absent"}

-----------------------------------------------------------------------------
(* apply_semantic_duplicate_state.  Whether another receipt collides, and the
   user has not overridden it, is an input (found). *)

MayFind(found) == found => "duplicate" \in Faults

StatusAfterCheck(st, found) ==
    IF found THEN "DUPLICATE_REVIEW"
    ELSE IF st = "DUPLICATE_REVIEW" THEN "NEEDS_REVIEW" ELSE st

-----------------------------------------------------------------------------
(* API handlers *)

(* POST /receipts/{id}/sync, claim part: the gates, the duplicate check and
   the atomic UPDATE ... WHERE status # SYNCING.  A click that finds a sync in
   progress changes nothing. *)
MayClick(r) ==
    /\ life[r] = "live"
    /\ draft[r].quality = "ready"
    /\ setting # "off"

ClickBlocked(r) ==
    /\ MayClick(r)
    /\ MayFind(TRUE)
    /\ status'   = [status EXCEPT ![r] = "DUPLICATE_REVIEW"]
    /\ UNCHANGED <<life, since, ver, draft, undo, rows, queue, worker, txn, setting, syncs, clock>>

(* Mutant: the UPDATE lost its WHERE status # SYNCING. *)
ClaimUnguarded(r) == life[r] = "live"

MayClaim(r) == status[r] # "SYNCING"

(* After the claim commits the job is pushed to Redis.  The push may fail or
   raise after it took effect (the handler then takes the claim back), or the
   API process may die before or after it. *)
ClickClaimed(r, m, pushed, outcome) ==
    /\ MayClick(r)
    /\ MayClaim(r)
    /\ syncs < MaxSyncs
    /\ outcome = "ok" => pushed
    /\ outcome # "ok" => "enqueue" \in Faults
    /\ status'   = [status EXCEPT ![r] = "SYNCING"]
    /\ since'    = [since EXCEPT ![r] = TRUE]
    /\ queue'    = IF pushed THEN Append(queue, [r |-> r, mode |-> m]) ELSE queue
    /\ undo'     = IF outcome = "error" THEN undo \cup {r} ELSE undo
    /\ syncs'    = syncs + 1
    /\ UNCHANGED <<life, ver, draft, rows, worker, txn, setting, clock>>

(* The except branch: back to NEEDS_REVIEW, whatever happened meanwhile. *)
TakeBack(r) ==
    /\ r \in undo
    /\ status' = [status EXCEPT ![r] = "NEEDS_REVIEW"]
    /\ undo'   = undo \ {r}
    /\ UNCHANGED <<life, since, ver, draft, rows, queue, worker, txn, setting, syncs, clock>>

(* POST /receipts/{id}/draft: no check of the status and none of deleted_at.
   changed is payloads_equivalent's verdict, TRUE at least when the account,
   the signature or the quality differ.  Choosing a candidate is the case that
   keeps account, signature and validity, on a receipt not SYNCING. *)
SaveDraft(r, d, changed, found) ==
    /\ life[r] # "purged"
    /\ ver[r] < MaxVer
    /\ d # draft[r] => changed
    /\ found => d.quality # "invalid"
    /\ MayFind(found)
    /\ LET edited == IF changed /\ status[r] \in {"SYNCED", "ERROR_SYNC"}
                     THEN "NEEDS_REVIEW" ELSE status[r]
       IN  status' = [status EXCEPT ![r] = StatusAfterCheck(edited, found)]
    /\ draft' = [draft EXCEPT ![r] = d]
    /\ ver'   = [ver EXCEPT ![r] = @ + 1]
    /\ UNCHANGED <<undo, life, since, rows, queue, worker, txn, setting, syncs, clock>>

(* PUT /receipts/{id}/twin and POST .../twin/confirm: date and total of the
   confirmed sections are copied into a new draft.  Neither the SYNCING status
   nor the duplicates are looked at. *)
EditTwin(r, s, q) ==
    /\ life[r] # "purged"
    /\ ver[r] < MaxVer
    /\ draft'  = [draft EXCEPT ![r] = [@ EXCEPT !.sig = s, !.quality = q]]
    /\ ver'    = [ver EXCEPT ![r] = @ + 1]
    /\ status' = [status EXCEPT ![r] = IF @ \in {"SYNCED", "ERROR_SYNC"}
                                       THEN "NEEDS_REVIEW" ELSE @]
    /\ UNCHANGED <<undo, life, since, rows, queue, worker, txn, setting, syncs, clock>>

(* POST /receipts/{id}/reset-to-synced *)
ResetToSynced(r) ==
    /\ life[r] = "live"
    /\ status[r] # "SYNCING"
    /\ ver[r] < MaxVer
    /\ \E k \in RestoreSources(r) :
         /\ rows[r][k].draft # None
         /\ draft' = [draft EXCEPT ![r] = rows[r][k].draft]
    /\ ver'    = [ver EXCEPT ![r] = @ + 1]
    /\ status' = [status EXCEPT ![r] = "SYNCED"]
    /\ UNCHANGED <<undo, life, since, rows, queue, worker, txn, setting, syncs, clock>>

(* DELETE /receipts/{id}, POST .../restore and the purge of main.py *)
MayDelete(r) ==
    /\ life[r] = "live"
    /\ status[r] \notin {"SYNCED", "SYNCING"}
    /\ ~ HasSuccess(r)

DeleteReceipt(r) ==
    /\ MayDelete(r)
    /\ life' = [life EXCEPT ![r] = "deleted"]
    /\ UNCHANGED <<status, since, ver, draft, undo, rows, queue, worker, txn, setting, syncs, clock>>

RestoreReceipt(r) ==
    /\ life[r] = "deleted"
    /\ life' = [life EXCEPT ![r] = "live"]
    /\ UNCHANGED <<status, since, ver, draft, undo, rows, queue, worker, txn, setting, syncs, clock>>

Remove(r) ==
    /\ life' = [life EXCEPT ![r] = "purged"]
    /\ rows' = [rows EXCEPT ![r] = [k \in Keys |-> NoRow]]
    /\ UNCHANGED <<status, since, ver, draft, undo, queue, worker, txn, setting, syncs, clock>>

Purge(r) == life[r] = "deleted" /\ Remove(r)

(* POST .../duplicate/confirm deletes the receipt at once; .../override keeps it *)
ConfirmDuplicate(r) ==
    /\ life[r] # "purged"
    /\ status[r] = "DUPLICATE_REVIEW"
    /\ Remove(r)

OverrideDuplicate(r) ==
    /\ life[r] # "purged"
    /\ draft[r].quality # "invalid"
    /\ status'   = [status EXCEPT ![r] = StatusAfterCheck(@, FALSE)]
    /\ UNCHANGED <<life, since, ver, draft, undo, rows, queue, worker, txn, setting, syncs, clock>>

-----------------------------------------------------------------------------
(* The sync job: sync_receipt_to_ynab, one step per database or YNAB call *)

(* The session writes the attributes the job assigned and no others, so the job
   carries only what it will write; an assignment that leaves a loaded value as
   it was is not written either (unwritten).

   The job is taken from the queue and the receipt, its latest draft and its
   sync rows are read.  A receipt that is gone, an invalid draft or a blocking
   duplicate end the job by an exception before anything is claimed.  There is
   no check of deleted_at, and none of the gates MayClick applied. *)
JobRejected(w) ==
    /\ worker[w].pc = "idle"
    /\ queue # <<>>
    /\ LET r == Head(queue).r
       IN  \/ /\ life[r] = "purged" \/ draft[r].quality = "invalid"
              /\ UNCHANGED status
           \/ /\ life[r] # "purged" /\ draft[r].quality # "invalid"
              /\ MayFind(TRUE)
              /\ status'   = [status EXCEPT ![r] = "DUPLICATE_REVIEW"]
    /\ queue' = Tail(queue)
    /\ UNCHANGED <<life, since, ver, draft, undo, rows, worker, txn, setting, syncs, clock>>

Seen(row) == IF row.status = "NONE" THEN "absent"
             ELSE IF row.status = "RUNNING" /\ row.fresh THEN "busy" ELSE "free"

JobLoaded(w) ==
    /\ worker[w].pc = "idle"
    /\ queue # <<>>
    /\ LET r == Head(queue).r
           k == Key(ver[r], Head(queue).mode)
       IN  /\ life[r] # "purged"
           /\ draft[r].quality # "invalid"
           /\ \E p \in PriorSuccess(r) :
                worker' = [worker EXCEPT ![w] =
                    [IdleWorker EXCEPT !.pc = "loaded", !.r = r, !.key = k,
                                       !.draft = draft[r], !.seen = Seen(rows[r][k]),
                                       !.prior = p, !.setting = setting,
                                       !.unwritten = /\ Seen(rows[r][k]) # "absent"
                                                     /\ status[r] = "SYNCING"]]
    /\ queue' = Tail(queue)
    /\ UNCHANGED <<receiptVars, rows, txn, setting, syncs, clock>>

Stop(w) == worker' = [worker EXCEPT ![w] = IdleWorker]

(* What the job knows of the row when it decides whether to proceed: a row it
   found when it read the table is judged by that reading; one that was
   inserted since makes its own INSERT fail and is read again. *)
Believed(w) ==
    IF worker[w].seen = "absent" THEN Seen(rows[worker[w].r][worker[w].key])
                                 ELSE worker[w].seen

(* Another worker holds the key, or the receipt was removed: give up.  The
   receipt's status is left as it is. *)
ClaimSkipped(w) ==
    /\ worker[w].pc = "loaded"
    /\ life[worker[w].r] = "purged" \/ Believed(w) = "busy"
    /\ Stop(w)
    /\ UNCHANGED <<receiptVars, rows, queue, txn, setting, syncs, clock>>

(* The row is inserted or re-claimed and the claim commits.  Evidence of an
   earlier attempt (ids, request) is kept. *)
ClaimedBlank(row, d) ==   \* mutant: a re-claim clears the ids
    [row EXCEPT !.status = "RUNNING", !.draft = d, !.fresh = TRUE,
                !.created = None, !.matched = None]

ClaimedRow(row, d) == [row EXCEPT !.status = "RUNNING", !.draft = d, !.fresh = TRUE]

ClaimRow(w) ==
    LET r == worker[w].r
        k == worker[w].key
    IN  /\ worker[w].pc = "loaded"
        /\ life[r] # "purged"
        /\ Believed(w) # "busy"
        /\ rows'   = [rows EXCEPT ![r][k] = ClaimedRow(@, worker[w].draft)]
        /\ status' = [status EXCEPT ![r] = IF worker[w].unwritten THEN @ ELSE "SYNCING"]
        /\ since'  = [since EXCEPT ![r] = TRUE]
        /\ worker' = [worker EXCEPT ![w].pc = "claimed"]
        /\ UNCHANGED <<life, ver, draft, undo, queue, txn, setting, syncs, clock>>

(* The dry-run switch: the payload is stored and nothing is sent. *)
DryRow(row, d) == [row EXCEPT !.status = "DRY_RUN", !.created = None,
                              !.matched = None, !.sent = Content(d)]

DryRun(w) ==
    LET r == worker[w].r
        k == worker[w].key
    IN  /\ worker[w].pc = "claimed"
        /\ worker[w].setting = "dry"
        /\ life[r] # "purged"
        /\ rows'   = [rows EXCEPT ![r][k] = DryRow(@, worker[w].draft)]
        /\ status' = [status EXCEPT ![r] = "NEEDS_REVIEW"]
        /\ Stop(w)
        /\ UNCHANGED <<life, since, ver, draft, undo, queue, txn, setting, syncs, clock>>

(* _match_transaction: same total, payee and date window, on any account *)
Matches(d) == {t \in TxnIds : Live(t) /\ txn[t].sig = d.sig}

(* _find_exact_transaction_match: the only transaction that is, memo marker
   included, what the previous sync sent *)
ExactMatches(r, p) ==
    {t \in TxnIds : /\ Live(t)
                    /\ txn[t].acct = p.acct /\ txn[t].sig = p.sig
                    /\ r \in txn[t].marks}

(* created_transaction_id of the row the job claimed; past the verification
   the id of a transaction that is gone is cleared. *)
Earlier(w) == rows[worker[w].r][worker[w].key].created

(* The request is stored on the row before it is sent. *)
Planned(w, plan, t) ==
    worker' = [worker EXCEPT ![w].pc = "planned", ![w].plan = plan,
                             ![w].target = t, ![w].wiped = (Earlier(w) # None),
                             ![w].sent = Content(IF plan = "adopt" THEN txn[t]
                                                                   ELSE worker[w].draft)]

(* Verify before create: the row already names a transaction that still exists. *)
FoundOwn(w) ==
    /\ worker[w].pc = "claimed" /\ worker[w].setting = "live"
    /\ Live(Earlier(w))
    /\ worker' = [worker EXCEPT ![w].pc = "written", ![w].result = "CREATED",
                                ![w].target = Earlier(w)]
    /\ UNCHANGED <<receiptVars, rows, queue, txn, setting, syncs, clock>>

(* _sync_update_existing: the target is the transaction of the previous
   successful sync, or else the one exact copy of it; without either the
   receipt goes to review and nothing is created. *)
PriorTarget(w) ==
    LET row == rows[worker[w].r][worker[w].prior]
        own == worker[w].prior = worker[w].key
    IN  IF own THEN row.matched ELSE TargetOf(row)

PriorSent(w) ==
    LET row == rows[worker[w].r][worker[w].prior]
    IN  IF row.sent # None THEN row.sent ELSE Content(worker[w].draft)

UpdatesPrior(w) ==
    /\ worker[w].pc = "claimed" /\ worker[w].setting = "live"
    /\ ~ Live(Earlier(w))
    /\ worker[w].prior # None
    /\ ~ worker[w].key.force

PlanUpdate(w) ==
    /\ UpdatesPrior(w)
    /\ LET copies == ExactMatches(worker[w].r, PriorSent(w))
       IN  \/ /\ Live(PriorTarget(w))
              /\ Planned(w, "update", PriorTarget(w))
           \/ /\ ~ Live(PriorTarget(w))
              /\ Cardinality(copies) = 1
              /\ \E t \in copies : Planned(w, "update", t)
    /\ UNCHANGED <<receiptVars, rows, queue, txn, setting, syncs, clock>>

PriorGone(w) ==
    /\ UpdatesPrior(w)
    /\ ~ Live(PriorTarget(w))
    /\ Cardinality(ExactMatches(worker[w].r, PriorSent(w))) # 1
    /\ worker' = [worker EXCEPT ![w].pc = "written", ![w].result = "FAILED",
                                ![w].structure = FALSE,
                                ![w].wiped = (Earlier(w) # None),
                                ![w].sent = Content(worker[w].draft)]
    /\ UNCHANGED <<receiptVars, rows, queue, txn, setting, syncs, clock>>

(* _sync_match_or_create: adopt a matching transaction, keeping what the user
   entered in YNAB or overwriting it, or else create one. *)
MatchesOrCreates(w) ==
    /\ worker[w].pc = "claimed" /\ worker[w].setting = "live"
    /\ ~ Live(Earlier(w))
    /\ worker[w].prior = None \/ worker[w].key.force

PlanMatch(w) ==
    /\ MatchesOrCreates(w)
    /\ ~ worker[w].key.force /\ worker[w].key.allow
    /\ \E t \in Matches(worker[w].draft), plan \in {"update", "adopt"} :
         Planned(w, plan, t)
    /\ UNCHANGED <<receiptVars, rows, queue, txn, setting, syncs, clock>>

PlanCreate(w) ==
    /\ MatchesOrCreates(w)
    /\ worker[w].key.force \/ ~ worker[w].key.allow \/ Matches(worker[w].draft) = {}
    /\ Planned(w, "create", None)
    /\ UNCHANGED <<receiptVars, rows, queue, txn, setting, syncs, clock>>

(* PUT /transactions/{id}.  YNAB keeps the import_id; it may ignore the
   category and split part of an update (structure = FALSE). *)
PutTxn(t, d, r) == [t EXCEPT !.acct = d.acct, !.sig = d.sig, !.marks = {r}]

Update(w, structure, answered) ==
    LET t == worker[w].target
        d == worker[w].draft
        r == worker[w].r
    IN  /\ worker[w].pc = "planned"
        /\ worker[w].plan = "update"
        /\ Live(t)
        /\ ~ answered => "lost" \in Faults
        /\ txn' = [txn EXCEPT ![t] = PutTxn(@, d, r)]
        /\ worker' = [worker EXCEPT ![w].pc = IF answered THEN "written" ELSE "failing",
                                    ![w].result = "MATCHED_UPDATED",
                                    ![w].structure = structure]
        /\ UNCHANGED <<receiptVars, rows, queue, setting, syncs, clock>>

(* The user entered data in YNAB: only the memo marker is added.  Mixed
   inflow and outflow splits send the receipt to review (structure = FALSE). *)
Adopt(w, structure, answered) ==
    LET t == worker[w].target
        r == worker[w].r
    IN  /\ worker[w].pc = "planned"
        /\ worker[w].plan = "adopt"
        /\ Live(t)
        /\ ~ answered => "lost" \in Faults
        /\ txn' = [txn EXCEPT ![t].marks = @ \cup {r}]
        /\ worker' = [worker EXCEPT ![w].pc = IF answered THEN "written" ELSE "failing",
                                    ![w].result = "MATCHED_UPDATED",
                                    ![w].structure = structure]
        /\ UNCHANGED <<receiptVars, rows, queue, setting, syncs, clock>>

(* The transaction to update was deleted in YNAB after the look-up: 404. *)
TargetVanished(w) ==
    /\ worker[w].pc = "planned"
    /\ worker[w].plan # "create"
    /\ ~ Live(worker[w].target)
    /\ worker' = [worker EXCEPT ![w].pc = "failing"]
    /\ UNCHANGED <<receiptVars, rows, queue, txn, setting, syncs, clock>>

(* POST /transactions.  _build_import_id: the import_id encodes the receipt and
   nothing else.  YNAB answers 409 when the account holds a transaction with
   that import_id; whether a deleted one still counts is YNAB's choice. *)
ImportId(r, d) == r

(* Mutant: the import_id also encodes the amount and the date. *)
SameImportAndContent(r, d, state) ==
    {t \in TxnIds : /\ txn[t].state = state
                    /\ txn[t].imp = ImportId(r, d)
                    /\ txn[t].acct = d.acct /\ txn[t].sig = d.sig}

SameImport(r, d, state) ==
    {t \in TxnIds : /\ txn[t].state = state
                    /\ txn[t].imp = ImportId(r, d)
                    /\ txn[t].acct = d.acct}

Creating(w) == worker[w].pc = "planned" /\ worker[w].plan = "create"

CreateAccepted(w, answered) ==
    LET r == worker[w].r
        d == worker[w].draft
    IN  /\ Creating(w)
        /\ SameImport(r, d, "live") = {}
        /\ ~ answered => "lost" \in Faults
        /\ \E t \in FreshIds :
             /\ txn' = [txn EXCEPT ![t] = [state |-> "live", acct |-> d.acct, sig |-> d.sig,
                                           imp |-> ImportId(r, d), marks |-> {r}]]
             /\ worker' = [worker EXCEPT ![w].pc = IF answered THEN "written" ELSE "failing",
                                         ![w].target = IF answered THEN t ELSE None,
                                         ![w].created = IF answered THEN t ELSE None,
                                         ![w].result = "CREATED"]
        /\ UNCHANGED <<receiptVars, rows, queue, setting, syncs, clock>>

(* _create_transaction_idempotent: a 409 is a success if a live transaction
   with the import_id or the memo marker is listed from the draft's date on
   (one with another signature may lie before that date). *)
Own(r) == {t \in TxnIds : Live(t) /\ (txn[t].imp = r \/ r \in txn[t].marks)}

Conflict(w) ==
    Creating(w) /\ SameImport(worker[w].r, worker[w].draft, "live") \cup
                   SameImport(worker[w].r, worker[w].draft, "deleted") # {}

ConflictResolved(w) ==
    /\ Conflict(w)
    /\ \E t \in Own(worker[w].r) :
         worker' = [worker EXCEPT ![w].pc = "written", ![w].target = t,
                                  ![w].created = t,
                                  ![w].result = "CREATED"]
    /\ UNCHANGED <<receiptVars, rows, queue, txn, setting, syncs, clock>>

ConflictUnresolved(w) ==
    /\ Conflict(w)
    /\ \A t \in Own(worker[w].r) : txn[t].sig # worker[w].draft.sig
    /\ worker' = [worker EXCEPT ![w].pc = "failing"]
    /\ UNCHANGED <<receiptVars, rows, queue, txn, setting, syncs, clock>>

CreatedNow(row, w) == IF worker[w].created # None THEN worker[w].created
                      ELSE IF worker[w].wiped THEN None ELSE row.created

SentNow(row, w) == IF worker[w].sent # None THEN worker[w].sent ELSE row.sent

(* Mutant: the id of an updated transaction is not recorded. *)
CommittedWithoutMatch(row, w) ==
    [row EXCEPT !.status    = worker[w].result,
                !.created   = CreatedNow(row, w),
                !.sent      = SentNow(row, w),
                !.structure = worker[w].structure,
                !.done      = clock]

(* _apply_post_sync, commit 1: the outcome of the YNAB write becomes durable,
   with the receipt's status. *)
CommittedRow(row, w) ==
    [row EXCEPT !.status    = worker[w].result,
                !.created   = CreatedNow(row, w),
                !.matched   = IF worker[w].result = "MATCHED_UPDATED"
                              THEN worker[w].target ELSE @,
                !.sent      = SentNow(row, w),
                !.structure = worker[w].structure,
                !.done      = clock]

Commit(w) ==
    LET r == worker[w].r
        k == worker[w].key
    IN  /\ worker[w].pc = "written"
        /\ life[r] # "purged"
        /\ rows'   = [rows EXCEPT ![r][k] = CommittedRow(@, w)]
        /\ status' = [status EXCEPT ![r] = IF worker[w].structure THEN "SYNCED"
                                                                  ELSE "NEEDS_REVIEW"]
        /\ clock'  = clock + 1
        /\ Stop(w)
        /\ UNCHANGED <<life, since, ver, draft, undo, queue, txn, setting, syncs>>

(* The outer except: sync switched off, payload refused, YNAB unreachable or
   answering with an error. *)
FailedRow(row, w) ==
    [row EXCEPT !.status = "FAILED", !.created = CreatedNow(row, w), !.sent = SentNow(row, w)]

(* Mutant: the failure is recorded on the sync row only. *)
FailQuietly(w) ==
    LET r == worker[w].r
        k == worker[w].key
    IN  /\ worker[w].pc \in {"claimed", "planned", "failing"}
        /\ life[r] # "purged"
        /\ rows' = [rows EXCEPT ![r][k] = FailedRow(@, w)]
        /\ Stop(w)
        /\ UNCHANGED <<receiptVars, queue, txn, setting, syncs, clock>>

Fail(w) ==
    LET r == worker[w].r
        k == worker[w].key
    IN  /\ worker[w].pc \in {"claimed", "planned", "failing"}
        /\ life[r] # "purged"
        /\ rows'   = [rows EXCEPT ![r][k] = FailedRow(@, w)]
        /\ status' = [status EXCEPT ![r] = "ERROR_SYNC"]
        /\ Stop(w)
        /\ UNCHANGED <<life, since, ver, draft, undo, queue, txn, setting, syncs, clock>>

(* The receipt was hard-deleted under the job: its last commit finds no row. *)
RowVanished(w) ==
    /\ worker[w].pc \in {"claimed", "planned", "written", "failing"}
    /\ life[worker[w].r] = "purged"
    /\ Stop(w)
    /\ UNCHANGED <<receiptVars, rows, queue, txn, setting, syncs, clock>>

(* The work-horse process dies; RQ does not run the job again. *)
Crash(w) ==
    /\ "crash" \in Faults
    /\ worker[w].pc # "idle"
    /\ Stop(w)
    /\ UNCHANGED <<receiptVars, rows, queue, txn, setting, syncs, clock>>

-----------------------------------------------------------------------------
(* Time, restarts and the outside *)

(* stuck_job_timeout_minutes (30) exceed the 15 minutes RQ lets a job run, so
   what has become stale was started by nobody who is still at work. *)
TimePasses ==
    /\ "restart" \in Faults
    /\ undo = {} /\ \A w \in Workers : worker[w].pc = "idle"
    /\ since' = [r \in Receipts |-> FALSE]
    /\ rows'  = [r \in Receipts |-> [k \in Keys |-> [rows[r][k] EXCEPT !.fresh = FALSE]]]
    /\ UNCHANGED <<status, life, ver, draft, undo, queue, worker, txn, setting, syncs, clock>>

(* _reset_stuck_jobs, when the API process starts *)
Stuck(r) == life[r] = "live" /\ status[r] = "SYNCING" /\ ~ since[r]

(* Mutant: the row is given the receipt's error status. *)
ResetRowToReceiptStatus(row) ==
    IF row.status = "RUNNING" /\ ~ row.fresh
    THEN [row EXCEPT !.status = "ERROR_SYNC"] ELSE row

ResetRow(row) == IF row.status = "RUNNING" /\ ~ row.fresh
                 THEN [row EXCEPT !.status = "FAILED"] ELSE row

ApiRestart ==
    /\ "restart" \in Faults
    /\ status' = [r \in Receipts |-> IF Stuck(r) THEN "NEEDS_REVIEW" ELSE status[r]]
    /\ rows'   = [r \in Receipts |-> [k \in Keys |-> ResetRow(rows[r][k])]]
    /\ undo'   = {}
    /\ UNCHANGED <<life, since, ver, draft, queue, worker, txn, setting, syncs, clock>>

UserDeletesTxn(t) ==
    /\ txn[t].state = "live"
    /\ txn' = [txn EXCEPT ![t].state = "deleted"]
    /\ UNCHANGED <<receiptVars, rows, queue, worker, setting, syncs, clock>>

OperatorSets(s) ==
    /\ s # setting
    /\ setting' = s
    /\ UNCHANGED <<receiptVars, rows, queue, worker, txn, syncs, clock>>

-----------------------------------------------------------------------------
(* A receipt starts in review with its first valid draft; YNAB may already
   hold one transaction, entered by hand or imported by the bank. *)
Foreign == {NoTxn} \cup [state : {"live"}, acct : Accounts, sig : Sigs,
                         imp : {None}, marks : {{}}]

Init ==
    /\ status   = [r \in Receipts |-> "NEEDS_REVIEW"]
    /\ life     = [r \in Receipts |-> "live"]
    /\ since    = [r \in Receipts |-> FALSE]
    /\ ver      = [r \in Receipts |-> 1]
    /\ draft    \in [Receipts -> [acct : Accounts, sig : Sigs, quality : {"ready"}]]
    /\ undo     = {}
    /\ rows     = [r \in Receipts |-> [k \in Keys |-> NoRow]]
    /\ queue    = <<>>
    /\ worker   = [w \in Workers |-> IdleWorker]
    /\ \E f \in Foreign :
         txn = [t \in TxnIds |-> IF \A u \in TxnIds : t <= u THEN f ELSE NoTxn]
    /\ setting  \in Settings
    /\ syncs    = 0
    /\ clock    = 1

Click(r) ==
    \/ ClickBlocked(r)
    \/ \E m \in Modes, pushed \in BOOLEAN, outcome \in {"ok", "error", "died"} :
         ClickClaimed(r, m, pushed, outcome)

Edit(r) ==
    \E a \in Accounts, s \in Sigs, q \in Qualities, changed, found \in BOOLEAN :
      SaveDraft(r, [acct |-> a, sig |-> s, quality |-> q], changed, found)

Twin(r) == \E s \in Sigs, q \in Qualities : EditTwin(r, s, q)

UserStep(r) ==
    \/ Click(r) \/ TakeBack(r) \/ Edit(r) \/ Twin(r) \/ ResetToSynced(r)
    \/ DeleteReceipt(r) \/ RestoreReceipt(r) \/ Purge(r)
    \/ ConfirmDuplicate(r) \/ OverrideDuplicate(r)

WriteStep(w) ==
    \/ \E structure, answered \in BOOLEAN :
         Update(w, structure, answered) \/ Adopt(w, structure, answered)
    \/ \E answered \in BOOLEAN : CreateAccepted(w, answered)
    \/ TargetVanished(w) \/ ConflictResolved(w) \/ ConflictUnresolved(w)

WorkerStep(w) ==
    \/ JobRejected(w) \/ JobLoaded(w)
    \/ ClaimSkipped(w) \/ ClaimRow(w)
    \/ DryRun(w)
    \/ FoundOwn(w) \/ PlanUpdate(w) \/ PriorGone(w) \/ PlanMatch(w) \/ PlanCreate(w)
    \/ WriteStep(w)
    \/ Commit(w) \/ Fail(w) \/ RowVanished(w)

Next ==
    \/ \E r \in Receipts : UserStep(r)
    \/ \E w \in Workers : WorkerStep(w) \/ Crash(w)
    \/ TimePasses \/ ApiRestart
    \/ \E t \in TxnIds : UserDeletesTxn(t)
    \/ \E s \in Settings : OperatorSets(s)

Spec == Init /\ [][Next]_vars

(* RQ runs what is queued: a worker that can take a step takes one.  Nothing
   is assumed of the user, of YNAB's owner or of restarts. *)
Fairness == \A w \in Workers : WF_vars(WorkerStep(w))

FairSpec == Spec /\ Fairness

-----------------------------------------------------------------------------
(* Properties *)

\* Types: what the handlers store and what a job carries between its steps.
TypeOK ==
    /\ status   \in [Receipts -> Statuses]
    /\ life     \in [Receipts -> {"live", "deleted", "purged"}]
    /\ since    \in [Receipts -> BOOLEAN]
    /\ ver      \in [Receipts -> 1..MaxVer]
    /\ draft    \in [Receipts -> Draft]
    /\ undo     \in SUBSET Receipts
    /\ rows     \in [Receipts -> [Keys -> Row]]
    /\ queue    \in Seq(Job)
    /\ worker   \in [Workers -> WorkerState]
    /\ txn      \in [TxnIds -> Txn]
    /\ setting  \in AllSettings
    /\ syncs    \in Nat
    /\ clock    \in Nat

(* Exactly-one-create: at most one transaction that the application created
   for a receipt is alive in YNAB (docs/ynab_safety_model.md). *)
CreatedFor(r) == {t \in TxnIds : txn[t].state = "live" /\ txn[t].imp = r}

OneTxnPerReceipt ==
    \A r \in Receipts : \A t, u \in CreatedFor(r) : t = u

(* A receipt shows as synced only while a sync row names the transaction it was
   synced to: commit 1 writes both, "Restore synced" relies on an earlier one,
   and retries, failures, dry runs, recovery and other jobs clear an id only
   together with the status. *)
SyncedHasEvidence ==
    \A r \in Receipts :
      status[r] = "SYNCED" /\ life[r] # "purged" =>
        \E k \in Keys : TargetOf(rows[r][k]) # None

(* Retry preserves evidence: a recorded transaction id is replaced or dropped
   only when YNAB no longer holds that transaction, by a dry run, or with the
   whole receipt. *)
EvidenceKept ==
    [][\A r \in Receipts, k \in Keys :
         LET old == rows[r][k].created
         IN  old # None /\ rows'[r][k].created # old =>
               \/ ~ Live(old)
               \/ rows'[r][k].status = "DRY_RUN"
               \/ life'[r] = "purged"]_vars

(* B-01 of services/ynab.py: a job that was not told to force never creates a
   transaction for a receipt one of whose syncs already succeeded. *)
NoSilentRecreate ==
    [][\A w \in Workers :
         worker[w].pc = "planned" /\ ~ worker[w].key.force
         /\ HasSuccess(worker[w].r) =>
           \A t \in TxnIds : txn[t].state = "absent" => txn'[t].state = "absent"]_vars

(* The SYNCING guard of POST /sync: a double click never puts two jobs of one
   receipt in flight. *)
InFlight(r) ==
    Cardinality({i \in DOMAIN queue : queue[i].r = r}) +
    Cardinality({w \in Workers : worker[w].r = r})

OneJobPerReceipt == \A r \in Receipts : InFlight(r) <= 1

(* A click that was accepted is answered: the receipt does not stay SYNCING. *)
SyncingEnds == \A r \in Receipts : status[r] = "SYNCING" ~> status[r] # "SYNCING"
=============================================================================
