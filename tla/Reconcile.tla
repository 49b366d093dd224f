----------------------------- MODULE Reconcile -----------------------------
(***************************************************************************)
(* Reconciliation with YNAB (services/reconciliation.py): a run fetches    *)
(* the transaction of every synced receipt, compares it with what the last *)
(* successful sync sent, and for a difference not yet recorded records a   *)
(* correction, charges a flame and pulls the draft to YNAB's values.       *)
(*                                                                         *)
(* A run holds SQLite's write lock from its first flush to its commit, so  *)
(* nothing else writes the database meanwhile; YNAB itself keeps changing: *)
(* people edit transactions there and a sync job's request, sent without   *)
(* a lock, arrives.  What the run wrote is lost when it fails (undo).      *)
(*                                                                         *)
(* The bytes of a payload are reduced to what the comparison tells apart:  *)
(* amount, category and form, "whole" for one category, "one" for a single *)
(* split of the whole amount, "split", and "mixed" for splits that go both *)
(* ways.  The first sync of every receipt has already happened.            *)
(***************************************************************************)
EXTENDS Naturals, Sequences, FiniteSets, SequencesExt

CONSTANTS Receipts,     \* receipts that were synced once
          Values,       \* what a transaction may hold: [amount, cat, form]
          First,        \* what the first sync sent
          NoCategory,   \* the category of an uncategorised transaction
          Deleted,      \* the transaction was deleted in YNAB
          MaxSyncs,     \* bound: successful syncs of one receipt
          MaxCorrections \* bound: corrections on record when a run starts

Adoptable(v) == v.cat # NoCategory /\ v.form # "mixed"

ASSUME ValuesAssumption ==
    /\ Values \subseteq [amount : Nat, cat : {v.cat : v \in Values},
                         form : {"whole", "one", "split", "mixed"}]
    /\ First \in Values /\ Adoptable(First)
    /\ Deleted \notin Values
    /\ MaxSyncs \in Nat \ {0} /\ MaxCorrections \in Nat

VARIABLES
    draft,        \* the payload of the latest validation
    status,       \* receipts.status
    sent,         \* raw_request of the successful rows, in order of completion
    done,         \* history: syncs completed
    job,          \* the receipt's sync job: its stage and the payload it loaded
    txn,          \* the receipt's transaction in YNAB
    corrections,  \* receipt_corrections: [of, sent, got, after, resynced, ...]
    flames,       \* FIRE_ADDED events of the receipt
    running,      \* a run holds the write lock
    run,          \* the receipts it has still to fetch
    undo,         \* what a failing run falls back to
    byHand,       \* history: changed in YNAB since a sync last wrote it
    left,         \* history: what the last write of a sync left in YNAB
    slipped       \* history: the draft moved away from what is being sent

vars == <<draft, status, sent, done, job, txn, corrections, flames, running, run, undo,
          byHand, left, slipped>>

NoJob == [stage |-> "none", payload |-> First]

(* Mutant: the run compares with the first sync on record. *)
SentFirst(r) == Head(sent[r])

(* _latest_successful_sync_rows: what the last successful sync sent *)
Sent(r) == Last(sent[r])

(***************************************************************************)
(* _normalize_category_and_splits: a single split of the whole amount is   *)
(* the same as one category; only splits carry amounts.                    *)
(***************************************************************************)
Signature(v) ==
    IF v.form \in {"whole", "one"} THEN <<v.cat>>
                                   ELSE <<v.cat, v.form, v.amount>>

Drifted(s, v) == s.amount # v.amount

Differs(s, v) == Signature(s) # Signature(v) \/ Drifted(s, v)

\* _correction_signature: both signatures, and no amount of its own
Key(r, s, v) == [of |-> r, sent |-> Signature(s), got |-> Signature(v)]

Recorded(r, s, v) ==
    \E c \in corrections :
        [of |-> c.of, sent |-> Signature(c.sent), got |-> Signature(c.got)]
            = Key(r, s, v)

Stages == {"none", "queued", "sent", "refused", "books"}

TypeOK ==
    /\ draft \in [Receipts -> Values]
    /\ status \in [Receipts -> {"NEEDS_REVIEW", "SYNCING", "SYNCED", "ERROR_SYNC"}]
    /\ \A r \in Receipts :
         /\ sent[r] \in Seq({v \in Values : Adoptable(v)})
         /\ Len(sent[r]) <= done[r] /\ done[r] \in 1..MaxSyncs
         /\ Adoptable(draft[r])
    /\ job \in [Receipts -> [stage : Stages, payload : Values]]
    /\ txn \in [Receipts -> Values \cup {Deleted}]
    /\ \A c \in corrections :
         /\ c.of \in Receipts /\ c.sent \in Values /\ c.got \in Values
         /\ Differs(c.sent, c.got)
         /\ c.after \in 1..done[c.of]
         /\ c.resynced \in BOOLEAN /\ c.real \in BOOLEAN
    /\ flames \in [Receipts -> Nat]
    /\ running \in BOOLEAN /\ run \subseteq Receipts
    /\ byHand \in [Receipts -> BOOLEAN]
    /\ left \in [Receipts -> Values]
    /\ slipped \in [Receipts -> BOOLEAN]

Kept == [draft |-> draft, status |-> status, corrections |-> corrections,
         flames |-> flames, slipped |-> slipped]

\* no run, nothing to fall back to
NothingKept == <<>>

Init ==
    /\ draft = [r \in Receipts |-> First]
    /\ status = [r \in Receipts |-> "SYNCED"]
    /\ sent = [r \in Receipts |-> <<First>>]
    /\ done = [r \in Receipts |-> 1]
    /\ job = [r \in Receipts |-> NoJob]
    /\ txn = [r \in Receipts |-> First]
    /\ corrections = {}
    /\ flames = [r \in Receipts |-> 0]
    /\ running = FALSE
    /\ run = {}
    /\ undo = NothingKept
    /\ byHand = [r \in Receipts |-> FALSE]
    /\ left = [r \in Receipts |-> First]
    /\ slipped = [r \in Receipts |-> FALSE]

-----------------------------------------------------------------------------
(* The user, here and in YNAB *)

\* save_draft: an edit asks for review again
SaveDraft(r, v) ==
    /\ ~running
    /\ v # draft[r]
    /\ draft' = [draft EXCEPT ![r] = v]
    /\ status' = [status EXCEPT ![r] =
            IF @ \in {"SYNCED", "ERROR_SYNC"} THEN "NEEDS_REVIEW" ELSE @]
    /\ slipped' = [slipped EXCEPT ![r] = @ \/ job[r].stage # "none"]
    /\ UNCHANGED <<sent, done, job, txn, corrections, flames, running, run,
                   undo, byHand, left>>

(***************************************************************************)
(* sync_receipt and the claim of the job: the receipt is SYNCING and the   *)
(* draft loaded.  A row belongs to one version of the draft: when that     *)
(* version was synced before, its row is RUNNING again and no success; the *)
(* same payload may also be in a version of its own.                       *)
(***************************************************************************)
RowTaken(r) ==
    \/ UNCHANGED sent
    \/ /\ sent[r] # <<>> /\ Last(sent[r]) = draft[r]
       /\ sent' = [sent EXCEPT ![r] = Front(@)]

ClickSync(r) ==
    /\ ~running
    /\ status[r] # "SYNCING"
    /\ job[r].stage = "none"
    /\ done[r] < MaxSyncs
    /\ RowTaken(r)
    /\ status' = [status EXCEPT ![r] = "SYNCING"]
    /\ job' = [job EXCEPT ![r] = [stage |-> "queued", payload |-> draft[r]]]
    /\ slipped' = [slipped EXCEPT ![r] = FALSE]
    /\ UNCHANGED <<draft, done, txn, corrections, flames, running, run, undo,
                   byHand, left>>

\* Somebody edits or deletes the transaction in YNAB.
EditInYnab(r, v) ==
    /\ txn[r] \notin {Deleted, v}
    /\ txn' = [txn EXCEPT ![r] = v]
    /\ byHand' = [byHand EXCEPT ![r] = TRUE]
    /\ UNCHANGED <<draft, status, sent, done, job, corrections, flames, running, run, undo,
                   left, slipped>>

-----------------------------------------------------------------------------
(* The sync job *)

Answered(r, stage) == job' = [job EXCEPT ![r].stage = stage]

\* The update reaches YNAB and is taken; no lock is held.
JobWrites(r) ==
    /\ job[r].stage = "queued"
    /\ txn[r] # Deleted
    /\ txn' = [txn EXCEPT ![r] = job[r].payload]
    /\ byHand' = [byHand EXCEPT ![r] = FALSE]
    /\ left' = [left EXCEPT ![r] = job[r].payload]
    /\ Answered(r, "sent")
    /\ UNCHANGED <<draft, status, sent, done, corrections, flames, running, run, undo,
                   slipped>>

\* YNAB ignores a changed structure and answers with what it kept.
YnabRefuses(r) ==
    /\ job[r].stage = "queued"
    /\ txn[r] # Deleted
    /\ Signature(txn[r]) # Signature(job[r].payload)
    /\ byHand' = [byHand EXCEPT ![r] = FALSE]
    /\ left' = [left EXCEPT ![r] = txn[r]]
    /\ Answered(r, "refused")
    /\ UNCHANGED <<draft, status, sent, done, txn, corrections, flames,
                   running, run, undo, slipped>>

(***************************************************************************)
(* _apply_post_sync, first commit: the write is on record as sent, also    *)
(* when YNAB refused its structure.                                        *)
(***************************************************************************)
JobCommits(r) ==
    /\ ~running
    /\ job[r].stage \in {"sent", "refused"}
    /\ sent' = [sent EXCEPT ![r] = Append(@, job[r].payload)]
    /\ done' = [done EXCEPT ![r] = @ + 1]
    /\ status' = [status EXCEPT ![r] = IF job[r].stage = "sent" THEN "SYNCED"
                                                               ELSE "NEEDS_REVIEW"]
    /\ Answered(r, "books")
    /\ UNCHANGED <<draft, txn, corrections, flames, running, run, undo, byHand,
                   left, slipped>>

\* The transaction is gone, and is not created again.
PriorGone(r) ==
    /\ ~running
    /\ job[r].stage = "queued" /\ txn[r] = Deleted
    /\ status' = [status EXCEPT ![r] = "NEEDS_REVIEW"]
    /\ job' = [job EXCEPT ![r] = NoJob]
    /\ slipped' = [slipped EXCEPT ![r] = FALSE]
    /\ UNCHANGED <<draft, sent, done, txn, corrections, flames, running, run, undo,
                   byHand, left>>

\* A request or its answer is lost.
JobFails(r) ==
    /\ ~running
    /\ job[r].stage \in {"queued", "sent", "refused"}
    /\ status' = [status EXCEPT ![r] = "ERROR_SYNC"]
    /\ job' = [job EXCEPT ![r] = NoJob]
    /\ slipped' = [slipped EXCEPT ![r] = FALSE]
    /\ UNCHANGED <<draft, sent, done, txn, corrections, flames, running, run,
                   undo, byHand, left>>

\* Second commit: the receipt's open corrections are settled by this sync.
Bookkeeping(r) ==
    /\ ~running
    /\ job[r].stage = "books"
    /\ job' = [job EXCEPT ![r] = NoJob]
    /\ corrections' = {[c EXCEPT !.resynced = @ \/ c.of = r] : c \in corrections}
    /\ UNCHANGED <<draft, status, sent, done, txn, flames, running, run, undo,
                   byHand, left, slipped>>

BookkeepingFails(r) ==
    /\ ~running
    /\ job[r].stage = "books"
    /\ job' = [job EXCEPT ![r] = NoJob]
    /\ UNCHANGED <<draft, status, sent, done, txn, corrections, flames, running, run, undo,
                   byHand, left, slipped>>

-----------------------------------------------------------------------------
(* The reconciliation run *)

\* The first flush takes the write lock; then the latest rows are read.
StartRun ==
    /\ ~running
    /\ Cardinality(corrections) <= MaxCorrections
    /\ running' = TRUE
    /\ run' = Receipts
    /\ undo' = Kept
    /\ UNCHANGED <<draft, status, sent, done, job, txn, corrections, flames, byHand,
                   left, slipped>>

(***************************************************************************)
(* _apply_corrected_validation: splits that go both ways leave the payload *)
(* as it was, a payload that is not valid leaves everything; the status    *)
(* is set whatever it was.                                                 *)
(***************************************************************************)

(* Mutant: splits that go both ways are adopted. *)
CorrectedAsIs(r, v) == v

Corrected(r, v) == IF v.form = "mixed" THEN draft[r] ELSE v

(* Mutant: whatever changed, the receipt stays synced. *)
StaysSynced(r, v) == "SYNCED"

AfterPull(r, v) == IF Drifted(Sent(r), v) THEN "NEEDS_REVIEW" ELSE "SYNCED"

Pull(r, v) ==
    IF v.form # "mixed" /\ ~Adoptable(v)
    THEN UNCHANGED <<draft, status, slipped>>
    ELSE /\ draft' = [draft EXCEPT ![r] = Corrected(r, v)]
         /\ status' = [status EXCEPT ![r] = AfterPull(r, v)]
         /\ slipped' = [slipped EXCEPT ![r] =
                @ \/ v.form = "mixed" \/ job[r].stage # "none"]

Correction(r, s, v) ==
    [of |-> r, sent |-> s, got |-> v, after |-> done[r], resynced |-> FALSE,
     real |-> byHand[r] \/ left[r] # Last(sent[r])]

\* A fetched transaction that is as it was sent, or recorded before.
FetchNothingNew(r) ==
    /\ running /\ r \in run
    /\ sent[r] # <<>> /\ txn[r] # Deleted
    /\ Differs(Sent(r), txn[r]) => Recorded(r, Sent(r), txn[r])
    /\ run' = run \ {r}
    /\ UNCHANGED <<draft, status, sent, done, job, txn, corrections, flames, running,
                   undo, byHand, left, slipped>>

FetchDifference(r) ==
    /\ running /\ r \in run
    /\ sent[r] # <<>> /\ txn[r] # Deleted
    /\ Differs(Sent(r), txn[r]) /\ ~Recorded(r, Sent(r), txn[r])
    /\ corrections' = corrections \cup {Correction(r, Sent(r), txn[r])}
    /\ flames' = [flames EXCEPT ![r] = @ + 1]
    /\ Pull(r, txn[r])
    /\ run' = run \ {r}
    /\ UNCHANGED <<sent, done, job, txn, running, undo, byHand, left>>

\* No successful row, a failed fetch and a deleted transaction are skipped.
Skip(r) ==
    /\ running /\ r \in run
    /\ run' = run \ {r}
    /\ UNCHANGED <<draft, status, sent, done, job, txn, corrections, flames, running,
                   undo, byHand, left, slipped>>

\* _successful_sync_after
SyncedAfter(c) == done[c.of] > c.after

FinishRun ==
    /\ running /\ run = {}
    /\ corrections' = {[c EXCEPT !.resynced = @ \/ SyncedAfter(c)] : c \in corrections}
    /\ running' = FALSE
    /\ undo' = NothingKept
    /\ UNCHANGED <<draft, status, sent, done, job, txn, flames, run, byHand,
                   left, slipped>>

(* Mutant: the flame is committed on its own. *)
RunFailsCharged ==
    /\ running
    /\ draft' = undo.draft
    /\ status' = undo.status
    /\ corrections' = undo.corrections
    /\ slipped' = undo.slipped
    /\ running' = FALSE
    /\ run' = {}
    /\ undo' = NothingKept
    /\ UNCHANGED <<sent, done, job, txn, flames, byHand, left>>

\* An exception or a crash: the session is closed without a commit.
RunFails ==
    /\ running
    /\ draft' = undo.draft
    /\ status' = undo.status
    /\ corrections' = undo.corrections
    /\ flames' = undo.flames
    /\ slipped' = undo.slipped
    /\ running' = FALSE
    /\ run' = {}
    /\ undo' = NothingKept
    /\ UNCHANGED <<sent, done, job, txn, byHand, left>>

Next ==
    \/ StartRun \/ FinishRun \/ RunFails
    \/ \E r \in Receipts :
         \/ \E v \in {w \in Values : Adoptable(w)} : SaveDraft(r, v)
         \/ \E v \in Values \cup {Deleted} : EditInYnab(r, v)
         \/ ClickSync(r) \/ JobWrites(r) \/ YnabRefuses(r) \/ JobCommits(r)
         \/ PriorGone(r) \/ JobFails(r) \/ Bookkeeping(r) \/ BookkeepingFails(r)
         \/ FetchNothingNew(r) \/ FetchDifference(r) \/ Skip(r)

Spec == Init /\ [][Next]_vars

-----------------------------------------------------------------------------
(***************************************************************************)
(* A flame is charged for a correction made by a hand in YNAB, or for a    *)
(* write of the app itself that YNAB refused or that is not on record (its *)
(* answer was lost, or its row is being retried); never for a difference   *)
(* that a later sync has settled on both sides.                            *)
(***************************************************************************)
FlamesAreReal == \A c \in corrections : c.real

(***************************************************************************)
(* Every correction has its own flame and no flame lacks its correction:   *)
(* however runs fail and are repeated, a difference is charged once.       *)
(***************************************************************************)
ChargedOnce ==
    \A r \in Receipts :
        flames[r] = Cardinality({[sent |-> Signature(c.sent), got |-> Signature(c.got)] :
                                    c \in {d \in corrections : d.of = r}})

(***************************************************************************)
(* A receipt that says SYNCED shows the amount that was sent: neither an   *)
(* edit nor an amount pulled from YNAB is left unreviewed.  Excepted are   *)
(* drafts that moved while a job was sending, and splits that go both ways.*)
(***************************************************************************)
SyncedShowsSent ==
    \A r \in Receipts :
        status[r] = "SYNCED" /\ ~slipped[r]
            => sent[r] # <<>> /\ draft[r].amount = Last(sent[r]).amount

(***************************************************************************)
(* What run_ynab_reconciliation's comment says of amounts: a fetch that    *)
(* finds another amount than the sync sent leaves it on record, whatever   *)
(* was recorded before.                                                    *)
(***************************************************************************)
DriftIsRecorded ==
    [][\A r \in Receipts :
         FetchNothingNew(r) /\ Drifted(Last(sent[r]), txn[r])
            => \E c \in corrections' :
                 c.of = r /\ c.sent.amount = Last(sent[r]).amount
                          /\ c.got.amount = txn[r].amount]_vars
=============================================================================
