------------------------------- MODULE Drafts -------------------------------
(***************************************************************************)
(* The draft of one receipt and the receipt twin beside it: what the user  *)
(* saves, confirms, chooses, recomputes and restores (api/receipts.py),    *)
(* what the extraction job writes over it (jobs/tasks.py), and what a sync *)
(* job read and left as the snapshot of what YNAB holds.                   *)
(*                                                                         *)
(* A request reads and commits in one step here; the extraction job and    *)
(* the sync job read long before they write.  A draft is its amounts and  *)
(* its date, and valid when they add up; accounts, payees, categories and  *)
(* memos are left out.  Transactions in YNAB are the subject of YnabSync,  *)
(* duplicates of Duplicates.                                               *)
(***************************************************************************)
EXTENDS Allocation

CONSTANTS
    Readings,        \* what a receipt may be read as: its total, date and items
    Structures,      \* the splits that the model or the user may think of
    MaxDrafts,       \* bound: versions of the draft, before a last choice or restore
    MaxTwins         \* bound: versions of the twin

ASSUME DraftConstants ==
    /\ \A r \in Readings : r.total \in Nat /\ r.items \in Seq(Int \cup {Unknown})
    /\ Structures \subseteq Seq(Nat)
    /\ MaxDrafts \in Nat /\ MaxTwins \in Nat

VARIABLES
    status,      \* Receipt.status
    draft,       \* the latest row of validations
    draftCount,  \* Receipt.latest_validation_version
    twin,        \* the latest row of receipt_twins
    twinCount,   \* Receipt.latest_twin_version
    candidates,  \* the latest candidate set
    snapshot,    \* the draft of the last successful sync
    job,         \* the extraction job and the counters it loaded
    sync,        \* the sync job and the draft it read
    bypassed,    \* history: the draft was written without looking at the locks
    slipped      \* history: the draft changed under the last sync

vars == <<status, draft, draftCount, twin, twinCount, candidates, snapshot,
          job, sync, bypassed, slipped>>

Payload(reading, splits) ==
    [total |-> reading.total, date |-> reading.date, splits |-> splits]

NoPayload == [total |-> 0, date |-> Unknown, splits |-> <<>>]
NoDraft   == [version |-> 0, payload |-> NoPayload, ws |-> NoWorkspace]
NoCopy    == [payload |-> NoPayload, ws |-> NoWorkspace]
NoTwin    == [version |-> 0, total |-> 0, date |-> Unknown, items |-> <<>>,
              dateOk |-> FALSE, totalOk |-> FALSE]
NoSet     == [total |-> 0, items |-> <<>>, twin |-> 0, choices |-> {}]
NoJob     == [pc |-> "none", drafts |-> 0, twins |-> 0]
NoSync    == [pc |-> "none", draft |-> NoCopy]

-----------------------------------------------------------------------------
(* Locks and versions *)

(* Mutants: a draft is saved as the client sent it; the twin always wins. *)
Unlocked(p, t) == p
TwinWins(p, t) == [p EXCEPT !.date = t.date, !.total = t.total]

(* _apply_twin_locks_to_payload *)
Locked(p, t) ==
    [p EXCEPT !.date  = IF t.dateOk THEN t.date ELSE @,
              !.total = IF t.totalOk THEN t.total ELSE @]

(* _create_validation_version *)
Written(p, ws) == [version |-> draftCount + 1, payload |-> p, ws |-> ws]

RoomForDraft == draft.version < MaxDrafts
RoomForLast  == draft.version <= MaxDrafts

Write(p, ws) ==
    /\ draft' = Written(p, ws)
    /\ draftCount' = draft'.version
    /\ bypassed' = FALSE

(* Mutant: an edit of a synced receipt leaves it synced. *)
EditedQuietly(changed, p) ==
    IF SumsUp(p) /\ status = "ERROR_EXTRACT" THEN "NEEDS_REVIEW" ELSE status

(* What an edit does to the status: it is not synced, or in error, any more. *)
Edited(changed, p) ==
    IF changed /\ status \in {"SYNCED", "ERROR_SYNC"} THEN "NEEDS_REVIEW"
    ELSE IF SumsUp(p) /\ status = "ERROR_EXTRACT" THEN "NEEDS_REVIEW"
    ELSE status

-----------------------------------------------------------------------------
(* POST draft: whatever the client holds, the locks first, then the sums, then
   the workspace.  An invalid draft is kept as well. *)

Save(sent, ws) ==
    LET p == Locked(sent, twin)
    IN  /\ RoomForDraft
        /\ Write(p, Reconciled(p, ws, twin.items))
        /\ status' = Edited(draft.version = 0 \/ p # draft.payload, p)
        /\ UNCHANGED <<twin, twinCount, candidates, snapshot, job, sync, slipped>>

(* What a client may have done to the workspace it was given. *)
Moved(ws) ==
    {[ws EXCEPT !.lane[i] = l] : i \in DOMAIN ws.items, l \in {Unassigned} \cup DOMAIN ws.pins}
Unpinned(ws) ==
    {[ws EXCEPT !.pins[l] = Unknown] : l \in DOMAIN ws.pins \ {Main}}
AtHand == {NoWorkspace, draft.ws} \cup Moved(draft.ws) \cup Unpinned(draft.ws)

SaveDraft ==
    \E r \in Readings, s \in Structures : Save(Payload(r, s), draft.ws)

(* The allocation board: items moved, a lane pinned, the amounts recomputed by
   POST allocation/recompute, which writes nothing, and the answer saved. *)
SaveAllocation(keepPins) ==
    /\ draft.version > 0
    /\ \E ws \in AtHand :
         LET mine == Reconciled(draft.payload, ws, twin.items)
             p    == Recomputed(draft.payload, mine, keepPins)
         IN  /\ SumsUp(p)
             /\ Save(p, mine)

-----------------------------------------------------------------------------
(* The twin *)

(* _refresh_validation_from_confirmed_twin_sections *)
Refresh(t) ==
    LET p == Locked(draft.payload, t)
    IN  IF draft.version = 0 \/ p = draft.payload
        THEN UNCHANGED <<draft, draftCount, status>> /\ bypassed' = FALSE
        ELSE /\ RoomForDraft
             /\ Write(p, draft.ws)
             /\ status' = Edited(TRUE, NoPayload)

(* PUT twin, of the version the client saw last; confirmations carry over. *)
SaveTwin ==
    \E r \in Readings :
      LET t == [twin EXCEPT !.version = @ + 1, !.total = r.total, !.date = r.date,
                            !.items = r.items]
          moved == \/ twin.dateOk /\ t.date # twin.date
                   \/ twin.totalOk /\ t.total # twin.total
      IN  /\ twin.version \in 1..(MaxTwins - 1)
          /\ t # [twin EXCEPT !.version = @ + 1]
          /\ twin' = t
          /\ twinCount' = t.version
          /\ IF moved THEN Refresh(t) ELSE UNCHANGED <<draft, draftCount, status, bypassed>>
          /\ UNCHANGED <<candidates, snapshot, job, sync, slipped>>

(* POST twin/confirm *)
ConfirmSection(t) ==
    /\ twin.version > 0
    /\ twin' = t
    /\ Refresh(t)
    /\ UNCHANGED <<twinCount, candidates, snapshot, job, sync, slipped>>

ConfirmDate  == ~ twin.dateOk /\ ConfirmSection([twin EXCEPT !.dateOk = TRUE])
ConfirmTotal == ~ twin.totalOk /\ ConfirmSection([twin EXCEPT !.totalOk = TRUE])

Unconfirm ==
    /\ \/ twin.dateOk /\ twin' = [twin EXCEPT !.dateOk = FALSE]
       \/ twin.totalOk /\ twin' = [twin EXCEPT !.totalOk = FALSE]
    /\ UNCHANGED <<status, draft, draftCount, twinCount, candidates, snapshot, job, sync,
                   bypassed, slipped>>

-----------------------------------------------------------------------------
(* POST candidates/{version}/choose: the splits of a candidate on the money of
   the latest draft.  Refused during a sync, when the twin has moved, and when
   the sum is wrong. *)

(* Mutant: the total that the candidate was made for comes with it. *)
MergedTotal(p, splits) ==
    [p EXCEPT !.splits = splits, !.total = IF splits = <<>> THEN @ ELSE Total(splits)]

MergedWith(p, splits) == [p EXCEPT !.splits = splits]

Choose(splits) ==
    LET p    == Locked(MergedWith(draft.payload, splits), twin)
        made == [draft.payload EXCEPT !.total = candidates.total, !.splits = splits]
    IN  /\ status # "SYNCING"
        /\ splits \in candidates.choices
        /\ draft.version > 0
        /\ candidates.twin \in {0, twin.version}
        /\ SumsUp(p)
        /\ RoomForLast
        /\ Write(p, Reconciled(p, InitialWorkspace(made, candidates.items), twin.items))
        /\ status' = Edited(p # draft.payload, NoPayload)
        /\ UNCHANGED <<twin, twinCount, candidates, snapshot, job, sync, slipped>>

(* POST reset-to-synced: the snapshot as it was, whatever the twin says. *)
ResetToSynced ==
    /\ status # "SYNCING"
    /\ snapshot # NoCopy
    /\ RoomForLast
    /\ draft' = Written(snapshot.payload, snapshot.ws)
    /\ draftCount' = draft'.version
    /\ status' = "SYNCED"
    /\ bypassed' = TRUE
    /\ slipped' = FALSE
    /\ UNCHANGED <<twin, twinCount, candidates, snapshot, job, sync>>

-----------------------------------------------------------------------------
(* The extraction job.  It loads the receipt at its start; the versions it
   inserts follow the counters it loaded, and when such a version is taken it
   refreshes the receipt and tries once more. *)

ExtractionStarts ==
    /\ job.pc = "none"
    /\ job' = [pc |-> "running", drafts |-> draftCount, twins |-> twinCount]
    /\ status' = "EXTRACTING"
    /\ UNCHANGED <<draft, draftCount, twin, twinCount, candidates, snapshot, sync,
                   bypassed, slipped>>

(* Mutant: the version that was loaded, without the second attempt. *)
NextLoaded(loaded, count, latest) == loaded + 1

NextVersion(loaded, count, latest) == IF loaded >= latest THEN loaded + 1 ELSE count + 1

Fitting(p) == {s \in Structures : SumsUp([p EXCEPT !.splits = s])}

(* The workspace is built for the draft; a split that was learned for the payee
   brings lanes without pins and the amounts follow. *)
Learned(p, items) ==
    {[items |-> items, pins |-> [l \in LanesOf(p) |-> Unknown], lane |-> lane] :
       lane \in [DOMAIN items -> LanesOf(p)]}

Drafted(p, ws) ==
    /\ draft' = [version |-> NextVersion(job.drafts, draftCount, draft.version),
                 payload |-> p, ws |-> ws]
    /\ draftCount' = draft'.version

ExtractionSucceeds(p, items, usable) ==
    LET t == [version |-> NextVersion(job.twins, twinCount, twin.version), total |-> p.total,
              date |-> p.date, items |-> items, dateOk |-> FALSE, totalOk |-> FALSE]
        lines == IF usable THEN items ELSE <<>>
        from  == IF usable THEN t.version ELSE 0
    IN  /\ job.pc = "running"
        /\ RoomForDraft
        /\ twin.version < MaxTwins
        /\ SumsUp(p)
        /\ IF usable THEN twin' = t /\ twinCount' = t.version ELSE UNCHANGED <<twin, twinCount>>
        /\ \/ /\ Drafted(p, InitialWorkspace(p, lines))
              /\ \/ UNCHANGED candidates
                 \/ candidates' = [total |-> p.total, items |-> lines, twin |-> from,
                                   choices |-> Fitting(p)]
           \/ /\ p.splits # <<>>
              /\ \E ws \in Learned(p, lines) : Drafted(Recomputed(p, ws, FALSE), ws)
              /\ UNCHANGED candidates
        /\ status' = "NEEDS_REVIEW"
        /\ bypassed' = ~ usable
        /\ job' = NoJob
        /\ UNCHANGED <<snapshot, sync, slipped>>

ExtractionFails ==
    /\ job.pc = "running"
    /\ job' = NoJob
    /\ status' = "ERROR_EXTRACT"
    /\ UNCHANGED <<draft, draftCount, twin, twinCount, candidates, snapshot, sync,
                   bypassed, slipped>>

-----------------------------------------------------------------------------
(* The sync, as far as the draft sees it. *)

SyncGates ==
    /\ SumsUp(draft.payload)
    /\ twin.version > 0 => twin.dateOk /\ twin.totalOk

ClickSync ==
    /\ SyncGates
    /\ status # "SYNCING" /\ sync.pc = "none"
    /\ status' = "SYNCING"
    /\ sync' = [pc |-> "queued", draft |-> NoCopy]
    /\ UNCHANGED <<draft, draftCount, twin, twinCount, candidates, snapshot, job,
                   bypassed, slipped>>

SyncReads ==
    /\ sync.pc = "queued"
    /\ sync' = [pc |-> "running", draft |-> [f \in DOMAIN NoCopy |-> draft[f]]]
    /\ UNCHANGED <<status, draft, draftCount, twin, twinCount, candidates, snapshot, job,
                   bypassed, slipped>>

SyncSucceeds ==
    /\ sync.pc = "running" /\ SumsUp(sync.draft.payload)
    /\ status' = "SYNCED"
    /\ snapshot' = sync.draft
    /\ slipped' = (draft.payload # sync.draft.payload)
    /\ sync' = NoSync
    /\ UNCHANGED <<draft, draftCount, twin, twinCount, candidates, job, bypassed>>

(* A failure of a draft that was synced before takes its success with it. *)
SyncFails ==
    /\ sync.pc = "running"
    /\ status' = "ERROR_SYNC"
    /\ snapshot' = IF snapshot.payload = sync.draft.payload THEN NoCopy ELSE snapshot
    /\ sync' = NoSync
    /\ UNCHANGED <<draft, draftCount, twin, twinCount, candidates, job, bypassed, slipped>>

-----------------------------------------------------------------------------
Init ==
    /\ status = "INGESTED"
    /\ draft = NoDraft /\ draftCount = 0
    /\ twin = NoTwin /\ twinCount = 0
    /\ candidates = NoSet
    /\ snapshot = NoCopy
    /\ job = NoJob /\ sync = NoSync
    /\ bypassed = FALSE /\ slipped = FALSE

UserStep ==
    \/ SaveDraft \/ \E keepPins \in BOOLEAN : SaveAllocation(keepPins)
    \/ SaveTwin \/ ConfirmDate \/ ConfirmTotal \/ Unconfirm
    \/ \E s \in Structures : Choose(s)
    \/ ResetToSynced \/ ClickSync

JobStep ==
    \/ ExtractionStarts \/ ExtractionFails
    \/ \E r \in Readings, s \in Structures, usable \in BOOLEAN :
         ExtractionSucceeds(Payload(r, s), r.items, usable)
    \/ SyncReads \/ SyncSucceeds \/ SyncFails

Next == UserStep \/ JobStep

Spec == Init /\ [][Next]_vars

-----------------------------------------------------------------------------
(* Properties *)

Payloads == [total : Nat, date : {r.date : r \in Readings}, splits : Seq(Nat)]

(* Types. *)
TypeOK ==
    /\ status \in {"INGESTED", "EXTRACTING", "NEEDS_REVIEW", "ERROR_EXTRACT",
                   "SYNCING", "SYNCED", "ERROR_SYNC"}
    /\ draft.payload \in IF draft.version > 0 THEN Payloads ELSE {NoPayload}
    /\ snapshot # NoCopy => snapshot.payload \in Payloads
    /\ twin.total \in Nat /\ twin.dateOk \in BOOLEAN /\ twin.totalOk \in BOOLEAN
    /\ job.pc \in {"none", "running"}
    /\ sync.pc \in {"none", "queued", "running"}
    /\ bypassed \in BOOLEAN /\ slipped \in BOOLEAN

(* docs/architecture.md: what the user confirmed on the twin locks the draft.
   A stale client, a candidate, a recomputed allocation or an edited twin never
   leaves a draft that says otherwise; only Restore synced and an extraction
   without a usable twin write past the locks. *)
LocksHold ==
    draft.version > 0 /\ ~ bypassed =>
      /\ twin.dateOk => draft.payload.date = twin.date
      /\ twin.totalOk => draft.payload.total = twin.total

(* A receipt that shows as synced shows the draft that was synced, unless the
   draft was changed while the sync job had it. *)
SyncedIsUnedited ==
    status = "SYNCED" /\ ~ slipped =>
      snapshot # NoCopy /\ draft.payload = snapshot.payload

(* The workspace stored with a draft has the lanes of that draft, and every
   item is in one of them: a board that can always be drawn and recomputed. *)
WorkspaceFits ==
    draft.version > 0 =>
      /\ DOMAIN draft.ws.pins = LanesOf(draft.payload)
      /\ DOMAIN draft.ws.lane = DOMAIN draft.ws.items
      /\ \A i \in DOMAIN draft.ws.items :
           draft.ws.lane[i] \in LanesOf(draft.payload) \cup {Unassigned}

(* Recomputing from any board adds up to the total to the cent, and no split is
   a cent or more away from its exact share. *)
Board == Reconciled(draft.payload, draft.ws, twin.items)

SuggestionFair ==
    draft.version > 0 /\ draft.payload.total > 0 =>
      LET p      == draft.payload
          lanes  == LaneOrder(p)
          weight == [i \in DOMAIN lanes |-> Weight(Board, lanes[i])]
          all    == Total(weight)
          splits == Recomputed(p, Board, FALSE).splits
      IN  /\ SumsUp(Recomputed(p, Board, FALSE))
          /\ all > 0 => \A i \in DOMAIN splits :
                          Magnitude(splits[i] * all - p.total * weight[i]) < all

(* A candidate brings categories and splits only: date and total stay those of
   the draft (choose_candidate: locking them to the twin is idempotent), unless
   the draft had been written past the locks. *)
ChoiceKeepsMoney ==
    [][(\E s \in Structures : Choose(s)) /\ ~ bypassed =>
         /\ draft'.payload.total = draft.payload.total
         /\ draft'.payload.date = draft.payload.date]_vars

(* Requests and jobs count from what they loaded, however long ago: still no
   draft and no twin is given a version that was used before. *)
VersionsAreFree ==
    [][/\ draft' # draft => draft'.version = draftCount' /\ draftCount' > draftCount
       /\ twin'.version # twin.version => twin'.version = twinCount' /\ twinCount' > twinCount]_vars
=============================================================================
