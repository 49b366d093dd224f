----------------------------- MODULE Duplicates -----------------------------
(***************************************************************************)
(* Scans of the same purchase: services/duplicates.py and the requests and *)
(* jobs that call it (api/receipts.py, jobs/tasks.py, services/ynab.py).   *)
(*                                                                         *)
(* A status is in duplicate review, SYNCING, or any other; its text and    *)
(* the warning of a near match, which changes nothing else, are left out.  *)
(* Receipts are numbered as they were ingested.  Of a receipt in the bin   *)
(* the client only asks to have it back.  A check reads and writes in one  *)
(* step; as a retry can be asked for at any time, an extraction may end at *)
(* any time.                                                               *)
(***************************************************************************)
EXTENDS Integers, FiniteSets

CONSTANTS
    Receipts,   \* receipts, in the order of their ingestion
    Drafts,     \* what a draft may say: its kind and signature, valid or not
    Nothing,    \* no signature, no receipt
    MaxBin,     \* bound: receipts in the bin at a time
    MaxSynced   \* bound: receipts synced at a time

ASSUME DuplicateConstants ==
    /\ Receipts \subseteq Nat
    /\ Nothing \notin Receipts
    /\ MaxBin \in Nat /\ MaxSynced \in Nat
    /\ \A d \in Drafts : DOMAIN d = {"sig", "kind", "valid"} /\ d.valid \in BOOLEAN

VARIABLES
    row,         \* the receipt: absent, live, deleted, merged (confirmed), purged
    draft,       \* its latest draft
    mark,        \* its columns: status, duplicate_of, override, signature
    synced,      \* it has a successful sync
    excused      \* history: undeleted or restored, and not checked since

vars == <<row, draft, mark, synced, excused>>

NoDraft == [sig |-> Nothing, kind |-> "purchase", valid |-> FALSE]
NoMark  == [status |-> "OTHER", of |-> Nothing, override |-> Nothing, sig |-> Nothing]

RoomInBin == Cardinality({r \in Receipts : row[r] = "deleted"}) < MaxBin
RoomToSync == Cardinality({r \in Receipts : synced[r]}) < MaxSynced

There(r)    == row[r] \in {"live", "deleted"}
InReview(r) == mark[r].status = "DUPLICATE_REVIEW"

-----------------------------------------------------------------------------
(* apply_semantic_duplicate_state *)

Matches(r, sig) == {x \in Receipts \ {r} : row[x] = "live" /\ mark[x].sig = sig}

(* Mutant: a receipt in duplicate review can be the original of another. *)
PoolOfAll(r, sig) == Matches(r, sig)

Pool(r, sig) == {x \in Matches(r, sig) : ~ InReview(x)}

First(S) == CHOOSE x \in S : \A y \in S : x <= y

(* Mutant: only the first match is asked for its kind. *)
SameKindAsFirst(r, d) ==
    {x \in Pool(r, d.sig) : draft[First(Pool(r, d.sig))].kind = d.kind}

SameKind(r, d) == {x \in Pool(r, d.sig) : draft[x].kind = d.kind}

Cleared(m, sig, override) ==
    [status |-> IF m.status = "DUPLICATE_REVIEW" THEN "OTHER" ELSE m.status,
     of |-> Nothing, override |-> override, sig |-> sig]

Flagged(d, copies) ==
    [status |-> "DUPLICATE_REVIEW", of |-> First(copies), override |-> Nothing, sig |-> d.sig]

(* Mutant: a check forgets that the user said it is no duplicate. *)
CheckedAgain(r, d, m) ==
    IF d.sig = Nothing \/ SameKind(r, d) = {} THEN Cleared(m, d.sig, m.override)
    ELSE [Flagged(d, SameKind(r, d)) EXCEPT !.override = m.override]

(* The columns after a check of draft d, for a row that had the columns m. *)
Checked(r, d, m) ==
    IF d.sig \in {Nothing, m.override} THEN Cleared(m, d.sig, m.override)
    ELSE IF SameKind(r, d) = {} THEN Cleared(m, d.sig, Nothing)
    ELSE Flagged(d, SameKind(r, d))

-----------------------------------------------------------------------------
(* Extraction *)

Ingest(r) ==
    /\ row[r] = "absent"
    /\ \A x \in Receipts : x < r => row[x] # "absent"
    /\ row' = [row EXCEPT ![r] = "live"]
    /\ UNCHANGED <<draft, mark, synced, excused>>

(* POST retry-extract: EXTRACTING, whatever it was; the link stays. *)
RetryExtract(r) ==
    /\ row[r] = "live"
    /\ mark' = [mark EXCEPT ![r].status = "OTHER"]
    /\ UNCHANGED <<row, draft, synced, excused>>

ExtractionSucceeds(r, d) ==
    /\ There(r) /\ d.valid
    /\ draft' = [draft EXCEPT ![r] = d]
    /\ mark' = [mark EXCEPT ![r] = Checked(r, d, [@ EXCEPT !.status = "OTHER"])]
    /\ excused' = [excused EXCEPT ![r] = FALSE]
    /\ UNCHANGED <<row, synced>>

ExtractionFails(r) ==
    /\ There(r)
    /\ mark' = [mark EXCEPT ![r].status = "OTHER"]
    /\ UNCHANGED <<row, draft, synced, excused>>

-----------------------------------------------------------------------------
(* The user's requests *)

(* POST draft, and POST candidates/choose, which keeps the signature.  A draft
   that is not valid takes the receipt out of the comparison. *)
SaveDraft(r, d) ==
    /\ row[r] = "live"
    /\ draft' = [draft EXCEPT ![r] = d]
    /\ mark' = [mark EXCEPT ![r] = IF d.valid THEN Checked(r, d, @)
                                   ELSE Cleared(@, Nothing, Nothing)]
    /\ excused' = [excused EXCEPT ![r] = FALSE]
    /\ UNCHANGED <<row, synced>>

(* POST twin/confirm and PUT twin write a draft and do not check it. *)
RefreshDraft(r, d) ==
    /\ row[r] = "live" /\ draft[r] # NoDraft
    /\ d.kind = draft[r].kind /\ d # draft[r]
    /\ draft' = [draft EXCEPT ![r] = d]
    /\ UNCHANGED <<row, mark, synced, excused>>

(* POST reset-to-synced: the columns of a check, but synced all the same.  Which
   draft had been synced is left open. *)
ResetToSynced(r, d) ==
    /\ row[r] = "live" /\ mark[r].status # "SYNCING" /\ synced[r] /\ d.valid
    /\ draft' = [draft EXCEPT ![r] = d]
    /\ mark' = [mark EXCEPT ![r] = [Checked(r, d, @) EXCEPT !.status = "OTHER", !.of = Nothing]]
    /\ excused' = [excused EXCEPT ![r] = TRUE]
    /\ UNCHANGED <<row, synced>>

(* Mutant: the link is taken away and the receipt stays in review. *)
OverrideLinkOnly(r) ==
    /\ row[r] = "live" /\ draft[r].valid
    /\ mark' = [mark EXCEPT ![r].override = draft[r].sig, ![r].of = Nothing]
    /\ UNCHANGED <<row, draft, synced, excused>>

OverrideDuplicate(r) ==
    /\ row[r] = "live" /\ draft[r].valid
    /\ mark' = [mark EXCEPT ![r] =
                  Cleared(@, @.sig, IF @.sig # Nothing THEN @.sig ELSE draft[r].sig)]
    /\ UNCHANGED <<row, draft, synced, excused>>

(* A row is gone; that it was a duplicate, and of which receipt, is kept. *)
Gone(r, how, of) ==
    /\ row' = [row EXCEPT ![r] = how]
    /\ draft' = [draft EXCEPT ![r] = NoDraft]
    /\ mark' = [mark EXCEPT ![r] = [NoMark EXCEPT !.of = of]]
    /\ synced' = [synced EXCEPT ![r] = FALSE]
    /\ excused' = [excused EXCEPT ![r] = FALSE]

ConfirmDuplicate(r) ==
    /\ row[r] = "live" /\ InReview(r) /\ mark[r].of # Nothing
    /\ Gone(r, "merged", mark[r].of)

DeleteReceipt(r) ==
    /\ row[r] = "live" /\ mark[r].status # "SYNCING" /\ ~ synced[r]
    /\ RoomInBin
    /\ row' = [row EXCEPT ![r] = "deleted"]
    /\ UNCHANGED <<draft, mark, synced, excused>>

(* Undo: nothing is checked. *)
RestoreReceipt(r) ==
    /\ row[r] = "deleted"
    /\ row' = [row EXCEPT ![r] = "live"]
    /\ excused' = [excused EXCEPT ![r] = TRUE]
    /\ UNCHANGED <<draft, mark, synced>>

Purge(r) ==
    /\ row[r] = "deleted"
    /\ Gone(r, "purged", Nothing)

-----------------------------------------------------------------------------
(* Sync: the click checks and claims, the job checks once more. *)

ClickSync(r) ==
    LET found == Checked(r, draft[r], mark[r])
    IN  /\ row[r] = "live" /\ draft[r].valid
        /\ mark' = [mark EXCEPT ![r] = IF found.of # Nothing THEN found
                                       ELSE [found EXCEPT !.status = "SYNCING"]]
        /\ excused' = [excused EXCEPT ![r] = FALSE]
        /\ UNCHANGED <<row, draft, synced>>

SyncEnds(r) ==
    LET found == Checked(r, draft[r], mark[r])
    IN  /\ There(r) /\ mark[r].status = "SYNCING" /\ draft[r].valid
        /\ \/ /\ found.of # Nothing
              /\ mark' = [mark EXCEPT ![r] = found]
              /\ UNCHANGED synced
           \/ /\ found.of = Nothing
              /\ mark' = [mark EXCEPT ![r] = [found EXCEPT !.status = "OTHER"]]
              /\ \E ok \in {FALSE, RoomToSync} : synced' = [synced EXCEPT ![r] = @ \/ ok]
        /\ excused' = [excused EXCEPT ![r] = FALSE]
        /\ UNCHANGED <<row, draft>>

-----------------------------------------------------------------------------
Init ==
    /\ row = [r \in Receipts |-> "absent"]
    /\ draft = [r \in Receipts |-> NoDraft]
    /\ mark = [r \in Receipts |-> NoMark]
    /\ synced = [r \in Receipts |-> FALSE]
    /\ excused = [r \in Receipts |-> FALSE]

Request(r) ==
    \/ \E d \in Drafts : SaveDraft(r, d) \/ RefreshDraft(r, d) \/ ResetToSynced(r, d)
    \/ OverrideDuplicate(r) \/ ConfirmDuplicate(r)
    \/ DeleteReceipt(r) \/ RestoreReceipt(r)
    \/ RetryExtract(r) \/ ClickSync(r)

Background(r) ==
    \/ Ingest(r) \/ Purge(r) \/ SyncEnds(r)
    \/ \E d \in Drafts : ExtractionSucceeds(r, d)
    \/ ExtractionFails(r)

Next == \E r \in Receipts : Request(r) \/ Background(r)

Spec == Init /\ [][Next]_vars

-----------------------------------------------------------------------------
(* Properties *)

Sigs  == {d.sig : d \in Drafts} \cup {Nothing}
Marks == [status : {"OTHER", "DUPLICATE_REVIEW", "SYNCING"}, of : Receipts \cup {Nothing},
          override : Sigs, sig : Sigs]

(* Types; and what is in review has a receipt it is a duplicate of, which is
   what the user needs to confirm it. *)
TypeOK ==
    /\ row \in [Receipts -> {"absent", "live", "deleted", "merged", "purged"}]
    /\ draft \in [Receipts -> Drafts \cup {NoDraft}]
    /\ mark \in [Receipts -> Marks]
    /\ synced \in [Receipts -> BOOLEAN]
    /\ excused \in [Receipts -> BOOLEAN]
    /\ \A r \in Receipts : InReview(r) => mark[r].of # Nothing

(* Confirming duplicates, whichever and in whatever order, never removes all
   scans of a purchase: of any receipts that were removed as duplicates, or can
   be, one is a duplicate of a receipt outside of them. *)
Copy(r) == row[r] = "merged" \/ (There(r) /\ InReview(r))

OriginalsRemain ==
    \A S \in SUBSET {r \in Receipts : Copy(r)} :
      S # {} => \E r \in S : mark[r].of \in Receipts \ S

(* What the user said is no duplicate stays so, until the receipt says
   something else. *)
OverrideHolds ==
    \A r \in Receipts :
      mark[r].override # Nothing /\ mark[r].override = mark[r].sig => ~ InReview(r)

(* Of two receipts that say the same and are of the same kind, one is flagged,
   or the user decided on one of them: said that it is no duplicate, took it
   back from the bin, or restored it as it was synced. *)
Decided(r) == excused[r] \/ (mark[r].override # Nothing /\ mark[r].override = mark[r].sig)

TwinsAreFlagged ==
    \A r, x \in Receipts :
      /\ r # x /\ row[r] = "live" /\ row[x] = "live"
      /\ mark[r].sig # Nothing /\ mark[r].sig = mark[x].sig
      /\ draft[r].kind = draft[x].kind
      => mark[r].of # Nothing \/ mark[x].of # Nothing \/ Decided(r) \/ Decided(x)
=============================================================================
