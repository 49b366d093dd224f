------------------------------ MODULE Ingestion ------------------------------
(***************************************************************************)
(* How files in the NAS incoming folder become receipts                    *)
(* (services/ingestion.py, services/retention.py).                         *)
(*                                                                         *)
(* Two scanners work on one folder: the loop of worker/scanner.py and the  *)
(* one POST /ingest/scan runs in the API process.  A scanner looks the     *)
(* content of a file up by its hash; a live receipt makes the file a       *)
(* duplicate, a soft-deleted one is removed for good in the transaction    *)
(* that adds the new receipt.  The folder, the object store and the        *)
(* database change in separate steps, and a step may fail or be the last.  *)
(*                                                                         *)
(* A receipt is known by its content (file_hash is unique) and by which    *)
(* row of that content it is.  The stability passes of scan_once only      *)
(* delay: the shipper puts whole files into the folder.  Enqueueing the    *)
(* extraction job belongs to the receipt's further life and is left out,   *)
(* as is the size limit.                                                   *)
(***************************************************************************)
EXTENDS Naturals

CONSTANTS
    Files,         \* file names in the folder
    Contents,      \* file hashes
    content,       \* the hash of each file
    Scanners,      \* scanning processes
    ScanFaults,    \* which of "move", "crash" happen
    MaxFaults,     \* bound: things that go wrong
    Nobody         \* "no file"

VARIABLES
    incoming,   \* the files in the folder
    row,        \* the receipt row of each content
    scan,       \* what each scanner is doing
    received,   \* contents that have been committed as a receipt
    stray,      \* files in the object store that no row refers to
    faults      \* number of faults so far

(* life: "none" when there is no row; gen: which row of this content it is;
   file: its stored file exists *)
Row == [life : {"none", "live", "deleted"}, gen : Nat, file : BOOLEAN]

(* deleting: the open transaction deletes the row gen of the file's content *)
ScanState == [pc : {"idle", "unlink", "replace", "move", "commit"},
              file : Files \cup {Nobody}, gen : Nat, deleting : BOOLEAN]

Idle == [pc |-> "idle", file |-> Nobody, gen |-> 0, deleting |-> FALSE]

ScanFault(kind) == kind \in ScanFaults /\ faults < MaxFaults /\ faults' = faults + 1

(* SQLite lets one transaction write at a time. *)
Locked == \E s \in Scanners : scan[s].deleting

-----------------------------------------------------------------------------
(* ingest_file *)

(* Mutant: a step that does not exist. *)
PathForDeleted(r) == IF r.life = "none" THEN "move" ELSE r.life

PathFor(r) == CASE r.life = "live"    -> "unlink"
                [] r.life = "deleted" -> "replace"
                [] r.life = "none"    -> "move"

Lookup(s, f) ==
    /\ scan[s].pc = "idle"
    /\ f \in incoming
    /\ scan' = [scan EXCEPT ![s] = [pc |-> PathFor(row[content[f]]), file |-> f,
                                    gen |-> row[content[f]].gen, deleting |-> FALSE]]
    /\ UNCHANGED <<incoming, row, received, stray, faults>>

UnlinkDuplicate(s) ==
    /\ scan[s].pc = "unlink"
    /\ incoming' = incoming \ {scan[s].file}
    /\ scan' = [scan EXCEPT ![s] = Idle]
    /\ UNCHANGED <<row, received, stray, faults>>

(* hard_delete_receipt and flush: the stored file goes at once, the row with
   the commit. *)
WithoutFile(r, gen) == IF r.gen = gen THEN [r EXCEPT !.file = FALSE] ELSE r

HardDelete(s) ==
    LET c == content[scan[s].file]
    IN  /\ scan[s].pc = "replace"
        /\ ~ Locked
        /\ row' = [row EXCEPT ![c] = WithoutFile(@, scan[s].gen)]
        /\ scan' = [scan EXCEPT ![s].pc = "move", ![s].deleting = TRUE]
        /\ UNCHANGED <<incoming, received, stray, faults>>

(* Mutant: a move that fails leaves nothing behind. *)
NothingLeft(f) == incoming \ {f}

LeftByFailedMove(f) == incoming

MoveToStorage(s) ==
    /\ scan[s].pc = "move"
    /\ scan[s].file \in incoming
    /\ incoming' = incoming \ {scan[s].file}
    /\ stray' = stray \cup {scan[s].file}
    /\ scan' = [scan EXCEPT ![s].pc = "commit"]
    /\ UNCHANGED <<row, received, faults>>

Deleted(r, gen) == IF r.gen = gen /\ r.life # "none"
                   THEN [r EXCEPT !.life = "none", !.file = FALSE] ELSE r

(* The move raises: the disk, or the other scanner was faster.  scan_once
   catches it and goes on with the same session, so that the pending DELETE is
   committed with the next file of the pass, or rolled back when there is
   none. *)
MoveFails(s) ==
    LET c == content[scan[s].file]
    IN  /\ scan[s].pc = "move"
        /\ \/ scan[s].file \notin incoming /\ UNCHANGED <<incoming, faults>>
           \/ /\ scan[s].file \in incoming
              /\ ScanFault("move")
              /\ incoming' = LeftByFailedMove(scan[s].file)
        /\ \/ UNCHANGED row
           \/ /\ scan[s].deleting
              /\ row' = [row EXCEPT ![c] = Deleted(@, scan[s].gen)]
        /\ scan' = [scan EXCEPT ![s] = Idle]
        /\ UNCHANGED <<received, stray>>

(* db.commit: the unique file_hash refuses a second row of a content; the
   moved file then stays in the store without a receipt. *)
CommitReceipt(s) ==
    LET c   == content[scan[s].file]
        old == IF scan[s].deleting THEN Deleted(row[c], scan[s].gen) ELSE row[c]
    IN  /\ scan[s].pc = "commit"
        /\ Locked => scan[s].deleting
        /\ \/ /\ old.life = "none"
              /\ row' = [row EXCEPT ![c] = [life |-> "live", gen |-> @.gen + 1, file |-> TRUE]]
              /\ received' = received \cup {c}
              /\ stray' = stray \ {scan[s].file}
           \/ /\ old.life # "none"
              /\ UNCHANGED <<row, received, stray>>
        /\ scan' = [scan EXCEPT ![s] = Idle]
        /\ UNCHANGED <<incoming, faults>>

(* The process dies: the open transaction is rolled back, the folder and the
   store stay as they are. *)
ScannerDies(s) ==
    /\ ScanFault("crash")
    /\ scan[s].pc # "idle"
    /\ scan' = [scan EXCEPT ![s] = Idle]
    /\ UNCHANGED <<incoming, row, received, stray>>

-----------------------------------------------------------------------------
(* The user and the purge sweep *)

SoftDelete(c) ==
    /\ row[c].life = "live" /\ ~ Locked
    /\ row' = [row EXCEPT ![c].life = "deleted"]
    /\ UNCHANGED <<incoming, scan, received, stray, faults>>

Restore(c) ==
    /\ row[c].life = "deleted" /\ ~ Locked
    /\ row' = [row EXCEPT ![c].life = "live"]
    /\ UNCHANGED <<incoming, scan, received, stray, faults>>

(* purge_soft_deleted_receipts, soft_delete_purge_minutes (5) after the
   deletion: a scanner that saw the receipt live is done by then. *)
Sweep(c) ==
    /\ row[c].life = "deleted" /\ ~ Locked
    /\ \A s \in Scanners : scan[s].pc = "unlink" => content[scan[s].file] # c
    /\ row' = [row EXCEPT ![c] = Deleted(@, @.gen)]
    /\ UNCHANGED <<incoming, scan, received, stray, faults>>

-----------------------------------------------------------------------------
NoRowYet == [life |-> "none", gen |-> 0, file |-> FALSE]

IngestionInit ==
    /\ row      = [c \in Contents |-> NoRowYet]
    /\ scan     = [s \in Scanners |-> Idle]
    /\ received = {}
    /\ stray    = {}

ScanStep(s) ==
    \/ \E f \in Files : Lookup(s, f)
    \/ UnlinkDuplicate(s) \/ HardDelete(s)
    \/ MoveToStorage(s) \/ MoveFails(s) \/ CommitReceipt(s)

IngestionStep ==
    \/ \E s \in Scanners : ScanStep(s) \/ ScannerDies(s)
    \/ \E c \in Contents : SoftDelete(c) \/ Restore(c) \/ Sweep(c)

\* Types: receipt rows, the object store and the step a scanner is at.
IngestionTypeOK ==
    /\ incoming \in SUBSET Files
    /\ row      \in [Contents -> Row]
    /\ scan     \in [Scanners -> ScanState]
    /\ received \in SUBSET Contents
    /\ stray    \in SUBSET Files
    /\ faults   \in 0..MaxFaults
=============================================================================
