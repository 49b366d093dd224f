---------------------------- MODULE OutboxShipper ----------------------------
(***************************************************************************)
(* The Raspberry Pi shipper (edge/pi-outbox-shipper): files that have      *)
(* become stable are moved from an inbox to the outbox, sent to a staging  *)
(* folder of the NAS, promoted into the incoming folder by a remote mv,    *)
(* recorded as sent in SQLite and removed from the outbox.                 *)
(*                                                                         *)
(* Processes: the daemon (shipper run) and whatever the operator starts    *)
(* beside it, as docs/troubleshooting.md tells him to (shipper drain,      *)
(* shipper once); nothing excludes two at once, and all share the outbox   *)
(* and the database.  A process loses its memory when it dies, not the     *)
(* disk.  The server's scanner takes files out of the incoming folder at   *)
(* any time (Consume; the module ReceiptDelivery puts the scanner there).  *)
(*                                                                         *)
(* A file stands for its outbox name, which is unique (build_outbox_name   *)
(* ends in a random suffix).  The stability test only delays, so a file    *)
(* enters the model when it has passed it.  Of a retry's due time there is *)
(* left whether it lies in the future: compute_backoff_seconds is at most  *)
(* max_backoff_seconds, so it comes.  The order of the outbox and the      *)
(* names of the staged parts (fresh for every attempt) are left out.       *)
(***************************************************************************)
EXTENDS Naturals, FiniteSets

CONSTANTS
    Files,         \* files the scanner and Dropbox put into the inboxes
    Shippers,      \* shipper processes
    Daemons,       \* those that run for ever (shipper run)
    DryRun,        \* those started with sender.dry_run
    RsyncDryRun,   \* those started with sender.rsync_dry_run
    MaxFaults,     \* bound: things that go wrong
    Nobody         \* "no file"

ASSUME ShipperConstants ==
    /\ Daemons \subseteq Shippers
    /\ DryRun \subseteq Shippers
    /\ RsyncDryRun \subseteq Shippers
    /\ MaxFaults \in Nat
    /\ Nobody \notin Files

VARIABLES
    at,        \* where the local copy of a file is
    record,    \* deliveries.status, "none" when there is no row
    waiting,   \* deliveries.next_retry_at lies in the future
    shipper,   \* what each process is doing
    incoming,  \* the files in the incoming folder of the NAS
    handed,    \* how many times a file was promoted into it
    faults     \* number of faults so far (bounds the model)

localVars == <<at, record, waiting, shipper>>
vars == <<at, record, waiting, shipper, incoming, handed, faults>>

Places  == {"outside", "inbox", "outbox", "released"}
Records == {"none", "pending", "retry", "sent"}
PCs     == {"scan", "moved", "send", "probe", "transfer", "promote",
            "mark", "cleanup", "retry"}

ShipperState == [pc : PCs, file : Files \cup {Nobody}, todo : SUBSET Files]
Fresh == [pc |-> "scan", file |-> Nobody, todo |-> {}]

Fault == faults < MaxFaults /\ faults' = faults + 1

(* where process p goes on with the file it holds *)
Goto(p, pc) == shipper' = [shipper EXCEPT ![p].pc = pc]

(* back to the loop of send_available *)
NextFile(p) == shipper' = [shipper EXCEPT ![p].pc = "send", ![p].file = Nobody]

-----------------------------------------------------------------------------
(* The inbox *)

Arrive(f) ==
    /\ at[f] = "outside"
    /\ at' = [at EXCEPT ![f] = "inbox"]
    /\ UNCHANGED <<record, waiting, shipper, incoming, handed, faults>>

(* enqueue_stable_files: os.replace; of two processes one wins and the other
   goes on (ENOENT). *)
MoveToOutbox(p, f) ==
    /\ shipper[p].pc = "scan"
    /\ at[f] = "inbox"
    /\ at' = [at EXCEPT ![f] = "outbox"]
    /\ shipper' = [shipper EXCEPT ![p].pc = "moved", ![p].file = f]
    /\ UNCHANGED <<record, waiting, incoming, handed, faults>>

(* Mutant: the row is created with the place of the file as its status. *)
EnsuredAsPlace(f) == IF record[f] = "none" THEN at[f] ELSE record[f]

(* ensure_record: INSERT ... ON CONFLICT DO NOTHING *)
Ensured(f) == IF record[f] = "none" THEN "pending" ELSE record[f]

RecordMoved(p) ==
    /\ shipper[p].pc = "moved"
    /\ record' = [record EXCEPT ![shipper[p].file] = Ensured(shipper[p].file)]
    /\ shipper' = [shipper EXCEPT ![p].pc = "scan", ![p].file = Nobody]
    /\ UNCHANGED <<at, waiting, incoming, handed, faults>>

-----------------------------------------------------------------------------
(* send_available: a loop over the files found in the outbox at its start *)

BeginSend(p) ==
    /\ shipper[p].pc = "scan"
    /\ \A f \in Files : at[f] # "inbox"
    /\ shipper' = [shipper EXCEPT ![p].pc = "send",
                                  ![p].todo = {f \in Files : at[f] = "outbox"}]
    /\ UNCHANGED <<at, record, waiting, incoming, handed, faults>>

EndSend(p) ==
    /\ shipper[p].pc = "send"
    /\ shipper[p].todo = {}
    /\ Goto(p, "scan")
    /\ UNCHANGED <<at, record, waiting, incoming, handed, faults>>

(* The file is gone, or its retry is not due. *)
Skip(p, f) ==
    /\ shipper[p].pc = "send"
    /\ f \in shipper[p].todo
    /\ \/ /\ at[f] # "outbox"
          /\ UNCHANGED record
       \/ /\ at[f] = "outbox" /\ record[f] # "sent" /\ waiting[f]
          /\ record' = [record EXCEPT ![f] = Ensured(f)]
    /\ shipper' = [shipper EXCEPT ![p].todo = @ \ {f}]
    /\ UNCHANGED <<at, waiting, incoming, handed, faults>>

(* It was sent and its cleanup did not happen: cleaned up now.  An error there
   ends the cycle. *)
CleanUpSent(p, f) ==
    /\ shipper[p].pc = "send"
    /\ f \in shipper[p].todo
    /\ at[f] = "outbox" /\ record[f] = "sent"
    /\ \/ /\ at' = [at EXCEPT ![f] = "released"]
          /\ shipper' = [shipper EXCEPT ![p].todo = @ \ {f}]
          /\ UNCHANGED faults
       \/ /\ Fault
          /\ shipper' = [shipper EXCEPT ![p] = Fresh]
          /\ UNCHANGED at
    /\ UNCHANGED <<record, waiting, incoming, handed>>

(* Mutant: due_for_send knows the status pending only. *)
StartSendingPending(p, f) ==
    /\ shipper[p].pc = "send"
    /\ f \in shipper[p].todo
    /\ at[f] = "outbox" /\ record[f] \in {"none", "pending"}
    /\ record' = [record EXCEPT ![f] = Ensured(f)]
    /\ shipper' = [shipper EXCEPT ![p] = [pc |-> "probe", file |-> f, todo |-> @.todo \ {f}]]
    /\ UNCHANGED <<at, waiting, incoming, handed, faults>>

StartSending(p, f) ==
    /\ shipper[p].pc = "send"
    /\ f \in shipper[p].todo
    /\ at[f] = "outbox" /\ record[f] # "sent" /\ ~ waiting[f]
    /\ record' = [record EXCEPT ![f] = Ensured(f)]
    /\ shipper' = [shipper EXCEPT
                     ![p] = [pc |-> IF p \in DryRun THEN "mark" ELSE "probe",
                             file |-> f, todo |-> @.todo \ {f}]]
    /\ UNCHANGED <<at, waiting, incoming, handed, faults>>

-----------------------------------------------------------------------------
(* _send_one, one step per remote command, database write and unlink *)

(* mkdir -p and test -f.  A failing test counts as "not there" (check=False). *)
Probe(p) ==
    LET f == shipper[p].file
    IN  /\ shipper[p].pc = "probe"
        /\ \/ /\ Goto(p, IF f \in incoming THEN "mark" ELSE "transfer")
              /\ UNCHANGED faults
           \/ /\ Fault
              /\ Goto(p, "retry") \/ Goto(p, "transfer")
        /\ UNCHANGED <<at, record, waiting, incoming, handed>>

(* Mutant: the switch is read the wrong way round. *)
AfterTransferInverted(p) == IF p \in RsyncDryRun THEN "promote" ELSE "mark"

(* rsync into the staging folder; it fails when another process has cleaned the
   file up meanwhile. *)
AfterTransfer(p) == IF p \in RsyncDryRun THEN "mark" ELSE "promote"

Transfer(p) ==
    LET f == shipper[p].file
    IN  /\ shipper[p].pc = "transfer"
        /\ \/ /\ at[f] = "outbox"
              /\ Goto(p, AfterTransfer(p))
              /\ UNCHANGED faults
           \/ /\ at[f] # "outbox"
              /\ Goto(p, "retry")
              /\ UNCHANGED faults
           \/ Fault /\ Goto(p, "retry")
        /\ UNCHANGED <<at, record, waiting, incoming, handed>>

(* _promote_remote: if the final file exists the part is removed, else it is
   renamed.  The command fails before, or its answer is lost after. *)
PromoteRemote(f) ==
    /\ incoming' = incoming \cup {f}
    /\ handed'   = [handed EXCEPT ![f] = IF f \in incoming THEN @ ELSE @ + 1]

Promote(p) ==
    LET f == shipper[p].file
    IN  /\ shipper[p].pc = "promote"
        /\ \/ PromoteRemote(f) /\ Goto(p, "mark") /\ UNCHANGED faults
           \/ PromoteRemote(f) /\ Fault /\ Goto(p, "retry")
           \/ Fault /\ Goto(p, "retry") /\ UNCHANGED <<incoming, handed>>
        /\ UNCHANGED <<at, record, waiting>>

MarkSent(p) ==
    LET f == shipper[p].file
    IN  /\ shipper[p].pc = "mark"
        /\ record'  = [record EXCEPT ![f] = "sent"]
        /\ waiting' = [waiting EXCEPT ![f] = FALSE]
        /\ Goto(p, "cleanup")
        /\ UNCHANGED <<at, incoming, handed, faults>>

(* _cleanup_local.  It raises when the disk does, or when another process is
   cleaning up the same file. *)
Cleanup(p) ==
    LET f == shipper[p].file
    IN  /\ shipper[p].pc = "cleanup"
        /\ \/ /\ at' = [at EXCEPT ![f] = "released"]
              /\ NextFile(p)
              /\ UNCHANGED faults
           \/ Fault /\ Goto(p, "retry") /\ UNCHANGED at
           \/ at[f] = "released" /\ Goto(p, "retry") /\ UNCHANGED <<at, faults>>
        /\ UNCHANGED <<record, waiting, incoming, handed>>

(* The except branch: whatever failed, the row says retry, also after it has
   said sent. *)
MarkRetry(p) ==
    LET f == shipper[p].file
    IN  /\ shipper[p].pc = "retry"
        /\ record'  = [record EXCEPT ![f] = "retry"]
        /\ waiting' = [waiting EXCEPT ![f] = TRUE]
        /\ NextFile(p)
        /\ UNCHANGED <<at, incoming, handed, faults>>

-----------------------------------------------------------------------------
(* Crashes, time and the NAS *)

Crash(p) ==
    /\ Fault
    /\ shipper[p] # Fresh
    /\ shipper' = [shipper EXCEPT ![p] = Fresh]
    /\ UNCHANGED <<at, record, waiting, incoming, handed>>

BackoffExpires(f) ==
    /\ waiting[f]
    /\ waiting' = [waiting EXCEPT ![f] = FALSE]
    /\ UNCHANGED <<at, record, shipper, incoming, handed, faults>>

Consume(f) ==
    /\ f \in incoming
    /\ incoming' = incoming \ {f}
    /\ UNCHANGED <<localVars, handed, faults>>

-----------------------------------------------------------------------------
Init ==
    /\ at       = [f \in Files |-> "outside"]
    /\ record   = [f \in Files |-> "none"]
    /\ waiting  = [f \in Files |-> FALSE]
    /\ shipper  = [p \in Shippers |-> Fresh]
    /\ incoming = {}
    /\ handed   = [f \in Files |-> 0]
    /\ faults   = 0

SendOne(p) ==
    \/ Probe(p) \/ Transfer(p) \/ Promote(p)
    \/ MarkSent(p) \/ Cleanup(p) \/ MarkRetry(p)

ShipperStep(p) ==
    \/ \E f \in Files : \/ MoveToOutbox(p, f)
                        \/ Skip(p, f) \/ CleanUpSent(p, f) \/ StartSending(p, f)
    \/ RecordMoved(p) \/ BeginSend(p) \/ EndSend(p)
    \/ SendOne(p)

EdgeStep ==
    \/ \E p \in Shippers : ShipperStep(p) \/ Crash(p)
    \/ \E f \in Files : Arrive(f) \/ BackoffExpires(f)

Next == EdgeStep \/ \E f \in Files : Consume(f)

Spec == Init /\ [][Next]_vars

(* The daemon goes on with its cycle, whatever happens (systemd restarts it),
   and a due time passes; of a drain or once nothing is assumed, it may stop
   anywhere.  Faults are finitely many: the NAS comes back. *)
Fairness ==
    /\ \A p \in Daemons : WF_vars(ShipperStep(p))
    /\ \A f \in Files : WF_vars(BackoffExpires(f))

FairSpec == Spec /\ Fairness

-----------------------------------------------------------------------------
(* Properties *)

\* Types: the places of a file, its delivery record and the step a process is at.
TypeOK ==
    /\ at       \in [Files -> Places]
    /\ record   \in [Files -> Records]
    /\ waiting  \in [Files -> BOOLEAN]
    /\ shipper  \in [Shippers -> ShipperState]
    /\ incoming \in SUBSET Files
    /\ handed   \in [Files -> Nat]
    /\ faults   \in 0..MaxFaults

Accepted  == {f \in Files : at[f] # "outside"}
Delivered == {f \in Files : handed[f] > 0}
Released  == {f \in Files : at[f] = "released"}

(* Nothing is dropped: the row of a file says sent, and its local copy goes
   away, only when the file was promoted into the incoming folder
   (docs/architecture.md, "files are never dropped"). *)
NeverDropped ==
    \A f \in Files : record[f] = "sent" \/ f \in Released => f \in Delivered

H == INSTANCE HandOff WITH accepted <- Accepted, delivered <- Delivered,
                           released <- Released

(* The shipper, with its faults, crashes and racing processes, hands over every
   accepted file and keeps it until then. *)
ImplementsHandOff == H!FairSpec
=============================================================================
