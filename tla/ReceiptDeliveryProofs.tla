----------------------- MODULE ReceiptDeliveryProofs -----------------------
(***************************************************************************)
(* Theorems about the way of a file from the inbox to the receipt, for any *)
(* number of files, processes, scanners and faults: first OutboxShipper,   *)
(* by itself, then ReceiptDelivery, whose shipper steps are those of       *)
(* OutboxShipper.                                                          *)
(***************************************************************************)
EXTENDS ReceiptDelivery, TLAPS

(* No process was started with one of the dry-run switches. *)
NoDryRun == DryRun = {} /\ RsyncDryRun = {}

Busy == {"moved", "probe", "transfer", "promote", "mark", "cleanup", "retry"}

(* What a process holds has been accepted; what it is about to record as sent
   has been delivered. *)
ProcessOK(p) ==
    /\ shipper[p].todo \subseteq Accepted
    /\ shipper[p].pc \in Busy => shipper[p].file \in Accepted
    /\ NoDryRun /\ shipper[p].pc \in {"mark", "cleanup"} => shipper[p].file \in Delivered

(* The inductive invariant: NeverDropped holds because everything that leads to
   "sent" (a promotion, or the file found in the folder) is proof of delivery. *)
FolderOK == incoming \subseteq Delivered /\ Delivered \subseteq Accepted

SInv ==
    /\ TypeOK
    /\ \A p \in Shippers : ProcessOK(p)
    /\ FolderOK
    /\ NoDryRun => NeverDropped

USE ShipperConstants

LEMMA FreshType == Fresh \in ShipperState
BY DEF Fresh, ShipperState, PCs

LEMMA InitInv == Init => SInv
BY FreshType DEF Init, SInv, TypeOK, Places, Records, ProcessOK, FolderOK, NeverDropped,
   Accepted, Delivered, Released, Fresh, Busy

-----------------------------------------------------------------------------
(* How a step changes its process *)

LEMMA GotoEffect ==
    ASSUME TypeOK, NEW p \in Shippers, NEW pc \in PCs, Goto(p, pc)
    PROVE  /\ shipper' \in [Shippers -> ShipperState]
           /\ shipper'[p].pc = pc
           /\ shipper'[p].file = shipper[p].file /\ shipper'[p].todo = shipper[p].todo
           /\ \A q \in Shippers : q # p => shipper'[q] = shipper[q]
BY DEF TypeOK, Goto, ShipperState

LEMMA NextFileEffect ==
    ASSUME TypeOK, NEW p \in Shippers, NextFile(p)
    PROVE  /\ shipper' \in [Shippers -> ShipperState]
           /\ shipper'[p].pc = "send" /\ shipper'[p].todo = shipper[p].todo
           /\ \A q \in Shippers : q # p => shipper'[q] = shipper[q]
<1> DEFINE new == [shipper[p] EXCEPT !.pc = "send", !.file = Nobody]
<1>1. shipper[p] \in ShipperState
  BY DEF TypeOK
<1>2. new \in ShipperState /\ new.pc = "send" /\ new.todo = shipper[p].todo
  BY <1>1 DEF ShipperState, PCs
<1>3. shipper' = [shipper EXCEPT ![p] = new]
  BY <1>1 DEF TypeOK, NextFile
<1> HIDE DEF new
<1> QED BY <1>2, <1>3 DEF TypeOK

LEMMA FreshEffect ==
    ASSUME TypeOK, NEW p \in Shippers, shipper' = [shipper EXCEPT ![p] = Fresh]
    PROVE  /\ shipper' \in [Shippers -> ShipperState]
           /\ shipper'[p].pc = "scan" /\ shipper'[p].todo = {}
           /\ \A q \in Shippers : q # p => shipper'[q] = shipper[q]
BY FreshType DEF TypeOK, Fresh

LEMMA FaultEffect == ASSUME TypeOK, Fault PROVE faults' \in 0..MaxFaults
BY DEF TypeOK, Fault

(* Accepted and Delivered only grow, so the processes that do not step keep
   their part of the invariant. *)
LEMMA OthersKeep ==
    ASSUME NEW q \in Shippers, ProcessOK(q), shipper'[q] = shipper[q],
           Accepted \subseteq Accepted', Delivered \subseteq Delivered'
    PROVE  ProcessOK(q)'
BY DEF ProcessOK

(* A step that leaves folder and hand-overs alone, lets no file go back, and
   records as sent or releases only what was delivered. *)
LEMMA LocalStep ==
    ASSUME SInv,
           NEW p \in Shippers,
           UNCHANGED <<incoming, handed>>,
           at' \in [Files -> Places], record' \in [Files -> Records],
           waiting' \in [Files -> BOOLEAN], faults' \in 0..MaxFaults,
           shipper' \in [Shippers -> ShipperState],
           \A q \in Shippers : q # p => shipper'[q] = shipper[q],
           \A f \in Files : at[f] # "outside" => at'[f] # "outside",
           \A f \in Files : NoDryRun /\ record'[f] = "sent" => record[f] = "sent" \/ f \in Delivered,
           \A f \in Files : NoDryRun /\ at'[f] = "released" => at[f] = "released" \/ f \in Delivered,
           ProcessOK(p)'
    PROVE  SInv'
<1>1. Delivered' = Delivered /\ Accepted \subseteq Accepted'
  BY DEF Delivered, Accepted
<1>2. \A q \in Shippers : ProcessOK(q)'
  BY <1>1, OthersKeep DEF SInv
<1>3. FolderOK'
  BY <1>1 DEF SInv, FolderOK
<1>4. NoDryRun => NeverDropped'
  BY <1>1 DEF SInv, NeverDropped, Released
<1>5. TypeOK'
  BY DEF SInv, TypeOK
<1> QED BY <1>2, <1>3, <1>4, <1>5 DEF SInv

-----------------------------------------------------------------------------
(* The cycle *)

LEMMA LoopInv ==
    ASSUME SInv, NEW p \in Shippers, RecordMoved(p) \/ BeginSend(p) \/ EndSend(p)
    PROVE  SInv'
<1> USE DEF SInv
<1>a. TypeOK /\ ProcessOK(p) /\ shipper[p] \in ShipperState
  BY DEF TypeOK
<1>1. CASE RecordMoved(p)
  <2>1. shipper[p].file \in Files
    BY <1>a, <1>1 DEF RecordMoved, ProcessOK, Busy, Accepted
  <2>2. /\ record' \in [Files -> Records] /\ shipper' \in [Shippers -> ShipperState]
        /\ \A g \in Files : record'[g] = "sent" => record[g] = "sent"
        /\ \A q \in Shippers : q # p => shipper'[q] = shipper[q]
    BY <1>a, <1>1, <2>1 DEF RecordMoved, Ensured, TypeOK, Records, ShipperState, PCs
  <2>3. ProcessOK(p)'
    BY <1>a, <1>1 DEF RecordMoved, ProcessOK, TypeOK, ShipperState, Accepted, Busy
  <2> QED BY <1>a, <1>1, <2>2, <2>3, LocalStep DEF RecordMoved, TypeOK
<1>2. CASE BeginSend(p)
  <2>1. /\ shipper' \in [Shippers -> ShipperState]
        /\ \A q \in Shippers : q # p => shipper'[q] = shipper[q]
    BY <1>a, <1>2 DEF BeginSend, TypeOK, ShipperState, PCs
  <2>2. ProcessOK(p)'
    BY <1>a, <1>2 DEF BeginSend, ProcessOK, TypeOK, ShipperState, Accepted, Busy
  <2> QED BY <1>a, <1>2, <2>1, <2>2, LocalStep DEF BeginSend, TypeOK
<1>3. CASE EndSend(p)
  <2>1. ProcessOK(p)'
    BY <1>a, <1>3, GotoEffect DEF EndSend, ProcessOK, Accepted, Busy, PCs
  <2> QED BY <1>a, <1>3, <2>1, GotoEffect, LocalStep DEF EndSend, TypeOK, PCs
<1> QED BY <1>1, <1>2, <1>3

LEMMA CycleInv ==
    ASSUME SInv, NEW p \in Shippers, NEW f \in Files,
           MoveToOutbox(p, f) \/ Skip(p, f) \/ CleanUpSent(p, f) \/ StartSending(p, f)
    PROVE  SInv'
<1> USE DEF SInv
<1>a. TypeOK /\ ProcessOK(p) /\ shipper[p] \in ShipperState
  BY DEF TypeOK
<1>1. CASE MoveToOutbox(p, f)
  <2>1. /\ at' \in [Files -> Places] /\ shipper' \in [Shippers -> ShipperState]
        /\ \A g \in Files : at[g] # "outside" => at'[g] # "outside"
        /\ \A g \in Files : at'[g] = "released" => at[g] = "released"
        /\ \A q \in Shippers : q # p => shipper'[q] = shipper[q]
    BY <1>a, <1>1 DEF MoveToOutbox, TypeOK, Places, ShipperState, PCs
  <2>2. ProcessOK(p)'
    BY <1>a, <1>1, <2>1 DEF MoveToOutbox, ProcessOK, TypeOK, ShipperState, Accepted, Busy
  <2> QED BY <1>a, <1>1, <2>1, <2>2, LocalStep DEF MoveToOutbox, TypeOK
<1>2. CASE Skip(p, f)
  <2>1. /\ record' \in [Files -> Records] /\ shipper' \in [Shippers -> ShipperState]
        /\ \A g \in Files : record'[g] = "sent" => record[g] = "sent"
        /\ \A q \in Shippers : q # p => shipper'[q] = shipper[q]
    BY <1>a, <1>2 DEF Skip, Ensured, TypeOK, Records, ShipperState
  <2>2. ProcessOK(p)'
    BY <1>a, <1>2 DEF Skip, ProcessOK, TypeOK, ShipperState, Accepted, Delivered, Busy
  <2> QED BY <1>a, <1>2, <2>1, <2>2, LocalStep DEF Skip, TypeOK
<1>3. CASE CleanUpSent(p, f)
  <2>1. NoDryRun => f \in Delivered
    BY <1>3 DEF CleanUpSent, NeverDropped
  <2>2. CASE /\ at' = [at EXCEPT ![f] = "released"]
             /\ shipper' = [shipper EXCEPT ![p].todo = @ \ {f}]
             /\ UNCHANGED faults
    <3>1. /\ at' \in [Files -> Places] /\ shipper' \in [Shippers -> ShipperState]
          /\ \A g \in Files : at[g] # "outside" => at'[g] # "outside"
          /\ \A g \in Files : at'[g] = "released" => at[g] = "released" \/ g = f
          /\ \A q \in Shippers : q # p => shipper'[q] = shipper[q]
      BY <1>a, <2>2 DEF TypeOK, Places, ShipperState
    <3>2. ProcessOK(p)'
      BY <1>a, <1>3, <2>2, <3>1 DEF CleanUpSent, ProcessOK, TypeOK, ShipperState, Accepted, Delivered, Busy
    <3> QED BY <1>a, <1>3, <2>1, <2>2, <3>1, <3>2, LocalStep DEF CleanUpSent, TypeOK
  <2>3. CASE Fault /\ shipper' = [shipper EXCEPT ![p] = Fresh] /\ UNCHANGED at
    <3>1. ProcessOK(p)'
      BY <1>a, <2>3, FreshEffect DEF ProcessOK, Busy
    <3> QED BY <1>a, <1>3, <2>3, <3>1, FreshEffect, FaultEffect, LocalStep DEF CleanUpSent, TypeOK
  <2> QED BY <1>3, <2>2, <2>3 DEF CleanUpSent
<1>4. CASE StartSending(p, f)
  <2>1. PICK pc \in {"probe", "mark"} :
          /\ shipper' = [shipper EXCEPT ![p] = [pc |-> pc, file |-> f, todo |-> shipper[p].todo \ {f}]]
          /\ NoDryRun => pc = "probe"
    BY <1>a, <1>4 DEF StartSending, NoDryRun, TypeOK
  <2>2. /\ record' \in [Files -> Records] /\ shipper' \in [Shippers -> ShipperState]
        /\ \A g \in Files : record'[g] = "sent" => record[g] = "sent"
        /\ \A q \in Shippers : q # p => shipper'[q] = shipper[q]
    BY <1>a, <1>4, <2>1 DEF StartSending, Ensured, TypeOK, Records, ShipperState, PCs
  <2>3. ProcessOK(p)'
    BY <1>a, <1>4, <2>1 DEF StartSending, ProcessOK, TypeOK, ShipperState, Accepted, Busy
  <2> QED BY <1>a, <1>4, <2>2, <2>3, LocalStep DEF StartSending, TypeOK
<1> QED BY <1>1, <1>2, <1>3, <1>4
-----------------------------------------------------------------------------
(* Sending one file *)

LEMMA SendInv ==
    ASSUME SInv, NEW p \in Shippers, SendOne(p)
    PROVE  SInv'
<1> USE DEF SInv
<1> DEFINE f == shipper[p].file
<1>a. TypeOK /\ ProcessOK(p) /\ shipper[p] \in ShipperState
  BY DEF TypeOK
<1>b. shipper[p].pc \in Busy
  BY DEF SendOne, Probe, Transfer, Promote, MarkSent, Cleanup, MarkRetry, Busy
<1>c. f \in Accepted /\ f \in Files
  BY <1>a, <1>b DEF ProcessOK, Accepted
<1>1. CASE Probe(p)
  <2>1. PICK pc \in {"mark", "transfer", "retry"} :
          /\ Goto(p, pc)
          /\ faults' \in 0..MaxFaults
          /\ pc = "mark" => f \in Delivered
    BY <1>a, <1>1, FaultEffect DEF Probe, FolderOK, TypeOK
  <2>2. ProcessOK(p)'
    BY <1>a, <1>c, <1>1, <2>1, GotoEffect DEF Probe, ProcessOK, Accepted, Delivered, PCs
  <2> QED BY <1>a, <1>1, <2>1, <2>2, GotoEffect, LocalStep DEF Probe, TypeOK, PCs
<1>2. CASE Transfer(p)
  <2>1. PICK pc \in {"promote", "mark", "retry"} :
          /\ Goto(p, pc) /\ faults' \in 0..MaxFaults
          /\ NoDryRun => pc # "mark"
    BY <1>a, <1>2, FaultEffect DEF Transfer, AfterTransfer, NoDryRun, TypeOK
  <2>2. ProcessOK(p)'
    BY <1>a, <1>c, <1>2, <2>1, GotoEffect DEF Transfer, ProcessOK, Accepted, PCs
  <2> QED BY <1>a, <1>2, <2>1, <2>2, GotoEffect, LocalStep DEF Transfer, TypeOK, PCs
<1>3. CASE Promote(p)
  <2>1. PICK pc \in {"mark", "retry"} :
          /\ Goto(p, pc)
          /\ faults' \in 0..MaxFaults
          /\ PromoteRemote(f) \/ UNCHANGED <<incoming, handed>>
          /\ pc = "mark" => PromoteRemote(f)
    BY <1>a, <1>3, FaultEffect DEF Promote, TypeOK
  <2>2. UNCHANGED <<at, record, waiting>>
    BY <1>3 DEF Promote
  <2>3. CASE UNCHANGED <<incoming, handed>>
    <3>1. pc = "retry" \/ f \in Delivered
      BY <1>c, <2>1, <2>3 DEF PromoteRemote, FolderOK
    <3>2. ProcessOK(p)'
      BY <1>a, <1>c, <2>1, <2>2, <2>3, <3>1, GotoEffect DEF ProcessOK, Accepted, Delivered, PCs
    <3> QED BY <1>a, <2>1, <2>2, <2>3, <3>2, GotoEffect, LocalStep DEF TypeOK, PCs
  <2>4. CASE PromoteRemote(f)
    <3>1. handed' \in [Files -> Nat] /\ incoming' \in SUBSET Files
      BY <1>a, <1>c, <2>4 DEF PromoteRemote, TypeOK
    <3>2. Accepted' = Accepted /\ Delivered' = Delivered \cup {f}
      <4>1. CASE f \in incoming
        <5>1. handed' = handed /\ f \in Delivered
          BY <1>a, <1>c, <2>4, <4>1 DEF PromoteRemote, TypeOK, FolderOK
        <5> QED BY <2>2, <5>1 DEF Accepted, Delivered
      <4>2. CASE f \notin incoming
        <5>1. \A g \in Files : handed'[g] = IF g = f THEN handed[f] + 1 ELSE handed[g]
          BY <1>a, <1>c, <2>4, <4>2 DEF PromoteRemote, TypeOK
        <5>2. handed[f] + 1 > 0
          BY <1>a, <1>c DEF TypeOK
        <5> QED BY <1>c, <2>2, <5>1, <5>2 DEF Accepted, Delivered
      <4> QED BY <4>1, <4>2
    <3>3. FolderOK'
      BY <1>c, <2>4, <3>2 DEF FolderOK, PromoteRemote
    <3>4. ProcessOK(p)'
      BY <1>a, <1>c, <2>1, <3>2, GotoEffect DEF ProcessOK, PCs
    <3>5. \A q \in Shippers : ProcessOK(q)'
      BY <1>a, <2>1, <3>2, <3>4, GotoEffect, OthersKeep DEF PCs
    <3>6. NoDryRun => NeverDropped'
      BY <2>2, <3>2 DEF NeverDropped, Released
    <3>7. TypeOK'
      BY <1>a, <2>1, <2>2, <3>1, GotoEffect DEF TypeOK, PCs
    <3> QED BY <3>3, <3>5, <3>6, <3>7
  <2> QED BY <2>1, <2>3, <2>4
<1>4. CASE MarkSent(p)
  <2>1. NoDryRun => f \in Delivered
    BY <1>a, <1>4 DEF MarkSent, ProcessOK
  <2>2. /\ record' \in [Files -> Records] /\ waiting' \in [Files -> BOOLEAN]
        /\ \A g \in Files : record'[g] = "sent" => record[g] = "sent" \/ g = f
    BY <1>a, <1>c, <1>4 DEF MarkSent, TypeOK, Records
  <2>3. Goto(p, "cleanup")
    BY <1>4 DEF MarkSent
  <2>4. ProcessOK(p)'
    BY <1>a, <1>c, <1>4, <2>1, <2>3, GotoEffect DEF MarkSent, ProcessOK, Accepted, Delivered, PCs
  <2> QED BY <1>a, <1>4, <2>1, <2>2, <2>3, <2>4, GotoEffect, LocalStep DEF MarkSent, TypeOK, PCs
<1>5. CASE Cleanup(p)
  <2>1. NoDryRun => f \in Delivered
    BY <1>a, <1>5 DEF Cleanup, ProcessOK
  <2>2. CASE at' = [at EXCEPT ![f] = "released"] /\ NextFile(p) /\ UNCHANGED faults
    <3>1. /\ at' \in [Files -> Places]
          /\ \A g \in Files : at[g] # "outside" => at'[g] # "outside"
          /\ \A g \in Files : at'[g] = "released" => at[g] = "released" \/ g = f
      BY <1>a, <2>2 DEF TypeOK, Places
    <3>2. ProcessOK(p)'
      BY <1>a, <2>2, <3>1, NextFileEffect DEF ProcessOK, Accepted, Busy
    <3> QED BY <1>a, <1>5, <2>1, <2>2, <3>1, <3>2, NextFileEffect, LocalStep DEF Cleanup, TypeOK
  <2>3. CASE Goto(p, "retry") /\ UNCHANGED at /\ faults' \in 0..MaxFaults
    <3>1. ProcessOK(p)'
      BY <1>a, <1>c, <2>3, GotoEffect DEF ProcessOK, Accepted, PCs
    <3> QED BY <1>a, <1>5, <2>3, <3>1, GotoEffect, LocalStep DEF Cleanup, TypeOK, PCs
  <2> QED BY <1>a, <1>5, <2>2, <2>3, FaultEffect DEF Cleanup, TypeOK
<1>6. CASE MarkRetry(p)
  <2>1. /\ record' \in [Files -> Records] /\ waiting' \in [Files -> BOOLEAN]
        /\ \A g \in Files : record'[g] = "sent" => record[g] = "sent"
    BY <1>a, <1>c, <1>6 DEF MarkRetry, TypeOK, Records
  <2>2. ProcessOK(p)'
    BY <1>a, <1>6, NextFileEffect DEF MarkRetry, ProcessOK, Accepted, Busy
  <2> QED BY <1>a, <1>6, <2>1, <2>2, NextFileEffect, LocalStep DEF MarkRetry, TypeOK
<1> QED BY <1>1, <1>2, <1>3, <1>4, <1>5, <1>6 DEF SendOne

-----------------------------------------------------------------------------
(* The steps outside the processes' own code *)

LEMMA OutsideInv ==
    ASSUME SInv, NEW f \in Files, Arrive(f) \/ BackoffExpires(f) \/ Consume(f)
    PROVE  SInv'
<1> USE DEF SInv
<1>1. /\ UNCHANGED <<record, shipper, handed, faults>>
      /\ incoming' \subseteq incoming
      /\ waiting' \in [Files -> BOOLEAN] /\ at' \in [Files -> Places]
      /\ \A g \in Files : at[g] # "outside" => at'[g] # "outside"
      /\ \A g \in Files : at'[g] = "released" => at[g] = "released"
  BY DEF Arrive, BackoffExpires, Consume, localVars, TypeOK, Places
<1>2. Accepted \subseteq Accepted' /\ Delivered' = Delivered /\ Released' \subseteq Released
  BY <1>1 DEF Accepted, Delivered, Released
<1>3. \A q \in Shippers : ProcessOK(q)'
  BY <1>1, <1>2, OthersKeep
<1> QED BY <1>1, <1>2, <1>3 DEF TypeOK, FolderOK, NeverDropped

LEMMA CrashInv == ASSUME SInv, NEW p \in Shippers, Crash(p) PROVE SInv'
<1>1. TypeOK
  BY DEF SInv
<1>2. ProcessOK(p)'
  BY <1>1, FreshEffect DEF Crash, ProcessOK, Busy
<1> QED BY <1>1, <1>2, FreshEffect, FaultEffect, LocalStep DEF Crash, TypeOK

LEMMA NextInv == ASSUME SInv, [Next]_vars PROVE SInv'
<1>1. CASE UNCHANGED vars
  BY <1>1 DEF vars, SInv, TypeOK, ProcessOK, FolderOK, NeverDropped, Accepted, Delivered, Released
<1>2. ASSUME NEW p \in Shippers, ShipperStep(p) PROVE SInv'
  <2>1. CASE SendOne(p)
    BY <2>1, SendInv
  <2>2. CASE \E f \in Files : \/ MoveToOutbox(p, f) \/ Skip(p, f)
                              \/ CleanUpSent(p, f) \/ StartSending(p, f)
    BY <2>2, CycleInv
  <2>3. CASE RecordMoved(p) \/ BeginSend(p) \/ EndSend(p)
    BY <2>3, LoopInv
  <2> QED BY <1>2, <2>1, <2>2, <2>3 DEF ShipperStep
<1> QED BY <1>1, <1>2, CrashInv, OutsideInv DEF Next, EdgeStep

(* Every state of the shipper is well typed, and SInv holds in it. *)
THEOREM InvariantHolds == Spec => []SInv
<1>1. Init => SInv
  BY InitInv
<1>2. SInv /\ [Next]_vars => SInv'
  BY NextInv
<1> QED BY <1>1, <1>2, PTL DEF Spec

(* Whatever crashes, races and lost answers there are: the row of a file says
   sent, and its local copy is given up, only after the file was promoted into
   the incoming folder -- as long as no process runs with a dry-run switch. *)
THEOREM NothingDropped == ASSUME NoDryRun PROVE Spec => []NeverDropped
<1>1. SInv => NeverDropped
  BY DEF SInv
<1> QED BY <1>1, InvariantHolds, PTL

(* The types of the shipper's variables. *)
THEOREM ShipperTypes == Spec => []TypeOK
<1>1. SInv => TypeOK
  BY DEF SInv
<1> QED BY <1>1, InvariantHolds, PTL

-----------------------------------------------------------------------------
(* The shipper implements HandOff *)

(* What a step means for the abstract specification. *)
LEMMA Stutters ==
    ASSUME Accepted' = Accepted, Delivered' = Delivered, Released' = Released
    PROVE  [H!Next]_(H!state)
BY DEF H!state

LEMMA SameForHandOff ==
    ASSUME UNCHANGED <<at, handed>> PROVE [H!Next]_(H!state)
BY Stutters DEF Accepted, Delivered, Released

LEMMA ReleasesOne ==
    ASSUME SInv, NEW f \in Files, f \in Delivered,
           at' = [at EXCEPT ![f] = "released"], UNCHANGED handed
    PROVE  [H!Next]_(H!state)
<1>1. /\ f \in Accepted
      /\ \A g \in Files : at'[g] = IF g = f THEN "released" ELSE at[g]
  BY DEF SInv, FolderOK, TypeOK
<1>2. Accepted' = Accepted /\ Delivered' = Delivered /\ Released' = Released \cup {f}
  BY <1>1 DEF Accepted, Delivered, Released
<1>3. CASE f \in Released
  BY <1>2, <1>3, Stutters
<1>4. CASE f \notin Released
  BY <1>2, <1>4 DEF H!Next, H!Release
<1> QED BY <1>3, <1>4

LEMMA StepRefines ==
    ASSUME SInv, NoDryRun, [Next]_vars PROVE [H!Next]_(H!state)
<1> USE DEF SInv
<1>1. CASE UNCHANGED vars
  BY <1>1, SameForHandOff DEF vars
<1>2. ASSUME NEW f \in Files, Arrive(f) PROVE [H!Next]_(H!state)
  <2>1. \A g \in Files : at'[g] = IF g = f THEN "inbox" ELSE at[g]
    BY <1>2 DEF Arrive, TypeOK
  <2>2. f \notin Accepted /\ Accepted' = Accepted \cup {f}
        /\ Delivered' = Delivered /\ Released' = Released
    BY <1>2, <2>1 DEF Arrive, Accepted, Delivered, Released
  <2> QED BY <2>2 DEF H!Next, H!Accept
<1>3. ASSUME NEW f \in Files, BackoffExpires(f) \/ Consume(f) PROVE [H!Next]_(H!state)
  BY <1>3, SameForHandOff DEF BackoffExpires, Consume, localVars
<1>4. ASSUME NEW p \in Shippers, Crash(p) PROVE [H!Next]_(H!state)
  BY <1>4, SameForHandOff DEF Crash
<1>5. ASSUME NEW p \in Shippers, NEW f \in Files, MoveToOutbox(p, f) PROVE [H!Next]_(H!state)
  <2>1. \A g \in Files : at'[g] = IF g = f THEN "outbox" ELSE at[g]
    BY <1>5 DEF MoveToOutbox, TypeOK
  <2> QED BY <1>5, <2>1, Stutters DEF MoveToOutbox, Accepted, Delivered, Released
<1>6. ASSUME NEW p \in Shippers, NEW f \in Files, CleanUpSent(p, f) PROVE [H!Next]_(H!state)
  <2>1. f \in Delivered
    BY <1>6 DEF CleanUpSent, NeverDropped
  <2> QED BY <1>6, <2>1, ReleasesOne, SameForHandOff DEF CleanUpSent
<1>7. ASSUME NEW p \in Shippers, NEW f \in Files, Skip(p, f) \/ StartSending(p, f)
      PROVE  [H!Next]_(H!state)
  BY <1>7, SameForHandOff DEF Skip, StartSending
<1>8. ASSUME NEW p \in Shippers, RecordMoved(p) \/ BeginSend(p) \/ EndSend(p)
      PROVE  [H!Next]_(H!state)
  BY <1>8, SameForHandOff DEF RecordMoved, BeginSend, EndSend
<1>9. ASSUME NEW p \in Shippers, Promote(p) PROVE [H!Next]_(H!state)
  <2> DEFINE f == shipper[p].file
  <2>1. f \in Accepted /\ f \in Files
    BY <1>9 DEF Promote, ProcessOK, Busy, Accepted
  <2>2. CASE UNCHANGED <<incoming, handed>>
    BY <1>9, <2>2, SameForHandOff DEF Promote
  <2>3. CASE PromoteRemote(f)
    <3>1. CASE f \in Delivered
      <4>1. \A g \in Files : handed'[g] > 0 <=> handed[g] > 0
        BY <2>1, <2>3, <3>1 DEF PromoteRemote, TypeOK, Delivered
      <4> QED BY <1>9, <4>1, Stutters DEF Promote, Accepted, Delivered, Released
    <3>2. CASE f \notin Delivered
      <4>1. f \notin incoming
        BY <3>2 DEF FolderOK
      <4>2. \A g \in Files : handed'[g] = IF g = f THEN handed[f] + 1 ELSE handed[g]
        BY <2>1, <2>3, <4>1 DEF PromoteRemote, TypeOK
      <4>3. handed[f] + 1 > 0
        BY <2>1 DEF TypeOK
      <4>4. Accepted' = Accepted /\ Released' = Released /\ Delivered' = Delivered \cup {f}
        BY <1>9, <2>1, <4>2, <4>3 DEF Promote, Accepted, Delivered, Released
      <4> QED BY <2>1, <3>2, <4>4 DEF H!Next, H!Deliver
    <3> QED BY <3>1, <3>2
  <2> QED BY <1>9, <2>2, <2>3 DEF Promote
<1>10. ASSUME NEW p \in Shippers, Cleanup(p) PROVE [H!Next]_(H!state)
  <2>1. shipper[p].file \in Delivered /\ shipper[p].file \in Files
    BY <1>10 DEF Cleanup, ProcessOK, Delivered
  <2> QED BY <1>10, <2>1, ReleasesOne, SameForHandOff DEF Cleanup
<1>11. ASSUME NEW p \in Shippers, Probe(p) \/ Transfer(p) \/ MarkSent(p) \/ MarkRetry(p)
       PROVE  [H!Next]_(H!state)
  BY <1>11, SameForHandOff DEF Probe, Transfer, MarkSent, MarkRetry
<1> QED
  BY <1>1, <1>2, <1>3, <1>4, <1>5, <1>6, <1>7, <1>8, <1>9, <1>10, <1>11
  DEF Next, EdgeStep, ShipperStep, SendOne

(* The shipper implements the safety part of HandOff: every step of it accepts,
   delivers or releases one file, in that order, or changes none of the three. *)
THEOREM ShipperImplementsHandOff == ASSUME NoDryRun PROVE Spec => H!Spec
<1>1. Init => H!Init
  BY DEF Init, H!Init, Accepted, Delivered, Released
<1>2. SInv /\ [Next]_vars => [H!Next]_(H!state)
  BY StepRefines
<1> QED BY <1>1, <1>2, InvariantHolds, PTL DEF Spec, H!Spec

-----------------------------------------------------------------------------
(* The shipper within ReceiptDelivery *)

(* A step of a scanner, the user or the sweep, as the shipper sees it: files
   leave the folder, and there may be one fault more. *)
ServerStep == Server!IngestionStep /\ UNCHANGED <<localVars, handed>>

LEMMA ServerFault ==
    ASSUME NEW kind, TypeOK, Server!ScanFault(kind) PROVE faults' \in 0..MaxFaults
BY DEF Server!ScanFault, TypeOK

LEMMA ServerTakesOnly ==
    ASSUME TypeOK, Server!IngestionStep
    PROVE  incoming' \subseteq incoming /\ faults' \in 0..MaxFaults
<1>1. ASSUME NEW s \in Scanners, Server!ScanStep(s) \/ Server!ScannerDies(s)
      PROVE  incoming' \subseteq incoming /\ faults' \in 0..MaxFaults
  <2>1. CASE Server!MoveFails(s)
    BY <2>1, ServerFault DEF Server!MoveFails, Server!LeftByFailedMove, TypeOK
  <2>2. CASE Server!ScannerDies(s)
    BY <2>2, ServerFault DEF Server!ScannerDies
  <2>3. CASE Server!ScanStep(s) /\ ~ Server!MoveFails(s)
    BY <2>3 DEF Server!ScanStep, Server!Lookup, Server!UnlinkDuplicate, Server!HardDelete,
       Server!MoveToStorage, Server!CommitReceipt, TypeOK
  <2> QED BY <1>1, <2>1, <2>2, <2>3
<1>2. ASSUME NEW c \in Contents, Server!SoftDelete(c) \/ Server!Restore(c) \/ Server!Sweep(c)
      PROVE  incoming' \subseteq incoming /\ faults' \in 0..MaxFaults
  BY <1>2 DEF Server!SoftDelete, Server!Restore, Server!Sweep, TypeOK
<1> QED BY <1>1, <1>2 DEF Server!IngestionStep

LEMMA EdgeIsNext == ASSUME EdgeStep PROVE [Next]_vars
BY DEF Next

LEMMA ServerKeepsShipper == ASSUME SInv, ServerStep PROVE SInv'
<1>1. /\ UNCHANGED <<at, record, waiting, shipper, handed>>
      /\ incoming' \subseteq incoming /\ faults' \in 0..MaxFaults
  BY ServerTakesOnly DEF ServerStep, localVars, SInv
<1>2. Accepted' = Accepted /\ Delivered' = Delivered /\ Released' = Released
  BY <1>1 DEF Accepted, Delivered, Released
<1>3. \A p \in Shippers : ProcessOK(p)'
  BY <1>1, <1>2, OthersKeep DEF SInv
<1> QED BY <1>1, <1>2, <1>3 DEF SInv, TypeOK, FolderOK, NeverDropped

LEMMA ShipperInDelivery == DeliverySpec => []SInv
<1>1. DeliveryInit => SInv
  BY InitInv DEF DeliveryInit
<1>2. SInv /\ [DeliveryNext]_allVars => SInv'
  <2> SUFFICES ASSUME SInv, [DeliveryNext]_allVars PROVE SInv'
    OBVIOUS
  <2>1. CASE EdgeStep
    BY <2>1, EdgeIsNext, NextInv
  <2>2. CASE ServerStep
    BY <2>2, ServerKeepsShipper
  <2>3. CASE UNCHANGED allVars
    BY <2>3, NextInv DEF allVars
  <2> QED BY <2>1, <2>2, <2>3 DEF DeliveryNext, ServerStep
<1> QED BY <1>1, <1>2, PTL DEF DeliverySpec

(* The shipper keeps its promise to HandOff with the scanners working on the
   folder at the same time. *)
THEOREM DeliveryImplementsHandOff == ASSUME NoDryRun PROVE DeliverySpec => H!Spec
<1>1. DeliveryInit => H!Init
  BY DEF DeliveryInit, Init, H!Init, Accepted, Delivered, Released
<1>2. SInv /\ [DeliveryNext]_allVars => [H!Next]_(H!state)
  <2> SUFFICES ASSUME SInv, [DeliveryNext]_allVars PROVE [H!Next]_(H!state)
    OBVIOUS
  <2>1. CASE EdgeStep
    BY <2>1, EdgeIsNext, StepRefines
  <2>2. CASE UNCHANGED <<localVars, handed>>
    BY <2>2, SameForHandOff DEF localVars
  <2>3. CASE UNCHANGED allVars
    BY <2>3, SameForHandOff DEF allVars, vars
  <2> QED BY <2>1, <2>2, <2>3 DEF DeliveryNext
<1> QED BY <1>1, <1>2, ShipperInDelivery, PTL DEF DeliverySpec, H!Spec

(* Nothing is dropped by the shipper, whatever the scanners do with the files. *)
THEOREM NothingDroppedInDelivery == ASSUME NoDryRun PROVE DeliverySpec => []NeverDropped
<1>1. SInv => NeverDropped
  BY DEF SInv
<1> QED BY <1>1, ShipperInDelivery, PTL

-----------------------------------------------------------------------------
(* What is delivered is not destroyed *)

(* A scanner unlinks a file only because it found a live receipt of the same
   content, and a row exists only for contents that were received. *)
ScanHolds(s) ==
    /\ scan[s].pc # "idle" => scan[s].file \in Files
    /\ scan[s].pc = "unlink" => content[scan[s].file] \in received

RowsReceived == \A c \in Contents : row[c].life # "none" => c \in received

ServerInv ==
    /\ Server!IngestionTypeOK
    /\ \A s \in Scanners : ScanHolds(s)
    /\ RowsReceived
    /\ NotDestroyed

DInv == SInv /\ ServerInv

LEMMA IdleType == Server!Idle \in Server!ScanState /\ Server!Idle.pc = "idle"
BY DEF Server!Idle, Server!ScanState

LEMMA RowType == Server!NoRowYet \in Server!Row /\ Server!NoRowYet.life = "none"
BY DEF Server!NoRowYet, Server!Row

LEMMA DeliveryInitInv == DeliveryInit => DInv
<1> SUFFICES ASSUME DeliveryInit PROVE ServerInv
  BY InitInv DEF DeliveryInit, DInv
<1>1. Server!IngestionTypeOK
  BY IdleType, RowType DEF DeliveryInit, Init, Server!IngestionInit, Server!IngestionTypeOK
<1>2. NotDestroyed
  BY DEF DeliveryInit, Init, NotDestroyed, Delivered
<1> QED BY <1>1, <1>2, IdleType, RowType
  DEF DeliveryInit, Server!IngestionInit, ServerInv, ScanHolds, RowsReceived

(* The shipper only adds to the folder, and what it delivers is there. *)
LEMMA PromoteFills ==
    ASSUME TypeOK, NEW p \in Shippers, Promote(p)
    PROVE  incoming \subseteq incoming' /\ Delivered' \subseteq Delivered \cup incoming'
<1> DEFINE f == shipper[p].file
<1>1. CASE UNCHANGED <<incoming, handed>>
  BY <1>1 DEF Delivered
<1>2. CASE PromoteRemote(f)
  <2>1. \A g \in Files : g # f => handed'[g] = handed[g]
    BY <1>2 DEF PromoteRemote, TypeOK
  <2> QED BY <1>2, <2>1 DEF PromoteRemote, Delivered
<1> QED BY <1>1, <1>2 DEF Promote

LEMMA EdgeFills ==
    ASSUME TypeOK, EdgeStep
    PROVE  incoming \subseteq incoming' /\ Delivered' \subseteq Delivered \cup incoming'
<1>1. CASE \E p \in Shippers : Promote(p)
  BY <1>1, PromoteFills
<1>2. CASE ~ \E p \in Shippers : Promote(p)
  <2>1. UNCHANGED <<incoming, handed>>
    BY <1>2 DEF EdgeStep, ShipperStep, SendOne, Crash, Arrive, BackoffExpires, MoveToOutbox,
       Skip, CleanUpSent, StartSending, RecordMoved, BeginSend, EndSend, Probe, Transfer,
       MarkSent, Cleanup, MarkRetry
  <2> QED BY <2>1 DEF Delivered
<1> QED BY <1>1, <1>2

LEMMA EdgeKeepsServer ==
    ASSUME DInv, EdgeStep, UNCHANGED serverVars PROVE DInv'
<1>1. SInv'
  BY EdgeIsNext, NextInv DEF DInv
<1>2. incoming \subseteq incoming' /\ Delivered' \subseteq Delivered \cup incoming'
  BY EdgeFills DEF DInv, SInv
<1>3. /\ UNCHANGED <<row, scan, received, stray>>
      /\ incoming' \in SUBSET Files /\ faults' \in 0..MaxFaults
  BY <1>1 DEF serverVars, SInv, TypeOK
<1>4. Server!IngestionTypeOK'
  BY <1>3 DEF DInv, ServerInv, Server!IngestionTypeOK
<1>5. NotDestroyed'
  BY <1>2, <1>3 DEF DInv, ServerInv, NotDestroyed
<1> QED BY <1>1, <1>3, <1>4, <1>5 DEF DInv, ServerInv, ScanHolds, RowsReceived

(* A scanner's step: what it goes on with, the one row it touches, the files. *)
LEMMA ScanGoesOn ==
    ASSUME ServerInv, NEW s \in Scanners, NEW next \in Server!ScanState,
           scan' = [scan EXCEPT ![s] = next], received \subseteq received',
           next.pc # "idle" => next.file \in Files,
           next.pc = "unlink" => content[next.file] \in received
    PROVE  scan' \in [Scanners -> Server!ScanState] /\ \A t \in Scanners : ScanHolds(t)'
<1>1. /\ scan' \in [Scanners -> Server!ScanState] /\ scan'[s] = next
      /\ \A t \in Scanners : t # s => scan'[t] = scan[t]
  BY DEF ServerInv, Server!IngestionTypeOK
<1>2. ScanHolds(s)'
  BY <1>1 DEF ScanHolds
<1>3. \A t \in Scanners : t # s => ScanHolds(t)'
  BY <1>1 DEF ServerInv, ScanHolds
<1> QED BY <1>1, <1>2, <1>3

LEMMA RowChanges ==
    ASSUME ServerInv, NEW c \in Contents, NEW r \in Server!Row,
           row' = [row EXCEPT ![c] = r], received \subseteq received',
           r.life # "none" => c \in received'
    PROVE  row' \in [Contents -> Server!Row] /\ RowsReceived'
BY DEF ServerInv, Server!IngestionTypeOK, RowsReceived

LEMMA NothingLost ==
    ASSUME ServerInv, UNCHANGED handed, received \subseteq received',
           \A f \in Files : f \in incoming \/ f \in stray =>
               f \in incoming' \/ f \in stray' \/ content[f] \in received'
    PROVE  NotDestroyed'
BY DEF ServerInv, NotDestroyed, Delivered

LEMMA WithoutFileType ==
    ASSUME NEW r \in Server!Row, NEW gen
    PROVE  Server!WithoutFile(r, gen) \in Server!Row
           /\ Server!WithoutFile(r, gen).life = r.life
BY DEF Server!WithoutFile, Server!Row

LEMMA DeletedType ==
    ASSUME NEW r \in Server!Row, NEW gen
    PROVE  Server!Deleted(r, gen) \in Server!Row
           /\ Server!Deleted(r, gen).life \in {"none", r.life}
BY DEF Server!Deleted, Server!Row

LEMMA LookupKeeps ==
    ASSUME ServerInv, UNCHANGED handed, NEW s \in Scanners, NEW f \in Files,
           Server!Lookup(s, f)
    PROVE  ServerInv'
<1> DEFINE c == content[f]
           next == [pc |-> Server!PathFor(row[c]), file |-> f, gen |-> row[c].gen,
                    deleting |-> FALSE]
<1>1. c \in Contents /\ row[c] \in Server!Row
  BY DeliveryConstants DEF ServerInv, Server!IngestionTypeOK
<1>2. /\ Server!PathFor(row[c]) \in {"unlink", "replace", "move"}
      /\ Server!PathFor(row[c]) = "unlink" => row[c].life # "none"
  BY <1>1 DEF Server!PathFor, Server!Row
<1>3. next \in Server!ScanState /\ next.pc = Server!PathFor(row[c]) /\ next.file = f
  BY <1>1, <1>2 DEF Server!ScanState, Server!Row
<1>4. scan' = [scan EXCEPT ![s] = next] /\ UNCHANGED <<incoming, row, received, stray, faults>>
  BY DEF Server!Lookup
<1>5. next.pc = "unlink" => content[next.file] \in received
  BY <1>1, <1>2, <1>3 DEF ServerInv, RowsReceived
<1> HIDE DEF next
<1>6. scan' \in [Scanners -> Server!ScanState] /\ \A t \in Scanners : ScanHolds(t)'
  BY <1>3, <1>4, <1>5, ScanGoesOn
<1>7. NotDestroyed'
  BY <1>4, NothingLost
<1> QED BY <1>4, <1>6, <1>7 DEF ServerInv, Server!IngestionTypeOK, RowsReceived

LEMMA ScannerKeeps ==
    ASSUME TypeOK, ServerInv, UNCHANGED handed, NEW s \in Scanners,
           \/ Server!UnlinkDuplicate(s) \/ Server!HardDelete(s) \/ Server!MoveToStorage(s)
           \/ Server!MoveFails(s) \/ Server!CommitReceipt(s) \/ Server!ScannerDies(s)
    PROVE  ServerInv'
<1> DEFINE f == scan[s].file
           c == content[f]
<1>1. /\ scan[s] \in Server!ScanState /\ scan[s].pc # "idle"
      /\ f \in Files /\ c \in Contents /\ row[c] \in Server!Row
  BY DeliveryConstants DEF ServerInv, Server!IngestionTypeOK, ScanHolds, Server!UnlinkDuplicate,
     Server!HardDelete, Server!MoveToStorage, Server!MoveFails, Server!CommitReceipt,
     Server!ScannerDies
<1>2. ASSUME scan' = [scan EXCEPT ![s] = Server!Idle], received \subseteq received'
      PROVE  scan' \in [Scanners -> Server!ScanState] /\ \A t \in Scanners : ScanHolds(t)'
  BY <1>2, IdleType, ScanGoesOn
<1>3. CASE Server!UnlinkDuplicate(s)
  <2>1. c \in received
    BY <1>3 DEF Server!UnlinkDuplicate, ServerInv, ScanHolds
  <2>2. NotDestroyed'
    BY <1>3, <2>1, NothingLost DEF Server!UnlinkDuplicate
  <2> QED BY <1>2, <1>3, <2>2
    DEF Server!UnlinkDuplicate, ServerInv, Server!IngestionTypeOK, RowsReceived
<1>4. CASE Server!HardDelete(s)
  <2> DEFINE next == [scan[s] EXCEPT !.pc = "move", !.deleting = TRUE]
             r == Server!WithoutFile(row[c], scan[s].gen)
  <2>1. next \in Server!ScanState /\ next.pc = "move" /\ next.file = f
    BY <1>1 DEF Server!ScanState
  <2>2. r \in Server!Row /\ r.life = row[c].life
    BY <1>1, WithoutFileType
  <2>3. /\ scan' = [scan EXCEPT ![s] = next] /\ row' = [row EXCEPT ![c] = r]
        /\ UNCHANGED <<incoming, received, stray, faults>>
    BY <1>1, <1>4 DEF Server!HardDelete
  <2> HIDE DEF next, r
  <2>4. scan' \in [Scanners -> Server!ScanState] /\ \A t \in Scanners : ScanHolds(t)'
    BY <1>1, <2>1, <2>3, ScanGoesOn
  <2>5. row' \in [Contents -> Server!Row] /\ RowsReceived'
    BY <1>1, <2>2, <2>3, RowChanges DEF ServerInv, RowsReceived
  <2>6. NotDestroyed'
    BY <2>3, NothingLost
  <2> QED BY <2>3, <2>4, <2>5, <2>6 DEF ServerInv, Server!IngestionTypeOK
<1>5. CASE Server!MoveToStorage(s)
  <2> DEFINE next == [scan[s] EXCEPT !.pc = "commit"]
  <2>1. next \in Server!ScanState /\ next.pc = "commit" /\ next.file = f
    BY <1>1 DEF Server!ScanState
  <2>2. /\ scan' = [scan EXCEPT ![s] = next] /\ UNCHANGED <<row, received, faults>>
        /\ incoming' = incoming \ {f} /\ stray' = stray \cup {f}
    BY <1>1, <1>5 DEF Server!MoveToStorage
  <2> HIDE DEF next
  <2>3. scan' \in [Scanners -> Server!ScanState] /\ \A t \in Scanners : ScanHolds(t)'
    BY <1>1, <2>1, <2>2, ScanGoesOn
  <2>4. NotDestroyed'
    BY <2>2, NothingLost
  <2> QED BY <1>1, <2>2, <2>3, <2>4 DEF ServerInv, Server!IngestionTypeOK, RowsReceived
<1>6. CASE Server!MoveFails(s)
  <2>1. PICK r \in {row[c], Server!Deleted(row[c], scan[s].gen)} : row' = [row EXCEPT ![c] = r]
    <3>1. row = [row EXCEPT ![c] = row[c]]
      BY <1>1 DEF ServerInv, Server!IngestionTypeOK
    <3> QED BY <1>6, <3>1 DEF Server!MoveFails
  <2>2. r \in Server!Row /\ r.life \in {"none", row[c].life}
    BY <1>1, DeletedType
  <2>3. UNCHANGED <<incoming, received, stray>> /\ scan' = [scan EXCEPT ![s] = Server!Idle]
    BY <1>6 DEF Server!MoveFails, Server!LeftByFailedMove
  <2>4. faults' \in 0..MaxFaults
    BY <1>6, ServerFault DEF Server!MoveFails, TypeOK
  <2>5. row' \in [Contents -> Server!Row] /\ RowsReceived'
    BY <1>1, <2>1, <2>2, <2>3, RowChanges DEF ServerInv, RowsReceived
  <2>6. NotDestroyed'
    BY <2>3, NothingLost
  <2> QED BY <1>2, <2>3, <2>4, <2>5, <2>6 DEF ServerInv, Server!IngestionTypeOK
<1>7. CASE Server!CommitReceipt(s)
  <2>1. scan' = [scan EXCEPT ![s] = Server!Idle] /\ UNCHANGED <<incoming, faults>>
    BY <1>7 DEF Server!CommitReceipt
  <2>2. CASE UNCHANGED <<row, received, stray>>
    BY <1>2, <2>1, <2>2, NothingLost DEF ServerInv, Server!IngestionTypeOK, RowsReceived
  <2>3. CASE /\ row' = [row EXCEPT ![c] = [life |-> "live", gen |-> @.gen + 1, file |-> TRUE]]
             /\ received' = received \cup {c} /\ stray' = stray \ {f}
    <3> DEFINE r == [life |-> "live", gen |-> row[c].gen + 1, file |-> TRUE]
    <3>1. r \in Server!Row /\ r.life = "live"
      BY <1>1 DEF Server!Row
    <3>2. row' = [row EXCEPT ![c] = r] /\ c \in received' /\ received \subseteq received'
      BY <1>1, <2>3
    <3> HIDE DEF r
    <3>3. row' \in [Contents -> Server!Row] /\ RowsReceived'
      BY <1>1, <3>1, <3>2, RowChanges
    <3>4. NotDestroyed'
      BY <2>1, <2>3, NothingLost
    <3> QED BY <1>1, <1>2, <2>1, <2>3, <3>2, <3>3, <3>4 DEF ServerInv, Server!IngestionTypeOK
  <2> QED BY <1>7, <2>2, <2>3 DEF Server!CommitReceipt
<1>8. CASE Server!ScannerDies(s)
  <2>1. /\ UNCHANGED <<incoming, row, received, stray>> /\ faults' \in 0..MaxFaults
        /\ scan' = [scan EXCEPT ![s] = Server!Idle]
    BY <1>8, ServerFault DEF Server!ScannerDies
  <2> QED BY <1>2, <2>1, NothingLost DEF ServerInv, Server!IngestionTypeOK, RowsReceived
<1> QED BY <1>3, <1>4, <1>5, <1>6, <1>7, <1>8

LEMMA RetentionKeeps ==
    ASSUME ServerInv, UNCHANGED handed, NEW c \in Contents,
           Server!SoftDelete(c) \/ Server!Restore(c) \/ Server!Sweep(c)
    PROVE  ServerInv'
<1>1. row[c] \in Server!Row
  BY DEF ServerInv, Server!IngestionTypeOK
<1>2. UNCHANGED <<incoming, scan, received, stray, faults>>
  BY DEF Server!SoftDelete, Server!Restore, Server!Sweep
<1>3. PICK r \in Server!Row :
        row' = [row EXCEPT ![c] = r] /\ (r.life # "none" => row[c].life # "none")
  <2>1. [row[c] EXCEPT !.life = "deleted"] \in Server!Row
        /\ [row[c] EXCEPT !.life = "live"] \in Server!Row
    BY <1>1 DEF Server!Row
  <2>2. CASE Server!SoftDelete(c)
    BY <1>1, <2>1, <2>2 DEF Server!SoftDelete
  <2>3. CASE Server!Restore(c)
    BY <1>1, <2>1, <2>3 DEF Server!Restore
  <2>4. CASE Server!Sweep(c)
    BY <1>1, <2>4, DeletedType DEF Server!Sweep
  <2> QED BY <2>2, <2>3, <2>4
<1>4. row' \in [Contents -> Server!Row] /\ RowsReceived'
  BY <1>2, <1>3, RowChanges DEF ServerInv, RowsReceived
<1>5. NotDestroyed'
  BY <1>2, NothingLost
<1> QED BY <1>2, <1>4, <1>5 DEF ServerInv, Server!IngestionTypeOK, ScanHolds

LEMMA ServerKeeps == ASSUME DInv, ServerStep PROVE DInv'
<1>1. UNCHANGED handed /\ TypeOK /\ ServerInv
  BY DEF ServerStep, DInv, SInv
<1>2. SInv'
  BY ServerKeepsShipper DEF DInv
<1>3. ASSUME NEW s \in Scanners, Server!ScanStep(s) \/ Server!ScannerDies(s)
      PROVE  ServerInv'
  BY <1>1, <1>3, LookupKeeps, ScannerKeeps DEF Server!ScanStep
<1> QED BY <1>1, <1>2, <1>3, RetentionKeeps DEF ServerStep, Server!IngestionStep, DInv

LEMMA DeliveryInvariant == DeliverySpec => []DInv
<1>1. DInv /\ [DeliveryNext]_allVars => DInv'
  <2> SUFFICES ASSUME DInv, [DeliveryNext]_allVars PROVE DInv'
    OBVIOUS
  <2>1. CASE UNCHANGED allVars
    BY <2>1, NextInv DEF allVars, vars, serverVars, DInv, ServerInv, Server!IngestionTypeOK,
       ScanHolds, RowsReceived, NotDestroyed, Delivered
  <2> QED BY <2>1, EdgeKeepsServer, ServerKeeps DEF DeliveryNext, ServerStep
<1> QED BY <1>1, DeliveryInitInv, PTL DEF DeliverySpec

(* Between the shipper's promotion and the receipt no delivered file is
   destroyed before its content was received, for any number of scanners that
   race, fail or die between any two steps, with users deleting, restoring and
   sweeping receipts, and with dry-run switches or without. *)
THEOREM DeliveredIsKept == DeliverySpec => []NotDestroyed
<1>1. DInv => NotDestroyed
  BY DEF DInv, ServerInv
<1> QED BY <1>1, DeliveryInvariant, PTL

(* The types of both halves. *)
THEOREM DeliveryTypes == DeliverySpec => []DeliveryTypeOK
<1>1. DInv => DeliveryTypeOK
  BY DEF DInv, SInv, ServerInv, DeliveryTypeOK
<1> QED BY <1>1, DeliveryInvariant, PTL
=============================================================================
