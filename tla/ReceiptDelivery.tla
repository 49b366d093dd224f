--------------------------- MODULE ReceiptDelivery ---------------------------
(***************************************************************************)
(* From the scanner tray to the receipt: the Pi shipper and the server's   *)
(* scanners, joined by the incoming folder of the NAS.  The shipper puts   *)
(* files into it, the scanners take them out.                              *)
(***************************************************************************)
EXTENDS OutboxShipper

CONSTANTS
    Contents, content, Scanners, ScanFaults,   \* see Ingestion
    ScanLoops                                  \* the scanners that loop

ASSUME DeliveryConstants ==
    /\ content \in [Files -> Contents]
    /\ ScanLoops \subseteq Scanners
    /\ ScanFaults \subseteq {"move", "crash"}

VARIABLES row, scan, received, stray

serverVars == <<row, scan, received, stray>>
allVars == <<vars, serverVars>>

Server == INSTANCE Ingestion

DeliveryInit == Init /\ Server!IngestionInit

DeliveryNext ==
    \/ EdgeStep /\ UNCHANGED serverVars
    \/ Server!IngestionStep /\ UNCHANGED <<localVars, handed>>

DeliverySpec == DeliveryInit /\ [][DeliveryNext]_allVars

Scan(s) == Server!ScanStep(s) /\ UNCHANGED <<localVars, handed>>

(* The scanner process scans again and again (worker/scanner.py); a scan that
   was asked for over the API goes on once it is in a file, unless it dies.
   Nothing is assumed of the user. *)
DeliveryFairness ==
    /\ \A p \in Daemons : WF_allVars(ShipperStep(p) /\ UNCHANGED serverVars)
    /\ \A f \in Files : WF_allVars(BackoffExpires(f) /\ UNCHANGED serverVars)
    /\ \A s \in Scanners : WF_allVars(Scan(s) /\ (s \in ScanLoops \/ scan[s].pc # "idle"))

FairDelivery == DeliverySpec /\ DeliveryFairness

-----------------------------------------------------------------------------
(* Properties *)

\* Types of both halves, the incoming folder they share included.
DeliveryTypeOK == TypeOK /\ Server!IngestionTypeOK

(* A file that was handed over is not destroyed before its content has become
   a receipt: it is in the folder or at least somewhere in the object store. *)
NotDestroyed ==
    \A f \in Delivered :
      f \in incoming \/ f \in stray \/ content[f] \in received

(* What is put into an inbox becomes a receipt, unless a scanner died between
   moving it into the store and committing the row: nobody looks for it there. *)
Abandoned(f) == f \in stray /\ \A s \in Scanners : scan[s].file # f

EventuallyReceived ==
    \A f \in Files :
      at[f] = "inbox" ~> content[f] \in received \/ Abandoned(f)
=============================================================================
