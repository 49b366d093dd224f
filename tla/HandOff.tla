------------------------------- MODULE HandOff -------------------------------
(***************************************************************************)
(* What the Pi shipper promises, without how: a file it has accepted is    *)
(* handed over to the NAS, and the local copy goes away only afterwards.   *)
(* How often a file is handed over is left open (at least once).           *)
(***************************************************************************)
CONSTANT Files

VARIABLES accepted, delivered, released
state == <<accepted, delivered, released>>

Init == accepted = {} /\ delivered = {} /\ released = {}

Accept(f) ==
    /\ f \notin accepted
    /\ accepted' = accepted \cup {f}
    /\ UNCHANGED <<delivered, released>>

Deliver(f) ==
    /\ f \in accepted \ delivered
    /\ delivered' = delivered \cup {f}
    /\ UNCHANGED <<accepted, released>>

Release(f) ==
    /\ f \in delivered \ released
    /\ released' = released \cup {f}
    /\ UNCHANGED <<accepted, delivered>>

Next == \E f \in Files : Accept(f) \/ Deliver(f) \/ Release(f)

Spec == Init /\ [][Next]_state

FairSpec == Spec /\ \A f \in Files : WF_state(Deliver(f)) /\ WF_state(Release(f))
=============================================================================
