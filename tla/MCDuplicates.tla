---------------------------- MODULE MCDuplicates ----------------------------
(* Values for Duplicates: a purchase, a refund at the same minute, and no valid
   draft. *)
EXTENDS Duplicates

CONSTANTS k1

MCDrafts ==
    {[sig |-> k1, kind |-> "purchase", valid |-> TRUE],
     [sig |-> k1, kind |-> "refund", valid |-> TRUE],
     [sig |-> Nothing, kind |-> "purchase", valid |-> FALSE]}
=============================================================================
