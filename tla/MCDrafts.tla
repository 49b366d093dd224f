------------------------------ MODULE MCDrafts ------------------------------
(* Values for Drafts: two readings of a receipt of two lines, one of them a
   discount or without an amount, and the splits it may get. *)
EXTENDS Drafts

CONSTANTS d1, d2

MCReadings   == {[total |-> 2, date |-> d1, items |-> <<2, -1>>],
                 [total |-> 3, date |-> d2, items |-> <<1, Unknown>>]}
MCStructures == {<<>>, <<2, 1>>}
=============================================================================
