---------------------------- MODULE MCReconcile ----------------------------
(* Small instances of Reconcile. *)
EXTENDS Reconcile

CONSTANTS c1, c2

TheFirst == [amount |-> 1, cat |-> c1, form |-> "whole"]

TheValues == {TheFirst,
              [amount |-> 1, cat |-> c2, form |-> "one"],
              [amount |-> 2, cat |-> c1, form |-> "whole"],
              [amount |-> 1, cat |-> c2, form |-> "mixed"],
              [amount |-> 1, cat |-> NoCategory, form |-> "whole"]}

AmountValues == {[amount |-> a, cat |-> c1, form |-> "whole"] : a \in 1..3}
=============================================================================
