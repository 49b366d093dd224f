---------------------------- MODULE MCYnabSync ----------------------------
(* Values for the constants of YnabSync. *)
EXTENDS YnabSync, TLC

Default == [force |-> FALSE, allow |-> TRUE]
NoMatch == [force |-> FALSE, allow |-> FALSE]
Force   == [force |-> TRUE,  allow |-> TRUE]

OnlyDefault     == {Default}
DefaultAndForce == {Default, Force}
EveryFlag       == {Default, Force, NoMatch}

OneToThree == 1..3

(* Which payee, date and total a draft has is nowhere told apart. *)
Alike == Permutations(Sigs)
=============================================================================
