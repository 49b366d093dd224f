------------------------------ MODULE MCWeekFire ------------------------------
(* A small board: three weeks, a cap of two droplets, two corrections on one *)
(* of them, edits that earn more droplets than fit.                          *)
EXTENDS WeekFire

CONSTANTS c1, c2, c3, c4

MCWeekOf == (c1 :> 1) @@ (c2 :> 2) @@ (c3 :> 2) @@ (c4 :> 3)

\* Edits are interchangeable, and so are corrections of one week
Alike == Permutations(Edits) \cup Permutations({c2, c3})
===============================================================================
