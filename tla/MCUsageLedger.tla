---------------------------- MODULE MCUsageLedger ----------------------------
(* Three hours of which two make a day, two requests of one model and one of   *)
(* another, a limits file that caps the hour for everyone and the day for one  *)
(* model, and one that caps the day for everyone.                              *)
EXTENDS UsageLedger, TLC

CONSTANTS r1, r2, r3, m1, m2

MCModelOf == (r1 :> m1) @@ (r2 :> m1) @@ (r3 :> m2)

MCTimes == 0 .. 1

MCStart == [w \in {"hourly", "daily"} |->
             [t \in MCTimes |-> IF w = "hourly" THEN t ELSE (t \div 2) * 2]]

\* Little, or much of one dimension
MCUsages == {[tokens |-> 1, usd |-> 1], [tokens |-> 2, usd |-> 1]}

MCEstimate == [r \in {r1, r2, r3} |->
  [tokens |-> IF r = r2 THEN 2 ELSE 1, usd |-> 1]]

File(hour, day, ofModel) ==
  [scope \in {Global, m1, m2} |-> [w \in {"hourly", "daily"} |->
     [tokens |-> CASE scope = Global /\ w = "hourly" -> hour
                   [] scope = Global /\ w = "daily" -> day
                   [] scope = m1 /\ w = "daily" -> ofModel
                   [] OTHER -> NoLimit,
      usd |-> IF scope = Global /\ w = "daily" THEN 2 ELSE NoLimit]]]

MCLimits == {File(2, NoLimit, 3), File(NoLimit, 3, NoLimit)}
==============================================================================
