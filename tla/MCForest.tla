------------------------------- MODULE MCForest -------------------------------
(* Three receipts bought in the first of three weeks, a pass for every second *)
(* clean week, a week that may catch fire.                                    *)
EXTENDS Forest, TLC

MCBought == [r \in Receipts |-> 1]

\* Receipts bought in one week are interchangeable
Alike == Permutations(Receipts)

\* Nothing is claimed of a forest whose counters were overwritten
NotOverwritten == ~stale
===============================================================================
