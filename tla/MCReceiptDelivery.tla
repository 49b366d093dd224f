-------------------------- MODULE MCReceiptDelivery --------------------------
(* Values for the constants of ReceiptDelivery: every file is a scan of the
   same paper, so that all meet in one receipt row. *)
EXTENDS ReceiptDelivery, TLC

SameContent == [f \in Files |-> CHOOSE c \in Contents : TRUE]
=============================================================================
