--------------------------- MODULE MCFifoDelivery ---------------------------
(***************************************************************************)
(* Three messages of a group and one of another.                           *)
(***************************************************************************)
EXTENDS FifoDelivery

TwoGroups == [m \in Messages |-> IF m = 4 THEN "g2" ELSE "g1"]
=============================================================================
