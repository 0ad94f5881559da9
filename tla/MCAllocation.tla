---------------------------- MODULE MCAllocation ----------------------------
(***************************************************************************)
(* A pool of two pods; a single order, or three, one more than can be      *)
(* shared out evenly.                                                      *)
(***************************************************************************)
EXTENDS Allocation

CONSTANTS o1, o2, o3

MCOrders == {o1, o2, o3}
MCInputs == {<<o1>>, <<o1, o2, o3>>}
MCBoot == {1}
=============================================================================
