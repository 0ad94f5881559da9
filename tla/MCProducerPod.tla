--------------------------- MODULE MCProducerPod ---------------------------
(* Instances of ProducerPod for TLC.                                       *)
EXTENDS ProducerRelay

CONSTANTS o1, o2, o3

(* Lists of up to three orders, the empty one of a pod without work        *)
(* included.                                                               *)
UpToThree == {<<>>, <<o1>>, <<o2, o1>>, <<o1, o2, o3>>}

ThreeOrders == {<<o1, o2, o3>>}
=============================================================================
