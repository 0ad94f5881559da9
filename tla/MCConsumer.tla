----------------------------- MODULE MCConsumer -----------------------------
(* Instances of Consumer for TLC.                                          *)
EXTENDS Consumer, TLC

CONSTANTS m1, m2, m3, m4

(* Two orders and one with an empty field.                                 *)
Mixed == m1 :> "order" @@ m2 :> "order" @@ m3 :> "hollow"

(* An order, a bare id and nothing at all.                                 *)
Doubtful == m1 :> "order" @@ m2 :> "bare" @@ m3 :> "empty"

AllOrders == [m \in Messages |-> "order"]

Pods == Permutations(Consumers)
=============================================================================
