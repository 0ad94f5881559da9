--------------------------- MODULE ProducerRelay ---------------------------
(***************************************************************************)
(* The producer pod as a relay of orders: the request is the list the      *)
(* portal left, a delivery is a message on the topic, whatever it carries, *)
(* the request is settled by deleting the allocation entry, and a process  *)
(* whose LRANGE failed has not seen its request.                           *)
(***************************************************************************)
EXTENDS ProducerPod

Relay == INSTANCE OrderRelay WITH
    asked <- OrdersOf(assigned),
    delivered <- [o \in Orders |-> Copies(o)],
    settled <- (allocation = <<>>),
    blind <- unread

(* A pod with one worker is a relay: crashes and repeated jobs only repeat *)
(* deliveries, and orders are given up undelivered only by a process that  *)
(* could not read its list (getWorkAllocation, worker,                     *)
(* process_input_data_redis_concurrent, purgeProcessedMetadataRedis).      *)
RelaysOrders == Relay!Spec
=============================================================================
