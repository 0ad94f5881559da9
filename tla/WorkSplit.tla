----------------------------- MODULE WorkSplit -----------------------------
(***************************************************************************)
(* How a list of orders is divided among workers.                          *)
(*                                                                         *)
(* The repository holds several copies of one algorithm, which differ only *)
(* in the length of a chunk:                                               *)
(*                                                                         *)
(*   ProducerSize  producer.go, serialin.go (Pulsar): len/numWorkers + 1   *)
(*   LoaderSize    loader.go divide_and_conquer, and the older Kafka       *)
(*                 producer.go and loader.go: len/numWorkers               *)
(*   AssignSize    loader.go assign_message_workload_workers:              *)
(*                 len/numWorkers, but at least 1                          *)
(*                                                                         *)
(* Each copy runs                                                          *)
(*     for i := 0; i < len(inputs); i += size {                            *)
(*         j += size; if j > len(inputs) { j = len(inputs) }               *)
(*         tempMap[lc] = inputs[i:j]; lc++ }                               *)
(* so chunk number c (counted from 0) is inputs[c*size : min((c+1)*size,   *)
(* len)], and then hands chunk w - 1 to worker w for every w in            *)
(* 1..numWorkers.  With LoaderSize the loop never ends when there are      *)
(* fewer inputs than workers.                                              *)
(***************************************************************************)
EXTENDS Naturals, Sequences

ProducerSize(inputs, numWorkers) == (Len(inputs) \div numWorkers) + 1

LoaderSize(inputs, numWorkers) == Len(inputs) \div numWorkers

AssignSize(inputs, numWorkers) ==
    IF Len(inputs) \div numWorkers = 0 THEN 1 ELSE Len(inputs) \div numWorkers

(* The slice inputs[c*size : min((c+1)*size, len)] of the Go loop; a chunk *)
(* past the end is empty, as the map entry the loop never wrote is nil.    *)
Chunk(inputs, size, c) ==
    SubSeq(inputs, c * size + 1,
           IF (c + 1) * size > Len(inputs) THEN Len(inputs) ELSE (c + 1) * size)

(* idAllocator: worker w gets chunk w - 1, other chunks are not handed out *)
IdAllocator(inputs, size, numWorkers) ==
    [w \in 1..numWorkers |-> Chunk(inputs, size, w - 1)]

(* divide_and_conquer of the Pulsar producer.                              *)
DivideAndConquer(inputs, numWorkers) ==
    IdAllocator(inputs, ProducerSize(inputs, numWorkers), numWorkers)

(* assign_message_workload_workers: the orders each producer pod is sent.  *)
AssignWorkload(inputs, numWorkers) ==
    IdAllocator(inputs, AssignSize(inputs, numWorkers), numWorkers)
=============================================================================
