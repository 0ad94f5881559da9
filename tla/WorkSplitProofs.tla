-------------------------- MODULE WorkSplitProofs --------------------------
(***************************************************************************)
(* What the division of a list among workers guarantees, for every list    *)
(* and every number of workers.                                            *)
(***************************************************************************)
EXTENDS WorkSplit, Integers, SequenceTheorems, TLAPS

(* Quotient and remainder of two naturals.                                 *)
LEMMA DivMod ==
    ASSUME NEW a \in Nat, NEW n \in Nat \ {0}
    PROVE  /\ a \div n \in Nat
           /\ a % n \in 0..(n - 1)
           /\ a = n * (a \div n) + (a % n)
  BY SMT

(* A product of naturals grows with its factors.                           *)
LEMMA ProductMonotone ==
    ASSUME NEW a \in Nat, NEW b \in Nat, NEW n \in Nat, a <= b
    PROVE  a * n <= b * n
  BY SMT

(* The end of a chunk lies inside the list, and a chunk is a list of the   *)
(* same kind: its i-th order is order c*size + i of the input.             *)
LEMMA ChunkProperties ==
    ASSUME NEW S, NEW inputs \in Seq(S), NEW size \in Nat, NEW c \in Nat
    PROVE  /\ Chunk(inputs, size, c) \in Seq(S)
           /\ Len(Chunk(inputs, size, c)) =
                IF (c + 1) * size <= Len(inputs) THEN size
                ELSE IF c * size <= Len(inputs) THEN Len(inputs) - c * size ELSE 0
           /\ \A i \in 1..Len(Chunk(inputs, size, c)) :
                /\ c * size + i \in 1..Len(inputs)
                /\ Chunk(inputs, size, c)[i] = inputs[c * size + i]
<1> DEFINE from == c * size
           stop == IF (c + 1) * size > Len(inputs) THEN Len(inputs) ELSE (c + 1) * size
           chunk == SubSeq(inputs, from + 1, stop)
<1>1. /\ from \in Nat
      /\ (c + 1) * size = from + size
      /\ stop \in Nat
      /\ stop <= Len(inputs)
  BY SMT
<1> HIDE DEF from, stop
<1>2. \A i \in (from + 1)..stop : inputs[i] \in S
  BY <1>1
<1>3. /\ chunk \in Seq(S)
      /\ Len(chunk) = IF from + 1 <= stop THEN stop - (from + 1) + 1 ELSE 0
      /\ \A i \in 1..(stop - (from + 1) + 1) : chunk[i] = inputs[from + 1 + i - 1]
  <2>1. from + 1 \in Int /\ stop \in Int
    BY <1>1
  <2>2. QED
    BY <1>2, <2>1, SubSeqProperties
<1>4. chunk = Chunk(inputs, size, c)
  BY DEF Chunk, from, stop
<1>5. stop = IF from + size > Len(inputs) THEN Len(inputs) ELSE from + size
  BY <1>1 DEF stop
<1> HIDE DEF chunk
<1>6. Len(chunk) = IF from + size <= Len(inputs) THEN size
                   ELSE IF from <= Len(inputs) THEN Len(inputs) - from ELSE 0
  BY <1>1, <1>3, <1>5
<1>7. \A i \in 1..Len(chunk) : from + i \in 1..Len(inputs) /\ chunk[i] = inputs[from + i]
  BY <1>1, <1>3
<1>8. QED
  BY <1>1, <1>3, <1>4, <1>6, <1>7 DEF from

(* Every worker is handed a list of the orders of the input.               *)
LEMMA DivideType ==
    ASSUME NEW S, NEW inputs \in Seq(S), NEW n \in Nat \ {0}
    PROVE  DivideAndConquer(inputs, n) \in [1..n -> Seq(S)]
<1>1. ProducerSize(inputs, n) \in Nat
  <2>1. Len(inputs) \in Nat
    OBVIOUS
  <2>2. Len(inputs) \div n \in Nat
    BY <2>1, DivMod
  <2>3. QED
    BY <2>2 DEF ProducerSize
<1>2. \A w \in 1..n : Chunk(inputs, ProducerSize(inputs, n), w - 1) \in Seq(S)
  BY <1>1, ChunkProperties
<1>3. QED
  BY <1>2 DEF DivideAndConquer, IdAllocator

LEMMA AssignType ==
    ASSUME NEW S, NEW inputs \in Seq(S), NEW n \in Nat \ {0}
    PROVE  AssignWorkload(inputs, n) \in [1..n -> Seq(S)]
<1>1. AssignSize(inputs, n) \in Nat
  <2>1. Len(inputs) \in Nat
    OBVIOUS
  <2>2. Len(inputs) \div n \in Nat
    BY <2>1, DivMod
  <2>3. QED
    BY <2>2 DEF AssignSize
<1>2. \A w \in 1..n : Chunk(inputs, AssignSize(inputs, n), w - 1) \in Seq(S)
  BY <1>1, ChunkProperties
<1>3. QED
  BY <1>2 DEF AssignWorkload, IdAllocator

(* The order at a place that n chunks reach is handed to some worker.      *)
LEMMA HandedOut ==
    ASSUME NEW S, NEW inputs \in Seq(S), NEW n \in Nat \ {0}, NEW size \in Nat \ {0}
    PROVE  \A i \in 1..Len(inputs) : i <= n * size =>
              \E w \in 1..n : \E k \in 1..Len(IdAllocator(inputs, size, n)[w]) :
                 IdAllocator(inputs, size, n)[w][k] = inputs[i]
<1> SUFFICES ASSUME NEW i \in 1..Len(inputs), i <= n * size
             PROVE  \E w \in 1..n : \E k \in 1..Len(IdAllocator(inputs, size, n)[w]) :
                       IdAllocator(inputs, size, n)[w][k] = inputs[i]
  OBVIOUS
<1> DEFINE c == (i - 1) \div size
           k == ((i - 1) % size) + 1
<1>1. /\ c \in Nat
      /\ k \in 1..size
      /\ i - 1 = size * c + (k - 1)
  <2>1. i - 1 \in Nat
    OBVIOUS
  <2>2. /\ (i - 1) \div size \in Nat
        /\ (i - 1) % size \in 0..(size - 1)
        /\ i - 1 = size * ((i - 1) \div size) + ((i - 1) % size)
    BY <2>1, DivMod
  <2>3. QED
    BY <2>1, <2>2
<1> HIDE DEF c, k
<1>2. c < n
  <2>1. SUFFICES ASSUME n <= c PROVE FALSE
    BY <1>1
  <2>2. n * size <= c * size
    BY <2>1, <1>1, ProductMonotone
  <2>3. /\ size * c = c * size
        /\ c * size \in Nat
        /\ n * size \in Nat
    BY <1>1, SMT
  <2>4. QED
    BY <2>2, <2>3, <1>1
<1>3. c + 1 \in 1..n
  BY <1>1, <1>2
<1>4. IdAllocator(inputs, size, n)[c + 1] = Chunk(inputs, size, c)
  BY <1>1, <1>3 DEF IdAllocator
<1>5. /\ c * size \in Nat
      /\ (c + 1) * size = c * size + size
      /\ size * c = c * size
  BY <1>1, SMT
<1>6. k \in 1..Len(Chunk(inputs, size, c))
  BY <1>1, <1>5, ChunkProperties
<1>7. Chunk(inputs, size, c)[k] = inputs[c * size + k]
  BY <1>1, <1>6, ChunkProperties
<1>8. c * size + k = i
  BY <1>1, <1>5
<1>9. QED
  BY <1>3, <1>4, <1>6, <1>7, <1>8

(* The producer's division loses nothing: "+1 to ensure the allocation     *)
(* remains under the worker count".  Whatever the length of the list and   *)
(* the number of workers, each order is in the list of some worker, and no *)
(* worker is handed an order that is not in the input.                     *)
THEOREM ProducerDivisionCovers ==
    ASSUME NEW S, NEW inputs \in Seq(S), NEW n \in Nat \ {0}
    PROVE  LET split == DivideAndConquer(inputs, n) IN
             /\ \A i \in 1..Len(inputs) :
                  \E w \in 1..n : \E k \in 1..Len(split[w]) : split[w][k] = inputs[i]
             /\ \A w \in 1..n : \A k \in 1..Len(split[w]) :
                  \E i \in 1..Len(inputs) : split[w][k] = inputs[i]
<1> DEFINE L == Len(inputs)
           size == ProducerSize(inputs, n)
           split == DivideAndConquer(inputs, n)
<1>1. /\ L \in Nat
      /\ size \in Nat \ {0}
      /\ L < n * size
  <2>1. L \in Nat
    OBVIOUS
  <2>2. /\ L \div n \in Nat
        /\ L % n \in 0..(n - 1)
        /\ L = n * (L \div n) + (L % n)
    BY <2>1, DivMod
  <2>3. n * ((L \div n) + 1) = n * (L \div n) + n
    BY <2>2, SMT
  <2>4. QED
    BY <2>1, <2>2, <2>3 DEF ProducerSize
<1>2. /\ split = IdAllocator(inputs, size, n)
      /\ \A w \in 1..n : split[w] = Chunk(inputs, size, w - 1)
  BY DEF DivideAndConquer, IdAllocator
<1> HIDE DEF size, split
<1>3. \A i \in 1..L :
         \E w \in 1..n : \E k \in 1..Len(split[w]) : split[w][k] = inputs[i]
  <2>1. \A i \in 1..L : i <= n * size
    <3>1. n * size \in Nat
      BY <1>1, SMT
    <3>2. QED
      BY <1>1, <3>1
  <2>2. \A i \in 1..L : i <= n * size =>
           \E w \in 1..n : \E k \in 1..Len(IdAllocator(inputs, size, n)[w]) :
              IdAllocator(inputs, size, n)[w][k] = inputs[i]
    BY <1>1, HandedOut
  <2>3. QED
    BY <1>2, <2>1, <2>2
<1>4. ASSUME NEW w \in 1..n, NEW k \in 1..Len(split[w])
      PROVE  \E i \in 1..L : split[w][k] = inputs[i]
  <2>1. w - 1 \in Nat
    OBVIOUS
  <2>2. split[w] = Chunk(inputs, size, w - 1)
    BY <1>2
  <2>3. size \in Nat
    BY <1>1
  <2>4. \A j \in 1..Len(Chunk(inputs, size, w - 1)) :
           /\ (w - 1) * size + j \in 1..Len(inputs)
           /\ Chunk(inputs, size, w - 1)[j] = inputs[(w - 1) * size + j]
    BY <2>1, <2>3, ChunkProperties
  <2>5. QED
    BY <2>2, <2>4
<1>5. QED
  BY <1>3, <1>4 DEF split

(* The portal's division among the pods: every order is handed to a pod,   *)
(* but for those past the last full round, of which there are fewer than   *)
(* there are pods, and none if there is a pod for each order.              *)
(* (assign_message_workload_workers)                                       *)
THEOREM AssignmentDropsARemainder ==
    ASSUME NEW S, NEW inputs \in Seq(S), NEW n \in Nat \ {0}
    PROVE  LET split == AssignWorkload(inputs, n) IN
             \E m \in 0..Len(inputs) :
               /\ \A i \in 1..m :
                    \E w \in 1..n : \E k \in 1..Len(split[w]) : split[w][k] = inputs[i]
               /\ Len(inputs) - m < n
               /\ Len(inputs) <= n => m = Len(inputs)
<1> DEFINE L == Len(inputs)
           size == AssignSize(inputs, n)
           m == IF n * size <= L THEN n * size ELSE L
<1>1. /\ L \in Nat
      /\ L \div n \in Nat
      /\ L % n \in 0..(n - 1)
      /\ L = n * (L \div n) + (L % n)
  <2>1. L \in Nat
    OBVIOUS
  <2>2. QED
    BY <2>1, DivMod
<1>2. size \in Nat \ {0}
  BY <1>1 DEF AssignSize
<1>3. n * size \in Nat
  BY <1>2, SMT
<1>4. L - m < n
  <2>1. CASE L \div n = 0
    <3>1. n * (L \div n) = 0
      BY <2>1, SMT
    <3>2. L < n
      BY <1>1, <3>1
    <3>3. m \in Nat
      BY <1>1, <1>3
    <3>4. QED
      BY <1>1, <3>2, <3>3
  <2>2. CASE L \div n # 0
    <3>1. size = L \div n
      BY <2>2 DEF AssignSize
    <3>2. n * size = n * (L \div n)
      BY <3>1
    <3>3. QED
      BY <1>1, <1>3, <3>2
  <2>3. QED
    BY <2>1, <2>2
<1>5. ASSUME L <= n PROVE m = L
  <2>1. L \div n = 0 \/ n * (L \div n) >= n
    <3>1. CASE L \div n >= 1
      <4>1. 1 * n <= (L \div n) * n
        BY <3>1, <1>1, ProductMonotone
      <4>2. (L \div n) * n = n * (L \div n) /\ 1 * n = n
        BY <1>1, SMT
      <4>3. QED
        BY <4>1, <4>2
    <3>2. QED
      BY <3>1, <1>1
  <2>2. CASE L \div n = 0
    <3>1. size = 1
      BY <2>2 DEF AssignSize
    <3>2. n * size = n
      BY <3>1, SMT
    <3>3. QED
      BY <1>5, <1>1, <3>2
  <2>3. CASE L \div n # 0 /\ n * (L \div n) >= n
    <3>1. n * size = n * (L \div n)
      BY <2>3 DEF AssignSize
    <3>2. n * size = L
      BY <3>1, <2>3, <1>1, <1>3, <1>5
    <3>3. QED
      BY <3>2, <1>1
  <2>4. QED
    BY <2>1, <2>2, <2>3
<1>6. /\ m \in 0..L
      /\ m <= n * size
  BY <1>1, <1>3
<1>7. AssignWorkload(inputs, n) = IdAllocator(inputs, size, n)
  BY DEF AssignWorkload
<1> HIDE DEF size, m
<1>8. \A i \in 1..m : i \in 1..L /\ i <= n * size
  BY <1>1, <1>3, <1>6
<1>9. \A i \in 1..m :
         \E w \in 1..n : \E k \in 1..Len(IdAllocator(inputs, size, n)[w]) :
            IdAllocator(inputs, size, n)[w][k] = inputs[i]
  <2>1. \A i \in 1..L : i <= n * size =>
           \E w \in 1..n : \E k \in 1..Len(IdAllocator(inputs, size, n)[w]) :
              IdAllocator(inputs, size, n)[w][k] = inputs[i]
    BY <1>2, HandedOut
  <2>2. QED
    BY <1>8, <2>1
<1>10. QED
  BY <1>4, <1>5, <1>6, <1>7, <1>9

(* A chunk ends before a later one begins.                                 *)
LEMMA ChunksInOrder ==
    ASSUME NEW S, NEW inputs \in Seq(S), NEW size \in Nat, NEW c \in Nat, NEW d \in Nat, c < d,
           NEW i \in 1..Len(Chunk(inputs, size, c)), NEW j \in 1..Len(Chunk(inputs, size, d))
    PROVE  c * size + i < d * size + j
<1>1. (c + 1) * size <= d * size
  BY ProductMonotone
<1>2. /\ (c + 1) * size = c * size + size
      /\ c * size \in Nat /\ d * size \in Nat
  BY SMT
<1>3. Len(Chunk(inputs, size, c)) <= size
  <2>1. Len(inputs) \in Nat
    OBVIOUS
  <2>2. Len(Chunk(inputs, size, c)) =
           IF (c + 1) * size <= Len(inputs) THEN size
           ELSE IF c * size <= Len(inputs) THEN Len(inputs) - c * size ELSE 0
    BY ChunkProperties
  <2>3. QED
    BY <1>2, <2>1, <2>2
<1>4. /\ Len(Chunk(inputs, size, c)) \in Nat /\ Len(Chunk(inputs, size, d)) \in Nat
  BY ChunkProperties
<1>5. i <= size /\ i \in Nat /\ j \in Nat /\ 1 <= j
  BY <1>3, <1>4
<1>6. QED
  BY <1>1, <1>2, <1>5

(* No order is handed out twice, if the list names it once.                *)
LEMMA HandedOutOnce ==
    ASSUME NEW S, NEW inputs \in Seq(S), NEW n \in Nat \ {0}, NEW size \in Nat,
           \A i, j \in 1..Len(inputs) : i # j => inputs[i] # inputs[j]
    PROVE  LET split == IdAllocator(inputs, size, n) IN
             \A v, w \in 1..n : \A i \in 1..Len(split[v]), j \in 1..Len(split[w]) :
               (v # w \/ i # j) => split[v][i] # split[w][j]
<1> DEFINE split == IdAllocator(inputs, size, n)
<1>1. \A w \in 1..n : w - 1 \in Nat /\ split[w] = Chunk(inputs, size, w - 1)
  BY DEF IdAllocator
<1> HIDE DEF split
<1> SUFFICES ASSUME NEW v \in 1..n, NEW w \in 1..n,
                    NEW i \in 1..Len(split[v]), NEW j \in 1..Len(split[w]), v # w \/ i # j
             PROVE  split[v][i] # split[w][j]
  BY DEF split
<1> DEFINE a == (v - 1) * size + i
           b == (w - 1) * size + j
<1>2. /\ a \in 1..Len(inputs) /\ split[v][i] = inputs[a]
      /\ b \in 1..Len(inputs) /\ split[w][j] = inputs[b]
      /\ split[v] \in Seq(S) /\ split[w] \in Seq(S)
  <2>1. \A c \in Nat : Chunk(inputs, size, c) \in Seq(S)
    BY ChunkProperties
  <2>2. \A c \in Nat : \A k \in 1..Len(Chunk(inputs, size, c)) :
           /\ c * size + k \in 1..Len(inputs)
           /\ Chunk(inputs, size, c)[k] = inputs[c * size + k]
    BY ChunkProperties
  <2>3. /\ v - 1 \in Nat /\ split[v] = Chunk(inputs, size, v - 1)
        /\ w - 1 \in Nat /\ split[w] = Chunk(inputs, size, w - 1)
    BY <1>1
  <2>4. QED
    BY <2>1, <2>2, <2>3
<1>3. a # b
  <2>1. CASE v = w
    <3>1. (v - 1) * size \in Nat
      BY <1>1, SMT
    <3>2. Len(split[v]) \in Nat /\ Len(split[w]) \in Nat
      BY <1>2
    <3>3. i # j /\ i \in Nat /\ j \in Nat
      BY <2>1, <3>2
    <3>4. QED
      BY <2>1, <3>1, <3>3
  <2>2. CASE v < w
    <3>1. v - 1 < w - 1
      BY <2>2
    <3>2. a < b
      BY <1>1, <3>1, ChunksInOrder
    <3>3. QED
      BY <1>2, <3>2
  <2>3. CASE w < v
    <3>1. w - 1 < v - 1
      BY <2>3
    <3>2. b < a
      BY <1>1, <3>1, ChunksInOrder
    <3>3. QED
      BY <1>2, <3>2
  <2>4. QED
    BY <2>1, <2>2, <2>3
<1>4. QED
  BY <1>2, <1>3

(* The portal hands no order to two pods, and none twice to one.           *)
(* (assign_message_workload_workers)                                       *)
THEOREM AssignmentIsOnce ==
    ASSUME NEW S, NEW inputs \in Seq(S), NEW n \in Nat \ {0},
           \A i, j \in 1..Len(inputs) : i # j => inputs[i] # inputs[j]
    PROVE  LET split == AssignWorkload(inputs, n) IN
             \A v, w \in 1..n : \A i \in 1..Len(split[v]), j \in 1..Len(split[w]) :
               (v # w \/ i # j) => split[v][i] # split[w][j]
<1>1. AssignSize(inputs, n) \in Nat
  <2>1. Len(inputs) \in Nat
    OBVIOUS
  <2>2. Len(inputs) \div n \in Nat
    BY <2>1, DivMod
  <2>3. QED
    BY <2>2 DEF AssignSize
<1>2. QED
  BY <1>1, HandedOutOnce, Zenon DEF AssignWorkload

(* A producer pod hands no order to two workers, and none twice to one.    *)
(* (divide_and_conquer of producer.go)                                     *)
THEOREM ProducerDivisionIsOnce ==
    ASSUME NEW S, NEW inputs \in Seq(S), NEW n \in Nat \ {0},
           \A i, j \in 1..Len(inputs) : i # j => inputs[i] # inputs[j]
    PROVE  LET split == DivideAndConquer(inputs, n) IN
             \A v, w \in 1..n : \A i \in 1..Len(split[v]), j \in 1..Len(split[w]) :
               (v # w \/ i # j) => split[v][i] # split[w][j]
<1>1. ProducerSize(inputs, n) \in Nat
  <2>1. Len(inputs) \in Nat
    OBVIOUS
  <2>2. Len(inputs) \div n \in Nat
    BY <2>1, DivMod
  <2>3. QED
    BY <2>2 DEF ProducerSize
<1>2. QED
  BY <1>1, HandedOutOnce, Zenon DEF DivideAndConquer

(* One worker is handed the whole list.                                    *)
LEMMA DivideForOne ==
    ASSUME NEW S, NEW inputs \in Seq(S)
    PROVE  DivideAndConquer(inputs, 1) = [w \in 1..1 |-> inputs]
<1>1. Len(inputs) \in Nat /\ Len(inputs) \div 1 = Len(inputs)
  BY SMT
<1>2. Chunk(inputs, ProducerSize(inputs, 1), 0) = SubSeq(inputs, 1, Len(inputs))
  <2>1. /\ ProducerSize(inputs, 1) = Len(inputs) + 1
        /\ Len(inputs) + 1 \in Nat
    BY <1>1 DEF ProducerSize
  <2>2. /\ 0 * (Len(inputs) + 1) + 1 = 1
        /\ (0 + 1) * (Len(inputs) + 1) = Len(inputs) + 1
        /\ Len(inputs) + 1 > Len(inputs)
    BY <1>1, SMT
  <2>3. QED
    BY <2>1, <2>2 DEF Chunk
<1>3. SubSeq(inputs, 1, Len(inputs)) = inputs
  BY SubSeqFull
<1>4. \A w \in 1..1 : Chunk(inputs, ProducerSize(inputs, 1), w - 1) = inputs
  BY <1>2, <1>3
<1>5. QED
  BY <1>4 DEF DivideAndConquer, IdAllocator

(* Nobody is handed an order of an empty list.                             *)
LEMMA DivideEmpty ==
    ASSUME NEW n \in Nat \ {0}
    PROVE  \A w \in 1..n : Len(DivideAndConquer(<<>>, n)[w]) = 0
<1>1. /\ <<>> \in Seq({})
      /\ ProducerSize(<<>>, n) \in Nat
  BY DivMod DEF ProducerSize
<1>2. ASSUME NEW w \in 1..n
      PROVE  Len(Chunk(<<>>, ProducerSize(<<>>, n), w - 1)) = 0
  <2> DEFINE chunk == Chunk(<<>>, ProducerSize(<<>>, n), w - 1)
  <2>1. w - 1 \in Nat
    OBVIOUS
  <2>2. /\ chunk \in Seq({})
        /\ \A i \in 1..Len(chunk) : (w - 1) * ProducerSize(<<>>, n) + i \in 1..Len(<<>>)
    BY <1>1, <2>1, ChunkProperties
  <2>3. Len(<<>>) = 0
    OBVIOUS
  <2> HIDE DEF chunk
  <2>4. Len(chunk) \in Nat
    BY <2>2
  <2>5. Len(chunk) = 0
    BY <2>2, <2>3, <2>4
  <2>6. QED
    BY <2>5 DEF chunk
<1>3. QED
  BY <1>2 DEF DivideAndConquer, IdAllocator
=============================================================================
