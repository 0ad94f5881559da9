--------------------------- MODULE ConsumerProofs ---------------------------
(***************************************************************************)
(* Theorems about the consumer pods, for any number of pods and messages,  *)
(* any limits and any number of deaths and lost connections.               *)
(***************************************************************************)
EXTENDS Consumer, FiniteSetTheorems, TLAPS

LEMMA TypeInit == Init => TypeOK
<1> SUFFICES ASSUME Init
             PROVE  TypeOK
  OBVIOUS
<1>1. place \in [Messages -> Places] /\ acking \in [Consumers -> SUBSET Messages]
  BY DEF Init, Places
<1>2. at \in [Consumers -> Steps] /\ hand \in [Consumers -> SUBSET Messages]
  BY DEF Init, Steps
<1>3. toCancel \in [Consumers -> 0..CancelBatchLimit]
  BY LimitAssumption DEF Init
<1>4. /\ orderIndex \in [Consumers -> Nat]
      /\ batchIndex \in [Consumers -> Nat]
      /\ errorCount \in [Consumers -> Nat]
      /\ answer \in [Consumers -> {"none", "sent", "refused"}]
  BY DEF Init
<1>5. /\ posts \in [Messages -> Nat]
      /\ answered \in [Consumers -> Nat]
      /\ batches \in [Consumers -> Nat]
      /\ cancelAlls \in [Consumers -> Nat]
  BY DEF Init
<1>6. refused \in [Consumers -> BOOLEAN]
  BY DEF Init
<1>7. deaths \in 0..MaxDeaths /\ cuts \in 0..MaxCuts
  BY BoundsAssumption DEF Init
<1>8. QED
  BY <1>1, <1>2, <1>3, <1>4, <1>5, <1>6, <1>7 DEF TypeOK

LEMMA TypeStep == TypeOK /\ [Next]_vars => TypeOK'
<1> SUFFICES ASSUME TypeOK, [Next]_vars
             PROVE  TypeOK'
  OBVIOUS
<1> USE DEF TypeOK, broker, batching, process, counts, history, Steps
<1>1. ASSUME NEW c \in Consumers, Start(c)
      PROVE  TypeOK'
  BY <1>1 DEF Start
<1>2. ASSUME NEW c \in Consumers, NEW m \in Messages, Dispatch(c, m)
      PROVE  TypeOK'
  BY <1>2 DEF Dispatch, Places
<1>3. ASSUME NEW c \in Consumers, Receive(c)
      PROVE  TypeOK'
  BY <1>3 DEF Receive, Queued, Acknowledged
<1>4. ASSUME NEW c \in Consumers, NEW m \in Messages, AckArrives(c, m)
      PROVE  TypeOK'
  BY <1>4 DEF AckArrives, Places
<1>5. ASSUME NEW c \in Consumers, SkipEmpty(c)
      PROVE  TypeOK'
  BY <1>5 DEF SkipEmpty
<1>6. ASSUME NEW c \in Consumers, FailCheck(c)
      PROVE  TypeOK'
  BY <1>6 DEF FailCheck
<1>7. ASSUME NEW c \in Consumers, PassCheck(c)
      PROVE  TypeOK'
  BY <1>7 DEF PassCheck
<1>8. ASSUME NEW c \in Consumers, Post(c)
      PROVE  TypeOK'
  BY <1>8, AnswersAssumption DEF Post
<1>9. ASSUME NEW c \in Consumers, CountAnswer(c)
      PROVE  TypeOK'
  <2>1. refused' \in [Consumers -> BOOLEAN]
    BY <1>9 DEF CountAnswer
  <2>2. QED
    BY <1>9, <2>1 DEF CountAnswer
<1>10. ASSUME NEW c \in Consumers, ListOrders(c)
       PROVE  TypeOK'
  BY <1>10 DEF ListOrders, Listed
<1>11. ASSUME NEW c \in Consumers, CancelOrder(c)
       PROVE  TypeOK'
  <2>1. NextOrder(c) \in 0..CancelBatchLimit
    BY <1>11, LimitAssumption DEF CancelOrder, NextOrder
  <2>2. QED
    BY <1>11, <2>1 DEF CancelOrder
<1>12. ASSUME NEW c \in Consumers, FinishBatch(c)
       PROVE  TypeOK'
  BY <1>12 DEF FinishBatch, ResetBatchIndex
<1>13. ASSUME NEW c \in Consumers, BulkCancel(c)
       PROVE  TypeOK'
  BY <1>13 DEF BulkCancel
<1>14. ASSUME NEW c \in Consumers, Cut(c)
       PROVE  TypeOK'
  BY <1>14, BoundsAssumption DEF Cut, TakeBack, Places
<1>15. ASSUME NEW c \in Consumers, Die(c)
       PROVE  TypeOK'
  <2>1. refused' \in [Consumers -> BOOLEAN]
    BY <1>15 DEF Die
  <2>2. toCancel' \in [Consumers -> 0..CancelBatchLimit]
    BY <1>15, LimitAssumption DEF Die
  <2>3. place' \in [Messages -> Places] /\ acking' \in [Consumers -> SUBSET Messages]
    BY <1>15 DEF Die, TakeBack, Places
  <2>4. deaths' \in 0..MaxDeaths
    BY <1>15, BoundsAssumption DEF Die
  <2>5. QED
    BY <1>15, <2>1, <2>2, <2>3, <2>4 DEF Die
<1>16. ASSUME UNCHANGED vars
       PROVE  TypeOK'
  BY <1>16 DEF vars
<1>17. QED
  BY <1>1, <1>2, <1>3, <1>4, <1>5, <1>6, <1>7, <1>8, <1>9, <1>10, <1>11, <1>12, <1>13,
     <1>14, <1>15, <1>16 DEF Next, LoopStep

(* Every variable keeps its type, for all values of the constants.         *)
THEOREM TypeCorrect == Spec => []TypeOK
<1>1. QED
  BY TypeInit, TypeStep, PTL DEF Spec
-----------------------------------------------------------------------------
(* While no answer was a refusal, every answer is in a finished batch or   *)
(* in the running one, which is full exactly while it is being cancelled.  *)
InStep(c) ==
    /\ answered[c] = batches[c] * CancelBatchLimit + batchIndex[c]
    /\ IF at[c] \in {"list", "cancel"} THEN batchIndex[c] = CancelBatchLimit
                                       ELSE batchIndex[c] < CancelBatchLimit

BatchInv ==
    \A c \in Consumers :
        /\ at[c] = "answer" => answer[c] \in {"sent", "refused"}
        /\ ~refused[c] => InStep(c)

LEMMA OneBatchMore ==
    ASSUME NEW n \in Nat, NEW k \in Nat
    PROVE  (n + 1) * k + 0 = n * k + k
  OBVIOUS

LEMMA BatchInit == Init => BatchInv
  BY LimitAssumption DEF Init, BatchInv, InStep

(* A step of the loop that leaves the batch and its counts alone.          *)
LEMMA BatchUntouched ==
    ASSUME TypeOK, BatchInv, NEW c \in Consumers,
           UNCHANGED <<answered, batches, batchIndex, answer, refused>>,
           NEW s \in Steps \ {"list", "cancel", "answer"}, at' = [at EXCEPT ![c] = s],
           at[c] \notin {"list", "cancel"}
    PROVE  BatchInv'
  BY DEF BatchInv, InStep, TypeOK

LEMMA BatchStep == TypeOK /\ BatchInv /\ [Next]_vars => BatchInv'
<1> SUFFICES ASSUME TypeOK, BatchInv, [Next]_vars
             PROVE  BatchInv'
  OBVIOUS
<1> USE DEF broker, batching, process, counts, history
<1>1. ASSUME NEW c \in Consumers, Start(c)
      PROVE  BatchInv'
  BY <1>1, BatchUntouched DEF Start, Steps
<1>2. ASSUME NEW c \in Consumers, NEW m \in Messages, Dispatch(c, m) \/ AckArrives(c, m)
      PROVE  BatchInv'
  BY <1>2 DEF Dispatch, AckArrives, BatchInv, InStep
<1>3. ASSUME NEW c \in Consumers, Receive(c) \/ SkipEmpty(c) \/ PassCheck(c)
      PROVE  BatchInv'
  BY <1>3, BatchUntouched DEF Receive, SkipEmpty, PassCheck, Steps
<1>4. ASSUME NEW c \in Consumers, FailCheck(c) \/ BulkCancel(c)
      PROVE  BatchInv'
  BY <1>4, BatchUntouched DEF FailCheck, BulkCancel, Steps
<1>5. ASSUME NEW c \in Consumers, Post(c)
      PROVE  BatchInv'
  BY <1>5, AnswersAssumption DEF Post, BatchInv, InStep, TypeOK
<1>6. ASSUME NEW c \in Consumers, CountAnswer(c)
      PROVE  BatchInv'
  <2>1. ASSUME NEW d \in Consumers, d # c
        PROVE  (at[d] = "answer" => answer[d] \in {"sent", "refused"})'
               /\ (~refused[d] => InStep(d))'
    BY <1>6, <2>1 DEF CountAnswer, BatchInv, InStep, TypeOK
  <2>2. at'[c] # "answer"
    BY <1>6 DEF CountAnswer, TypeOK
  <2>3. ASSUME ~refused'[c]
        PROVE  InStep(c)'
    <3>1. ~refused[c] /\ answer[c] = "sent"
      BY <1>6, <2>3 DEF CountAnswer, BatchInv, TypeOK
    <3>2. /\ answered'[c] = answered[c] + 1
          /\ batchIndex'[c] = batchIndex[c] + 1
          /\ batches' = batches
          /\ at'[c] = IF ListIsFull(c) THEN "list" ELSE "bulk"
      BY <1>6, <3>1 DEF CountAnswer, TypeOK
    <3>3. InStep(c) /\ at[c] = "answer"
      BY <1>6, <3>1 DEF CountAnswer, BatchInv
    <3>4. /\ batches[c] * CancelBatchLimit \in Nat
          /\ batchIndex[c] \in Nat
          /\ CancelBatchLimit \in Nat
      BY LimitAssumption DEF TypeOK
    <3>5. QED
      BY <3>2, <3>3, <3>4 DEF InStep, ListIsFull
  <2>4. QED
    BY <2>1, <2>2, <2>3 DEF BatchInv
<1>7. ASSUME NEW c \in Consumers, ListOrders(c) \/ CancelOrder(c)
      PROVE  BatchInv'
  BY <1>7 DEF ListOrders, CancelOrder, BatchInv, InStep, TypeOK
<1>8. ASSUME NEW c \in Consumers, FinishBatch(c)
      PROVE  BatchInv'
  <2>1. ASSUME NEW d \in Consumers, d # c
        PROVE  (at[d] = "answer" => answer[d] \in {"sent", "refused"})'
               /\ (~refused[d] => InStep(d))'
    BY <1>8, <2>1 DEF FinishBatch, BatchInv, InStep, TypeOK
  <2>2. at'[c] = "bulk" /\ batchIndex'[c] = 0 /\ batches'[c] = batches[c] + 1
        /\ answered' = answered /\ refused' = refused
    BY <1>8 DEF FinishBatch, ResetBatchIndex, TypeOK
  <2>3. ASSUME ~refused[c]
        PROVE  InStep(c)'
    <3>1. answered[c] = batches[c] * CancelBatchLimit + CancelBatchLimit
      BY <1>8, <2>3 DEF FinishBatch, BatchInv, InStep
    <3>2. batches[c] \in Nat /\ CancelBatchLimit \in Nat \ {0}
      BY LimitAssumption DEF TypeOK
    <3>3. (batches[c] + 1) * CancelBatchLimit + 0 = batches[c] * CancelBatchLimit + CancelBatchLimit
      BY <3>2, OneBatchMore
    <3>4. QED
      BY <2>2, <3>1, <3>2, <3>3 DEF InStep
  <2>4. QED
    BY <2>1, <2>2, <2>3 DEF BatchInv
<1>9. ASSUME NEW c \in Consumers, Cut(c)
      PROVE  BatchInv'
  BY <1>9 DEF Cut, BatchInv, InStep
<1>10. ASSUME NEW c \in Consumers, Die(c)
       PROVE  BatchInv'
  BY <1>10, LimitAssumption DEF Die, BatchInv, InStep, TypeOK
<1>11. ASSUME UNCHANGED vars
       PROVE  BatchInv'
  BY <1>11 DEF vars, BatchInv, InStep
<1>12. QED
  BY <1>1, <1>2, <1>3, <1>4, <1>5, <1>6, <1>7, <1>8, <1>9, <1>10, <1>11 DEF Next, LoopStep

(* As long as the trading system takes every order, the batches of         *)
(* cancellations keep pace with the orders.                                *)
THEOREM CancellationsKeepPace == Spec => []BatchesKeepPace
<1>1. BatchInv /\ TypeOK => BatchesKeepPace
  BY LimitAssumption DEF BatchInv, InStep, BatchesKeepPace, TypeOK
<1>2. QED
  BY <1>1, TypeInit, TypeStep, BatchInit, BatchStep, PTL DEF Spec
-----------------------------------------------------------------------------
(* Where an order can still be posted without a failure: by a process that *)
(* has it in hand, or, while it is free, by whoever receives it next.      *)
Posting(m) == {c \in Consumers : m \in hand[c] /\ at[c] \in {"check", "post"}}

Free(m) == place[m] # "acked" /\ \A c \in Consumers : m \notin acking[c]

Chances(m) == Cardinality(Posting(m)) + (IF Free(m) THEN 1 ELSE 0)

Allowed == 1 + deaths + cuts

AcksOwned == \A c \in Consumers : \A m \in acking[c] : place[m] = c

PostInv ==
    /\ AcksOwned
    /\ \A m \in Messages :
          /\ IsFiniteSet(Posting(m))
          /\ posts[m] + Chances(m) <= Allowed

(* How often an order may have been posted at most.                        *)
LEMMA AllowedType == (TypeOK => Allowed \in Nat) /\ (TypeOK' => Allowed' \in Nat)
<1>1. ASSUME TypeOK
      PROVE  Allowed \in Nat
  <2>1. deaths \in Nat /\ cuts \in Nat
    BY <1>1, BoundsAssumption DEF TypeOK
  <2>2. QED
    BY <2>1 DEF Allowed
<1>2. ASSUME TypeOK'
      PROVE  Allowed' \in Nat
  <2>1. deaths' \in 0..MaxDeaths /\ cuts' \in 0..MaxCuts
    BY <1>2 DEF TypeOK
  <2>2. deaths' \in Nat /\ cuts' \in Nat
    BY <2>1, BoundsAssumption
  <2>3. PICK d \in Nat, k \in Nat : d = deaths' /\ k = cuts'
    BY <2>2
  <2>4. Allowed' = 1 + d + k
    BY <2>3 DEF Allowed
  <2>5. QED
    BY <2>4
<1>3. QED
  BY <1>1, <1>2

LEMMA PostInit == Init => PostInv
<1> SUFFICES ASSUME Init
             PROVE  PostInv
  OBVIOUS
<1>1. \A m \in Messages : Posting(m) = {}
  BY DEF Init, Posting
<1>2. IsFiniteSet({}) /\ Cardinality({}) = 0
  BY FS_EmptySet
<1>3. \A m \in Messages : Chances(m) \in {0, 1}
  BY <1>1, <1>2 DEF Chances
<1>4. Allowed = 1
  BY DEF Init, Allowed
<1>5. QED
  BY <1>1, <1>2, <1>3, <1>4 DEF Init, PostInv, AcksOwned

(* A set that keeps its members, or gains or loses one at most.            *)
LEMMA FewerOrSame ==
    ASSUME NEW S, NEW T \in SUBSET S, IsFiniteSet(S)
    PROVE  IsFiniteSet(T) /\ Cardinality(T) <= Cardinality(S) /\ Cardinality(T) \in Nat
           /\ Cardinality(S) \in Nat
  BY FS_Subset, FS_CardinalityType

LEMMA OneFewer ==
    ASSUME NEW S, NEW x \in S, IsFiniteSet(S)
    PROVE  /\ IsFiniteSet(S \ {x}) /\ Cardinality(S \ {x}) + 1 = Cardinality(S)
           /\ Cardinality(S \ {x}) \in Nat
<1>1. IsFiniteSet(S \ {x}) /\ Cardinality(S \ {x}) = Cardinality(S) - 1
  BY FS_RemoveElement
<1>2. Cardinality(S) \in Nat /\ Cardinality(S \ {x}) \in Nat
  BY <1>1, FS_CardinalityType
<1>3. QED
  BY <1>1, <1>2

LEMMA OneMoreAtMost ==
    ASSUME NEW S, NEW x, IsFiniteSet(S)
    PROVE  /\ IsFiniteSet(S \cup {x}) /\ Cardinality(S \cup {x}) <= Cardinality(S) + 1
           /\ Cardinality(S \cup {x}) \in Nat /\ Cardinality(S) \in Nat
  BY FS_AddElement, FS_CardinalityType

(* A step with no failure that gives no message a new chance.              *)
LEMMA NoNewChance ==
    ASSUME TypeOK, TypeOK', PostInv, NEW m \in Messages,
           Posting(m)' \subseteq Posting(m), Free(m)' => Free(m),
           posts'[m] = posts[m], Allowed' >= Allowed
    PROVE  IsFiniteSet(Posting(m)') /\ posts'[m] + Chances(m)' <= Allowed'
<1>1. /\ IsFiniteSet(Posting(m)')
      /\ Cardinality(Posting(m)') <= Cardinality(Posting(m))
      /\ Cardinality(Posting(m)') \in Nat
      /\ Cardinality(Posting(m)) \in Nat
  BY FewerOrSame DEF PostInv
<1>2. posts[m] \in Nat /\ Allowed \in Nat /\ Allowed' \in Nat
  BY AllowedType DEF TypeOK
<1>3. Chances(m)' <= Chances(m) /\ Chances(m) \in Nat /\ Chances(m)' \in Nat
  BY <1>1 DEF Chances
<1>4. posts[m] + Chances(m) <= Allowed
  BY DEF PostInv
<1>5. posts[m] + Chances(m)' <= Allowed'
  BY <1>2, <1>3, <1>4
<1>6. QED
  BY <1>1, <1>5

(* A failure may make one message free again, and no more than that.       *)
LEMMA FailureFrees ==
    ASSUME TypeOK, TypeOK', PostInv, NEW m \in Messages,
           Posting(m)' \subseteq Posting(m),
           posts'[m] = posts[m], Allowed' = Allowed + 1
    PROVE  IsFiniteSet(Posting(m)') /\ posts'[m] + Chances(m)' <= Allowed'
<1>1. /\ IsFiniteSet(Posting(m)')
      /\ Cardinality(Posting(m)') <= Cardinality(Posting(m))
      /\ Cardinality(Posting(m)') \in Nat
      /\ Cardinality(Posting(m)) \in Nat
  BY FewerOrSame DEF PostInv
<1>2. posts[m] \in Nat /\ Allowed \in Nat /\ Allowed' \in Nat
  BY AllowedType DEF TypeOK
<1>3. Chances(m)' <= Chances(m) + 1 /\ Chances(m) \in Nat /\ Chances(m)' \in Nat
  BY <1>1 DEF Chances
<1>4. posts[m] + Chances(m) <= Allowed
  BY DEF PostInv
<1>5. posts[m] + Chances(m)' <= Allowed'
  BY <1>2, <1>3, <1>4
<1>6. QED
  BY <1>1, <1>5

LEMMA PostStep == TypeOK /\ TypeOK' /\ PostInv /\ [Next]_vars => PostInv'
<1> SUFFICES ASSUME TypeOK, TypeOK', PostInv, [Next]_vars
             PROVE  PostInv'
  OBVIOUS
<1> USE DEF broker, batching, process, counts, history
<1> DEFINE Holds(m) == IsFiniteSet(Posting(m)') /\ posts'[m] + Chances(m)' <= Allowed'
<1>0. Allowed \in Nat /\ Allowed' \in Nat
  BY AllowedType
<1>1. ASSUME NEW c \in Consumers,
             \/ Start(c) \/ SkipEmpty(c) \/ FailCheck(c) \/ PassCheck(c) \/ CountAnswer(c)
             \/ ListOrders(c) \/ CancelOrder(c) \/ FinishBatch(c) \/ BulkCancel(c)
      PROVE  PostInv'
  <2>1. UNCHANGED <<place, acking, posts, deaths, cuts>>
    BY <1>1 DEF Start, SkipEmpty, FailCheck, PassCheck, CountAnswer, ListOrders, CancelOrder,
                FinishBatch, BulkCancel
  <2>2. /\ hand' = hand \/ hand' = [hand EXCEPT ![c] = {}]
        /\ \/ at' = at
           \/ at[c] \in {"check", "post"} /\ \E s \in Steps : at' = [at EXCEPT ![c] = s]
           \/ \E s \in Steps \ {"check", "post"} : at' = [at EXCEPT ![c] = s]
    BY <1>1 DEF Start, SkipEmpty, FailCheck, PassCheck, CountAnswer, ListOrders, CancelOrder,
                FinishBatch, BulkCancel, Steps
  <2>3. \A m \in Messages : Posting(m)' \subseteq Posting(m)
    BY <2>2 DEF Posting, TypeOK
  <2>4. \A m \in Messages : Free(m)' = Free(m)
    BY <2>1 DEF Free
  <2>5. Allowed' >= Allowed
    BY <1>0, <2>1 DEF Allowed
  <2>6. ASSUME NEW m \in Messages
        PROVE  Holds(m)
    BY <2>1, <2>3, <2>4, <2>5, NoNewChance
  <2>7. QED
    BY <2>1, <2>6 DEF PostInv, AcksOwned
<1>2. ASSUME NEW c \in Consumers, NEW n \in Messages, Dispatch(c, n) \/ AckArrives(c, n)
      PROVE  PostInv'
  <2>1. /\ UNCHANGED <<hand, at, posts, deaths, cuts>>
        /\ AcksOwned'
        /\ \A m \in Messages : Free(m)' => Free(m)
    <3>1. CASE Dispatch(c, n)
      BY <3>1, PlacesAssumption DEF Dispatch, AcksOwned, Free, PostInv, TypeOK
    <3>2. CASE AckArrives(c, n)
      <4>1. acking' = [acking EXCEPT ![c] = @ \ {n}] /\ place' = [place EXCEPT ![n] = "acked"]
            /\ n \in acking[c] /\ place[n] = c
        BY <3>2 DEF AckArrives, PostInv, AcksOwned
      <4>2. \A d \in Consumers : n \in acking[d] => d = c
        BY <4>1 DEF PostInv, AcksOwned
      <4>3. AcksOwned'
        BY <4>1, <4>2 DEF PostInv, AcksOwned, TypeOK
      <4>4. \A m \in Messages : Free(m)' => Free(m)
        BY <4>1 DEF Free, TypeOK
      <4>5. QED
        BY <3>2, <4>3, <4>4 DEF AckArrives
    <3>3. QED
      BY <1>2, <3>1, <3>2
  <2>2. Allowed' >= Allowed
    BY <1>0, <2>1 DEF Allowed
  <2>3. \A m \in Messages : Posting(m)' \subseteq Posting(m)
    BY <2>1 DEF Posting
  <2>4. ASSUME NEW m \in Messages
        PROVE  Holds(m)
    BY <2>1, <2>2, <2>3, NoNewChance
  <2>5. QED
    BY <2>1, <2>4 DEF PostInv
<1>3. ASSUME NEW c \in Consumers, Receive(c)
      PROVE  PostInv'
  <2>1. PICK n \in Queued(c) : /\ hand' = [hand EXCEPT ![c] = {n}]
                               /\ acking' = [acking EXCEPT ![c] = @ \cup {n}]
    BY <1>3 DEF Receive, Acknowledged
  <2>2. /\ UNCHANGED <<place, posts, deaths, cuts>>
        /\ at[c] = "receive" /\ at' = [at EXCEPT ![c] = "check"]
        /\ n \in Messages /\ place[n] = c
    BY <1>3 DEF Receive, Queued
  <2>3. AcksOwned'
    BY <2>1, <2>2 DEF PostInv, AcksOwned, TypeOK
  <2>4. Free(n) /\ ~Free(n)'
    BY <2>1, <2>2, PlacesAssumption DEF Queued, Free, PostInv, AcksOwned, TypeOK
  <2>5. Posting(n)' \subseteq Posting(n) \cup {c}
    BY <2>1, <2>2 DEF Posting, TypeOK
  <2>6. Holds(n)
    <3>1. /\ IsFiniteSet(Posting(n) \cup {c})
          /\ Cardinality(Posting(n) \cup {c}) <= Cardinality(Posting(n)) + 1
          /\ Cardinality(Posting(n) \cup {c}) \in Nat /\ Cardinality(Posting(n)) \in Nat
      BY <2>2, OneMoreAtMost DEF PostInv
    <3>2. /\ IsFiniteSet(Posting(n)')
          /\ Cardinality(Posting(n)') <= Cardinality(Posting(n) \cup {c})
          /\ Cardinality(Posting(n)') \in Nat
      BY <2>5, <3>1, FewerOrSame
    <3>3. Chances(n)' = Cardinality(Posting(n)') /\ Chances(n) = Cardinality(Posting(n)) + 1
      BY <2>4, <3>1, <3>2 DEF Chances
    <3>4. posts[n] \in Nat /\ posts[n] + Chances(n) <= Allowed
      BY <2>2 DEF PostInv, TypeOK
    <3>5. QED
      BY <1>0, <2>2, <3>1, <3>2, <3>3, <3>4 DEF Allowed
  <2>7. ASSUME NEW m \in Messages, m # n
        PROVE  Holds(m)
    <3>1. Posting(m)' \subseteq Posting(m) /\ (Free(m)' => Free(m))
      BY <2>1, <2>2, <2>7 DEF Posting, Free, TypeOK
    <3>2. Allowed' >= Allowed
      BY <1>0, <2>2 DEF Allowed
    <3>3. QED
      BY <2>2, <3>1, <3>2, NoNewChance
  <2>8. QED
    BY <2>3, <2>6, <2>7 DEF PostInv
<1>4. ASSUME NEW c \in Consumers, Post(c)
      PROVE  PostInv'
  <2>1. PICK n \in hand[c] : posts' = [posts EXCEPT ![n] = @ + 1]
    BY <1>4 DEF Post
  <2>2. /\ UNCHANGED <<place, acking, hand, deaths, cuts>>
        /\ at[c] = "post" /\ at' = [at EXCEPT ![c] = "answer"]
        /\ n \in Messages
    BY <1>4 DEF Post, TypeOK
  <2>3. \A m \in Messages : Free(m)' = Free(m)
    BY <2>2 DEF Free
  <2>4. Posting(n)' = Posting(n) \ {c} /\ c \in Posting(n)
    BY <2>1, <2>2 DEF Posting, TypeOK
  <2>5. Holds(n)
    <3>1. /\ IsFiniteSet(Posting(n)')
          /\ Cardinality(Posting(n)') + 1 = Cardinality(Posting(n))
          /\ Cardinality(Posting(n)') \in Nat
      BY <2>2, <2>4, OneFewer DEF PostInv
    <3>2. Chances(n) = Chances(n)' + 1 /\ Chances(n)' \in Nat
      BY <2>2, <2>3, <3>1 DEF Chances
    <3>3. posts'[n] = posts[n] + 1 /\ posts[n] \in Nat /\ posts[n] + Chances(n) <= Allowed
      BY <2>1, <2>2 DEF PostInv, TypeOK
    <3>4. QED
      BY <1>0, <2>2, <3>1, <3>2, <3>3 DEF Allowed
  <2>6. ASSUME NEW m \in Messages, m # n
        PROVE  Holds(m)
    <3>1. Posting(m)' \subseteq Posting(m) /\ posts'[m] = posts[m]
      BY <2>1, <2>2, <2>6 DEF Posting, TypeOK
    <3>2. Allowed' >= Allowed
      BY <1>0, <2>2 DEF Allowed
    <3>3. QED
      BY <2>3, <3>1, <3>2, NoNewChance
  <2>7. AcksOwned'
    BY <2>2 DEF PostInv, AcksOwned
  <2>8. QED
    BY <2>5, <2>6, <2>7 DEF PostInv
<1>5. ASSUME NEW c \in Consumers, Cut(c) \/ Die(c)
      PROVE  PostInv'
  <2>1. TakeBack(c) /\ posts' = posts
    BY <1>5 DEF Cut, Die
  <2>0. Allowed' = Allowed + 1
    <3>1. deaths \in Nat /\ cuts \in Nat
      BY BoundsAssumption DEF TypeOK
    <3>2. CASE Cut(c)
      <4>1. deaths' = deaths /\ cuts' = cuts + 1
        BY <3>2 DEF Cut
      <4>2. QED
        BY <3>1, <4>1 DEF Allowed
    <3>3. CASE Die(c)
      <4>1. deaths' = deaths + 1 /\ cuts' = cuts
        BY <3>3 DEF Die
      <4>2. QED
        BY <3>1, <4>1 DEF Allowed
    <3>4. QED
      BY <1>5, <3>2, <3>3
  <2>2. \A m \in Messages : Posting(m)' \subseteq Posting(m)
    BY <1>5 DEF Cut, Die, Posting, TypeOK
  <2>3. AcksOwned'
    BY <2>1, PlacesAssumption DEF TakeBack, PostInv, AcksOwned, TypeOK
  <2>4. ASSUME NEW m \in Messages
        PROVE  Holds(m)
    BY <2>0, <2>1, <2>2, FailureFrees
  <2>5. QED
    BY <2>3, <2>4 DEF PostInv
<1>6. ASSUME UNCHANGED vars
      PROVE  PostInv'
  BY <1>6 DEF vars, PostInv, AcksOwned, Chances, Posting, Free, Allowed
<1>7. QED
  BY <1>1, <1>2, <1>3, <1>4, <1>5, <1>6 DEF Next, LoopStep

(* No order is posted again unless a process or a connection was lost      *)
(* between, however many pods share the subscription.                      *)
THEOREM RepeatsNeedFailures == Spec => []PostedAgainOnlyAfterFailure
<1>1. PostInv /\ TypeOK => PostedAgainOnlyAfterFailure
  <2> SUFFICES ASSUME PostInv, TypeOK, NEW m \in Messages
               PROVE  posts[m] <= Allowed
    BY DEF PostedAgainOnlyAfterFailure, Allowed
  <2>1. Cardinality(Posting(m)) \in Nat
    BY FS_CardinalityType DEF PostInv
  <2>2. Chances(m) \in Nat /\ posts[m] \in Nat /\ Allowed \in Nat
    BY <2>1, AllowedType DEF Chances, TypeOK
  <2>3. QED
    BY <2>2 DEF PostInv
<1>2. QED
  BY <1>1, TypeInit, TypeStep, PostInit, PostStep, PTL DEF Spec
-----------------------------------------------------------------------------
(* What a process has acknowledged it has in hand, or has dealt with.      *)
HandInv ==
    \A c \in Consumers :
        /\ hand[c] # {} => at[c] \in {"check", "post", "answer"} /\ \E m \in Messages : hand[c] = {m}
        /\ at[c] = "answer" => \A m \in hand[c] : posts[m] > 0
        /\ \A m \in acking[c] : m \in hand[c] \/ posts[m] > 0 \/ ~PassesCheck(m)

LossInv == IsFiniteSet(Lost) /\ Cardinality(Lost) <= deaths

LEMMA LossInit == Init => HandInv /\ LossInv
<1> SUFFICES ASSUME Init
             PROVE  HandInv /\ LossInv
  OBVIOUS
<1>1. Lost = {}
  BY DEF Init, Lost
<1>2. IsFiniteSet({}) /\ Cardinality({}) = 0
  BY FS_EmptySet
<1>3. HandInv
  BY DEF Init, HandInv
<1>4. QED
  BY <1>1, <1>2, <1>3 DEF Init, LossInv

LEMMA HandStep == TypeOK /\ HandInv /\ [Next]_vars => HandInv'
<1> SUFFICES ASSUME TypeOK, HandInv, [Next]_vars
             PROVE  HandInv'
  OBVIOUS
<1> USE DEF broker, batching, process, counts, history
<1>1. ASSUME NEW c \in Consumers, NEW m \in Messages, Dispatch(c, m) \/ AckArrives(c, m)
      PROVE  HandInv'
  BY <1>1 DEF Dispatch, AckArrives, HandInv, TypeOK
<1>2. ASSUME NEW c \in Consumers, Receive(c)
      PROVE  HandInv'
  <2>1. PICK n \in Messages : /\ hand' = [hand EXCEPT ![c] = {n}]
                              /\ acking' = [acking EXCEPT ![c] = @ \cup {n}]
    BY <1>2 DEF Receive, Acknowledged, Queued
  <2>2. at[c] = "receive" /\ at' = [at EXCEPT ![c] = "check"] /\ UNCHANGED posts
    BY <1>2 DEF Receive
  <2>3. hand[c] = {}
    BY <2>2 DEF HandInv
  <2>4. QED
    BY <2>1, <2>2, <2>3 DEF HandInv, TypeOK
<1>3. ASSUME NEW c \in Consumers,
             Start(c) \/ PassCheck(c) \/ ListOrders(c) \/ CancelOrder(c) \/ FinishBatch(c) \/ BulkCancel(c)
      PROVE  HandInv'
  <2>1. /\ UNCHANGED <<acking, hand, posts>>
        /\ \/ at' = at
           \/ at[c] \notin {"check", "post", "answer"} /\ \E s \in Steps \ {"answer"} : at' = [at EXCEPT ![c] = s]
           \/ at' = [at EXCEPT ![c] = "post"]
    BY <1>3 DEF Start, PassCheck, ListOrders, CancelOrder, FinishBatch, BulkCancel, Steps
  <2>2. QED
    BY <2>1 DEF HandInv, TypeOK
<1>4. ASSUME NEW c \in Consumers, SkipEmpty(c) \/ FailCheck(c) \/ CountAnswer(c)
      PROVE  HandInv'
  <2>1. \A m \in hand[c] : posts[m] > 0 \/ ~PassesCheck(m)
    BY <1>4 DEF SkipEmpty, FailCheck, CountAnswer, HandInv, PassesCheck
  <2>2. /\ hand' = [hand EXCEPT ![c] = {}]
        /\ UNCHANGED <<acking, posts>>
        /\ \E s \in Steps \ {"answer"} : at' = [at EXCEPT ![c] = s]
    BY <1>4 DEF SkipEmpty, FailCheck, CountAnswer, Steps
  <2>3. QED
    BY <2>1, <2>2 DEF HandInv, TypeOK
<1>5. ASSUME NEW c \in Consumers, Post(c)
      PROVE  HandInv'
  <2>1. PICK n \in hand[c] : posts' = [posts EXCEPT ![n] = @ + 1]
    BY <1>5 DEF Post
  <2>2. /\ UNCHANGED <<acking, hand>>
        /\ at' = [at EXCEPT ![c] = "answer"]
        /\ n \in Messages /\ hand[c] = {n}
    BY <1>5, <2>1 DEF Post, HandInv, TypeOK
  <2>3. \A m \in Messages : posts[m] > 0 => posts'[m] > 0
    BY <2>1, <2>2 DEF TypeOK
  <2>4. posts'[n] > 0
    BY <2>1, <2>2 DEF TypeOK
  <2>5. QED
    BY <2>2, <2>3, <2>4 DEF HandInv, TypeOK
<1>6. ASSUME NEW c \in Consumers, Cut(c) \/ Die(c)
      PROVE  HandInv'
  BY <1>6 DEF Cut, Die, TakeBack, HandInv, TypeOK
<1>7. ASSUME UNCHANGED vars
      PROVE  HandInv'
  BY <1>7 DEF vars, HandInv
<1>8. QED
  BY <1>1, <1>2, <1>3, <1>4, <1>5, <1>6, <1>7 DEF Next, LoopStep

(* A step that loses nothing.                                              *)
LEMMA NothingLost ==
    ASSUME TypeOK, TypeOK', LossInv, Lost' \subseteq Lost, deaths' >= deaths
    PROVE  LossInv'
<1>1. IsFiniteSet(Lost') /\ Cardinality(Lost') <= Cardinality(Lost)
      /\ Cardinality(Lost') \in Nat /\ Cardinality(Lost) \in Nat
  BY FewerOrSame DEF LossInv
<1>2. deaths \in Int /\ deaths' \in Int
  BY BoundsAssumption DEF TypeOK
<1>3. QED
  BY <1>1, <1>2 DEF LossInv

LEMMA LossStep == TypeOK /\ TypeOK' /\ HandInv /\ LossInv /\ [Next]_vars => LossInv'
<1> SUFFICES ASSUME TypeOK, TypeOK', HandInv, LossInv, [Next]_vars
             PROVE  LossInv'
  OBVIOUS
<1> USE DEF broker, batching, process, counts, history
<1>0. deaths \in Int
  BY BoundsAssumption DEF TypeOK
<1>1. ASSUME NEW c \in Consumers, NEW n \in Messages, Dispatch(c, n)
      PROVE  LossInv'
  <2>1. Lost' \subseteq Lost /\ deaths' = deaths
    BY <1>1, PlacesAssumption DEF Dispatch, Lost, TypeOK
  <2>2. QED
    BY <1>0, <2>1, NothingLost
<1>2. ASSUME NEW c \in Consumers, NEW n \in Messages, AckArrives(c, n)
      PROVE  LossInv'
  <2>1. n \in hand[c] \/ ~(posts[n] = 0) \/ ~PassesCheck(n)
    BY <1>2 DEF AckArrives, HandInv, TypeOK
  <2>2. /\ UNCHANGED <<hand, posts, deaths>>
        /\ place' = [place EXCEPT ![n] = "acked"]
    BY <1>2 DEF AckArrives
  <2>3. Lost' \subseteq Lost
    BY <2>1, <2>2 DEF Lost, TypeOK
  <2>4. QED
    BY <1>0, <2>2, <2>3, NothingLost
<1>3. ASSUME NEW c \in Consumers, Receive(c)
      PROVE  LossInv'
  <2>1. PICK n \in Messages : hand' = [hand EXCEPT ![c] = {n}]
    BY <1>3 DEF Receive, Queued
  <2>2. UNCHANGED <<place, posts, deaths>> /\ hand[c] = {}
    BY <1>3 DEF Receive, HandInv
  <2>3. Lost' \subseteq Lost
    BY <2>1, <2>2 DEF Lost, TypeOK
  <2>4. QED
    BY <1>0, <2>2, <2>3, NothingLost
<1>4. ASSUME NEW c \in Consumers,
             Start(c) \/ PassCheck(c) \/ ListOrders(c) \/ CancelOrder(c) \/ FinishBatch(c) \/ BulkCancel(c)
      PROVE  LossInv'
  <2>1. UNCHANGED <<place, hand, posts, deaths>>
    BY <1>4 DEF Start, PassCheck, ListOrders, CancelOrder, FinishBatch, BulkCancel
  <2>2. Lost' \subseteq Lost
    BY <2>1 DEF Lost
  <2>3. QED
    BY <1>0, <2>1, <2>2, NothingLost
<1>5. ASSUME NEW c \in Consumers, SkipEmpty(c) \/ FailCheck(c) \/ CountAnswer(c)
      PROVE  LossInv'
  <2>1. \A m \in hand[c] : ~(posts[m] = 0) \/ ~PassesCheck(m)
    BY <1>5 DEF SkipEmpty, FailCheck, CountAnswer, HandInv, PassesCheck, TypeOK
  <2>2. hand' = [hand EXCEPT ![c] = {}] /\ UNCHANGED <<place, posts, deaths>>
    BY <1>5 DEF SkipEmpty, FailCheck, CountAnswer
  <2>3. Lost' \subseteq Lost
    BY <2>1, <2>2 DEF Lost, TypeOK
  <2>4. QED
    BY <1>0, <2>2, <2>3, NothingLost
<1>6. ASSUME NEW c \in Consumers, Post(c)
      PROVE  LossInv'
  <2>1. PICK n \in hand[c] : posts' = [posts EXCEPT ![n] = @ + 1]
    BY <1>6 DEF Post
  <2>2. UNCHANGED <<place, hand, deaths>>
    BY <1>6 DEF Post
  <2>3. \A m \in Messages : posts'[m] = 0 => posts[m] = 0
    BY <2>1 DEF TypeOK
  <2>4. Lost' \subseteq Lost
    BY <2>2, <2>3 DEF Lost
  <2>5. QED
    BY <1>0, <2>2, <2>4, NothingLost
<1>7. ASSUME NEW c \in Consumers, Cut(c)
      PROVE  LossInv'
  <2>1. Lost' \subseteq Lost /\ deaths' = deaths
    BY <1>7 DEF Cut, TakeBack, Lost, TypeOK
  <2>2. QED
    BY <1>0, <2>1, NothingLost
<1>8. ASSUME NEW c \in Consumers, Die(c)
      PROVE  LossInv'
  <2>1. deaths' = deaths + 1
    BY <1>8 DEF Die
  <2>2. Lost' \subseteq Lost \cup hand[c]
    BY <1>8 DEF Die, TakeBack, Lost, TypeOK
  <2>3. CASE hand[c] = {}
    <3>1. Lost' \subseteq Lost
      BY <2>2, <2>3
    <3>2. QED
      BY <1>0, <2>1, <3>1, NothingLost
  <2>4. CASE hand[c] # {}
    <3>1. PICK m \in Messages : hand[c] = {m}
      BY <2>4 DEF HandInv
    <3>2. /\ IsFiniteSet(Lost \cup {m})
          /\ Cardinality(Lost \cup {m}) <= Cardinality(Lost) + 1
          /\ Cardinality(Lost \cup {m}) \in Nat /\ Cardinality(Lost) \in Nat
      BY OneMoreAtMost DEF LossInv
    <3>3. /\ IsFiniteSet(Lost')
          /\ Cardinality(Lost') <= Cardinality(Lost \cup {m})
          /\ Cardinality(Lost') \in Nat
      BY <2>2, <3>1, <3>2, FewerOrSame
    <3>4. Cardinality(Lost) <= deaths
      BY DEF LossInv
    <3>5. Cardinality(Lost') <= deaths'
      BY <1>0, <2>1, <3>2, <3>3, <3>4
    <3>6. QED
      BY <3>3, <3>5 DEF LossInv
  <2>5. QED
    BY <2>3, <2>4
<1>9. ASSUME UNCHANGED vars
      PROVE  LossInv'
  BY <1>9 DEF vars, LossInv, Lost
<1>10. QED
  BY <1>1, <1>2, <1>3, <1>4, <1>5, <1>6, <1>7, <1>8, <1>9 DEF Next, LoopStep

(* A process that dies takes at most one order with it, and nothing else   *)
(* loses an order.                                                         *)
THEOREM LossesAreDeaths == Spec => []DeathLosesAtMostOne
<1>1. LossInv => DeathLosesAtMostOne
  BY DEF LossInv, DeathLosesAtMostOne
<1>2. QED
  BY <1>1, TypeInit, TypeStep, LossInit, HandStep, LossStep, PTL DEF Spec
=============================================================================
