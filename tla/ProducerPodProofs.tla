------------------------- MODULE ProducerPodProofs -------------------------
(***************************************************************************)
(* Theorems about the producer pod, for every list of orders, any number   *)
(* of workers and jobs, and any number of crashes and failed commands.     *)
(***************************************************************************)
EXTENDS ProducerRelay, WorkSplitProofs, FiniteSetTheorems

(* A worker about to publish stands at an order of its list.               *)
SendsFromList == \A w \in Workers : state[w] = "send" => index[w] <= Len(taskMap[w])

TypeInv == TypeOK /\ SendsFromList

LEMMA EmptyList == ASSUME NEW S PROVE <<>> \in Seq(S) /\ Len(<<>>) = 0
  OBVIOUS

(* The order a worker is about to publish is an order.                     *)
LEMMA SentIsOrder ==
    ASSUME TypeInv, NEW w \in Workers, state[w] = "send"
    PROVE  taskMap[w][index[w]] \in Orders
<1>1. taskMap[w] \in Seq(Orders) /\ index[w] \in 1..Len(taskMap[w])
  BY DEF TypeInv, TypeOK, SendsFromList
<1>2. QED
  BY <1>1

(* A count per order that Produce leaves alone or adds one copy to.        *)
LEMMA OneMore ==
    ASSUME NEW f \in [Orders -> Nat], NEW o \in Orders, NEW g,
           g = f \/ g = [f EXCEPT ![o] = @ + 1]
    PROVE  /\ g \in [Orders -> Nat]
           /\ \A p \in Orders : g[p] >= f[p]
  OBVIOUS

LEMMA TypeInit == Init => TypeInv
<1> SUFFICES ASSUME Init
             PROVE  TypeInv
  OBVIOUS
<1>1. allocation \in Seq(Orders) /\ assigned \in Seq(Orders)
  BY AllocationsAssumption DEF Init
<1>2. taskMap \in [Workers -> Seq(Orders)]
  BY EmptyList DEF Init
<1>3. /\ state \in [Workers -> WorkerStates]
      /\ payload \in [Workers -> Payloads]
      /\ SendsFromList
  BY DEF Init, WorkerStates, Payloads, SendsFromList
<1>4. /\ index \in [Workers -> Nat \ {0}]
      /\ passes \in [Workers -> Nat]
      /\ published \in [Orders -> Nat]
      /\ bareIds \in [Orders -> Nat]
  BY DEF Init
<1>5. stored \subseteq Orders /\ purgeMap \subseteq Orders
  BY DEF Init
<1>6. crashes \in 0..MaxCrashes
  BY MaxCrashesAssumption DEF Init
<1>7. unsent \in Nat /\ jobs \in Nat /\ awaited \in Int /\ taskCount \in Nat
  BY DEF Init
<1>8. up \in BOOLEAN /\ unread \in BOOLEAN /\ undeleted \in BOOLEAN
  BY DEF Init
<1>9. fails \in 0..MaxFails
  BY MaxFailsAssumption DEF Init
<1>10. QED
  BY <1>1, <1>2, <1>3, <1>4, <1>5, <1>6, <1>7, <1>8, <1>9 DEF TypeInv, TypeOK

(* A failed command, or none, keeps the count of them within its bound.    *)
LEMMA FailsStayBounded ==
    ASSUME fails \in 0..MaxFails, CommandFails \/ UNCHANGED fails
    PROVE  fails' \in 0..MaxFails
  BY MaxFailsAssumption DEF CommandFails

LEMMA TypeStep == TypeInv /\ [Next]_vars => TypeInv'
<1> SUFFICES ASSUME TypeInv, [Next]_vars
             PROVE  TypeInv'
  OBVIOUS
<1> USE DEF TypeInv, TypeOK, durable, process, history
<1>1. ASSUME NEW o \in Orders, StoreOrder(o)
      PROVE  TypeInv'
  BY <1>1 DEF StoreOrder, SendsFromList
<1>2. ASSUME Start
      PROVE  TypeInv'
  <2>1. taskMap' \in [Workers -> Seq(Orders)]
    <3>1. PICK list \in {allocation, <<>>} : taskMap' = DivideAndConquer(list, NumWorkers)
      BY <1>2 DEF Start
    <3>2. list \in Seq(Orders)
      BY EmptyList
    <3>3. QED
      BY <3>1, <3>2, NumWorkersAssumption, DivideType DEF Workers
  <2>2. NumJobs * NumWorkers + 1 \in Int
    BY NumWorkersAssumption, NumJobsAssumption, SMT
  <2>3. state' \in [Workers -> WorkerStates] /\ SendsFromList'
    BY <1>2 DEF Start, ResultsExpected, WorkerStates, SendsFromList
  <2>4. fails' \in 0..MaxFails /\ unread' \in BOOLEAN
    BY <1>2, FailsStayBounded DEF Start
  <2>5. QED
    BY <1>2, <2>1, <2>2, <2>3, <2>4, NumJobsAssumption DEF Start, ResultsExpected
<1>3. ASSUME SendJob
      PROVE  TypeInv'
  BY <1>3 DEF SendJob, MoreJobs, SendsFromList
<1>4. ASSUME NEW w \in Workers, TakeJob(w)
      PROVE  TypeInv'
  BY <1>4 DEF TakeJob, FirstPlace, WorkerStates, SendsFromList
<1>5. ASSUME NEW w \in Workers, Exit(w)
      PROVE  TypeInv'
  BY <1>5 DEF Exit, WorkerStates, SendsFromList
<1>6. ASSUME NEW w \in Workers, ReadOrder(w)
      PROVE  TypeInv'
  <2>1. fails' \in 0..MaxFails
    BY <1>6, FailsStayBounded DEF ReadOrder
  <2>2. payload' \in [Workers -> Payloads]
    BY <1>6 DEF ReadOrder, Payloads
  <2>3. state' \in [Workers -> WorkerStates] /\ SendsFromList'
    BY <1>6 DEF ReadOrder, ListDone, WorkerStates, SendsFromList
  <2>4. QED
    BY <1>6, <2>1, <2>2, <2>3 DEF ReadOrder
<1>7. ASSUME NEW w \in Workers, Produce(w)
      PROVE  TypeInv'
  <2>1. /\ published' \in [Orders -> Nat]
        /\ bareIds' \in [Orders -> Nat]
    <3> DEFINE o == taskMap[w][index[w]]
    <3>1. /\ \/ published' = published
             \/ published' = [published EXCEPT ![o] = @ + 1]
          /\ \/ bareIds' = bareIds
             \/ bareIds' = [bareIds EXCEPT ![o] = @ + 1]
      BY <1>7 DEF Produce
    <3>2. o \in Orders
      BY <1>7, SentIsOrder DEF Produce
    <3> HIDE DEF o
    <3>3. published \in [Orders -> Nat] /\ bareIds \in [Orders -> Nat]
      OBVIOUS
    <3> HIDE DEF TypeInv, TypeOK
    <3>4. published' \in [Orders -> Nat]
      BY <3>1, <3>2, <3>3, OneMore
    <3>5. bareIds' \in [Orders -> Nat]
      BY <3>1, <3>2, <3>3, OneMore
    <3>6. QED
      BY <3>4, <3>5
  <2>2. purgeMap' \subseteq Orders
    BY <1>7, SentIsOrder DEF Produce
  <2>3. index' \in [Workers -> Nat \ {0}]
    BY <1>7 DEF Produce
  <2>4. /\ state' \in [Workers -> WorkerStates]
        /\ payload' \in [Workers -> Payloads]
        /\ SendsFromList'
    BY <1>7 DEF Produce, WorkerStates, Payloads, SendsFromList
  <2>5. QED
    BY <1>7, <2>1, <2>2, <2>3, <2>4 DEF Produce
<1>8. ASSUME NEW w \in Workers, FinishTask(w)
      PROVE  TypeInv'
  BY <1>8 DEF FinishTask, ListDone, WorkerStates, SendsFromList
<1>9. ASSUME NEW w \in Workers, FirstCheck(w)
      PROVE  TypeInv'
  <2>1. allocation' \in Seq(Orders)
    BY <1>9, EmptyList DEF FirstCheck, PurgeAllocation
  <2>2. awaited' \in Int
    BY <1>9 DEF FirstCheck, SendResult
  <2>3. state' \in [Workers -> WorkerStates] /\ SendsFromList'
    BY <1>9 DEF FirstCheck, SendResult, WorkerStates, SendsFromList
  <2>4. fails' \in 0..MaxFails /\ undeleted' \in BOOLEAN
    BY <1>9, FailsStayBounded DEF FirstCheck, PurgeAllocation
  <2>5. QED
    BY <1>9, <2>1, <2>2, <2>3, <2>4 DEF FirstCheck
<1>10. ASSUME NEW w \in Workers, SecondCheck(w)
       PROVE  TypeInv'
  <2>1. allocation' \in Seq(Orders)
    BY <1>10, EmptyList DEF SecondCheck, PurgeAllocation
  <2>2. awaited' \in Int
    BY <1>10 DEF SecondCheck, SendResult
  <2>3. state' \in [Workers -> WorkerStates] /\ SendsFromList'
    BY <1>10 DEF SecondCheck, SendResult, WorkerStates, SendsFromList
  <2>4. fails' \in 0..MaxFails /\ undeleted' \in BOOLEAN
    BY <1>10, FailsStayBounded DEF SecondCheck, PurgeAllocation
  <2>5. QED
    BY <1>10, <2>1, <2>2, <2>3, <2>4 DEF SecondCheck
<1>11. ASSUME Crash
       PROVE  TypeInv'
  <2>1. taskMap' \in [Workers -> Seq(Orders)]
    BY <1>11, EmptyList DEF Crash
  <2>2. /\ state' \in [Workers -> WorkerStates]
        /\ payload' \in [Workers -> Payloads]
        /\ SendsFromList'
    BY <1>11 DEF Crash, WorkerStates, Payloads, SendsFromList
  <2>3. /\ index' \in [Workers -> Nat \ {0}]
        /\ passes' \in [Workers -> Nat]
    BY <1>11 DEF Crash
  <2>4. crashes' \in 0..MaxCrashes
    BY <1>11, MaxCrashesAssumption DEF Crash
  <2>5. unsent' \in Nat /\ jobs' \in Nat /\ awaited' \in Int /\ taskCount' \in Nat
    BY <1>11 DEF Crash
  <2>6. up' \in BOOLEAN /\ purgeMap' \subseteq Orders
    BY <1>11 DEF Crash
  <2>7. QED
    BY <1>11, <2>1, <2>2, <2>3, <2>4, <2>5, <2>6 DEF Crash
<1>12. CASE UNCHANGED vars
  BY <1>12 DEF vars, SendsFromList
<1>13. QED
  BY <1>1, <1>2, <1>3, <1>4, <1>5, <1>6, <1>7, <1>8, <1>9, <1>10, <1>11, <1>12
     DEF Next, WorkerStep

(* Type correctness: what each variable of the pod can hold.  TypeOK alone *)
(* is not inductive: that purgeMap holds orders depends on where a worker  *)
(* about to publish stands in its list.                                    *)
THEOREM TypeCorrect == Spec => []TypeOK
<1>1. TypeInv => TypeOK
  BY DEF TypeInv
<1>2. QED
  BY TypeInit, TypeStep, <1>1, PTL DEF Spec
-----------------------------------------------------------------------------
(***************************************************************************)
(* What a worker has passed over is on the topic.  The argument follows    *)
(* one pass: while the worker walks its list, everything before its place  *)
(* is in purgeMap; when it has counted the pass, the whole list is; and an *)
(* order enters purgeMap only together with its publication.               *)
(***************************************************************************)
PassedIsRecorded ==
    \A w \in Workers : state[w] \in {"read", "send"} =>
        \A i \in 1..Len(taskMap[w]) : i < index[w] => taskMap[w][i] \in purgeMap

CountedIsRecorded ==
    \A w \in Workers : passes[w] > 0 =>
        \A i \in 1..Len(taskMap[w]) : taskMap[w][i] \in purgeMap

RecordedIsPublished == \A o \in purgeMap : Reached(o)

PayloadInHand == \A w \in Workers : state[w] = "send" => payload[w] \in {"order", "id"}

(* A process that is not running has counted nothing and runs nothing.     *)
DownIsBlank == up \/ \A w \in Workers : passes[w] = 0 /\ state[w] = "exited"

WalkInv ==
    /\ DownIsBlank
    /\ PassedIsRecorded
    /\ CountedIsRecorded
    /\ RecordedIsPublished
    /\ PayloadInHand

LEMMA WalkInit == Init => WalkInv
  BY DEF Init, WalkInv, PassedIsRecorded, CountedIsRecorded, RecordedIsPublished, PayloadInHand,
         DownIsBlank

(* The one action that publishes: the order joins purgeMap and the topic   *)
(* together, and no count on the topic goes down.                          *)
LEMMA ProducePublishes ==
    ASSUME TypeInv, WalkInv, NEW w \in Workers, Produce(w)
    PROVE  RecordedIsPublished'
<1> DEFINE o == taskMap[w][index[w]]
<1>1. o \in Orders
  BY SentIsOrder DEF Produce
<1>2. /\ published \in [Orders -> Nat]
      /\ bareIds \in [Orders -> Nat]
      /\ purgeMap \subseteq Orders
  BY DEF TypeInv, TypeOK
<1>3. /\ \/ published' = published
         \/ published' = [published EXCEPT ![o] = @ + 1]
      /\ \/ bareIds' = bareIds
         \/ bareIds' = [bareIds EXCEPT ![o] = @ + 1]
      /\ \/ published' = [published EXCEPT ![o] = @ + 1]
         \/ bareIds' = [bareIds EXCEPT ![o] = @ + 1]
      /\ purgeMap' = purgeMap \cup {o}
  <2>1. payload[w] \in {"order", "id"}
    BY DEF Produce, WalkInv, PayloadInHand
  <2>2. QED
    BY <2>1 DEF Produce
<1> HIDE DEF o
<1>4. /\ published' \in [Orders -> Nat]
      /\ \A p \in Orders : published'[p] >= published[p]
  BY <1>1, <1>2, <1>3, OneMore
<1>5. /\ bareIds' \in [Orders -> Nat]
      /\ \A p \in Orders : bareIds'[p] >= bareIds[p]
  BY <1>1, <1>2, <1>3, OneMore
<1>6. published'[o] > 0 \/ bareIds'[o] > 0
  BY <1>1, <1>2, <1>3
<1>7. ASSUME NEW p \in purgeMap'
      PROVE  published'[p] + bareIds'[p] > 0
  <2>1. CASE p = o
    BY <2>1, <1>1, <1>4, <1>5, <1>6
  <2>2. CASE p \in purgeMap
    <3>1. published[p] + bareIds[p] > 0
      BY <2>2 DEF WalkInv, RecordedIsPublished, Reached, Copies
    <3>2. QED
      BY <2>2, <3>1, <1>2, <1>4, <1>5
  <2>3. QED
    BY <2>1, <2>2, <1>3
<1>8. QED
  BY <1>7 DEF RecordedIsPublished, Reached, Copies

LEMMA WalkStep == TypeInv /\ WalkInv /\ [Next]_vars => WalkInv'
<1> SUFFICES ASSUME TypeInv, WalkInv, [Next]_vars
             PROVE  WalkInv'
  OBVIOUS
<1>t. /\ state \in [Workers -> WorkerStates]
      /\ index \in [Workers -> Nat \ {0}]
      /\ passes \in [Workers -> Nat]
      /\ taskMap \in [Workers -> Seq(Orders)]
      /\ payload \in [Workers -> Payloads]
  BY DEF TypeInv, TypeOK
<1> USE DEF WalkInv, durable, process, history
<1>1. ASSUME NEW o \in Orders, StoreOrder(o)
      PROVE  WalkInv'
  BY <1>1 DEF StoreOrder, DownIsBlank, PassedIsRecorded, CountedIsRecorded, RecordedIsPublished, Reached,
              Copies, PayloadInHand
<1>2. ASSUME Start
      PROVE  WalkInv'
  <2>1. /\ \A w \in Workers : state'[w] = "idle" /\ passes'[w] = 0
        /\ purgeMap' = purgeMap
        /\ up'
    BY <1>2 DEF Start, DownIsBlank
  <2>2. QED
    BY <1>2, <2>1 DEF Start, DownIsBlank, PassedIsRecorded, CountedIsRecorded, RecordedIsPublished,
                      Reached, Copies, PayloadInHand
<1>3. ASSUME SendJob
      PROVE  WalkInv'
  BY <1>3 DEF SendJob, MoreJobs, DownIsBlank, PassedIsRecorded, CountedIsRecorded, RecordedIsPublished, Reached,
              Copies, PayloadInHand
<1>4. ASSUME NEW w \in Workers, TakeJob(w)
      PROVE  WalkInv'
  BY <1>4, <1>t DEF TakeJob, FirstPlace, DownIsBlank, PassedIsRecorded, CountedIsRecorded, RecordedIsPublished,
                    Reached, Copies, PayloadInHand
<1>5. ASSUME NEW w \in Workers, Exit(w)
      PROVE  WalkInv'
  BY <1>5, <1>t DEF Exit, DownIsBlank, PassedIsRecorded, CountedIsRecorded, RecordedIsPublished,
                    Reached, Copies, PayloadInHand
<1>6. ASSUME NEW w \in Workers, ReadOrder(w)
      PROVE  WalkInv'
  BY <1>6, <1>t DEF ReadOrder, ListDone, DownIsBlank, PassedIsRecorded, CountedIsRecorded, RecordedIsPublished,
                    Reached, Copies, PayloadInHand
<1>7. ASSUME NEW w \in Workers, Produce(w)
      PROVE  WalkInv'
  <2>1. RecordedIsPublished'
    BY <1>7, ProducePublishes
  <2>2. PassedIsRecorded'
    BY <1>7, <1>t DEF Produce, PassedIsRecorded
  <2>3. CountedIsRecorded' /\ PayloadInHand' /\ DownIsBlank'
    BY <1>7, <1>t DEF Produce, CountedIsRecorded, PayloadInHand, DownIsBlank, WorkerStates
  <2>4. QED
    BY <2>1, <2>2, <2>3
<1>8. ASSUME NEW w \in Workers, FinishTask(w)
      PROVE  WalkInv'
  <2>1. CountedIsRecorded'
    BY <1>8, <1>t DEF FinishTask, ListDone, CountedIsRecorded, PassedIsRecorded
  <2>2. PassedIsRecorded' /\ RecordedIsPublished' /\ PayloadInHand' /\ DownIsBlank'
    BY <1>8, <1>t DEF FinishTask, ListDone, DownIsBlank, PassedIsRecorded, RecordedIsPublished, Reached, Copies,
                      PayloadInHand
  <2>3. QED
    BY <2>1, <2>2
<1>9. ASSUME NEW w \in Workers, FirstCheck(w)
      PROVE  WalkInv'
  BY <1>9, <1>t DEF FirstCheck, SendResult, DownIsBlank, PassedIsRecorded, CountedIsRecorded,
                    RecordedIsPublished, Reached, Copies, PayloadInHand
<1>10. ASSUME NEW w \in Workers, SecondCheck(w)
       PROVE  WalkInv'
  BY <1>10, <1>t DEF SecondCheck, SendResult, DownIsBlank, PassedIsRecorded, CountedIsRecorded,
                     RecordedIsPublished, Reached, Copies, PayloadInHand
<1>11. ASSUME Crash
       PROVE  WalkInv'
  BY <1>11 DEF Crash, DownIsBlank, PassedIsRecorded, CountedIsRecorded, RecordedIsPublished, PayloadInHand
<1>12. CASE UNCHANGED vars
  BY <1>12 DEF vars, DownIsBlank, PassedIsRecorded, CountedIsRecorded, RecordedIsPublished, Reached,
               Copies, PayloadInHand
<1>13. QED
  BY <1>1, <1>2, <1>3, <1>4, <1>5, <1>6, <1>7, <1>8, <1>9, <1>10, <1>11, <1>12
     DEF Next, WorkerStep

(* Once a worker has finished a pass over its list, every order of the     *)
(* list is on the topic: no interleaving of the workers, no failed read    *)
(* and no number of jobs makes process_input_data_redis_concurrent count a *)
(* task of which an order was passed over.                                 *)
THEOREM FinishedListsAreOnTopic == Spec => []FinishedListsReachTopic
<1>1. TypeInv /\ WalkInv => FinishedListsReachTopic
  BY DEF WalkInv, CountedIsRecorded, RecordedIsPublished, FinishedListsReachTopic, OrdersOf
<1>2. QED
  BY TypeInit, TypeStep, WalkInit, WalkStep, <1>1, PTL DEF Spec
-----------------------------------------------------------------------------
LEMMA EntryInit == Init => EntryKeptUntilLastTask
  BY EmptyList DEF Init, EntryKeptUntilLastTask

LEMMA EntryStep == TypeInv /\ EntryKeptUntilLastTask /\ [Next]_vars => EntryKeptUntilLastTask'
<1> SUFFICES ASSUME TypeInv, EntryKeptUntilLastTask, [Next]_vars
             PROVE  EntryKeptUntilLastTask'
  OBVIOUS
<1>t. taskCount \in Nat /\ NumWorkers \in Nat
  BY NumWorkersAssumption DEF TypeInv, TypeOK
<1> USE DEF durable, process, history
<1>1. ASSUME NEW o \in Orders, StoreOrder(o)
      PROVE  EntryKeptUntilLastTask'
  BY <1>1 DEF StoreOrder, EntryKeptUntilLastTask
<1>2. ASSUME Start
      PROVE  EntryKeptUntilLastTask'
  <2>1. SUFFICES ASSUME allocation' = <<>>, NEW w \in Workers, taskMap'[w] # <<>>
                 PROVE  FALSE
    BY DEF EntryKeptUntilLastTask
  <2>2. taskMap'[w] = DivideAndConquer(<<>>, NumWorkers)[w]
    BY <1>2, <2>1 DEF Start
  <2>3. Len(taskMap'[w]) = 0
    BY <2>2, NumWorkersAssumption, DivideEmpty DEF Workers
  <2>4. taskMap'[w] \in Seq(Orders)
    BY TypeStep DEF TypeInv, TypeOK
  <2>5. QED
    BY <2>1, <2>3, <2>4
<1>3. ASSUME SendJob
      PROVE  EntryKeptUntilLastTask'
  BY <1>3 DEF SendJob, MoreJobs, EntryKeptUntilLastTask
<1>4. ASSUME NEW w \in Workers, TakeJob(w) \/ Exit(w) \/ ReadOrder(w) \/ Produce(w)
      PROVE  EntryKeptUntilLastTask'
  BY <1>4 DEF TakeJob, FirstPlace, Exit, ReadOrder, Produce, EntryKeptUntilLastTask
<1>5. ASSUME NEW w \in Workers, FinishTask(w)
      PROVE  EntryKeptUntilLastTask'
  BY <1>5, <1>t DEF FinishTask, ListDone, EntryKeptUntilLastTask
<1>6. ASSUME NEW w \in Workers, FirstCheck(w)
      PROVE  EntryKeptUntilLastTask'
  BY <1>6, <1>t DEF FirstCheck, FirstCheckHolds, PurgeAllocation, EntryKeptUntilLastTask
<1>7. ASSUME NEW w \in Workers, SecondCheck(w)
      PROVE  EntryKeptUntilLastTask'
  BY <1>7, <1>t DEF SecondCheck, SecondCheckHolds, PurgeAllocation, EntryKeptUntilLastTask
<1>8. ASSUME Crash
      PROVE  EntryKeptUntilLastTask'
  BY <1>8 DEF Crash, EntryKeptUntilLastTask
<1>9. CASE UNCHANGED vars
  BY <1>9 DEF vars, EntryKeptUntilLastTask
<1>10. QED
  BY <1>1, <1>2, <1>3, <1>4, <1>5, <1>6, <1>7, <1>8, <1>9 DEF Next, WorkerStep

(* A running pod that was given work keeps its entry in the allocation     *)
(* table until all but one of numWorkers tasks are counted, for any number *)
(* of workers and jobs, though no read of the counter holds the mutex.     *)
THEOREM EntryOutlivesTasks == Spec => []EntryKeptUntilLastTask
  BY TypeInit, TypeStep, EntryInit, EntryStep, PTL DEF Spec
-----------------------------------------------------------------------------
(***************************************************************************)
(* A single worker.  The entry is the portal's list until it is deleted,   *)
(* so a running worker holds the whole list, or nothing because the entry  *)
(* is gone or could not be read; and it is deleted only by a worker that   *)
(* has counted a pass, when FinishedListsAreOnTopic says that what the     *)
(* worker holds is on the topic.                                           *)
(***************************************************************************)
EntryIsList == allocation \in {assigned, <<>>}

WorkerHoldsList ==
    up => \A w \in Workers : \/ taskMap[w] = assigned /\ ~unread
                             \/ taskMap[w] = <<>> /\ (unread \/ allocation = <<>>)

CheckerHasCounted == \A w \in Workers : state[w] \in {"check1", "check2"} => passes[w] > 0

SingleInv ==
    /\ EntryIsList
    /\ WorkerHoldsList
    /\ CheckerHasCounted
    /\ DownIsBlank

LEMMA SingleInit == Init => SingleInv
  BY DEF Init, SingleInv, EntryIsList, WorkerHoldsList, CheckerHasCounted, DownIsBlank

(* Deleting the entry is safe: the deleting worker holds the portal's list *)
(* and has passed over it, or the process has not read the entry, or the   *)
(* entry was gone already.                                                 *)
LEMMA PurgeIsSafe ==
    ASSUME TypeInv, WalkInv, SingleInv, NEW w \in Workers, state[w] \in {"check1", "check2"}
    PROVE  \/ allocation = <<>>
           \/ unread
           \/ \A o \in OrdersOf(assigned) : Reached(o)
<1>1. up /\ passes[w] > 0
  BY DEF SingleInv, CheckerHasCounted, DownIsBlank
<1>2. CASE taskMap[w] = assigned
  BY <1>1, <1>2 DEF WalkInv, CountedIsRecorded, RecordedIsPublished, OrdersOf
<1>3. QED
  BY <1>1, <1>2 DEF SingleInv, WorkerHoldsList

(* A step that takes the entry away is the check of a worker.              *)
LEMMA OnlyChecksDelete ==
    ASSUME [Next]_vars, allocation' # allocation
    PROVE  \E w \in Workers : /\ FirstCheck(w) \/ SecondCheck(w)
                              /\ state[w] \in {"check1", "check2"}
                              /\ allocation' = <<>>
                              /\ UNCHANGED <<up, taskMap, passes, published, bareIds, assigned,
                                             unread>>
<1>1. PICK w \in Workers : FirstCheck(w) \/ SecondCheck(w)
  BY DEF Next, WorkerStep, StoreOrder, Start, SendJob, TakeJob, Exit, ReadOrder, Produce,
     FinishTask, Crash, vars, durable, process, history
<1>2. QED
  BY <1>1 DEF FirstCheck, SecondCheck, PurgeAllocation

LEMMA SingleStep ==
    ASSUME NumWorkers = 1
    PROVE  TypeInv /\ WalkInv /\ SingleInv /\ [Next]_vars => SingleInv'
<1> SUFFICES ASSUME TypeInv, WalkInv, SingleInv, [Next]_vars
             PROVE  SingleInv'
  OBVIOUS
<1>t. /\ state \in [Workers -> WorkerStates]
      /\ passes \in [Workers -> Nat]
      /\ assigned \in Seq(Orders)
  BY DEF TypeInv, TypeOK
<1>a. assigned' = assigned
  BY DEF Next, WorkerStep, StoreOrder, Start, SendJob, TakeJob, Exit, ReadOrder, Produce,
     FinishTask, FirstCheck, SecondCheck, Crash, vars, durable, process, history
<1>c. CASE allocation' = allocation
  <2>1. EntryIsList'
    BY <1>a, <1>c DEF SingleInv, EntryIsList
  <2>2. WorkerHoldsList'
    <3>1. ASSUME Start
          PROVE  WorkerHoldsList'
      <4>1. allocation \in Seq(Orders) /\ <<>> \in Seq(Orders) /\ Workers = 1..1
        BY EmptyList DEF TypeInv, TypeOK, Workers
      <4>2. PICK list \in {allocation, <<>>} :
              /\ taskMap' = DivideAndConquer(list, NumWorkers)
              /\ (list = allocation /\ ~unread') \/ (list = <<>> /\ unread')
        BY <3>1 DEF Start
      <4>3. list \in Seq(Orders)
        BY <4>1
      <4>4. \A w \in Workers : taskMap'[w] = list
        BY <4>1, <4>2, <4>3, DivideForOne
      <4>5. QED
        BY <1>a, <1>c, <4>2, <4>4 DEF SingleInv, EntryIsList, WorkerHoldsList
    <3>2. ASSUME Crash
          PROVE  WorkerHoldsList'
      BY <3>2 DEF Crash, WorkerHoldsList
    <3>3. CASE UNCHANGED <<up, taskMap, unread>>
      BY <1>a, <1>c, <3>3 DEF SingleInv, WorkerHoldsList
    <3>4. QED
      BY <3>1, <3>2, <3>3 DEF Next, WorkerStep, StoreOrder, SendJob, TakeJob, Exit, ReadOrder,
         Produce, FinishTask, FirstCheck, SecondCheck, vars, durable, process, history
  <2>3. CheckerHasCounted'
    BY <1>t DEF SingleInv, CheckerHasCounted, DownIsBlank, Next, WorkerStep, StoreOrder, Start,
       SendJob, TakeJob, Exit, ReadOrder, Produce, FinishTask, FirstCheck, SecondCheck,
       SendResult, Crash, vars, durable, process, history
  <2>4. QED
    BY <2>1, <2>2, <2>3, WalkStep DEF SingleInv, WalkInv
<1>d. CASE allocation' # allocation
  <2>1. PICK w \in Workers : /\ FirstCheck(w) \/ SecondCheck(w)
                             /\ state[w] \in {"check1", "check2"}
                             /\ allocation' = <<>>
                             /\ UNCHANGED <<up, taskMap, passes, published, bareIds, assigned,
                                            unread>>
    BY <1>d, OnlyChecksDelete
  <2>2. EntryIsList'
    BY <2>1 DEF EntryIsList
  <2>3. WorkerHoldsList'
    BY <2>1 DEF SingleInv, WorkerHoldsList
  <2>4. CheckerHasCounted'
    BY <1>t, <2>1 DEF SingleInv, CheckerHasCounted, FirstCheck, SecondCheck, SendResult
  <2>5. QED
    BY <2>2, <2>3, <2>4, WalkStep DEF SingleInv, WalkInv
<1>e. QED
  BY <1>c, <1>d

(* A pod with a single worker publishes every order of its list at least   *)
(* once before it gives the list up, whatever the number of jobs, whichever*)
(* commands fail and wherever the process dies - unless it is a process    *)
(* that failed to read the list, which gives up what it has not seen.      *)
THEOREM SingleWorkerDelivers ==
    ASSUME NumWorkers = 1
    PROVE  Spec => SingleWorkerLosesNothing
<1>1. TypeInv /\ WalkInv /\ SingleInv /\ [Next]_vars =>
        [allocation' # allocation => (unread \/ \A o \in OrdersOf(assigned) : Reached(o))]_vars
  <2> SUFFICES ASSUME TypeInv, WalkInv, SingleInv, [Next]_vars, allocation' # allocation
               PROVE  unread \/ \A o \in OrdersOf(assigned) : Reached(o)
    OBVIOUS
  <2>1. PICK w \in Workers : state[w] \in {"check1", "check2"} /\ allocation' = <<>>
    BY OnlyChecksDelete
  <2>2. QED
    BY <2>1, PurgeIsSafe
<1>2. TypeInv /\ WalkInv /\ SingleInv /\ [Next]_vars => SingleInv'
  BY SingleStep
<1>3. QED
  BY TypeInit, TypeStep, WalkInit, WalkStep, SingleInit, <1>1, <1>2, PTL
     DEF Spec, SingleWorkerLosesNothing
-----------------------------------------------------------------------------
(***************************************************************************)
(* A single worker implements the relay.  A publication is a delivery,     *)
(* because the worker's list is the request; deleting the entry settles    *)
(* the request, by PurgeIsSafe; a start, and a crash, is another look at   *)
(* the request, which misses when the LRANGE fails; every other step       *)
(* changes nothing the relay sees.                                         *)
(***************************************************************************)
LEMMA OrdersOfList ==
    ASSUME NEW s \in Seq(Orders)
    PROVE  OrdersOf(s) \in SUBSET Orders /\ (s = <<>> <=> OrdersOf(s) = {})
<1>1. OrdersOf(s) \in SUBSET Orders
  BY DEF OrdersOf
<1>2. ASSUME s # <<>>
      PROVE  OrdersOf(s) # {}
  <2>1. 1 \in 1..Len(s)
    BY <1>2
  <2>2. QED
    BY <2>1 DEF OrdersOf
<1>3. ASSUME s = <<>>
      PROVE  OrdersOf(s) = {}
  <2>1. 1..Len(s) = {}
    BY <1>3
  <2>2. QED
    BY <2>1 DEF OrdersOf
<1>4. QED
  BY <1>1, <1>2, <1>3

LEMMA RelayInit == Init => Relay!Init
<1> SUFFICES ASSUME Init
             PROVE  Relay!Init
  OBVIOUS
<1>1. assigned \in Seq(Orders) /\ assigned = allocation
  BY AllocationsAssumption DEF Init
<1>2. OrdersOf(assigned) \in SUBSET Orders
  BY <1>1, OrdersOfList
<1>3. (allocation = <<>>) = (OrdersOf(assigned) = {})
  BY <1>1, OrdersOfList
<1>4. [o \in Orders |-> Copies(o)] = [o \in Orders |-> 0]
  BY DEF Init, Copies
<1>5. unread = FALSE
  BY DEF Init
<1>6. QED
  BY <1>2, <1>3, <1>4, <1>5 DEF Relay!Init

LEMMA ProduceDelivers ==
    ASSUME TypeInv, WalkInv, SingleInv, NEW w \in Workers, Produce(w)
    PROVE  Relay!Deliver(taskMap[w][index[w]])
<1> DEFINE p == taskMap[w][index[w]]
<1>1. /\ taskMap[w] \in Seq(Orders)
      /\ index[w] \in 1..Len(taskMap[w])
      /\ up
  BY DEF Produce, TypeInv, TypeOK, SendsFromList, SingleInv, DownIsBlank
<1>2. taskMap[w] = assigned /\ ~unread
  BY <1>1, EmptyList DEF SingleInv, WorkerHoldsList
<1>3. p \in OrdersOf(assigned) /\ p \in Orders
  BY <1>1, <1>2 DEF OrdersOf
<1>4. /\ published \in [Orders -> Nat]
      /\ bareIds \in [Orders -> Nat]
      /\ payload[w] \in {"order", "id"}
  BY DEF Produce, TypeInv, TypeOK, WalkInv, PayloadInHand
<1>5. PICK q \in OrdersOf(assigned) : q = p
  BY <1>3
<1>6. \/ published' = [published EXCEPT ![q] = @ + 1] /\ bareIds' = bareIds
      \/ bareIds' = [bareIds EXCEPT ![q] = @ + 1] /\ published' = published
  BY <1>4, <1>5 DEF Produce
<1>7. q \in Orders
  BY <1>3, <1>5
<1>8. Copies(q)' = Copies(q) + 1 /\ \A o \in Orders : o # q => Copies(o)' = Copies(o)
  BY <1>4, <1>6, <1>7 DEF Copies
<1>9. [o \in Orders |-> Copies(o)]' = [[o \in Orders |-> Copies(o)] EXCEPT ![q] = @ + 1]
  <2> HIDE DEF Copies
  <2>1. QED
    BY <1>7, <1>8
<1>10. /\ OrdersOf(assigned)' = OrdersOf(assigned)
       /\ (allocation = <<>>)' = (allocation = <<>>)
       /\ unread' = unread
  BY DEF Produce, history, OrdersOf
<1>11. QED
  BY <1>2, <1>5, <1>9, <1>10 DEF Relay!Deliver

LEMMA PurgeSettles ==
    ASSUME TypeInv, WalkInv, SingleInv, [Next]_vars, allocation' # allocation
    PROVE  Relay!Settle
<1>1. PICK w \in Workers : /\ state[w] \in {"check1", "check2"}
                           /\ allocation' = <<>>
                           /\ UNCHANGED <<published, bareIds, assigned, unread>>
  BY OnlyChecksDelete
<1>2. UNCHANGED <<OrdersOf(assigned), [o \in Orders |-> Copies(o)], unread>>
  BY <1>1 DEF OrdersOf, Copies
<1>3. unread \/ \A o \in OrdersOf(assigned) : Reached(o) /\ o \in Orders
  BY <1>1, PurgeIsSafe, OrdersOfList DEF TypeInv, TypeOK
<1>4. unread \/ \A o \in OrdersOf(assigned) : [q \in Orders |-> Copies(q)][o] > 0
  BY <1>3 DEF Reached
<1>5. (allocation = <<>>)' = TRUE
  BY <1>1
<1>6. QED
  BY <1>2, <1>4, <1>5 DEF Relay!Settle

LEMMA RelayStep ==
    TypeInv /\ WalkInv /\ SingleInv /\ [Next]_vars => [Relay!Next]_(Relay!vars)
<1> SUFFICES ASSUME TypeInv, WalkInv, SingleInv, [Next]_vars
             PROVE  [Relay!Next]_(Relay!vars)
  OBVIOUS
<1>1. ASSUME NEW w \in Workers, Produce(w)
      PROVE  Relay!Next
  <2>1. taskMap[w][index[w]] \in Orders
    BY <1>1, SentIsOrder DEF Produce
  <2>2. QED
    BY <1>1, <2>1, ProduceDelivers DEF Relay!Next
<1>2. CASE allocation' # allocation
  BY <1>2, PurgeSettles DEF Relay!Next
<1>3. ASSUME UNCHANGED <<allocation, published, bareIds, assigned>>
      PROVE  /\ UNCHANGED <<OrdersOf(assigned), [o \in Orders |-> Copies(o)]>>
             /\ (allocation = <<>>)' = (allocation = <<>>)
  BY <1>3 DEF OrdersOf, Copies
<1>4. ASSUME Start \/ Crash
      PROVE  Relay!Next
  <2>1. UNCHANGED <<allocation, published, bareIds, assigned>> /\ unread' \in BOOLEAN
    BY <1>4 DEF Start, Crash, durable
  <2>2. QED
    BY <1>3, <2>1 DEF Relay!Look, Relay!Next
<1>5. CASE UNCHANGED <<allocation, published, bareIds, assigned, unread>>
  <2>1. UNCHANGED Relay!vars
    BY <1>3, <1>5 DEF Relay!vars
  <2>2. QED
    BY <2>1
<1>6. CASE allocation' = allocation /\ \E w \in Workers : FirstCheck(w) \/ SecondCheck(w)
  BY <1>5, <1>6 DEF FirstCheck, SecondCheck
<1>7. QED
  BY <1>1, <1>2, <1>4, <1>5, <1>6 DEF Next, WorkerStep, StoreOrder, SendJob, TakeJob, Exit,
     ReadOrder, FinishTask, vars, durable, process, history

(* A pod with a single worker is a relay of orders: it publishes only the  *)
(* orders of its list and gives the list up only when all are published, or*)
(* without having seen it, when the LRANGE failed.                         *)
THEOREM SingleWorkerImplementsRelay ==
    ASSUME NumWorkers = 1
    PROVE  Spec => RelaysOrders
<1>1. TypeInv /\ WalkInv /\ SingleInv /\ [Next]_vars => SingleInv'
  BY SingleStep
<1>2. QED
  BY TypeInit, TypeStep, WalkInit, WalkStep, SingleInit, <1>1, RelayInit, RelayStep, PTL
     DEF Spec, RelaysOrders, Relay!Spec
-----------------------------------------------------------------------------
(***************************************************************************)
(* The tasks of a run of the process: a job is to be sent, on the channel, *)
(* in the hands of a worker or counted, and nothing else happens to one.   *)
(***************************************************************************)
BusyWorkers == {w \in Workers : Busy(w)}

TasksInv ==
    /\ up => Unfinished + taskCount = NumJobs
    /\ up => \A w \in Workers : state[w] = "exited" => unsent = 0 /\ jobs = 0
    /\ ~up => unsent = 0 /\ jobs = 0 /\ taskCount = 0 /\ \A w \in Workers : state[w] = "exited"

(* With as many jobs as workers the last task counted is one of the two    *)
(* numbers that a check looks for.                                         *)
LastTaskIsChecked ==
    (up /\ NumJobs = NumWorkers /\ taskCount = NumJobs) =>
        \/ allocation = <<>>
        \/ undeleted
        \/ \E w \in Workers : state[w] \in {"check1", "check2"}

LEMMA WorkersAreFew ==
    ASSUME NEW S, S \subseteq Workers
    PROVE  IsFiniteSet(S) /\ Cardinality(S) \in Nat
<1>1. IsFiniteSet(Workers)
  BY NumWorkersAssumption, FS_Interval DEF Workers
<1>2. IsFiniteSet(S)
  BY <1>1, FS_Subset
<1>3. QED
  BY <1>2, FS_CardinalityType

(* What becomes of the number of busy workers when one of them moves.      *)
LEMMA OneMoves ==
    ASSUME TypeOK, NEW w \in Workers, NEW s, state' = [state EXCEPT ![w] = s]
    PROVE  /\ Busy(w) /\ s \in {"read", "send"} => Cardinality(BusyWorkers') = Cardinality(BusyWorkers)
           /\ ~Busy(w) /\ s \in {"read", "send"} => Cardinality(BusyWorkers') = Cardinality(BusyWorkers) + 1
           /\ Busy(w) /\ s \notin {"read", "send"} => Cardinality(BusyWorkers') = Cardinality(BusyWorkers) - 1
           /\ ~Busy(w) /\ s \notin {"read", "send"} => Cardinality(BusyWorkers') = Cardinality(BusyWorkers)
<1>1. state'[w] = s /\ \A v \in Workers : v # w => state'[v] = state[v]
  BY DEF TypeOK
<1>2. BusyWorkers' = IF s \in {"read", "send"} THEN BusyWorkers \cup {w} ELSE BusyWorkers \ {w}
  BY <1>1 DEF BusyWorkers, Busy
<1>3. IsFiniteSet(BusyWorkers)
  BY WorkersAreFew DEF BusyWorkers
<1>4. w \in BusyWorkers <=> Busy(w)
  BY DEF BusyWorkers
<1>5. Cardinality(BusyWorkers \cup {w}) = IF w \in BusyWorkers THEN Cardinality(BusyWorkers) ELSE Cardinality(BusyWorkers) + 1
  BY <1>3, FS_AddElement
<1>6. Cardinality(BusyWorkers \ {w}) = IF w \in BusyWorkers THEN Cardinality(BusyWorkers) - 1 ELSE Cardinality(BusyWorkers)
  BY <1>3, FS_RemoveElement
<1>7. QED
  BY <1>2, <1>4, <1>5, <1>6

LEMMA TasksInit == Init => TasksInv /\ LastTaskIsChecked
  BY DEF Init, TasksInv, LastTaskIsChecked

LEMMA TasksStep ==
    TypeInv /\ TasksInv /\ LastTaskIsChecked /\ [Next]_vars => TasksInv' /\ LastTaskIsChecked'
<1> SUFFICES ASSUME TypeInv, TasksInv, LastTaskIsChecked, [Next]_vars
             PROVE  TasksInv' /\ LastTaskIsChecked'
  OBVIOUS
<1>t. /\ TypeOK /\ taskCount \in Nat /\ unsent \in Nat /\ jobs \in Nat /\ state \in [Workers -> WorkerStates]
      /\ NumWorkers \in Nat /\ NumJobs \in Nat \ {0} /\ Cardinality(BusyWorkers) \in Nat
  BY NumWorkersAssumption, NumJobsAssumption, WorkersAreFew DEF TypeInv, TypeOK, BusyWorkers
<1>u. Unfinished = unsent + jobs + Cardinality(BusyWorkers)
  BY DEF Unfinished, BusyWorkers
<1>v. Unfinished' = unsent' + jobs' + Cardinality(BusyWorkers')
  BY DEF Unfinished, BusyWorkers
<1>w. ASSUME NEW w \in Workers, state[w] # "exited" PROVE up /\ Unfinished + taskCount = NumJobs
  BY <1>w DEF TasksInv
<1> USE DEF durable, process, history
<1>1. ASSUME UNCHANGED <<up, unsent, jobs, taskCount, state, allocation, undeleted>>
      PROVE  TasksInv' /\ LastTaskIsChecked'
  <2>1. Unfinished' = Unfinished
    BY <1>1 DEF Unfinished, Busy
  <2>2. QED
    BY <1>1, <2>1 DEF TasksInv, LastTaskIsChecked
<1>2. ASSUME Start
      PROVE  TasksInv' /\ LastTaskIsChecked'
  <2>1. up' /\ unsent' = NumJobs /\ jobs' = 0 /\ taskCount' = 0 /\ \A w \in Workers : state'[w] = "idle"
    BY <1>2 DEF Start, TasksInv
  <2>2. BusyWorkers' = {}
    BY <2>1 DEF BusyWorkers, Busy
  <2>3. Cardinality(BusyWorkers') = 0
    BY <2>2, FS_EmptySet
  <2>4. QED
    BY <1>t, <1>v, <2>1, <2>3 DEF TasksInv, LastTaskIsChecked
<1>3. ASSUME SendJob
      PROVE  TasksInv' /\ LastTaskIsChecked'
  <2>1. up /\ unsent # 0 /\ UNCHANGED <<up, taskCount, state, allocation, undeleted>> /\ unsent' = unsent - 1 /\ jobs' = jobs + 1
    BY <1>3, <1>t DEF SendJob, MoreJobs
  <2>2. BusyWorkers' = BusyWorkers
    BY <2>1 DEF BusyWorkers, Busy
  <2>3. Unfinished' = Unfinished
    BY <1>t, <1>u, <1>v, <2>1, <2>2
  <2>4. \A w \in Workers : state[w] # "exited"
    BY <2>1 DEF TasksInv
  <2>5. QED
    BY <2>1, <2>3, <2>4 DEF TasksInv, LastTaskIsChecked
<1>4. ASSUME NEW w \in Workers, TakeJob(w)
      PROVE  TasksInv' /\ LastTaskIsChecked'
  <2>1. /\ state[w] = "idle" /\ jobs' = jobs - 1 /\ state' = [state EXCEPT ![w] = "read"]
        /\ UNCHANGED <<up, unsent, taskCount, allocation, undeleted>> /\ jobs # 0
    BY <1>4, <1>t DEF TakeJob
  <2>2. Cardinality(BusyWorkers') = Cardinality(BusyWorkers) + 1
    <3>1. ~Busy(w) /\ "read" \in {"read", "send"}
      BY <2>1 DEF Busy
    <3>2. QED
      BY <1>t, <2>1, <3>1, OneMoves
  <2>3. Unfinished' = Unfinished
    BY <1>t, <1>u, <1>v, <2>1, <2>2
  <2>4. up /\ \A v \in Workers : state'[v] # "exited"
    BY <1>t, <1>w, <2>1 DEF TasksInv
  <2>5. (\E v \in Workers : state[v] \in {"check1", "check2"}) => \E v \in Workers : state'[v] \in {"check1", "check2"}
    BY <1>t, <2>1
  <2>6. QED
    BY <2>1, <2>3, <2>4, <2>5 DEF TasksInv, LastTaskIsChecked
<1>5. ASSUME NEW w \in Workers, Exit(w)
      PROVE  TasksInv' /\ LastTaskIsChecked'
  <2>1. /\ state[w] = "idle" /\ jobs = 0 /\ unsent = 0 /\ state' = [state EXCEPT ![w] = "exited"]
        /\ UNCHANGED <<up, unsent, jobs, taskCount, allocation, undeleted>>
    BY <1>5 DEF Exit
  <2>2. Cardinality(BusyWorkers') = Cardinality(BusyWorkers)
    <3>1. ~Busy(w) /\ "exited" \notin {"read", "send"}
      BY <2>1 DEF Busy
    <3>2. QED
      BY <1>t, <2>1, <3>1, OneMoves
  <2>3. Unfinished' = Unfinished
    BY <1>t, <1>u, <1>v, <2>1, <2>2
  <2>4. up
    BY <1>w, <2>1
  <2>5. (\E v \in Workers : state[v] \in {"check1", "check2"}) => \E v \in Workers : state'[v] \in {"check1", "check2"}
    BY <1>t, <2>1
  <2>6. QED
    BY <2>1, <2>3, <2>4, <2>5 DEF TasksInv, LastTaskIsChecked
<1>6. ASSUME NEW w \in Workers, ReadOrder(w) \/ Produce(w)
      PROVE  TasksInv' /\ LastTaskIsChecked'
  <2>1. PICK s \in {"read", "send"} : state' = [state EXCEPT ![w] = s]
    BY <1>6 DEF ReadOrder, Produce
  <2>2. Busy(w) /\ UNCHANGED <<up, unsent, jobs, taskCount, allocation, undeleted>>
    BY <1>6 DEF ReadOrder, Produce, Busy
  <2>3. Cardinality(BusyWorkers') = Cardinality(BusyWorkers)
    BY <1>t, <2>1, <2>2, OneMoves
  <2>4. Unfinished' = Unfinished
    BY <1>t, <1>u, <1>v, <2>2, <2>3
  <2>5. up /\ \A v \in Workers : state'[v] = "exited" => state[v] = "exited"
    BY <1>t, <1>w, <2>1, <2>2 DEF Busy
  <2>6. (\E v \in Workers : state[v] \in {"check1", "check2"}) => \E v \in Workers : state'[v] \in {"check1", "check2"}
    BY <1>t, <2>1, <2>2 DEF Busy
  <2>7. QED
    BY <2>2, <2>4, <2>5, <2>6 DEF TasksInv, LastTaskIsChecked
<1>7. ASSUME NEW w \in Workers, FinishTask(w)
      PROVE  TasksInv' /\ LastTaskIsChecked'
  <2>1. /\ state[w] = "read" /\ taskCount' = taskCount + 1 /\ state' = [state EXCEPT ![w] = "check1"]
        /\ UNCHANGED <<up, unsent, jobs, allocation, undeleted>>
    BY <1>7 DEF FinishTask
  <2>2. Cardinality(BusyWorkers') = Cardinality(BusyWorkers) - 1
    <3>1. Busy(w) /\ "check1" \notin {"read", "send"}
      BY <2>1 DEF Busy
    <3>2. QED
      BY <1>t, <2>1, <3>1, OneMoves
  <2>3. Unfinished' + taskCount' = Unfinished + taskCount
    BY <1>t, <1>u, <1>v, <2>1, <2>2
  <2>4. up /\ \A v \in Workers : state'[v] = "exited" => state[v] = "exited"
    BY <1>t, <1>w, <2>1
  <2>5. state'[w] = "check1"
    BY <1>t, <2>1
  <2>6. QED
    BY <2>1, <2>3, <2>4, <2>5 DEF TasksInv, LastTaskIsChecked
<1>8. ASSUME NEW w \in Workers, FirstCheck(w) \/ SecondCheck(w)
      PROVE  TasksInv' /\ LastTaskIsChecked'
  <2>1. PICK s \in {"idle", "check2"} : state' = [state EXCEPT ![w] = s]
    BY <1>8 DEF FirstCheck, SecondCheck, SendResult
  <2>2. state[w] \in {"check1", "check2"} /\ UNCHANGED <<up, unsent, jobs, taskCount>>
    BY <1>8 DEF FirstCheck, SecondCheck
  <2>3. Cardinality(BusyWorkers') = Cardinality(BusyWorkers)
    <3>1. ~Busy(w) /\ s \notin {"read", "send"}
      BY <2>1, <2>2 DEF Busy
    <3>2. QED
      BY <1>t, <2>1, <3>1, OneMoves
  <2>4. Unfinished' = Unfinished
    BY <1>t, <1>u, <1>v, <2>2, <2>3
  <2>5. up /\ \A v \in Workers : state'[v] = "exited" => state[v] = "exited"
    BY <1>t, <1>w, <2>1, <2>2
  <2>6. taskCount = NumWorkers => allocation' = <<>> \/ undeleted' \/ state'[w] = "check2"
    BY <1>8, <1>t DEF FirstCheck, FirstCheckHolds, SecondCheck, SecondCheckHolds, PurgeAllocation
  <2>7. /\ allocation = <<>> => allocation' = <<>>
        /\ undeleted => undeleted'
    BY <1>8 DEF FirstCheck, SecondCheck, PurgeAllocation
  <2>8. QED
    BY <2>2, <2>4, <2>5, <2>6, <2>7 DEF TasksInv, LastTaskIsChecked
<1>9. ASSUME Crash
      PROVE  TasksInv' /\ LastTaskIsChecked'
  BY <1>9 DEF Crash, TasksInv, LastTaskIsChecked
<1>10. CASE UNCHANGED vars
  BY <1>1, <1>10 DEF vars
<1>11. CASE \E o \in Orders : StoreOrder(o)
  BY <1>1, <1>11 DEF StoreOrder
<1>12. QED
  BY <1>2, <1>3, <1>4, <1>5, <1>6, <1>7, <1>8, <1>9, <1>10, <1>11 DEF Next, WorkerStep

(* The shared counter agrees with the goroutines, for any number of them   *)
(* and of jobs: the entry is deleted only with few tasks unfinished.       *)
(* (producer.go, worker)                                                   *)
THEOREM ThePurgeLeavesOneTask == Spec => PurgeLeavesOneTask
<1>1. TypeInv /\ TasksInv /\ [Next]_vars => [allocation' # allocation => Unfinished + NumWorkers <= NumJobs + 1]_vars
  <2> SUFFICES ASSUME TypeInv, TasksInv, Next, allocation' # allocation
               PROVE  Unfinished + NumWorkers <= NumJobs + 1
    BY DEF vars, durable
  <2>1. \E w \in Workers : FirstCheck(w) \/ SecondCheck(w)
    BY DEF Next, WorkerStep, StoreOrder, Start, SendJob, TakeJob, Exit, ReadOrder, Produce, FinishTask, Crash,
           durable
  <2>2. PICK w \in Workers : FirstCheck(w) \/ SecondCheck(w)
    BY <2>1
  <2>3. taskCount \in {NumWorkers - 1, NumWorkers} /\ state[w] # "exited"
    BY <2>2 DEF FirstCheck, FirstCheckHolds, SecondCheck, SecondCheckHolds
  <2>4. Unfinished + taskCount = NumJobs
    BY <2>3 DEF TasksInv
  <2>5. Unfinished \in Nat /\ NumWorkers \in Nat /\ NumJobs \in Nat
    <3>1. Cardinality({v \in Workers : Busy(v)}) \in Nat
      BY WorkersAreFew
    <3>2. QED
      BY <3>1, NumWorkersAssumption, NumJobsAssumption DEF TypeInv, TypeOK, Unfinished
  <2>6. QED
    BY <2>3, <2>4, <2>5
<1>2. QED
  BY <1>1, TypeInit, TypeStep, TasksInit, TasksStep, PTL DEF Spec, PurgeLeavesOneTask

(* With as many jobs as workers (20 and 20 in producer-manifest-eks-sts)   *)
(* no interleaving of counting and checking misses the entry: when a       *)
(* process has nothing left to do, it is deleted, or its DEL has failed.   *)
EntryIsGone ==
    (up /\ NumJobs = NumWorkers /\ \A w \in Workers : state[w] = "exited") =>
        allocation = <<>> \/ undeleted

THEOREM EqualNumbersPurge == Spec => []EntryIsGone
<1>1. TypeInv /\ TasksInv /\ LastTaskIsChecked => EntryIsGone
  <2> SUFFICES ASSUME TypeInv, TasksInv, LastTaskIsChecked,
                      up, NumJobs = NumWorkers, \A w \in Workers : state[w] = "exited"
               PROVE  allocation = <<>> \/ undeleted
    BY DEF EntryIsGone
  <2>1. 1 \in Workers
    BY NumWorkersAssumption DEF Workers
  <2>2. unsent = 0 /\ jobs = 0
    BY <2>1 DEF TasksInv
  <2>3. BusyWorkers = {}
    BY DEF BusyWorkers, Busy
  <2>4. Cardinality(BusyWorkers) = 0
    BY <2>3, FS_EmptySet
  <2>5. taskCount = NumJobs
    BY <2>2, <2>4 DEF TasksInv, Unfinished, BusyWorkers, TypeInv, TypeOK
  <2>6. QED
    BY <2>5 DEF LastTaskIsChecked
<1>2. QED
  BY <1>1, TypeInit, TypeStep, TasksInit, TasksStep, PTL DEF Spec
=============================================================================
