---------------------------- MODULE ProducerPod ----------------------------
(***************************************************************************)
(* One producer pod (src/microservices/producer/build/pulsar/producer.go). *)
(*                                                                         *)
(* The portal leaves a list of order ids for the pod in Redis database 11, *)
(* under the pod's host name.  The pod reads the list when it starts,      *)
(* divides it among NUM_WORKERS goroutines, and puts NUM_JOBS job numbers  *)
(* on a channel.  A worker that takes a job, whatever its number, handles  *)
(* its WHOLE list: for each id it reads the order's hash from the data     *)
(* database and publishes the payload on the Pulsar topic.  Workers count  *)
(* the finished tasks in one global, under a mutex, and then look at the   *)
(* count without the mutex: at numWorkers - 1 and at numWorkers the pod    *)
(* deletes its list from Redis.  A failed publish ends the process, and    *)
(* Kubernetes starts it again under the same host name.                    *)
(*                                                                         *)
(* Redis commands may fail.  A failed LRANGE of the list is only logged:   *)
(* the pod goes on with no orders, counts its empty tasks and deletes the  *)
(* entry it has not read.  A failed HGET puts the id on the topic, and a   *)
(* failed DEL is printed and leaves the entry.  A failed command that ends *)
(* the process (AUTH, SELECT) is a Crash.                                  *)
(***************************************************************************)
EXTENDS Integers, Sequences, FiniteSets, WorkSplit

CONSTANTS
    Orders,       \* the order ids
    Allocations,  \* the lists the portal may have left for this pod
    NumWorkers,   \* NUM_WORKERS
    NumJobs,      \* NUM_JOBS
    MaxCrashes,   \* bound on the number of times the process dies
    MaxFails      \* bound on the number of Redis commands that fail

ASSUME AllocationsAssumption == Allocations \subseteq Seq(Orders)
ASSUME NumWorkersAssumption == NumWorkers \in Nat \ {0}
ASSUME NumJobsAssumption == NumJobs \in Nat \ {0}
ASSUME MaxCrashesAssumption == MaxCrashes \in Nat
ASSUME MaxFailsAssumption == MaxFails \in Nat

Workers == 1..NumWorkers

VARIABLES
    \* what outlives the process
    allocation,  \* Redis db 11: the list under the pod's host name, <<>> once deleted
    stored,      \* data database: the orders whose hash has every field
    published,   \* topic: how often each order's payload was published
    bareIds,     \* topic: how often an id was published in place of a payload
    \* the process
    up,          \* is the process running
    taskMap,     \* the orders of each worker
    unsent,      \* jobs main has still to put on the channel
    jobs,        \* jobs on the channel
    awaited,     \* results main still waits for
    state,       \* where each worker is
    index,       \* fIndex: the worker's place in its list, counted from 1
    payload,     \* what the worker is about to publish
    purgeMap,    \* the orders the pod has dealt with
    taskCount,   \* finished tasks, the shared counter
    \* history
    assigned,    \* the list the portal left
    passes,      \* how often each worker finished its list since the start
    crashes,     \* how often the process died
    unread,      \* this process could not read its list
    undeleted,   \* this process could not delete the entry when it meant to
    fails        \* how many Redis commands have failed

durable == <<allocation, stored, published, bareIds>>
process == <<up, taskMap, unsent, jobs, awaited, state, index, payload, purgeMap, taskCount>>
history == <<assigned, passes, crashes, unread, undeleted, fails>>
vars == <<durable, process, history>>

WorkerStates == {"idle", "read", "send", "check1", "check2", "exited"}
Payloads == {"none", "order", "id"}

TypeOK ==
    /\ allocation \in Seq(Orders)
    /\ stored \subseteq Orders
    /\ published \in [Orders -> Nat]
    /\ bareIds \in [Orders -> Nat]
    /\ up \in BOOLEAN
    /\ taskMap \in [Workers -> Seq(Orders)]
    /\ unsent \in Nat
    /\ jobs \in Nat
    /\ awaited \in Int
    /\ state \in [Workers -> WorkerStates]
    /\ index \in [Workers -> Nat \ {0}]
    /\ payload \in [Workers -> Payloads]
    /\ purgeMap \subseteq Orders
    /\ taskCount \in Nat
    /\ assigned \in Seq(Orders)
    /\ passes \in [Workers -> Nat]
    /\ crashes \in 0..MaxCrashes
    /\ unread \in BOOLEAN
    /\ undeleted \in BOOLEAN
    /\ fails \in 0..MaxFails
-----------------------------------------------------------------------------
(* Conditions and values of the code, which the actions use; the variant   *)
(* before one is a plausible slip that a property at the end of the module *)
(* must catch.                                                             *)

(* for j := 1; j <= numJobs; j++ : a job is left to send                   *)
JobsOffByOne == unsent >= 0
MoreJobs == unsent > 0

(* main waits for results r = 0..numJobs*numWorkers                        *)
ResultsExpected == NumJobs * NumWorkers + 1

(* for fIndex := range tmpFileList : where a task starts and where it ends *)
FirstPlace(w) == 1

LastOrderDropped(w) == index[w] >= Len(taskMap[w])
ListDone(w) == index[w] > Len(taskMap[w])

(* taskCount == numWorkers-1 || taskCount == numWorkers                    *)
OneTaskEarly == taskCount = NumWorkers - 2
FirstCheckHolds == taskCount = NumWorkers - 1

NoSecondCheck == FALSE
SecondCheckHolds == taskCount = NumWorkers
-----------------------------------------------------------------------------
(* The portal writes the list before it writes the orders it names, so any *)
(* part of the data may be there when the pod starts.                      *)
Init ==
    /\ allocation \in Allocations
    /\ assigned = allocation
    /\ stored \in SUBSET Orders
    /\ published = [o \in Orders |-> 0]
    /\ bareIds = [o \in Orders |-> 0]
    /\ crashes = 0
    /\ unread = FALSE
    /\ undeleted = FALSE
    /\ fails = 0
    /\ up = FALSE
    /\ taskMap = [w \in Workers |-> <<>>]
    /\ unsent = 0
    /\ jobs = 0
    /\ awaited = 0
    /\ state = [w \in Workers |-> "exited"]
    /\ index = [w \in Workers |-> 1]
    /\ payload = [w \in Workers |-> "none"]
    /\ purgeMap = {}
    /\ taskCount = 0
    /\ passes = [w \in Workers |-> 0]

(* The portal writes the hash of one more order.                           *)
StoreOrder(o) ==
    /\ o \notin stored
    /\ stored' = stored \cup {o}
    /\ UNCHANGED <<allocation, published, bareIds, process, history>>

CommandFails ==
    /\ fails < MaxFails
    /\ fails' = fails + 1

(* main: read the list, divide it, start the workers.  An error of the     *)
(* LRANGE is only logged, and main goes on with an empty list.             *)
(* main waits for numJobs*numWorkers + 1 results at its end.               *)
Start ==
    /\ ~up
    /\ up' = TRUE
    /\ \/ /\ taskMap' = DivideAndConquer(allocation, NumWorkers)
          /\ unread' = FALSE
          /\ UNCHANGED fails
       \/ /\ CommandFails
          /\ taskMap' = DivideAndConquer(<<>>, NumWorkers)
          /\ unread' = TRUE
    /\ unsent' = NumJobs
    /\ jobs' = 0
    /\ awaited' = ResultsExpected
    /\ state' = [w \in Workers |-> "idle"]
    /\ UNCHANGED <<durable, index, payload, purgeMap, taskCount, assigned, passes, crashes,
                   undeleted>>

(* main: jobs <- j; the channel is closed once all are sent.               *)
SendJob ==
    /\ up
    /\ MoreJobs
    /\ unsent' = unsent - 1
    /\ jobs' = jobs + 1
    /\ UNCHANGED <<durable, up, taskMap, awaited, state, index, payload, purgeMap,
                   taskCount, history>>

(* worker: for j := range jobs, with a job to take ...                     *)
TakeJob(w) ==
    /\ state[w] = "idle"
    /\ jobs > 0
    /\ jobs' = jobs - 1
    /\ state' = [state EXCEPT ![w] = "read"]
    /\ index' = [index EXCEPT ![w] = FirstPlace(w)]
    /\ UNCHANGED <<durable, up, taskMap, unsent, awaited, payload, purgeMap, taskCount, history>>

(* ... and with the channel closed and empty.                              *)
Exit(w) ==
    /\ state[w] = "idle"
    /\ jobs = 0
    /\ unsent = 0
    /\ state' = [state EXCEPT ![w] = "exited"]
    /\ UNCHANGED <<durable, up, taskMap, unsent, jobs, awaited, index, payload, purgeMap,
                   taskCount, history>>

(* readFromRedis returns the order's payload, or the order's id when a     *)
(* field is missing or an HGET fails; the caller logs the error and keeps  *)
(* what it was given.                                                      *)
ReadOrder(w) ==
    /\ state[w] = "read"
    /\ ~ListDone(w)
    /\ \/ /\ payload' = [payload EXCEPT ![w] =
                            IF taskMap[w][index[w]] \in stored THEN "order" ELSE "id"]
          /\ UNCHANGED fails
       \/ /\ CommandFails
          /\ payload' = [payload EXCEPT ![w] = "id"]
    /\ state' = [state EXCEPT ![w] = "send"]
    /\ UNCHANGED <<durable, up, taskMap, unsent, jobs, awaited, index, purgeMap, taskCount,
                   assigned, passes, crashes, unread, undeleted>>

(* check_payload_data refuses an empty payload, and neither kind is empty; *)
(* then produce, and the record in purgeMap under the mutex.               *)
Produce(w) ==
    /\ state[w] = "send"
    /\ LET o == taskMap[w][index[w]] IN
         /\ published' = IF payload[w] = "order" THEN [published EXCEPT ![o] = @ + 1] ELSE published
         /\ bareIds' = IF payload[w] = "id" THEN [bareIds EXCEPT ![o] = @ + 1] ELSE bareIds
         /\ purgeMap' = purgeMap \cup {o}
    /\ payload' = [payload EXCEPT ![w] = "none"]
    /\ index' = [index EXCEPT ![w] = @ + 1]
    /\ state' = [state EXCEPT ![w] = "read"]
    /\ UNCHANGED <<allocation, stored, up, taskMap, unsent, jobs, awaited, taskCount, history>>

(* The list is done: taskCount++ under the mutex.                          *)
FinishTask(w) ==
    /\ state[w] = "read"
    /\ ListDone(w)
    /\ taskCount' = taskCount + 1
    /\ passes' = [passes EXCEPT ![w] = @ + 1]
    /\ state' = [state EXCEPT ![w] = "check1"]
    /\ UNCHANGED <<durable, up, taskMap, unsent, jobs, awaited, index, payload, purgeMap,
                   assigned, crashes, unread, undeleted, fails>>

(* purgeProcessedMetadataRedis: a DEL of the pod's entry, whatever the     *)
(* entry holds by now; an error is printed and the entry stays.            *)
PurgeAllocation ==
    \/ /\ allocation' = <<>>
       /\ UNCHANGED <<undeleted, fails>>
    \/ /\ CommandFails
       /\ undeleted' = TRUE
       /\ UNCHANGED allocation

(* The result a worker sends after its checks; the channel has room for    *)
(* all NumJobs results, so the worker never waits.                         *)
SendResult(w) ==
    /\ awaited' = awaited - 1
    /\ state' = [state EXCEPT ![w] = "idle"]

(* if taskCount == numWorkers-1 || taskCount == numWorkers: each side of   *)
(* the || reads the counter, and neither read holds the mutex.             *)
FirstCheck(w) ==
    /\ state[w] = "check1"
    /\ \/ /\ FirstCheckHolds
          /\ PurgeAllocation
          /\ SendResult(w)
       \/ /\ ~FirstCheckHolds
          /\ state' = [state EXCEPT ![w] = "check2"]
          /\ UNCHANGED <<allocation, awaited, undeleted, fails>>
    /\ UNCHANGED <<stored, published, bareIds, up, taskMap, unsent, jobs, index, payload,
                   purgeMap, taskCount, assigned, passes, crashes, unread>>

SecondCheck(w) ==
    /\ state[w] = "check2"
    /\ IF SecondCheckHolds THEN PurgeAllocation
       ELSE UNCHANGED <<allocation, undeleted, fails>>
    /\ SendResult(w)
    /\ UNCHANGED <<stored, published, bareIds, up, taskMap, unsent, jobs, index, payload,
                   purgeMap, taskCount, assigned, passes, crashes, unread>>

(* log.Fatal in produce or on a lost connection, or the pod is evicted or  *)
(* scaled away: whatever was in memory is gone.                            *)
Crash ==
    /\ up
    /\ crashes < MaxCrashes
    /\ crashes' = crashes + 1
    /\ up' = FALSE
    /\ taskMap' = [w \in Workers |-> <<>>]
    /\ unsent' = 0
    /\ jobs' = 0
    /\ awaited' = 0
    /\ state' = [w \in Workers |-> "exited"]
    /\ index' = [w \in Workers |-> 1]
    /\ payload' = [w \in Workers |-> "none"]
    /\ purgeMap' = {}
    /\ taskCount' = 0
    /\ passes' = [w \in Workers |-> 0]
    /\ unread' = FALSE
    /\ undeleted' = FALSE
    /\ UNCHANGED <<durable, assigned, fails>>

WorkerStep(w) ==
    \/ TakeJob(w)
    \/ Exit(w)
    \/ ReadOrder(w)
    \/ Produce(w)
    \/ FinishTask(w)
    \/ FirstCheck(w)
    \/ SecondCheck(w)

Next ==
    \/ \E o \in Orders : StoreOrder(o)
    \/ Start
    \/ SendJob
    \/ \E w \in Workers : WorkerStep(w)
    \/ Crash

Spec == Init /\ [][Next]_vars

(* The Go scheduler runs every goroutine that can run, and Kubernetes      *)
(* starts a stopped pod again.  Nothing obliges the portal or a crash.     *)
Fairness ==
    /\ WF_vars(Start)
    /\ WF_vars(SendJob)
    /\ \A w \in Workers : WF_vars(WorkerStep(w))

FairSpec == Spec /\ Fairness
-----------------------------------------------------------------------------
(* How often an order reached the topic, as a payload or as a bare id.     *)
Copies(o) == published[o] + bareIds[o]

Reached(o) == Copies(o) > 0

OrdersOf(list) == {list[i] : i \in 1..Len(list)}

(* A worker between taking a job and counting it finished.                 *)
Busy(w) == state[w] \in {"read", "send"}

(* Tasks of this run of the process that are not finished.                 *)
Unfinished == unsent + jobs + Cardinality({w \in Workers : Busy(w)})

(* Once a worker has finished a pass over its list, every order of the     *)
(* list is on the topic, whatever the other workers and the reads did.     *)
(* (process_input_data_redis_concurrent: no order of a task is passed over)*)
FinishedListsReachTopic ==
    \A w \in Workers : passes[w] > 0 => \A o \in OrdersOf(taskMap[w]) : Reached(o)

(* A running pod that was given work keeps its entry in the allocation     *)
(* table until all but one of numWorkers tasks are counted, although the   *)
(* counter is read twice and never under the mutex.                        *)
EntryKeptUntilLastTask ==
    (allocation = <<>> /\ \E w \in Workers : taskMap[w] # <<>>) => taskCount + 1 >= NumWorkers

(* The shared counter agrees with the goroutines: when the entry is        *)
(* deleted, the tasks queued, to be queued or under way number at most     *)
(* NumJobs - NumWorkers + 1.                                               *)
PurgeLeavesOneTask ==
    [][allocation' # allocation => Unfinished + NumWorkers <= NumJobs + 1]_vars

(* With a single worker the entry outlives every crash until the whole     *)
(* list is on the topic: each order is published at least once.  Only a    *)
(* process that could not read the list (getWorkAllocation failed, main    *)
(* went on) deletes an entry whose orders nobody has published.            *)
SingleWorkerLosesNothing ==
    [][allocation' # allocation => (unread \/ \A o \in OrdersOf(assigned) : Reached(o))]_vars

(* The process dies finitely often, so in the end the entry is deleted and *)
(* the pod stops working through the list - unless the DEL of the last     *)
(* process failed, which purgeProcessedMetadataRedis does not repeat.      *)
EntryEventuallyPurged == <>[](allocation = <<>> \/ undeleted)

(* README.md, "The producers layer consumes the data from Redis and        *)
(* processes it into the asynchronous queue": when a pod that never died   *)
(* has no more to do, all its orders are on the topic.                     *)
AllocatedOrdersProduced ==
    (up /\ crashes = 0 /\ \A w \in Workers : state[w] = "exited") =>
        \A o \in OrdersOf(assigned) : Reached(o)
=============================================================================
