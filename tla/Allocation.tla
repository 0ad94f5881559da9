----------------------------- MODULE Allocation -----------------------------
(***************************************************************************)
(* How orders get from the portal (loader.go) to the producer pods         *)
(* (producer.go): the work allocation table, Redis database 11, and the    *)
(* restart of the pods that makes them read it.                            *)
(*                                                                         *)
(* A request to the portal is an allocation or a restart.  An allocation   *)
(* asks Kubernetes for the running pods, deletes the entry of each, splits *)
(* the orders and pushes each pod's share, one LPUSH per order.  A restart *)
(* counts the pods, scales the StatefulSet to 0 and then to that count.    *)
(* Requests run concurrently with each other and with the pods: a pod      *)
(* reads its entry when it starts, shares it out among its workers, which  *)
(* publish the orders, and deletes the entry.                              *)
(*                                                                         *)
(* The pods are those of ProducerPod, with less detail: a worker that has  *)
(* a job goes through its whole list, whatever the job; the list of a      *)
(* worker that has none is left; the entry goes when all tasks but one are *)
(* counted and when all are.  What ProducerPod tells apart and this module *)
(* does not: jobs not sent yet from jobs on the channel, payloads from the *)
(* bare ids of orders that could not be read, the two reads of taskCount.  *)
(***************************************************************************)
EXTENDS Integers, Sequences, FiniteSets, WorkSplit

CONSTANTS
    MaxRequests,  \* bound on the requests made
    Boot,         \* those made by the portal's own start
    NumPods,      \* size of the producer pool
    NumWorkers,   \* NUM_WORKERS of the pods
    NumJobs,      \* NUM_JOBS of the pods
    Orders,       \* the order ids
    Inputs,       \* the lists of orders there are to allocate
    MaxHasty,     \* bound on the requests made without care (see Careful...)
    MaxCrashes,   \* bound on the crashes of pods
    MaxFails      \* bound on the failed commands (kubectl, LPUSH, LRANGE, DEL)

ASSUME RequestsAssumption == MaxRequests \in Nat /\ Boot \subseteq 1..MaxRequests
ASSUME PodsAssumption == {NumPods, NumWorkers, NumJobs} \subseteq Nat \ {0}
ASSUME InputsAssumption == Inputs \subseteq Seq(Orders)
ASSUME BoundsAssumption == MaxHasty \in Nat /\ MaxCrashes \in Nat /\ MaxFails \in Nat

Requests == 1..MaxRequests
Pods == 1..NumPods
Workers == 1..NumWorkers

(* KEYS names a key once, and generate_input_sources a number.             *)
Distinct(list) == \A i, j \in 1..Len(list) : i # j => list[i] # list[j]
ASSUME DistinctAssumption == \A list \in Inputs : Distinct(list)

VARIABLES
    table,     \* Redis db 11: the list under each pod's host name
    published, \* topic: how often each order of the latest allocation is on it
    \* the StatefulSet
    replicas,  \* its size
    pod,       \* where each pod is
    leaving,   \* pods that are being stopped
    \* the process in each pod
    share,     \* taskMap: the orders of each worker
    jobs,      \* the jobs nobody has taken
    state,     \* where each worker is; it is "new" until it takes a job
    todo,      \* what is left of its list
    taskCount, \* finished tasks
    \* the portal
    at,        \* where each request is
    inputs,    \* inputQueue
    workers,   \* the pods get_worker_pool found
    stale,     \* of them, those whose entry is not deleted yet
    unwritten, \* what is left to push for each pod
    dest,      \* the pod whose share is being pushed, 0 if none
    \* history
    latest,    \* the orders of the latest allocation
    last,      \* what the last request was
    hasty,     \* how many requests were made without care
    calm,      \* has no pod crashed while a request was allocating
    sent,      \* the orders of the latest allocation each process has published
    dropped,   \* orders deleted with an entry by a process that had not read them
    givenUp,   \* and those it had read and not published
    blind,     \* has a pod ever failed to read its entry
    leftovers, \* has the portal ever failed to delete an entry
    repeats,   \* how often lists, or parts of them, were to be worked again
    crashes,
    fails

redis == <<table, published>>
processes == <<share, jobs, state, todo, taskCount, sent>>
cluster == <<replicas, pod, leaving, processes>>
portal == <<at, inputs, workers, stale, unwritten, dest>>
losses == <<dropped, givenUp, blind, leftovers>>
history == <<latest, last, hasty, calm, losses, repeats, crashes, fails>>
vars == <<redis, cluster, portal, history>>

Allocating == {"pool", "delete", "assign", "write"}
Restarting == {"count", "down", "up"}

TypeOK ==
    /\ table \in [Pods -> Seq(Orders)]
    /\ published \in [Orders -> Nat]
    /\ replicas \in 0..NumPods
    /\ pod \in [Pods -> {"none", "starting", "running"}]
    /\ leaving \subseteq Pods
    /\ share \in [Pods -> [Workers -> Seq(Orders)]]
    /\ jobs \in [Pods -> 0..NumJobs]
    /\ state \in [Pods -> [Workers -> {"new", "busy", "check", "idle"}]]
    /\ todo \in [Pods -> [Workers -> Seq(Orders)]]
    /\ taskCount \in [Pods -> Nat]
    /\ sent \in [Pods -> SUBSET Orders]
    /\ at \in [Requests -> {"new", "ended", "dead"} \cup Allocating \cup Restarting]
    /\ inputs \in [Requests -> Inputs \cup {<<>>}]
    /\ workers \in [Requests -> SUBSET Pods]
    /\ stale \in [Requests -> SUBSET Pods]
    /\ unwritten \in [Requests -> [Pods -> Seq(Orders)]]
    /\ dest \in [Requests -> {0} \cup Pods]
    /\ latest \in Inputs \cup {<<>>}
    /\ last \in {"none", "allocation", "restart"}
    /\ hasty \in 0..MaxHasty
    /\ calm \in BOOLEAN
    /\ dropped \subseteq Orders
    /\ givenUp \subseteq Orders
    /\ blind \in BOOLEAN
    /\ leftovers \in BOOLEAN
    /\ repeats \in Nat
    /\ crashes \in 0..MaxCrashes
    /\ fails \in 0..MaxFails
-----------------------------------------------------------------------------
Members(list) == {list[i] : i \in 1..Len(list)}

NoWork == [p \in Pods |-> <<>>]
NoShares == [w \in Workers |-> <<>>]

UnderWay == {r \in Requests : at[r] \in Allocating \cup Restarting}

(* The pods kubectl lists: phase Running, which a pod being stopped keeps. *)
Running == {p \in Pods : pod[p] # "none"}

(* The process has no more to do.                                          *)
Waiting(p, w) == state[p][w] \in {"new", "idle"}
Done(p) == pod[p] = "running" /\ jobs[p] = 0 /\ \A w \in Workers : Waiting(p, w)

(* What the process has read of its entry.                                 *)
HasRead(p) == UNION {Members(share[p][w]) : w \in Workers}

(* A request is made with care if no other is under way and, for an        *)
(* allocation, every pod has done its work and, for a restart, every pod   *)
(* of the pool is there and none is still on its way out: the pods are     *)
(* counted seconds after the request.                                      *)
CarefulAllocation == UnderWay = {} /\ leaving = {} /\ \A p \in Pods : Done(p)
CarefulRestart == UnderWay = {} /\ leaving = {} /\ Running = Pods

(* What the code does at each place, after a plausible slip.               *)

KeepEntries(found) == {}
StaleEntries(found) == found

HeaderCounted(found) == Cardinality(found) + 1
PoolCount(found) == Cardinality(found)

LastMissed(list) == SubSeq(list, 1, Len(list) - 1)
WholeRange(list) == list

EntryLeft(p) == table[p]
EntryPurged(p) == <<>>

Init ==
    /\ table = NoWork
    /\ published = [o \in Orders |-> 0]
    /\ replicas = NumPods
    /\ pod \in [Pods -> {"none", "running"}]
    /\ leaving = {}
    /\ share = [p \in Pods |-> NoShares]
    /\ jobs = [p \in Pods |-> 0]
    /\ state = [p \in Pods |-> [w \in Workers |-> "idle"]]
    /\ todo = [p \in Pods |-> NoShares]
    /\ taskCount = [p \in Pods |-> 0]
    /\ sent = [p \in Pods |-> {}]
    /\ at = [r \in Requests |-> "new"]
    /\ inputs = [r \in Requests |-> <<>>]
    /\ workers = [r \in Requests |-> {}]
    /\ stale = [r \in Requests |-> {}]
    /\ unwritten = [r \in Requests |-> NoWork]
    /\ dest = [r \in Requests |-> 0]
    /\ latest = <<>>
    /\ last = "none"
    /\ hasty = 0
    /\ calm = TRUE
    /\ dropped = {}
    /\ givenUp = {}
    /\ blind = FALSE
    /\ leftovers = FALSE
    /\ repeats = 0
    /\ crashes = 0
    /\ fails = 0
-----------------------------------------------------------------------------
(* Requests come in the order of their numbers.                            *)
MakeRequest(r, careful) ==
    /\ at[r] = "new"
    /\ \A q \in 1..(r - 1) : at[q] # "new"
    /\ hasty' = IF careful THEN hasty ELSE hasty + 1
    /\ hasty' <= MaxHasty

CommandFails ==
    /\ fails < MaxFails
    /\ fails' = fails + 1

(* The orders are read; the pool is asked for after that.                  *)
Allocate(r) ==
    /\ MakeRequest(r, CarefulAllocation)
    /\ \E list \in Inputs :
         /\ inputs' = [inputs EXCEPT ![r] = list]
         /\ latest' = list
    /\ at' = [at EXCEPT ![r] = "pool"]
    /\ last' = "allocation"
    /\ published' = [o \in Orders |-> 0]
    /\ sent' = [p \in Pods |-> {}]
    /\ dropped' = {}
    /\ givenUp' = {}
    /\ repeats' = 0
    /\ UNCHANGED <<table, replicas, pod, leaving, share, jobs, state, todo, taskCount, workers,
                   stale, unwritten, dest, calm, blind, leftovers, crashes, fails>>

(* RestartLoadTest.                                                        *)
Restart(r) ==
    /\ MakeRequest(r, CarefulRestart)
    /\ at' = [at EXCEPT ![r] = "count"]
    /\ last' = "restart"
    /\ UNCHANGED <<redis, cluster, inputs, workers, stale, unwritten, dest, latest, calm, losses,
                   repeats, crashes, fails>>

(* get_worker_pool sleeps and then lists the pods; when kubectl fails the  *)
(* pool is taken to be empty.                                              *)
GetWorkerPool(r) ==
    \/ /\ workers' = [workers EXCEPT ![r] = Running]
       /\ UNCHANGED fails
    \/ /\ CommandFails
       /\ workers' = [workers EXCEPT ![r] = {}]

FindPool(r) ==
    /\ at[r] = "pool"
    /\ GetWorkerPool(r)
    /\ stale' = [stale EXCEPT ![r] = StaleEntries(workers'[r])]
    /\ at' = [at EXCEPT ![r] = "delete"]
    /\ UNCHANGED <<redis, cluster, inputs, unwritten, dest, latest, last, hasty, calm, losses,
                   repeats, crashes>>

CountPool(r) ==
    /\ at[r] = "count"
    /\ GetWorkerPool(r)
    /\ at' = [at EXCEPT ![r] = "down"]
    /\ UNCHANGED <<redis, cluster, inputs, stale, unwritten, dest, latest, last, hasty, calm,
                   losses, repeats, crashes>>

(* delete_stale_allocation_data: one DEL for each pod found, in turn; one  *)
(* that fails is logged and passed over.                                   *)
DeleteEntry(r) ==
    /\ at[r] = "delete"
    /\ \E p \in stale[r] :
         /\ \A q \in stale[r] : p <= q
         /\ stale' = [stale EXCEPT ![r] = @ \ {p}]
         /\ \/ /\ table' = [table EXCEPT ![p] = <<>>]
               /\ UNCHANGED <<leftovers, fails>>
            \/ /\ CommandFails
               /\ leftovers' = TRUE
               /\ UNCHANGED table
    /\ UNCHANGED <<published, cluster, at, inputs, workers, unwritten, dest, latest, last, hasty,
                   calm, dropped, givenUp, blind, repeats, crashes>>

EntriesDeleted(r) ==
    /\ at[r] = "delete"
    /\ stale[r] = {}
    /\ at' = [at EXCEPT ![r] = "assign"]
    /\ UNCHANGED <<redis, cluster, inputs, workers, stale, unwritten, dest, history>>

(* assign_message_workload_workers, idAllocator: the pods by name get the  *)
(* chunks by number, and the chunks nobody has a number for are left.      *)
Assign(r) ==
    /\ at[r] = "assign"
    /\ workers[r] # {}
    /\ LET found == workers[r]
           shares == AssignWorkload(inputs[r], Cardinality(found))
       IN unwritten' = [unwritten EXCEPT ![r] =
             [p \in Pods |-> IF p \in found
                             THEN shares[1 + Cardinality({q \in found : q < p})]
                             ELSE <<>>]]
    /\ at' = [at EXCEPT ![r] = "write"]
    /\ inputs' = [inputs EXCEPT ![r] = <<>>]
    /\ workers' = [workers EXCEPT ![r] = {}]
    /\ UNCHANGED <<redis, cluster, stale, dest, history>>

(* len(inputs) / numWorkers with an empty pool: the panic ends the         *)
(* request, or, in the goroutine main starts, the portal.                  *)
Panic(r) ==
    /\ at[r] = "assign"
    /\ workers[r] = {}
    /\ at' = [q \in Requests |->
                 IF q = r \/ (r \in Boot /\ q \in UnderWay) THEN "dead" ELSE at[q]]
    /\ UNCHANGED <<redis, cluster, inputs, workers, stale, unwritten, dest, history>>

(* update_work_allocation_table goes through a map, so the pods come in    *)
(* any order; update_management_data_redis pushes each order in FRONT of   *)
(* the entry.  A push that fails is logged and passed over.                *)
Push(r, p) ==
    /\ at[r] = "write"
    /\ dest[r] \in {0, p}
    /\ unwritten[r][p] # <<>>
    /\ \/ /\ table' = [table EXCEPT ![p] = <<Head(unwritten[r][p])>> \o @]
          /\ UNCHANGED fails
       \/ /\ CommandFails
          /\ UNCHANGED table
    /\ unwritten' = [unwritten EXCEPT ![r][p] = Tail(@)]
    /\ dest' = [dest EXCEPT ![r] = IF Len(unwritten[r][p]) = 1 THEN 0 ELSE p]
    /\ UNCHANGED <<published, cluster, at, inputs, workers, stale, latest, last, hasty,
                   calm, losses, repeats, crashes>>

EndAllocation(r) ==
    /\ at[r] = "write"
    /\ unwritten[r] = NoWork
    /\ at' = [at EXCEPT ![r] = "ended"]
    /\ UNCHANGED <<redis, cluster, inputs, workers, stale, unwritten, dest, history>>

(* kubectl scale.  The StatefulSet controller stops the pods beyond the    *)
(* new size within the 5 seconds the portal then waits.                    *)
Scale(n) ==
    /\ replicas' = n
    /\ leaving' = leaving \cup {p \in Running : p > n}

(* restart_loading_services: to 0 and then to the count; it gives up when  *)
(* either command fails.                                                   *)
ScaleService(r, from, to, n) ==
    /\ at[r] = from
    /\ \/ /\ Scale(n)
          /\ at' = [at EXCEPT ![r] = to]
          /\ UNCHANGED fails
       \/ /\ CommandFails
          /\ at' = [at EXCEPT ![r] = "ended"]
          /\ UNCHANGED <<replicas, leaving>>
    /\ UNCHANGED <<redis, pod, processes, inputs, workers, stale, unwritten, dest, latest, last,
                   hasty, calm, losses, repeats, crashes>>

ScaleDown(r) == ScaleService(r, "down", "up", 0)
ScaleUp(r) == ScaleService(r, "up", "ended", PoolCount(workers[r]))
-----------------------------------------------------------------------------
(* A process ends and its memory is gone.  What it has published and not   *)
(* deleted will be published again.                                        *)
ProcessEnds(p) ==
    /\ share' = [share EXCEPT ![p] = NoShares]
    /\ jobs' = [jobs EXCEPT ![p] = 0]
    /\ state' = [state EXCEPT ![p] = [w \in Workers |-> "idle"]]
    /\ todo' = [todo EXCEPT ![p] = NoShares]
    /\ taskCount' = [taskCount EXCEPT ![p] = 0]
    /\ sent' = [sent EXCEPT ![p] = {}]
    /\ repeats' = IF sent[p] \cap Members(table[p]) # {} THEN repeats + 1 ELSE repeats

(* The controller (Parallel policy, stable names): a pod that was told to  *)
(* stop goes, and a pod that should be there comes.                        *)
Gone(p) ==
    /\ p \in leaving
    /\ leaving' = leaving \ {p}
    /\ pod' = [pod EXCEPT ![p] = "none"]
    /\ ProcessEnds(p)
    /\ UNCHANGED <<redis, replicas, portal, latest, last, hasty, calm, losses, crashes, fails>>

Come(p) ==
    /\ p <= replicas
    /\ pod[p] = "none"
    /\ pod' = [pod EXCEPT ![p] = "starting"]
    /\ UNCHANGED <<redis, replicas, leaving, processes, portal, history>>

(* main of the producer: the LRANGE, whose failure leaves an empty list,   *)
(* the division, the workers and their jobs.                               *)
ReadEntry(p) ==
    /\ pod[p] = "starting"
    /\ pod' = [pod EXCEPT ![p] = "running"]
    /\ \/ /\ share' = [share EXCEPT ![p] = DivideAndConquer(WholeRange(table[p]), NumWorkers)]
          /\ UNCHANGED <<blind, fails>>
       \/ /\ CommandFails
          /\ blind' = TRUE
          /\ UNCHANGED share
    /\ jobs' = [jobs EXCEPT ![p] = NumJobs]
    /\ state' = [state EXCEPT ![p] = [w \in Workers |-> "new"]]
    /\ UNCHANGED <<redis, replicas, leaving, todo, taskCount, sent, portal, latest, last, hasty,
                   calm, dropped, givenUp, leftovers, repeats, crashes>>

(* worker: any job will do for any worker, and a second one sends it       *)
(* through its list again.                                                 *)
TakeJob(p, w) ==
    /\ jobs[p] > 0
    /\ Waiting(p, w)
    /\ jobs' = [jobs EXCEPT ![p] = @ - 1]
    /\ state' = [state EXCEPT ![p][w] = "busy"]
    /\ todo' = [todo EXCEPT ![p][w] = share[p][w]]
    /\ repeats' = IF state[p][w] = "idle" /\ share[p][w] # <<>> THEN repeats + 1 ELSE repeats
    /\ UNCHANGED <<redis, replicas, pod, leaving, share, taskCount, sent, portal, latest, last,
                   hasty, calm, losses, crashes, fails>>

PublishOrder(p, w) ==
    /\ state[p][w] = "busy"
    /\ todo[p][w] # <<>>
    /\ published' = [published EXCEPT ![Head(todo[p][w])] = @ + 1]
    /\ sent' = [sent EXCEPT ![p] = @ \cup {Head(todo[p][w])}]
    /\ todo' = [todo EXCEPT ![p][w] = Tail(@)]
    /\ UNCHANGED <<table, replicas, pod, leaving, share, jobs, state, taskCount, portal, history>>

FinishTask(p, w) ==
    /\ state[p][w] = "busy"
    /\ todo[p][w] = <<>>
    /\ taskCount' = [taskCount EXCEPT ![p] = @ + 1]
    /\ state' = [state EXCEPT ![p][w] = "check"]
    /\ UNCHANGED <<redis, replicas, pod, leaving, share, jobs, todo, sent, portal, history>>

(* purgeProcessedMetadataRedis: DEL hostname, whatever is there by now; an *)
(* error is printed and the entry stays.                                   *)
Purge(p) ==
    \/ /\ table' = [table EXCEPT ![p] = EntryPurged(p)]
       /\ dropped' = dropped \cup (Members(table[p]) \ HasRead(p))
       /\ givenUp' = givenUp \cup ((Members(table[p]) \cap HasRead(p)) \ sent[p])
       /\ UNCHANGED fails
    \/ /\ CommandFails
       /\ UNCHANGED <<table, dropped, givenUp>>

(* if taskCount == numWorkers-1 || taskCount == numWorkers                 *)
CheckCount(p, w) ==
    /\ state[p][w] = "check"
    /\ \/ taskCount[p] \in {NumWorkers - 1, NumWorkers} /\ Purge(p)
       \/ /\ taskCount[p] \notin {NumWorkers - 1, NumWorkers}
          /\ UNCHANGED <<table, dropped, givenUp, fails>>
    /\ state' = [state EXCEPT ![p][w] = "idle"]
    /\ UNCHANGED <<published, replicas, pod, leaving, share, jobs, todo, taskCount, sent, portal,
                   latest, last, hasty, calm, blind, leftovers, repeats, crashes>>

(* The process ends, by log.Fatal or with its container, and is started    *)
(* again under the same name.                                              *)
CrashPod(p) ==
    /\ pod[p] = "running"
    /\ p \notin leaving
    /\ crashes < MaxCrashes
    /\ crashes' = crashes + 1
    /\ pod' = [pod EXCEPT ![p] = "starting"]
    /\ ProcessEnds(p)
    /\ calm' = (calm /\ \A r \in Requests : at[r] \notin Allocating)
    /\ UNCHANGED <<redis, replicas, leaving, portal, latest, last, hasty, losses, fails>>
-----------------------------------------------------------------------------
RequestStep(r) ==
    \/ FindPool(r)
    \/ DeleteEntry(r)
    \/ EntriesDeleted(r)
    \/ Assign(r)
    \/ Panic(r)
    \/ \E p \in Pods : Push(r, p)
    \/ EndAllocation(r)
    \/ CountPool(r)
    \/ ScaleDown(r)
    \/ ScaleUp(r)

WorkerStep(p, w) ==
    \/ TakeJob(p, w)
    \/ PublishOrder(p, w)
    \/ FinishTask(p, w)
    \/ CheckCount(p, w)

PodStep(p) ==
    \/ Gone(p)
    \/ Come(p)
    \/ ReadEntry(p)
    \/ \E w \in Workers : WorkerStep(p, w)

Next ==
    \/ \E r \in Requests : Allocate(r) \/ Restart(r) \/ RequestStep(r)
    \/ \E p \in Pods : PodStep(p) \/ CrashPod(p)

Spec == Init /\ [][Next]_vars

(* The portal's goroutines go on, and so do the controller and the pods,   *)
(* a pod being stopped among them; nothing obliges the operator to make a  *)
(* request, or a pod to crash.                                             *)
Fairness ==
    /\ \A r \in Requests : WF_vars(RequestStep(r))
    /\ \A p \in Pods : WF_vars(PodStep(p)) /\ WF_vars(Gone(p))

FairSpec == Spec /\ Fairness
-----------------------------------------------------------------------------
InTable == UNION {Members(table[p]) : p \in Pods}

OnTopic == {o \in Orders : published[o] > 0}

(* The engine was used with care, and no pod started while its entry was   *)
(* being written.                                                          *)
UsedWithCare == hasty = 0 /\ calm

(* With careful use a pod deletes no order with its entry that it has not  *)
(* read, whatever crashes, restarts or fails between the reading of the    *)
(* entry and its deletion: only a pod that could not read its entry does.  *)
(* (purgeProcessedMetadataRedis does not look at what it deletes.)         *)
CarefulUseDropsNothing == (UsedWithCare /\ ~blind) => dropped = {}

(* With careful use an order of the latest allocation is published once,   *)
(* and once more at most for each time a worker took a second job, or a    *)
(* process ended before it had deleted what it had published.  What was    *)
(* left of earlier allocations never comes on top, unless the portal could *)
(* not delete it, and no order goes to two pods or to two workers.         *)
(* (delete_stale_allocation_data, and both idAllocators)                   *)
PublishedOncePerPass ==
    (UsedWithCare /\ ~leftovers) => \A o \in Orders : published[o] <= 1 + repeats

(* With careful use, and no command failed, an order of the latest         *)
(* allocation is in the table or on the topic, or a pod that had read it   *)
(* has deleted it before its worker came to it, but for those of the last  *)
(* chunk nobody has a number for: fewer than there are pods, and none if   *)
(* there is a pod for each order.  (assign_message_workload_workers)       *)
AllocatedOrdersKept ==
    (UsedWithCare /\ fails = 0 /\ UnderWay = {}) =>
        LET lost == Members(latest) \ (InTable \cup OnTopic \cup givenUp) IN
          /\ Cardinality(lost) < NumPods
          /\ Len(latest) <= NumPods => lost = {}

(* With careful use, and no command failed, once the last request is a     *)
(* restart the table is worked off, through crashes: every pod of the pool *)
(* comes back, reads its entry and in the end deletes it.                  *)
TableWorkedOff ==
    <>[](hasty = 0 /\ fails = 0 /\ UnderWay = {} /\ last = "restart") => <>[](table = NoWork)

(* README.md: "Upon restart, producer pods consume thy generated data      *)
(* files".  An allocated order stays in the table until a pod publishes it.*)
WorkKeptUntilProduced == dropped = {}
=============================================================================
