------------------------------ MODULE BulkLoad ------------------------------
(***************************************************************************)
(* bulkOrderLoad of src/microservices/loader/build/pulsar/loader.go: the   *)
(* portal moves staged orders into database 0, for the producers, with a   *)
(* pool of workers (goroutines).                                           *)
(*                                                                         *)
(* A worker that takes a job reads the orders of its list, records each in *)
(* purgeMap, writes them to database 0 under their places in ITS list,     *)
(* counted from 0, and then makes an allocation of the numbers 1, 2, ...,  *)
(* as many as it has written: it deletes the entry of every producer pod   *)
(* and pushes the entries anew.  If there are as many producer pods as     *)
(* workers it then deletes what is in purgeMap from the staged orders.     *)
(* main waits for more results than there are; only the page that asked    *)
(* for the load hangs, so nothing is said of it here.                      *)
(***************************************************************************)
EXTENDS Integers, Sequences, FiniteSets, WorkSplit

CONSTANTS
    Keys,        \* keys of orders
    Staged,      \* those of the orders in the database that is loaded from
    StagedLists, \* the lists KEYS * may return: from a replica, which may lag
                 \* behind, and always of database 6, whatever is loaded from
    NumPods,     \* the most producer pods there may be
    NumLoaders,  \* NUM_WORKERS of the portal
    NumLoads,    \* NUM_JOBS of the portal
    MaxFaults    \* bound on reads, writes and commands that fail

ASSUME BulkAssumption ==
    /\ IsFiniteSet(Keys) /\ Staged \subseteq Keys
    /\ StagedLists \subseteq Seq(Keys)
    /\ \A found \in StagedLists : \A j, k \in DOMAIN found : j # k => found[j] # found[k]
    /\ NumPods \in Nat \ {0} /\ NumLoaders \in Nat \ {0} /\ NumLoads \in Nat \ {0}
    /\ MaxFaults \in Nat

Loaders == 1..NumLoaders
Pods == 1..NumPods

VARIABLES
    bulk,      \* "off" | "run" | "spin" | "dead", the portal
    pool,      \* producer pods running, 1..pool
    share,     \* taskMap: the list of each worker
    staging,   \* staged orders not deleted
    orderOf,   \* database 0: the order under each number, where there is one
    entry,     \* the allocation table: numbers for each pod
    queued,    \* jobs on the channel
    step,      \* where each worker is
    readTo,    \* its place in its list
    allData,   \* the orders it has read, by place
    msgCount,  \* writes that succeeded
    toClear,   \* pods whose entry it has still to delete
    toPush,    \* numbers it has still to push, by pod
    toPurge,   \* what purgeMap held when it began to go through it
    recorded,  \* purgeMap
    faults     \* history: reads, writes and commands that failed

lists == <<pool, share, queued>>
redisData == <<staging, orderOf, entry>>
worker == <<step, readTo, allData, msgCount, toClear, toPush, toPurge>>
bulkVars == <<bulk, lists, redisData, worker, recorded, faults>>

Places == 0..Cardinality(Keys)

BulkTypeOK ==
    /\ bulk \in {"off", "run", "spin", "dead"}
    /\ pool \in 0..NumPods
    /\ share \in [Loaders -> Seq(Keys)]
    /\ staging \subseteq Staged
    /\ DOMAIN orderOf \subseteq Places /\ \A n \in DOMAIN orderOf : orderOf[n] \in Staged
    /\ entry \in [Pods -> Seq(Places)]
    /\ queued \in 0..NumLoads
    /\ step \in [Loaders -> {"idle", "read", "write", "clear", "push", "purge"}]
    /\ readTo \in [Loaders -> Places]
    /\ \A w \in Loaders : DOMAIN allData[w] \subseteq Places
    /\ msgCount \in [Loaders -> Places]
    /\ toClear \in [Loaders -> SUBSET Pods]
    /\ toPush \in [Loaders -> [Pods -> Seq(Places)]]
    /\ recorded \subseteq Staged /\ \A w \in Loaders : toPurge[w] \subseteq recorded
    /\ faults \in 0..MaxFaults
-----------------------------------------------------------------------------
Nothing == [p \in Pods |-> <<>>]
NoOrders == [n \in {} |-> 0]
Set(f, n, o) == [m \in DOMAIN f \cup {n} |-> IF m = n THEN o ELSE f[m]]
Without(f, n) == [m \in DOMAIN f \ {n} |-> f[m]]

(* The variant before a definition is a slip that a property must catch.   *)

(* allData[int64(fIndex)]: the place of the order in the list, from 0      *)
PlaceOf(w) == readTo[w]

(* generate_input_sources(1, msgCount), shuffled                           *)
WithRepeats(n) == [1..n -> 1..n]
Shuffles(n) == {f \in [1..n -> 1..n] : \A j, k \in 1..n : j # k => f[j] # f[k]}
-----------------------------------------------------------------------------
BulkInit ==
    /\ bulk = "off"
    /\ pool = 0
    /\ share = [w \in Loaders |-> <<>>]
    /\ staging = Staged
    /\ orderOf = NoOrders
    /\ entry = Nothing
    /\ queued = 0
    /\ step = [w \in Loaders |-> "idle"]
    /\ readTo = [w \in Loaders |-> 0]
    /\ allData = [w \in Loaders |-> NoOrders]
    /\ msgCount = [w \in Loaders |-> 0]
    /\ toClear = [w \in Loaders |-> {}]
    /\ toPush = [w \in Loaders |-> Nothing]
    /\ toPurge = [w \in Loaders |-> {}]
    /\ recorded = {}
    /\ faults = 0

(* bulkOrderLoad, up to its waiting.  The jobs are all sent at once, as    *)
(* the channel has room for them; fewer orders than workers are divided    *)
(* for ever.                                                               *)
BulkOrderLoad ==
    /\ bulk = "off"
    /\ pool' \in 0..NumPods
    /\ \E found \in StagedLists :
          IF found # <<>> /\ LoaderSize(found, NumLoaders) = 0
          THEN bulk' = "spin" /\ UNCHANGED <<share, queued>>
          ELSE /\ bulk' = "run"
               /\ share' = IdAllocator(found, LoaderSize(found, NumLoaders), NumLoaders)
               /\ queued' = NumLoads
    /\ UNCHANGED <<redisData, worker, recorded, faults>>

TakeLoad(w) ==
    /\ step[w] = "idle"
    /\ queued > 0
    /\ queued' = queued - 1
    /\ step' = [step EXCEPT ![w] = "read"]
    /\ readTo' = [readTo EXCEPT ![w] = 0]
    /\ allData' = [allData EXCEPT ![w] = NoOrders]
    /\ msgCount' = [msgCount EXCEPT ![w] = 0]
    /\ UNCHANGED <<bulk, pool, share, redisData, toClear, toPush, toPurge, recorded, faults>>

(* readFromRedis: an order that is gone, or a failure, is passed over.     *)
ReadStaged(w) ==
    /\ step[w] = "read"
    /\ readTo[w] < Len(share[w])
    /\ readTo' = [readTo EXCEPT ![w] = @ + 1]
    /\ LET key == share[w][readTo[w] + 1]
       IN  \/ /\ key \in staging
              /\ allData' = [allData EXCEPT ![w] = Set(@, PlaceOf(w), key)]
              /\ recorded' = recorded \cup {key}
              /\ UNCHANGED faults
           \/ /\ key \notin staging
              /\ UNCHANGED <<allData, recorded, faults>>
           \/ /\ faults < MaxFaults
              /\ faults' = faults + 1
              /\ UNCHANGED <<allData, recorded>>
    /\ UNCHANGED <<bulk, lists, redisData, step, msgCount, toClear, toPush, toPurge>>

EndRead(w) ==
    /\ step[w] = "read"
    /\ readTo[w] = Len(share[w])
    /\ step' = [step EXCEPT ![w] = "write"]
    /\ UNCHANGED <<bulk, lists, redisData, readTo, allData, msgCount, toClear, toPush, toPurge, recorded, faults>>

(* write_binary_message_to_redis, for the entries of a map in any order.   *)
WriteLoaded(w) ==
    /\ step[w] = "write"
    /\ \E n \in DOMAIN allData[w] :
          /\ allData' = [allData EXCEPT ![w] = Without(@, n)]
          /\ \/ /\ orderOf' = Set(orderOf, n, allData[w][n])
                /\ msgCount' = [msgCount EXCEPT ![w] = @ + 1]
                /\ UNCHANGED faults
             \/ /\ faults < MaxFaults
                /\ faults' = faults + 1
                /\ UNCHANGED <<orderOf, msgCount>>
    /\ UNCHANGED <<bulk, lists, staging, entry, step, readTo, toClear, toPush, toPurge, recorded>>

(* get_worker_pool, delete_stale_allocation_data: one entry after another. *)
ListPods(w) ==
    /\ step[w] = "write"
    /\ DOMAIN allData[w] = {}
    /\ pool > 0
    /\ step' = [step EXCEPT ![w] = "clear"]
    /\ toClear' = [toClear EXCEPT ![w] = 1..pool]
    /\ UNCHANGED <<bulk, lists, redisData, readTo, allData, msgCount, toPush, toPurge, recorded, faults>>

(* The process ends: a connection is refused, or the length of a chunk is  *)
(* divided by a pool of none, as there is no pod or kubectl failed.        *)
Die(w) ==
    /\ \/ step[w] # "idle" /\ faults < MaxFaults /\ faults' = faults + 1
       \/ step[w] = "write" /\ DOMAIN allData[w] = {} /\ pool = 0 /\ UNCHANGED faults
    /\ bulk' = "dead"
    /\ UNCHANGED <<lists, redisData, worker, recorded>>

(* A command that fails is logged and no more, here and in PushNumber.     *)
ClearEntry(w) ==
    /\ step[w] = "clear"
    /\ \E p \in toClear[w] :
          /\ \A q \in toClear[w] : p <= q
          /\ toClear' = [toClear EXCEPT ![w] = @ \ {p}]
          /\ \/ entry' = [entry EXCEPT ![p] = <<>>] /\ UNCHANGED faults
             \/ faults < MaxFaults /\ faults' = faults + 1 /\ UNCHANGED entry
    /\ UNCHANGED <<bulk, lists, staging, orderOf, step, readTo, allData, msgCount, toPush, toPurge, recorded>>

(* assign_message_workload_workers: a fresh shuffle, divided among pods.   *)
AssignNumbers(w) ==
    /\ step[w] = "clear"
    /\ toClear[w] = {}
    /\ \E numbers \in Shuffles(msgCount[w]) :
          toPush' = [toPush EXCEPT ![w] = [p \in Pods |-> IF p \in 1..pool THEN AssignWorkload(numbers, pool)[p] ELSE <<>>]]
    /\ step' = [step EXCEPT ![w] = "push"]
    /\ UNCHANGED <<bulk, lists, redisData, readTo, allData, msgCount, toClear, toPurge, recorded, faults>>

(* LPUSH, pod by pod in any order, number by number.                       *)
PushNumber(w) ==
    /\ step[w] = "push"
    /\ \E p \in Pods :
          /\ toPush[w][p] # <<>>
          /\ toPush' = [toPush EXCEPT ![w][p] = Tail(@)]
          /\ \/ entry' = [entry EXCEPT ![p] = <<Head(toPush[w][p])>> \o @] /\ UNCHANGED faults
             \/ faults < MaxFaults /\ faults' = faults + 1 /\ UNCHANGED entry
    /\ UNCHANGED <<bulk, lists, staging, orderOf, step, readTo, allData, msgCount, toClear, toPurge, recorded>>

(* workCount == numWorkers, where workCount is the number of pods served.  *)
EndPush(w) ==
    /\ step[w] = "push"
    /\ toPush[w] = Nothing
    /\ \/ pool = NumLoaders /\ step' = [step EXCEPT ![w] = "purge"]
                            /\ toPurge' = [toPurge EXCEPT ![w] = recorded]
       \/ pool # NumLoaders /\ step' = [step EXCEPT ![w] = "idle"] /\ UNCHANGED toPurge
    /\ UNCHANGED <<bulk, lists, redisData, readTo, allData, msgCount, toClear, toPush, recorded, faults>>

(* purgeProcessedRedis: what is recorded meanwhile may be come by or not;  *)
(* what a failed command has left counts at the end.                       *)
PurgeStaged(w) ==
    /\ step[w] = "purge"
    /\ \E key \in recorded \cap staging : staging' = staging \ {key}
    /\ UNCHANGED <<bulk, lists, orderOf, entry, worker, recorded, faults>>

EndPurge(w) ==
    LET spared == Cardinality(toPurge[w] \cap staging) IN
    /\ step[w] = "purge"
    /\ faults + spared <= MaxFaults /\ faults' = faults + spared
    /\ step' = [step EXCEPT ![w] = "idle"]
    /\ toPurge' = [toPurge EXCEPT ![w] = {}]
    /\ UNCHANGED <<bulk, lists, redisData, readTo, allData, msgCount, toClear, toPush, recorded>>

(* The runtime ends a process that goes through a map while another        *)
(* goroutine writes to it, if it notices.                                  *)
MapFault(w) ==
    /\ step[w] = "purge"
    /\ \E v \in Loaders : step[v] = "read" /\ readTo[v] < Len(share[v])
    /\ bulk' = "dead"
    /\ UNCHANGED <<lists, redisData, worker, recorded, faults>>

LoaderStep(w) ==
    /\ bulk = "run"
    /\ \/ TakeLoad(w) \/ ReadStaged(w) \/ EndRead(w) \/ WriteLoaded(w)
       \/ ListPods(w) \/ ClearEntry(w) \/ AssignNumbers(w)
       \/ PushNumber(w) \/ EndPush(w) \/ PurgeStaged(w) \/ EndPurge(w)
       \/ Die(w) \/ MapFault(w)

BulkNext == BulkOrderLoad \/ \E w \in Loaders : LoaderStep(w)

BulkSpec == BulkInit /\ [][BulkNext]_bulkVars
-----------------------------------------------------------------------------
Longest == CHOOSE n \in {Len(share[w]) : w \in Loaders} : \A w \in Loaders : Len(share[w]) <= n

Loaded == bulk = "run" /\ queued = 0 /\ \A w \in Loaders : step[w] = "idle"

(* Every listed key was staged, and nothing has been purged.               *)
AllStaged == staging = Staged /\ \A w \in Loaders : \A k \in 1..Len(share[w]) : share[w][k] \in Staged

(* Workers delete and push the entries of the same pods at the same time.  *)
(* Still, if nothing failed and every order listed was there to be read,   *)
(* the table has every number but those nobody was to have: what the last  *)
(* worker to delete an entry has pushed is all there.                      *)
AllocationSurvives ==
    (Loaded /\ faults = 0 /\ AllStaged) =>
        LET numbers == UNION {{entry[p][k] : k \in 1..Len(entry[p])} : p \in Pods}
        IN  /\ Cardinality((1..Longest) \ numbers) < pool
            /\ Longest <= pool => 1..Longest \subseteq numbers
=============================================================================
