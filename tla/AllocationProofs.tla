-------------------------- MODULE AllocationProofs --------------------------
(***************************************************************************)
(* Theorems about Allocation, for any number of requests, pods, workers,   *)
(* jobs and orders: the types, that with careful use only a pod that could *)
(* not read its entry deletes orders unread, that allocated orders are     *)
(* kept until a pod publishes them or gives them up, and that they are     *)
(* published once for each pass over them.                                 *)
(***************************************************************************)
EXTENDS Allocation, WorkSplitProofs, FiniteSetTheorems

USE DEF Requests, Pods
-----------------------------------------------------------------------------
(* Types                                                                   *)

(* A set of pods is finite, and has as many members as there are pods only *)
(* if it has them all.                                                     *)
LEMMA SomePods ==
    ASSUME NEW found \in SUBSET Pods
    PROVE  /\ IsFiniteSet(found)
           /\ Cardinality(found) \in 0..NumPods
           /\ found # {} => Cardinality(found) # 0
           /\ Cardinality(Pods) = NumPods
<1>1. IsFiniteSet(Pods) /\ Cardinality(Pods) = NumPods
    BY PodsAssumption, FS_Interval
<1>2. IsFiniteSet(found) /\ Cardinality(found) <= Cardinality(Pods)
    BY <1>1, FS_Subset
<1>3. Cardinality(found) \in Nat
    BY <1>2, FS_CardinalityType
<1>4. found # {} => Cardinality(found) # 0
    BY <1>2, FS_EmptySet
<1> QED
    BY <1>1, <1>2, <1>3, <1>4

(* The place of a pod among those found, in the order of their names.      *)
LEMMA PlaceAmongFound ==
    ASSUME NEW found \in SUBSET Pods, NEW p \in found
    PROVE  1 + Cardinality({q \in found : q < p}) \in 1..Cardinality(found)
<1> DEFINE before == {q \in found : q < p}
<1>1. IsFiniteSet(found) /\ Cardinality(found) \in Nat
    BY SomePods
<1>2. before \in SUBSET found /\ p \notin before
    BY PodsAssumption
<1>3. before # found
    BY <1>2
<1>4. before \in SUBSET Pods
    BY <1>2
<1>5. Cardinality(before) \in Nat
    BY <1>4, SomePods
<1> HIDE DEF before
<1>6. Cardinality(before) <= Cardinality(found) /\ Cardinality(before) # Cardinality(found)
    BY <1>1, <1>2, <1>3, FS_Subset
<1>7. 1 + Cardinality(before) \in 1..Cardinality(found)
    BY <1>1, <1>5, <1>6
<1> QED
    BY <1>7 DEF before

(* A value of a function of functions replaced.                            *)
LEMMA Replaced ==
    ASSUME NEW A, NEW B, NEW V, NEW f \in [A -> [B -> V]], NEW a \in A, NEW b \in B, NEW v \in V
    PROVE  /\ [f EXCEPT ![a][b] = v] \in [A -> [B -> V]]
           /\ [f EXCEPT ![a][b] = v][a][b] = v
           /\ \A c \in A, d \in B : (c # a \/ d # b) => [f EXCEPT ![a][b] = v][c][d] = f[c][d]
OBVIOUS

LEMMA InitType == Init => TypeOK
<1> SUFFICES ASSUME Init PROVE TypeOK
    OBVIOUS
<1> USE PodsAssumption, BoundsAssumption
<1>1. pod \in [Pods -> {"none", "starting", "running"}]
    BY DEF Init
<1>2. calm \in BOOLEAN /\ blind \in BOOLEAN /\ leftovers \in BOOLEAN
    BY DEF Init
<1>3. NoWork \in [Pods -> Seq(Orders)] /\ NoShares \in [Workers -> Seq(Orders)]
    BY DEF NoWork, NoShares
<1>4. /\ share \in [Pods -> [Workers -> Seq(Orders)]]
      /\ todo \in [Pods -> [Workers -> Seq(Orders)]]
    BY <1>3 DEF Init
<1>5. state \in [Pods -> [Workers -> {"new", "busy", "check", "idle"}]]
    BY DEF Init
<1>6. jobs \in [Pods -> 0..NumJobs]
    BY DEF Init
<1> QED
    BY <1>1, <1>2, <1>3, <1>4, <1>5, <1>6 DEF Init, TypeOK, Allocating, Restarting

LEMMA MakeRequestType ==
    ASSUME TypeOK, NEW r \in Requests, NEW careful, MakeRequest(r, careful)
    PROVE  hasty' \in 0..MaxHasty
<1>1. hasty \in Nat /\ MaxHasty \in Nat
    BY BoundsAssumption DEF TypeOK
<1>2. hasty' = hasty \/ hasty' = hasty + 1
    BY DEF MakeRequest
<1>3. hasty' <= MaxHasty
    BY DEF MakeRequest
<1> QED
    BY <1>1, <1>2, <1>3

LEMMA GetWorkerPoolType ==
    ASSUME TypeOK, NEW r \in Requests, GetWorkerPool(r)
    PROVE  /\ workers' \in [Requests -> SUBSET Pods]
           /\ workers'[r] \in SUBSET Pods
           /\ fails' \in 0..MaxFails
<1>1. Running \in SUBSET Pods
    BY DEF Running
<1>2. workers' = [workers EXCEPT ![r] = Running] \/ workers' = [workers EXCEPT ![r] = {}]
    BY DEF GetWorkerPool
<1>3. workers \in [Requests -> SUBSET Pods]
    BY DEF TypeOK
<1>4. fails' \in 0..MaxFails
    <2>1. fails \in 0..MaxFails /\ MaxFails \in Nat
        BY BoundsAssumption DEF TypeOK
    <2>2. fails' = fails \/ (fails < MaxFails /\ fails' = fails + 1)
        BY DEF GetWorkerPool, CommandFails
    <2> QED
        BY <2>1, <2>2
<1> HIDE DEF Requests, Pods
<1> QED
    BY <1>1, <1>2, <1>3, <1>4
(* What a step of a request leaves of the types of the rest.               *)
LEMMA RequestType ==
    ASSUME TypeOK, NEW r \in Requests, RequestStep(r)
    PROVE  TypeOK'
<1> USE PodsAssumption, BoundsAssumption
<1>0. calm \in BOOLEAN /\ blind \in BOOLEAN /\ leftovers \in BOOLEAN
    BY DEF TypeOK
<1>1. CASE FindPool(r)
    <2>1. /\ workers' \in [Requests -> SUBSET Pods]
          /\ workers'[r] \in SUBSET Pods
          /\ fails' \in 0..MaxFails
        BY <1>1, GetWorkerPoolType DEF FindPool
    <2>2. stale' \in [Requests -> SUBSET Pods]
        BY <1>1, <2>1 DEF FindPool, StaleEntries, TypeOK
    <2>3. at' \in [Requests -> {"new", "ended", "dead"} \cup Allocating \cup Restarting]
        BY <1>1 DEF FindPool, TypeOK, Allocating
    <2> QED
        BY <1>0, <1>1, <2>1, <2>2, <2>3 DEF FindPool, TypeOK, redis, cluster, processes, losses
<1>2. CASE CountPool(r)
    <2>1. workers' \in [Requests -> SUBSET Pods] /\ fails' \in 0..MaxFails
        BY <1>2, GetWorkerPoolType DEF CountPool
    <2>2. at' \in [Requests -> {"new", "ended", "dead"} \cup Allocating \cup Restarting]
        BY <1>2 DEF CountPool, TypeOK, Restarting
    <2> QED
        BY <1>0, <1>2, <2>1, <2>2 DEF CountPool, TypeOK, redis, cluster, processes, losses
<1>3. CASE DeleteEntry(r)
    <2>1. PICK p \in stale[r] :
             /\ stale' = [stale EXCEPT ![r] = @ \ {p}]
             /\ \/ table' = [table EXCEPT ![p] = <<>>] /\ UNCHANGED <<leftovers, fails>>
                \/ CommandFails /\ leftovers' = TRUE /\ UNCHANGED table
        BY <1>3 DEF DeleteEntry
    <2>2. table \in [Pods -> Seq(Orders)] /\ stale \in [Requests -> SUBSET Pods]
        BY DEF TypeOK
    <2>3. table' \in [Pods -> Seq(Orders)] /\ stale' \in [Requests -> SUBSET Pods]
        <3>1. <<>> \in Seq(Orders)
            OBVIOUS
        <3> HIDE DEF Requests, Pods
        <3> QED
            BY <2>1, <2>2, <3>1
    <2>4. leftovers' \in BOOLEAN
        BY <1>0, <2>1
    <2>5. fails' \in 0..MaxFails
        BY <2>1 DEF CommandFails, TypeOK
    <2> QED
        BY <1>0, <1>3, <2>3, <2>4, <2>5 DEF DeleteEntry, TypeOK, cluster, processes
<1>4. CASE EntriesDeleted(r)
    <2>1. at' \in [Requests -> {"new", "ended", "dead"} \cup Allocating \cup Restarting]
        BY <1>4 DEF EntriesDeleted, TypeOK, Allocating
    <2> QED
        BY <1>0, <1>4, <2>1 DEF EntriesDeleted, TypeOK, redis, cluster, processes, history, losses
<1>5. CASE Assign(r)
    <2> DEFINE found == workers[r]
               shares == AssignWorkload(inputs[r], Cardinality(found))
               handed == [p \in Pods |-> IF p \in found
                                         THEN shares[1 + Cardinality({q \in found : q < p})]
                                         ELSE <<>>]
    <2>1. found \in SUBSET Pods /\ found # {}
        BY <1>5 DEF Assign, TypeOK
    <2>2. Cardinality(found) \in Nat \ {0}
        BY <2>1, SomePods
    <2>3. inputs[r] \in Seq(Orders)
        <3>1. inputs[r] \in Inputs \cup {<<>>}
            BY DEF TypeOK
        <3>2. <<>> \in Seq(Orders)
            OBVIOUS
        <3> QED
            BY <3>1, <3>2, InputsAssumption
    <2>4. shares \in [1..Cardinality(found) -> Seq(Orders)]
        BY <2>2, <2>3, AssignType
    <2>5. \A p \in found : 1 + Cardinality({q \in found : q < p}) \in 1..Cardinality(found)
        BY <2>1, PlaceAmongFound
    <2>6. unwritten' = [unwritten EXCEPT ![r] = handed]
        BY <1>5 DEF Assign
    <2> HIDE DEF found, shares
    <2>7. handed \in [Pods -> Seq(Orders)]
        BY <2>4, <2>5
    <2> HIDE DEF handed
    <2>8. unwritten' \in [Requests -> [Pods -> Seq(Orders)]]
        BY <2>6, <2>7 DEF TypeOK
    <2>9. at' \in [Requests -> {"new", "ended", "dead"} \cup Allocating \cup Restarting]
        BY <1>5 DEF Assign, TypeOK, Allocating
    <2>10. /\ inputs' \in [Requests -> Inputs \cup {<<>>}]
           /\ workers' \in [Requests -> SUBSET Pods]
        BY <1>5 DEF Assign, TypeOK
    <2> QED
        BY <1>0, <1>5, <2>8, <2>9, <2>10
        DEF Assign, TypeOK, redis, cluster, processes, history, losses
<1>6. CASE Panic(r)
    <2>1. at' \in [Requests -> {"new", "ended", "dead"} \cup Allocating \cup Restarting]
        BY <1>6 DEF Panic, TypeOK
    <2> QED
        BY <1>0, <1>6, <2>1 DEF Panic, TypeOK, redis, cluster, processes, history, losses
<1>7. ASSUME NEW p \in Pods, Push(r, p) PROVE TypeOK'
    <2>1. unwritten[r][p] \in Seq(Orders) /\ unwritten[r][p] # <<>> /\ table[p] \in Seq(Orders)
        BY <1>7 DEF Push, TypeOK
    <2>2. /\ Head(unwritten[r][p]) \in Orders
          /\ Tail(unwritten[r][p]) \in Seq(Orders)
        BY <2>1
    <2>3. <<Head(unwritten[r][p])>> \o table[p] \in Seq(Orders)
        BY <2>1, <2>2
    <2>4. table' \in [Pods -> Seq(Orders)]
        BY <1>7, <2>3 DEF Push, TypeOK
    <2>5. fails' \in 0..MaxFails
        BY <1>7 DEF Push, CommandFails, TypeOK
    <2>6. unwritten' \in [Requests -> [Pods -> Seq(Orders)]]
        BY <1>7, <2>2 DEF Push, TypeOK
    <2>7. dest' \in [Requests -> {0} \cup Pods]
        BY <1>7 DEF Push, TypeOK
    <2> QED
        BY <1>0, <1>7, <2>4, <2>5, <2>6, <2>7 DEF Push, TypeOK, cluster, processes, losses
<1>8. CASE EndAllocation(r)
    <2>1. at' \in [Requests -> {"new", "ended", "dead"} \cup Allocating \cup Restarting]
        BY <1>8 DEF EndAllocation, TypeOK
    <2> QED
        BY <1>0, <1>8, <2>1 DEF EndAllocation, TypeOK, redis, cluster, processes, history, losses
<1>9. CASE ScaleDown(r) \/ ScaleUp(r)
    <2>1. PoolCount(workers[r]) \in 0..NumPods
        BY SomePods DEF PoolCount, TypeOK
    <2>2. PICK from \in Restarting, to \in {"up", "ended"}, n \in 0..NumPods :
             ScaleService(r, from, to, n)
        BY <1>9, <2>1 DEF ScaleDown, ScaleUp, Restarting
    <2>3. replicas' \in 0..NumPods /\ leaving' \subseteq Pods
        BY <2>2 DEF ScaleService, Scale, Running, TypeOK
    <2>4. at' \in [Requests -> {"new", "ended", "dead"} \cup Allocating \cup Restarting]
        BY <2>2 DEF ScaleService, TypeOK, Restarting
    <2>5. fails' \in 0..MaxFails
        BY <2>2 DEF ScaleService, CommandFails, TypeOK
    <2> QED
        BY <1>0, <2>2, <2>3, <2>4, <2>5 DEF ScaleService, TypeOK, redis, processes, losses
<1> QED
    BY <1>1, <1>2, <1>3, <1>4, <1>5, <1>6, <1>7, <1>8, <1>9 DEF RequestStep

LEMMA EndType ==
    ASSUME TypeOK, NEW p \in Pods, ProcessEnds(p)
    PROVE  /\ share' \in [Pods -> [Workers -> Seq(Orders)]]
           /\ jobs' \in [Pods -> 0..NumJobs]
           /\ state' \in [Pods -> [Workers -> {"new", "busy", "check", "idle"}]]
           /\ todo' \in [Pods -> [Workers -> Seq(Orders)]]
           /\ taskCount' \in [Pods -> Nat]
           /\ sent' \in [Pods -> SUBSET Orders]
           /\ repeats' \in Nat
<1>1. NoShares \in [Workers -> Seq(Orders)]
    BY DEF NoShares
<1>2. 0 \in 0..NumJobs
    BY PodsAssumption
<1> HIDE DEF Pods, Requests
<1>3. share' \in [Pods -> [Workers -> Seq(Orders)]] /\ todo' \in [Pods -> [Workers -> Seq(Orders)]]
    BY <1>1 DEF ProcessEnds, TypeOK
<1>4. state' \in [Pods -> [Workers -> {"new", "busy", "check", "idle"}]]
    BY DEF ProcessEnds, TypeOK
<1>5. /\ jobs' \in [Pods -> 0..NumJobs]
      /\ taskCount' \in [Pods -> Nat]
      /\ sent' \in [Pods -> SUBSET Orders]
    BY <1>2 DEF ProcessEnds, TypeOK
<1>6. repeats' \in Nat
    BY DEF ProcessEnds, TypeOK
<1> QED
    BY <1>3, <1>4, <1>5, <1>6

LEMMA WorkerType ==
    ASSUME TypeOK, NEW p \in Pods, NEW w \in Workers, WorkerStep(p, w)
    PROVE  TypeOK'
<1> USE PodsAssumption, BoundsAssumption
<1>0. calm \in BOOLEAN /\ blind \in BOOLEAN /\ leftovers \in BOOLEAN
    BY DEF TypeOK
<1> DEFINE States == {"new", "busy", "check", "idle"}
<1>1. /\ state \in [Pods -> [Workers -> States]]
      /\ todo \in [Pods -> [Workers -> Seq(Orders)]]
      /\ share \in [Pods -> [Workers -> Seq(Orders)]]
    BY DEF TypeOK
<1>2. \A v \in States : [state EXCEPT ![p][w] = v] \in [Pods -> [Workers -> States]]
    <2> HIDE DEF Pods, States
    <2> QED
        BY <1>1, Replaced
<1>3. \A list \in Seq(Orders) : [todo EXCEPT ![p][w] = list] \in [Pods -> [Workers -> Seq(Orders)]]
    <2> HIDE DEF Pods
    <2> QED
        BY <1>1, Replaced
<1>4. CASE TakeJob(p, w)
    <2>1. state' \in [Pods -> [Workers -> States]]
        BY <1>2, <1>4 DEF TakeJob
    <2>2. share[p][w] \in Seq(Orders)
        BY <1>1
    <2>3. todo' \in [Pods -> [Workers -> Seq(Orders)]]
        BY <1>3, <1>4, <2>2 DEF TakeJob
    <2>4. jobs' \in [Pods -> 0..NumJobs]
        BY <1>4 DEF TakeJob, TypeOK
    <2>5. repeats' \in Nat
        BY <1>4 DEF TakeJob, TypeOK
    <2> QED
        BY <1>0, <1>4, <2>1, <2>3, <2>4, <2>5 DEF TakeJob, TypeOK, redis, portal, losses
<1>5. CASE PublishOrder(p, w)
    <2>1. todo[p][w] \in Seq(Orders) /\ todo[p][w] # <<>>
        BY <1>1, <1>5 DEF PublishOrder
    <2>2. Head(todo[p][w]) \in Orders /\ Tail(todo[p][w]) \in Seq(Orders)
        BY <2>1
    <2>3. published' \in [Orders -> Nat]
        BY <1>5, <2>2 DEF PublishOrder, TypeOK
    <2>4. sent' \in [Pods -> SUBSET Orders]
        BY <1>5, <2>2 DEF PublishOrder, TypeOK
    <2>5. todo' = [todo EXCEPT ![p][w] = Tail(todo[p][w])]
        BY <1>5 DEF PublishOrder
    <2>6. todo' \in [Pods -> [Workers -> Seq(Orders)]]
        BY <1>3, <2>2, <2>5
    <2> QED
        BY <1>0, <1>5, <2>3, <2>4, <2>6 DEF PublishOrder, TypeOK, portal, history, losses
<1>6. CASE FinishTask(p, w)
    <2>1. state' \in [Pods -> [Workers -> States]]
        BY <1>2, <1>6 DEF FinishTask
    <2>2. taskCount' \in [Pods -> Nat]
        <3>0. taskCount \in [Pods -> Nat]
            BY DEF TypeOK
        <3>1. taskCount[p] \in Nat
            BY <3>0
        <3>2. taskCount' = [taskCount EXCEPT ![p] = taskCount[p] + 1]
            BY <1>6 DEF FinishTask
        <3> HIDE DEF Pods
        <3>3. taskCount[p] + 1 \in Nat
            BY <3>1
        <3> QED
            BY <3>0, <3>2, <3>3
    <2> QED
        BY <1>0, <1>6, <2>1, <2>2 DEF FinishTask, TypeOK, redis, portal, history, losses
<1>7. CASE CheckCount(p, w)
    <2>1. state' \in [Pods -> [Workers -> States]]
        BY <1>2, <1>7 DEF CheckCount
    <2>2. Members(table[p]) \subseteq Orders
        <3>1. table[p] \in Seq(Orders)
            BY DEF TypeOK
        <3> QED
            BY <3>1 DEF Members
    <2>3. table' \in [Pods -> Seq(Orders)]
        <3>1. table \in [Pods -> Seq(Orders)] /\ <<>> \in Seq(Orders)
            BY DEF TypeOK
        <3>2. table' = table \/ table' = [table EXCEPT ![p] = <<>>]
            BY <1>7 DEF CheckCount, Purge, EntryPurged
        <3> HIDE DEF Pods
        <3> QED
            BY <3>1, <3>2
    <2>4. dropped' \subseteq Orders /\ givenUp' \subseteq Orders
        BY <1>7, <2>2 DEF CheckCount, Purge, TypeOK
    <2>5. fails' \in 0..MaxFails
        BY <1>7 DEF CheckCount, Purge, CommandFails, TypeOK
    <2> QED
        BY <1>0, <1>7, <2>1, <2>3, <2>4, <2>5 DEF CheckCount, TypeOK, portal
<1> QED
    BY <1>4, <1>5, <1>6, <1>7 DEF WorkerStep

LEMMA PodType ==
    ASSUME TypeOK, NEW p \in Pods, PodStep(p) \/ CrashPod(p)
    PROVE  TypeOK'
<1> USE PodsAssumption, BoundsAssumption
<1>0. calm \in BOOLEAN /\ blind \in BOOLEAN /\ leftovers \in BOOLEAN
    BY DEF TypeOK
<1>1. CASE Gone(p)
    <2>1. ProcessEnds(p)
        BY <1>1 DEF Gone
    <2>2. leaving' \subseteq Pods /\ pod' \in [Pods -> {"none", "starting", "running"}]
        BY <1>1 DEF Gone, TypeOK
    <2> QED
        BY <1>0, <1>1, <2>1, <2>2, EndType DEF Gone, TypeOK, redis, portal, losses
<1>2. CASE Come(p)
    <2>1. pod' \in [Pods -> {"none", "starting", "running"}]
        BY <1>2 DEF Come, TypeOK
    <2> QED
        BY <1>0, <1>2, <2>1 DEF Come, TypeOK, redis, processes, portal, history, losses
<1>3. CASE ReadEntry(p)
    <2>1. DivideAndConquer(table[p], NumWorkers) \in [Workers -> Seq(Orders)]
        BY DivideType DEF Workers, TypeOK
    <2>2. share' \in [Pods -> [Workers -> Seq(Orders)]]
        <3> HIDE DEF Pods
        <3> QED
            BY <1>3, <2>1 DEF ReadEntry, WholeRange, TypeOK
    <2>3. state' \in [Pods -> [Workers -> {"new", "busy", "check", "idle"}]]
        <3> HIDE DEF Pods
        <3> QED
            BY <1>3 DEF ReadEntry, TypeOK
    <2>4. pod' \in [Pods -> {"none", "starting", "running"}] /\ jobs' \in [Pods -> 0..NumJobs]
        BY <1>3 DEF ReadEntry, TypeOK
    <2>5. blind' \in BOOLEAN
        BY <1>0, <1>3 DEF ReadEntry
    <2>6. fails' \in 0..MaxFails
        BY <1>3 DEF ReadEntry, CommandFails, TypeOK
    <2> QED
        BY <1>0, <1>3, <2>2, <2>3, <2>4, <2>5, <2>6 DEF ReadEntry, TypeOK, redis, portal
<1>4. CASE CrashPod(p)
    <2>1. ProcessEnds(p)
        BY <1>4 DEF CrashPod
    <2>2. calm' \in BOOLEAN
        BY <1>0, <1>4 DEF CrashPod
    <2>3. pod' \in [Pods -> {"none", "starting", "running"}] /\ crashes' \in 0..MaxCrashes
        BY <1>4 DEF CrashPod, TypeOK
    <2> QED
        BY <1>0, <1>4, <2>1, <2>2, <2>3, EndType DEF CrashPod, TypeOK, redis, portal, losses
<1> QED
    BY <1>1, <1>2, <1>3, <1>4, WorkerType DEF PodStep

LEMMA NextType == TypeOK /\ [Next]_vars => TypeOK'
<1> SUFFICES ASSUME TypeOK, [Next]_vars PROVE TypeOK'
    OBVIOUS
<1>0. calm \in BOOLEAN /\ blind \in BOOLEAN /\ leftovers \in BOOLEAN
    BY DEF TypeOK
<1>1. ASSUME NEW r \in Requests, Allocate(r) PROVE TypeOK'
    <2>1. hasty' \in 0..MaxHasty
        BY <1>1, MakeRequestType DEF Allocate
    <2>2. /\ inputs' \in [Requests -> Inputs \cup {<<>>}]
          /\ latest' \in Inputs \cup {<<>>}
        BY <1>1 DEF Allocate, TypeOK
    <2>3. at' \in [Requests -> {"new", "ended", "dead"} \cup Allocating \cup Restarting]
        BY <1>1 DEF Allocate, TypeOK, Allocating
    <2>4. published' \in [Orders -> Nat] /\ sent' \in [Pods -> SUBSET Orders]
        BY <1>1 DEF Allocate
    <2>5. last' \in {"none", "allocation", "restart"}
        BY <1>1 DEF Allocate
    <2>6. dropped' \subseteq Orders /\ givenUp' \subseteq Orders /\ repeats' \in Nat
        BY <1>1 DEF Allocate
    <2> QED
        BY <1>0, <1>1, <2>1, <2>2, <2>3, <2>4, <2>5, <2>6 DEF Allocate, TypeOK
<1>2. ASSUME NEW r \in Requests, Restart(r) PROVE TypeOK'
    <2>1. hasty' \in 0..MaxHasty
        BY <1>2, MakeRequestType DEF Restart
    <2>2. at' \in [Requests -> {"new", "ended", "dead"} \cup Allocating \cup Restarting]
        BY <1>2 DEF Restart, TypeOK, Restarting
    <2> QED
        BY <1>0, <1>2, <2>1, <2>2 DEF Restart, TypeOK, redis, cluster, processes, losses
<1>3. CASE UNCHANGED vars
    BY <1>0, <1>3 DEF vars, redis, cluster, processes, portal, history, losses, TypeOK
<1> QED
    BY <1>1, <1>2, <1>3, RequestType, PodType DEF Next

(* Type correctness of the allocation, for all constants.                  *)
THEOREM TypeCorrect == Spec => []TypeOK
BY InitType, NextType, PTL DEF Spec
-----------------------------------------------------------------------------
(* What the steps of the parts do to each other                            *)

(* The first request under way keeps every other one waiting.              *)
OneAtATime == hasty = 0 => \A q, r \in UnderWay : q = r

(* Requests leave the processes and the topic alone.                       *)
LEMMA RequestsLeavePods ==
    ASSUME NEW r \in Requests, RequestStep(r)
    PROVE  /\ UNCHANGED <<published, pod, processes, latest, dropped, givenUp, blind, repeats>>
           /\ UNCHANGED <<hasty, calm, crashes>>
BY DEF RequestStep, FindPool, CountPool, DeleteEntry, EntriesDeleted, Assign, Panic, Push,
       EndAllocation, ScaleDown, ScaleUp, ScaleService, redis, cluster, history, losses

LEMMA PodsLeaveRequests ==
    ASSUME NEW p \in Pods, PodStep(p) \/ CrashPod(p)
    PROVE  UNCHANGED <<replicas, portal, latest, hasty, leftovers>>
BY DEF PodStep, WorkerStep, Gone, Come, ReadEntry, TakeJob, PublishOrder, FinishTask, CheckCount,
       CrashPod, history, losses

(* A failed command is counted.                                            *)
LEMMA Counted ==
    ASSUME TypeOK, [Next]_vars
    PROVE  (fails' = fails /\ blind' = blind /\ leftovers' = leftovers) \/ fails' = fails + 1
<1>1. ASSUME NEW r \in Requests, Allocate(r) \/ Restart(r)
      PROVE  UNCHANGED <<fails, blind, leftovers>>
    BY <1>1 DEF Allocate, Restart, losses
<1>2. ASSUME NEW r \in Requests, RequestStep(r)
      PROVE  UNCHANGED <<fails, blind, leftovers>> \/ fails' = fails + 1
    BY <1>2 DEF RequestStep, FindPool, CountPool, GetWorkerPool, DeleteEntry, EntriesDeleted,
                Assign, Panic, Push, EndAllocation, ScaleDown, ScaleUp, ScaleService,
                CommandFails, history, losses
<1>3. ASSUME NEW p \in Pods, PodStep(p) \/ CrashPod(p)
      PROVE  UNCHANGED <<fails, blind, leftovers>> \/ fails' = fails + 1
    BY <1>3 DEF PodStep, WorkerStep, Gone, Come, ReadEntry, TakeJob, PublishOrder, FinishTask,
                CheckCount, Purge, CrashPod, CommandFails, history, losses
<1> QED
    BY <1>1, <1>2, <1>3 DEF Next, vars, history, losses

(* Carelessness, a crash during an allocation and a failure are for good.  *)
LEMMA NextFlags ==
    ASSUME TypeOK, [Next]_vars
    PROVE  /\ hasty' = 0 => hasty = 0
           /\ calm' => calm
           /\ fails' = 0 => fails = 0 /\ blind' = blind /\ leftovers' = leftovers
           /\ blind => blind'
           /\ leftovers => leftovers'
<1>1. hasty \in Nat /\ fails \in Nat
    BY BoundsAssumption DEF TypeOK
<1>2. fails' = 0 => fails = 0 /\ blind' = blind /\ leftovers' = leftovers
    BY <1>1, Counted
<1>3. ASSUME NEW r \in Requests, Allocate(r) \/ Restart(r)
      PROVE  (hasty' = hasty \/ hasty' = hasty + 1) /\ calm' = calm
    BY <1>3 DEF Allocate, Restart, MakeRequest
<1>4. ASSUME NEW p \in Pods, PodStep(p) \/ CrashPod(p)
      PROVE  calm' => calm
    <2>1. CASE CrashPod(p)
        BY <2>1 DEF CrashPod
    <2>2. CASE PodStep(p)
        <3>1. calm' = calm
            BY <2>2 DEF PodStep, WorkerStep, Gone, Come, ReadEntry, TakeJob, PublishOrder,
                        FinishTask, CheckCount, history
        <3> QED
            BY <3>1
    <2> QED
        BY <1>4, <2>1, <2>2
<1>5. hasty' = hasty \/ hasty' = hasty + 1
    BY <1>3, RequestsLeavePods, PodsLeaveRequests DEF Next, vars, history
<1>6. hasty' = 0 => hasty = 0
    BY <1>1, <1>5
<1>7. calm' => calm
    <2>1. ASSUME NEW r \in Requests, Allocate(r) \/ Restart(r) \/ RequestStep(r) PROVE calm' = calm
        BY <1>3, <2>1, RequestsLeavePods
    <2>2. UNCHANGED vars => calm' = calm
        BY DEF vars, history
    <2> QED
        BY <1>4, <2>1, <2>2 DEF Next
<1>8. (blind => blind') /\ (leftovers => leftovers')
    <2>1. ASSUME NEW r \in Requests, Allocate(r) \/ Restart(r)
          PROVE  blind' = blind /\ leftovers' = leftovers
        BY <2>1 DEF Allocate, Restart, losses
    <2>2. ASSUME NEW r \in Requests, RequestStep(r)
          PROVE  blind' = blind /\ (leftovers' = leftovers \/ leftovers' = TRUE)
        BY <2>2 DEF RequestStep, FindPool, CountPool, DeleteEntry, EntriesDeleted, Assign, Panic,
                    Push, EndAllocation, ScaleDown, ScaleUp, ScaleService, history, losses
    <2>3. ASSUME NEW p \in Pods, PodStep(p) \/ CrashPod(p)
          PROVE  (blind' = blind \/ blind' = TRUE) /\ leftovers' = leftovers
        BY <2>3 DEF PodStep, WorkerStep, Gone, Come, ReadEntry, TakeJob, PublishOrder, FinishTask,
                    CheckCount, CrashPod, history, losses
    <2>4. /\ blind' = blind \/ blind' = TRUE
          /\ leftovers' = leftovers \/ leftovers' = TRUE
        BY <2>1, <2>2, <2>3 DEF Next, vars, history, losses
    <2> QED
        BY <2>4
<1> QED
    BY <1>2, <1>6, <1>7, <1>8

(* A new request is the only one, if it is made with care.                 *)
LEMMA NewRequest ==
    ASSUME TypeOK, NEW r \in Requests, Allocate(r) \/ Restart(r), hasty' = 0
    PROVE  /\ UnderWay = {}
           /\ UnderWay' = {r}
           /\ Allocate(r) => CarefulAllocation /\ at'[r] = "pool"
           /\ Restart(r) => CarefulRestart /\ at'[r] = "count"
<1>1. hasty \in Nat
    BY DEF TypeOK
<1>2. Allocate(r) => CarefulAllocation
    BY <1>1 DEF Allocate, MakeRequest
<1>3. Restart(r) => CarefulRestart
    BY <1>1 DEF Restart, MakeRequest
<1>4. UnderWay = {}
    BY <1>2, <1>3 DEF CarefulAllocation, CarefulRestart
<1>5. /\ Allocate(r) => at' = [at EXCEPT ![r] = "pool"]
      /\ Restart(r) => at' = [at EXCEPT ![r] = "count"]
    BY DEF Allocate, Restart
<1>6. at \in [Requests -> {"new", "ended", "dead"} \cup Allocating \cup Restarting]
    BY DEF TypeOK
<1> HIDE DEF Requests
<1>7. UnderWay' = {r}
    BY <1>4, <1>5, <1>6 DEF UnderWay, Allocating, Restarting
<1> QED
    BY <1>2, <1>3, <1>4, <1>5, <1>6, <1>7

(* A step of a request moves that request on, or ends all of them.         *)
LEMMA RequestMoves ==
    ASSUME TypeOK, NEW r \in Requests, RequestStep(r)
    PROVE  /\ r \in UnderWay
           /\ UnderWay' \subseteq UnderWay
           /\ \A q \in Requests : at'[q] \in Allocating => at[q] \in Allocating
           /\ \A q \in Requests : at'[q] \in Restarting => at[q] \in Restarting
<1>1. at \in [Requests -> {"new", "ended", "dead"} \cup Allocating \cup Restarting]
    BY DEF TypeOK
<1> HIDE DEF Requests, Pods
<1>2. CASE FindPool(r) \/ DeleteEntry(r) \/ EntriesDeleted(r)
    BY <1>1, <1>2 DEF FindPool, DeleteEntry, EntriesDeleted, UnderWay, Allocating, Restarting
<1>3. CASE Assign(r)
    BY <1>1, <1>3 DEF Assign, UnderWay, Allocating, Restarting
<1>4. CASE Panic(r)
    BY <1>1, <1>4 DEF Panic, UnderWay, Allocating, Restarting
<1>5. CASE \E p \in Pods : Push(r, p)
    BY <1>1, <1>5 DEF Push, UnderWay, Allocating, Restarting
<1>6. CASE EndAllocation(r)
    BY <1>1, <1>6 DEF EndAllocation, UnderWay, Allocating, Restarting
<1>7. CASE CountPool(r) \/ ScaleDown(r) \/ ScaleUp(r)
    <2>1. /\ at[r] \in Restarting
          /\ \E place \in {"down", "up", "ended"} : at' = [at EXCEPT ![r] = place]
        BY <1>7 DEF CountPool, ScaleDown, ScaleUp, ScaleService, Restarting
    <2> QED
        BY <1>1, <2>1 DEF UnderWay, Allocating, Restarting
<1> QED
    BY <1>2, <1>3, <1>4, <1>5, <1>6, <1>7 DEF RequestStep

LEMMA OneAtATimeInductive == TypeOK /\ OneAtATime /\ [Next]_vars => OneAtATime'
<1> SUFFICES ASSUME TypeOK, OneAtATime, [Next]_vars, hasty' = 0
             PROVE  \A q, r \in UnderWay' : q = r
    BY DEF OneAtATime
<1>1. \A q, r \in UnderWay : q = r
    BY NextFlags DEF OneAtATime
<1>2. CASE \E r \in Requests : Allocate(r) \/ Restart(r)
    BY <1>2, NewRequest
<1>3. CASE \E r \in Requests : RequestStep(r)
    BY <1>1, <1>3, RequestMoves
<1>4. CASE \E p \in Pods : PodStep(p) \/ CrashPod(p)
    BY <1>1, <1>4, PodsLeaveRequests DEF portal, UnderWay
<1>5. CASE UNCHANGED vars
    BY <1>1, <1>5 DEF vars, portal, UnderWay
<1> QED
    BY <1>2, <1>3, <1>4, <1>5 DEF Next

(* A pod whose process does not run has nothing of it; what could not be   *)
(* read or deleted is a failure; and what a process has sent is there.     *)
NoProcess ==
    \A p \in Pods : pod[p] # "running" =>
        /\ share[p] = NoShares /\ sent[p] = {} /\ jobs[p] = 0
        /\ \A w \in Workers : state[p][w] = "idle"

FailuresShow == fails = 0 => ~blind /\ ~leftovers

SentIsOnTopic == \A p \in Pods : sent[p] \subseteq OnTopic

(* What a step of a worker leaves alone; its pod was not done.             *)
LEMMA WorkerFrame ==
    ASSUME TypeOK, NoProcess, NEW p \in Pods, NEW w \in Workers, WorkerStep(p, w)
    PROVE  /\ pod[p] = "running" /\ ~Done(p)
           /\ UNCHANGED <<pod, leaving, replicas, share>>
           /\ \A q \in Pods : q # p =>
                /\ table'[q] = table[q] /\ sent'[q] = sent[q] /\ jobs'[q] = jobs[q]
                /\ state'[q] = state[q] /\ todo'[q] = todo[q]
<1>1. pod[p] = "running" /\ ~Done(p)
    <2>1. CASE TakeJob(p, w)
        <3>1. jobs[p] > 0
            BY <2>1 DEF TakeJob
        <3> QED
            BY <3>1 DEF NoProcess, Done, TypeOK
    <2>2. CASE PublishOrder(p, w) \/ FinishTask(p, w) \/ CheckCount(p, w)
        <3>1. state[p][w] \in {"busy", "check"}
            BY <2>2 DEF PublishOrder, FinishTask, CheckCount
        <3> QED
            BY <3>1 DEF NoProcess, Done, Waiting
    <2> QED
        BY <2>1, <2>2 DEF WorkerStep
<1>2. UNCHANGED <<pod, leaving, replicas, share>>
    BY DEF WorkerStep, TakeJob, PublishOrder, FinishTask, CheckCount
<1> HIDE DEF Pods
<1>3. \A q \in Pods : q # p => table'[q] = table[q] /\ sent'[q] = sent[q]
    BY DEF WorkerStep, TakeJob, PublishOrder, FinishTask, CheckCount, Purge, redis, TypeOK
<1>4. \A q \in Pods : q # p => jobs'[q] = jobs[q] /\ state'[q] = state[q] /\ todo'[q] = todo[q]
    BY DEF WorkerStep, TakeJob, PublishOrder, FinishTask, CheckCount, TypeOK
<1> QED
    BY <1>1, <1>2, <1>3, <1>4

(* What the end or the start of a process leaves alone.                    *)
LEMMA ProcessFrame ==
    ASSUME TypeOK, NEW p \in Pods, Gone(p) \/ Come(p) \/ ReadEntry(p) \/ CrashPod(p)
    PROVE  /\ UNCHANGED <<redis, portal, latest, dropped, givenUp, leftovers>>
           /\ ~ReadEntry(p) => pod'[p] # "running"
           /\ \A q \in Pods : q # p =>
                /\ pod'[q] = pod[q] /\ share'[q] = share[q] /\ sent'[q] = sent[q]
                /\ jobs'[q] = jobs[q] /\ state'[q] = state[q] /\ todo'[q] = todo[q]
<1>1. UNCHANGED <<redis, portal, latest, dropped, givenUp, leftovers>>
    BY DEF Gone, Come, ReadEntry, CrashPod, history, losses
<1> HIDE DEF Pods
<1>2. ~ReadEntry(p) => pod'[p] # "running"
    BY DEF Gone, Come, CrashPod, TypeOK
<1>3. \A q \in Pods : q # p =>
         pod'[q] = pod[q] /\ share'[q] = share[q] /\ sent'[q] = sent[q]
    BY DEF Gone, Come, ReadEntry, CrashPod, ProcessEnds, processes, TypeOK
<1>4. \A q \in Pods : q # p =>
         jobs'[q] = jobs[q] /\ state'[q] = state[q] /\ todo'[q] = todo[q]
    BY DEF Gone, Come, ReadEntry, CrashPod, ProcessEnds, processes, TypeOK
<1> QED
    BY <1>1, <1>2, <1>3, <1>4

LEMMA NoProcessInductive == TypeOK /\ NoProcess /\ [Next]_vars => NoProcess'
<1> SUFFICES ASSUME TypeOK, NoProcess, [Next]_vars, NEW q \in Pods, pod'[q] # "running"
             PROVE  /\ share'[q] = NoShares /\ sent'[q] = {} /\ jobs'[q] = 0
                    /\ \A w \in Workers : state'[q][w] = "idle"
    BY DEF NoProcess, NoShares
<1> DEFINE Goal == /\ share'[q] = NoShares /\ sent'[q] = {} /\ jobs'[q] = 0
                   /\ \A w \in Workers : state'[q][w] = "idle"
<1>1. pod[q] # "running" =>
         /\ share[q] = NoShares /\ sent[q] = {} /\ jobs[q] = 0
         /\ \A w \in Workers : state[q][w] = "idle"
    BY DEF NoProcess
<1> HIDE DEF Pods
<1>2. ASSUME NEW r \in Requests, Allocate(r) PROVE Goal
    BY <1>1, <1>2 DEF Allocate
<1>3. ASSUME NEW r \in Requests, Restart(r) \/ RequestStep(r) PROVE Goal
    BY <1>1, <1>3, RequestsLeavePods DEF Restart, cluster, processes
<1>4. ASSUME NEW p \in Pods, Gone(p) \/ Come(p) \/ ReadEntry(p) \/ CrashPod(p) PROVE Goal
    <2>1. CASE q # p
        BY <1>1, <1>4, <2>1, ProcessFrame
    <2>2. CASE q = p /\ (Gone(p) \/ CrashPod(p))
        BY <2>2 DEF Gone, CrashPod, ProcessEnds, TypeOK
    <2>3. CASE q = p /\ Come(p)
        <3>1. pod[q] # "running"
            BY <2>3 DEF Come
        <3> QED
            BY <1>1, <2>3, <3>1 DEF Come, processes
    <2>4. CASE q = p /\ ReadEntry(p)
        BY <2>4 DEF ReadEntry, TypeOK
    <2> QED
        BY <1>4, <2>1, <2>2, <2>3, <2>4
<1>5. ASSUME NEW p \in Pods, NEW w \in Workers, WorkerStep(p, w) PROVE Goal
    BY <1>1, <1>5, WorkerFrame
<1>6. CASE UNCHANGED vars
    BY <1>1, <1>6 DEF vars, cluster, processes
<1> QED
    BY <1>2, <1>3, <1>4, <1>5, <1>6 DEF Next, PodStep

LEMMA SentInductive == TypeOK /\ NoProcess /\ SentIsOnTopic /\ [Next]_vars => SentIsOnTopic'
<1> SUFFICES ASSUME TypeOK, NoProcess, SentIsOnTopic, [Next]_vars, NEW q \in Pods
             PROVE  sent'[q] \subseteq OnTopic'
    BY DEF SentIsOnTopic
<1>1. sent[q] \subseteq OnTopic
    BY DEF SentIsOnTopic
<1>2. ASSUME NEW r \in Requests, Allocate(r) PROVE sent'[q] = {}
    BY <1>2 DEF Allocate
<1>3. ASSUME published' = published, sent'[q] \subseteq sent[q] PROVE sent'[q] \subseteq OnTopic'
    BY <1>1, <1>3 DEF OnTopic
<1>4. ASSUME NEW r \in Requests, Restart(r) \/ RequestStep(r) PROVE UNCHANGED <<published, sent>>
    BY <1>4, RequestsLeavePods DEF Restart, redis, cluster, processes
<1>5. ASSUME NEW p \in Pods, Gone(p) \/ Come(p) \/ ReadEntry(p) \/ CrashPod(p)
      PROVE  published' = published /\ sent'[q] \subseteq sent[q]
    <2>1. published' = published
        BY <1>5, ProcessFrame DEF redis
    <2>2. sent'[p] \subseteq sent[p]
        <3> HIDE DEF Pods
        <3> QED
            BY <1>5 DEF Gone, Come, ReadEntry, CrashPod, ProcessEnds, processes, TypeOK
    <2> QED
        BY <1>5, <2>1, <2>2, ProcessFrame
<1>6. ASSUME NEW p \in Pods, NEW w \in Workers, PublishOrder(p, w) PROVE sent'[q] \subseteq OnTopic'
    <2> DEFINE first == Head(todo[p][w])
    <2>1. /\ sent' = [sent EXCEPT ![p] = @ \cup {first}]
          /\ published' = [published EXCEPT ![first] = @ + 1]
        BY <1>6 DEF PublishOrder
    <2>2. first \in Orders
        <3>1. todo[p][w] \in Seq(Orders) /\ todo[p][w] # <<>>
            BY <1>6 DEF PublishOrder, TypeOK
        <3> QED
            BY <3>1
    <2> HIDE DEF first, Pods
    <2>3. OnTopic' = OnTopic \cup {first}
        BY <2>1, <2>2 DEF OnTopic, TypeOK
    <2> QED
        BY <1>1, <2>1, <2>3 DEF TypeOK
<1>7. ASSUME NEW p \in Pods, NEW w \in Workers, WorkerStep(p, w), ~PublishOrder(p, w)
      PROVE  UNCHANGED <<published, sent>>
    BY <1>7 DEF WorkerStep, TakeJob, FinishTask, CheckCount, redis
<1>8. CASE UNCHANGED vars
    BY <1>3, <1>8 DEF vars, redis, cluster, processes
<1> QED
    BY <1>2, <1>3, <1>4, <1>5, <1>6, <1>7, <1>8 DEF Next, PodStep
-----------------------------------------------------------------------------
(* Lists                                                                   *)

(* What taking the first from a list and putting one in front do to it.    *)
LEMMA FirstAndRest ==
    ASSUME NEW S, NEW list \in Seq(S), list # <<>>
    PROVE  /\ Head(list) \in S
           /\ Tail(list) \in Seq(S)
           /\ Members(list) = {Head(list)} \cup Members(Tail(list))
           /\ Distinct(list) => Distinct(Tail(list)) /\ Head(list) \notin Members(Tail(list))
<1>1. /\ Head(list) = list[1] /\ 1 \in 1..Len(list)
      /\ Tail(list) \in Seq(S)
      /\ Len(Tail(list)) = Len(list) - 1
      /\ \A i \in 1..Len(Tail(list)) : i + 1 \in 1..Len(list) /\ Tail(list)[i] = list[i + 1]
    OBVIOUS
<1>2. \A i \in 1..Len(list) : i = 1 \/ (i - 1 \in 1..Len(Tail(list)) /\ list[i] = Tail(list)[i - 1])
    BY <1>1
<1>3. Members(list) = {Head(list)} \cup Members(Tail(list))
    BY <1>1, <1>2 DEF Members
<1>4. ASSUME Distinct(list)
      PROVE  Distinct(Tail(list)) /\ Head(list) \notin Members(Tail(list))
    <2>1. ASSUME NEW i \in 1..Len(Tail(list)), NEW j \in 1..Len(Tail(list)), i # j
          PROVE  Tail(list)[i] # Tail(list)[j]
        <3>1. i + 1 # j + 1
            BY <2>1
        <3> QED
            BY <1>1, <1>4, <3>1 DEF Distinct
    <2>2. ASSUME NEW i \in 1..Len(Tail(list)) PROVE Tail(list)[i] # Head(list)
        <3>1. i + 1 # 1
            OBVIOUS
        <3> QED
            BY <1>1, <1>4, <3>1 DEF Distinct
    <2> QED
        BY <2>1, <2>2 DEF Distinct, Members
<1> QED
    BY <1>1, <1>3, <1>4

LEMMA PutInFront ==
    ASSUME NEW S, NEW list \in Seq(S), NEW e \in S
    PROVE  /\ Members(<<e>> \o list) = {e} \cup Members(list)
           /\ Distinct(list) /\ e \notin Members(list) => Distinct(<<e>> \o list)
<1> DEFINE longer == <<e>> \o list
<1>1. /\ longer \in Seq(S) /\ longer # <<>>
      /\ Head(longer) = e /\ Tail(longer) = list
    OBVIOUS
<1>2. /\ Len(longer) = Len(list) + 1 /\ longer[1] = e
      /\ \A i \in 1..Len(longer) : i # 1 => i - 1 \in 1..Len(list) /\ longer[i] = list[i - 1]
    OBVIOUS
<1> HIDE DEF longer
<1>3. Members(longer) = {e} \cup Members(list)
    BY <1>1, FirstAndRest
<1>4. ASSUME Distinct(list), e \notin Members(list) PROVE Distinct(longer)
    <2> SUFFICES ASSUME NEW i \in 1..Len(longer), NEW j \in 1..Len(longer), i # j
                 PROVE  longer[i] # longer[j]
        BY DEF Distinct
    <2>1. \A k \in 1..Len(longer) : k # 1 => longer[k] \in Members(list)
        BY <1>2 DEF Members
    <2>2. CASE i = 1 \/ j = 1
        BY <1>2, <1>4, <2>1, <2>2
    <2>3. CASE i # 1 /\ j # 1
        <3>1. i - 1 # j - 1
            BY <1>2
        <3> QED
            BY <1>2, <1>4, <2>3, <3>1 DEF Distinct
    <2> QED
        BY <2>2, <2>3
<1> QED
    BY <1>3, <1>4 DEF longer
-----------------------------------------------------------------------------
(* With careful use no pod drops an order unread                           *)

(* While a request allocates, the pods have nothing to do.                 *)
AllocatesInQuiet ==
    UsedWithCare => \A r \in Requests :
        at[r] \in Allocating => leaving = {} /\ \A p \in Pods : Done(p)

(* So the entry of a pod at work holds nothing it has not read.            *)
NothingUnread ==
    UsedWithCare /\ ~blind => \A p \in Pods :
        pod[p] = "running" /\ ~Done(p) => Members(table[p]) \subseteq HasRead(p)

DropInv ==
    /\ TypeOK
    /\ OneAtATime
    /\ NoProcess
    /\ FailuresShow
    /\ SentIsOnTopic
    /\ AllocatesInQuiet
    /\ NothingUnread
    /\ CarefulUseDropsNothing

(* A pod that has nothing to do does nothing.                              *)
LEMMA DoneIsStill ==
    ASSUME NEW p \in Pods, Done(p), p \notin leaving, calm', PodStep(p) \/ CrashPod(p),
           NEW r \in Requests, at[r] \in Allocating
    PROVE  FALSE
<1>1. pod[p] = "running" /\ jobs[p] = 0 /\ \A w \in Workers : state[p][w] \in {"new", "idle"}
    BY DEF Done, Waiting
<1>2. ~CrashPod(p)
    BY DEF CrashPod
<1>3. ASSUME NEW w \in Workers, WorkerStep(p, w) PROVE FALSE
    <2>1. jobs[p] > 0 \/ state[p][w] \in {"busy", "check"}
        BY <1>3 DEF WorkerStep, TakeJob, PublishOrder, FinishTask, CheckCount
    <2>2. ~(jobs[p] > 0)
        BY <1>1
    <2> QED
        BY <1>1, <2>1, <2>2
<1> QED
    BY <1>1, <1>2, <1>3 DEF PodStep, Gone, Come, ReadEntry

(* So no pod stirs while a request allocates.                              *)
LEMMA PodsAreStill ==
    ASSUME AllocatesInQuiet, hasty = 0, calm, calm',
           NEW q \in Requests, at[q] \in Allocating,
           NEW p \in Pods, PodStep(p) \/ CrashPod(p)
    PROVE  FALSE
<1>1. leaving = {} /\ Done(p)
    BY DEF AllocatesInQuiet, UsedWithCare
<1> QED
    BY <1>1, DoneIsStill

LEMMA AllocatesInQuietInductive ==
    TypeOK /\ OneAtATime /\ AllocatesInQuiet /\ [Next]_vars => AllocatesInQuiet'
<1> SUFFICES ASSUME TypeOK, OneAtATime, AllocatesInQuiet, [Next]_vars,
                    hasty' = 0, calm', NEW q \in Requests, at'[q] \in Allocating
             PROVE  leaving' = {} /\ \A p \in Pods : Done(p)'
    BY DEF AllocatesInQuiet, UsedWithCare
<1>1. hasty = 0 /\ calm
    BY NextFlags
<1>2. at[q] \in Allocating => leaving = {} /\ \A p \in Pods : Done(p)
    BY <1>1 DEF AllocatesInQuiet, UsedWithCare
<1>3. ASSUME UNCHANGED <<pod, jobs, state>> PROVE \A p \in Pods : Done(p) => Done(p)'
    BY <1>3 DEF Done, Waiting
<1>4. ASSUME NEW r \in Requests, Allocate(r)
      PROVE  leaving' = {} /\ \A p \in Pods : Done(p)'
    <2>1. UNCHANGED <<pod, jobs, state, leaving>>
        BY <1>4 DEF Allocate
    <2> QED
        BY <1>3, <1>4, <2>1, NewRequest DEF CarefulAllocation
<1>5. ASSUME NEW r \in Requests, Restart(r) PROVE FALSE
    <2>1. UnderWay' = {r} /\ q \in UnderWay' /\ at'[r] = "count"
        BY <1>5, NewRequest DEF UnderWay
    <2> QED
        BY <2>1 DEF Allocating
<1>6. ASSUME NEW r \in Requests, RequestStep(r)
      PROVE  leaving' = {} /\ \A p \in Pods : Done(p)'
    <2>1. at[q] \in Allocating /\ q \in UnderWay /\ r \in UnderWay
        BY <1>6, RequestMoves DEF UnderWay
    <2>2. q = r
        BY <1>1, <2>1 DEF OneAtATime
    <2>3. at[r] # "count" /\ at[r] # "down" /\ at[r] # "up"
        BY <2>1, <2>2 DEF Allocating
    <2>4. UNCHANGED leaving
        BY <1>6, <2>3 DEF RequestStep, FindPool, CountPool, DeleteEntry, EntriesDeleted, Assign,
                          Panic, Push, EndAllocation, ScaleDown, ScaleUp, ScaleService, cluster
    <2>5. UNCHANGED <<pod, jobs, state>>
        BY <1>6, RequestsLeavePods DEF processes
    <2> QED
        BY <1>2, <1>3, <2>1, <2>4, <2>5
<1>7. ASSUME NEW p \in Pods, PodStep(p) \/ CrashPod(p) PROVE FALSE
    <2>1. at[q] \in Allocating
        BY <1>7, PodsLeaveRequests DEF portal
    <2> QED
        BY <1>1, <1>7, <2>1, PodsAreStill
<1>8. CASE UNCHANGED vars
    BY <1>2, <1>3, <1>8 DEF vars, cluster, processes, portal
<1> QED
    BY <1>4, <1>5, <1>6, <1>7, <1>8 DEF Next

(* What a pod reads of its entry is all of it.                             *)
LEMMA ReadsItAll ==
    ASSUME TypeOK, NEW p \in Pods,
           share' = [share EXCEPT ![p] = DivideAndConquer(table[p], NumWorkers)]
    PROVE  HasRead(p)' = Members(table[p])
<1> DEFINE split == DivideAndConquer(table[p], NumWorkers)
<1>1. table[p] \in Seq(Orders) /\ NumWorkers \in Nat \ {0}
    BY PodsAssumption DEF TypeOK
<1>2. /\ \A i \in 1..Len(table[p]) :
            \E w \in Workers : \E k \in 1..Len(split[w]) : split[w][k] = table[p][i]
      /\ \A w \in Workers : \A k \in 1..Len(split[w]) :
            \E i \in 1..Len(table[p]) : split[w][k] = table[p][i]
    <2> SUFFICES ASSUME NEW list \in Seq(Orders), NEW n \in Nat \ {0}
                 PROVE  LET parts == DivideAndConquer(list, n) IN
                          /\ \A i \in 1..Len(list) :
                               \E w \in 1..n : \E k \in 1..Len(parts[w]) : parts[w][k] = list[i]
                          /\ \A w \in 1..n : \A k \in 1..Len(parts[w]) :
                               \E i \in 1..Len(list) : parts[w][k] = list[i]
        BY <1>1, Zenon DEF Workers
    <2> QED
        BY ProducerDivisionCovers, Zenon
<1>3. share'[p] = split
    <2> HIDE DEF split, Pods
    <2>1. share \in [Pods -> [Workers -> Seq(Orders)]]
        BY DEF TypeOK
    <2>2. share' = [share EXCEPT ![p] = split]
        BY DEF split
    <2> QED
        BY <2>1, <2>2
<1>4. HasRead(p)' = UNION {Members(share'[p][w]) : w \in Workers}
    BY DEF HasRead, Members
<1> HIDE DEF split
<1>5. \A w \in Workers : Members(share'[p][w]) \subseteq Members(table[p])
    BY <1>2, <1>3 DEF Members
<1>6. \A o \in Members(table[p]) : \E w \in Workers : o \in Members(share'[p][w])
    <2> SUFFICES ASSUME NEW i \in 1..Len(table[p])
                 PROVE  \E w \in Workers : table[p][i] \in Members(share'[p][w])
        BY DEF Members
    <2>1. PICK w \in Workers : \E k \in 1..Len(split[w]) : split[w][k] = table[p][i]
        BY <1>2
    <2>2. table[p][i] \in Members(split[w])
        BY <2>1 DEF Members
    <2> QED
        BY <1>3, <2>2
<1> QED
    BY <1>4, <1>5, <1>6

LEMMA NothingUnreadInductive ==
    TypeOK /\ NoProcess /\ AllocatesInQuiet /\ NothingUnread /\ [Next]_vars => NothingUnread'
<1> SUFFICES ASSUME TypeOK, NoProcess, AllocatesInQuiet, NothingUnread, [Next]_vars,
                    hasty' = 0, calm', ~blind', NEW q \in Pods, pod'[q] = "running", ~Done(q)'
             PROVE  Members(table'[q]) \subseteq HasRead(q)'
    BY DEF NothingUnread, UsedWithCare, Members
<1>1. hasty = 0 /\ calm /\ ~blind
    BY NextFlags
<1>2. pod[q] = "running" /\ ~Done(q) => Members(table[q]) \subseteq HasRead(q)
    BY <1>1 DEF NothingUnread, UsedWithCare
<1>3. ASSUME UNCHANGED <<pod[q], jobs[q], state[q], share[q]>>,
             Members(table'[q]) \subseteq Members(table[q])
      PROVE  Members(table'[q]) \subseteq HasRead(q)'
    <2>1. Done(q)' = Done(q) /\ HasRead(q)' = HasRead(q)
        BY <1>3 DEF Done, Waiting, HasRead, Members
    <2>2. pod[q] = "running" /\ ~Done(q)
        BY <1>3, <2>1
    <2> QED
        BY <1>2, <1>3, <2>1, <2>2
<1>4. ASSUME NEW r \in Requests, Allocate(r) \/ Restart(r)
      PROVE  UNCHANGED <<table, pod, jobs, state, share>>
    BY <1>4 DEF Allocate, Restart, redis, cluster, processes
<1>5. ASSUME NEW r \in Requests, RequestStep(r)
      PROVE  UNCHANGED <<table, pod, jobs, state, share>>
    <2>1. UNCHANGED <<pod, jobs, state, share>>
        BY <1>5, RequestsLeavePods DEF processes
    <2>2. ~Done(q)
        BY <2>1 DEF Done, Waiting
    <2>3. at[r] \notin Allocating
        BY <1>1, <2>2 DEF AllocatesInQuiet, UsedWithCare
    <2>4. UNCHANGED table
        BY <1>5, <2>3 DEF RequestStep, FindPool, CountPool, DeleteEntry, EntriesDeleted, Assign,
                          Panic, Push, EndAllocation, ScaleDown, ScaleUp, ScaleService, redis,
                          Allocating
    <2> QED
        BY <2>1, <2>4
<1>6. ASSUME NEW p \in Pods, Gone(p) \/ Come(p) \/ ReadEntry(p) \/ CrashPod(p)
      PROVE  Members(table'[q]) \subseteq HasRead(q)'
    <2>1. table' = table
        BY <1>6, ProcessFrame DEF redis
    <2>2. CASE q # p
        BY <1>3, <1>6, <2>1, <2>2, ProcessFrame
    <2>3. CASE q = p
        <3>1. ReadEntry(p)
            BY <1>6, <2>3, ProcessFrame
        <3>2. share' = [share EXCEPT ![p] = DivideAndConquer(table[p], NumWorkers)]
            BY <3>1 DEF ReadEntry, WholeRange
        <3> QED
            BY <2>1, <2>3, <3>2, ReadsItAll
    <2> QED
        BY <2>2, <2>3
<1>7. ASSUME NEW p \in Pods, NEW w \in Workers, WorkerStep(p, w)
      PROVE  Members(table'[q]) \subseteq HasRead(q)'
    <2>1. CASE q # p
        BY <1>3, <1>7, <2>1, WorkerFrame
    <2>2. CASE q = p
        <3>1. Members(table[p]) \subseteq HasRead(p) /\ share' = share
            BY <1>2, <1>7, <2>2, WorkerFrame
        <3>2. table'[p] = table[p] \/ table'[p] = <<>>
            BY <1>7 DEF WorkerStep, TakeJob, PublishOrder, FinishTask, CheckCount, Purge,
                        EntryPurged, redis, TypeOK
        <3>3. Members(<<>>) = {}
            BY DEF Members
        <3>4. HasRead(p)' = HasRead(p)
            BY <3>1 DEF HasRead, Members
        <3> QED
            BY <2>2, <3>1, <3>2, <3>3, <3>4
    <2> QED
        BY <2>1, <2>2
<1>8. CASE UNCHANGED vars
    BY <1>3, <1>8 DEF vars, redis, cluster, processes
<1> QED
    BY <1>3, <1>4, <1>5, <1>6, <1>7, <1>8 DEF Next, PodStep

LEMMA DropInit == Init => DropInv
<1> SUFFICES ASSUME Init PROVE DropInv
    OBVIOUS
<1>1. TypeOK
    BY InitType
<1>2. UnderWay = {} /\ \A r \in Requests : at[r] \notin Allocating
    BY DEF Init, UnderWay, Allocating, Restarting
<1>3. NoProcess /\ SentIsOnTopic /\ FailuresShow
    BY DEF Init, NoProcess, SentIsOnTopic, FailuresShow
<1>4. \A p \in Pods : pod[p] = "running" => Done(p)
    BY DEF Init, Done, Waiting
<1>5. dropped = {}
    BY DEF Init
<1> QED
    BY <1>1, <1>2, <1>3, <1>4, <1>5
    DEF DropInv, OneAtATime, AllocatesInQuiet, NothingUnread, CarefulUseDropsNothing

LEMMA DropNext == DropInv /\ [Next]_vars => DropInv'
<1> SUFFICES ASSUME DropInv, [Next]_vars PROVE DropInv'
    OBVIOUS
<1> USE DEF DropInv
<1>1. /\ TypeOK' /\ OneAtATime' /\ NoProcess' /\ SentIsOnTopic'
      /\ AllocatesInQuiet' /\ NothingUnread'
    BY NextType, OneAtATimeInductive, NoProcessInductive, SentInductive,
       AllocatesInQuietInductive, NothingUnreadInductive
<1>2. FailuresShow'
    BY NextFlags DEF FailuresShow
<1>3. ASSUME hasty' = 0, calm', ~blind' PROVE dropped' = {}
    <2>1. hasty = 0 /\ calm /\ ~blind
        BY <1>3, NextFlags
    <2>2. dropped = {}
        BY <2>1 DEF CarefulUseDropsNothing, UsedWithCare
    <2>3. ASSUME NEW r \in Requests, Allocate(r) \/ Restart(r) PROVE dropped' = {}
        BY <2>2, <2>3 DEF Allocate, Restart, losses
    <2>4. ASSUME NEW r \in Requests, RequestStep(r) PROVE dropped' = {}
        BY <2>2, <2>4, RequestsLeavePods
    <2>5. ASSUME NEW p \in Pods, Gone(p) \/ Come(p) \/ ReadEntry(p) \/ CrashPod(p)
          PROVE  dropped' = {}
        BY <2>2, <2>5, ProcessFrame
    <2>6. ASSUME NEW p \in Pods, NEW w \in Workers, WorkerStep(p, w) PROVE dropped' = {}
        <3>1. Members(table[p]) \subseteq HasRead(p)
            BY <2>1, <2>6, WorkerFrame DEF NothingUnread, UsedWithCare
        <3>2. dropped' = dropped \/ dropped' = dropped \cup (Members(table[p]) \ HasRead(p))
            BY <2>6 DEF WorkerStep, TakeJob, PublishOrder, FinishTask, CheckCount, Purge,
                        history, losses
        <3> QED
            BY <2>2, <3>1, <3>2
    <2>7. CASE UNCHANGED vars
        BY <2>2, <2>7 DEF vars, history, losses
    <2> QED
        BY <2>3, <2>4, <2>5, <2>6, <2>7 DEF Next, PodStep
<1> QED
    BY <1>1, <1>2, <1>3 DEF CarefulUseDropsNothing, UsedWithCare

(* With careful use no pod that could read its entry deletes an order it   *)
(* has not read, for any number of requests, pods, workers, jobs, orders,  *)
(* crashes and failed commands.  (purgeProcessedMetadataRedis)             *)
THEOREM NothingDropped == Spec => []CarefulUseDropsNothing
<1>1. Spec => []DropInv
    BY DropInit, DropNext, PTL DEF Spec
<1>2. DropInv => CarefulUseDropsNothing
    BY DEF DropInv
<1> QED
    BY <1>1, <1>2, PTL
-----------------------------------------------------------------------------
(* With careful use the allocated orders are kept                          *)

Preparing == {"pool", "delete", "assign"}

(* A request that is about to share its orders out has the latest ones,    *)
(* has found the whole pool if it could ask for it, and has deleted every  *)
(* entry it does not still have to, but for those it could not.            *)
Prepares ==
    UsedWithCare => \A r \in Requests :
        /\ at[r] \in Preparing => inputs[r] = latest
        /\ at[r] \in {"delete", "assign"} =>
              /\ workers[r] = Pods \/ (workers[r] = {} /\ fails # 0)
              /\ workers[r] = Pods /\ ~leftovers =>
                    \A p \in Pods : p \in stale[r] \/ table[p] = <<>>
        /\ at[r] = "assign" => stale[r] = {}

(* An order is kept as long as it is on the topic, in the table, about to  *)
(* be pushed there, or given up by a pod that had read it.                 *)
Unpushed(o) ==
    \E r \in Requests : at[r] = "write" /\ \E p \in Pods : o \in Members(unwritten[r][p])

OnItsWay(o) ==
    \/ o \in OnTopic
    \/ o \in givenUp
    \/ \E p \in Pods : o \in Members(table[p])
    \/ Unpushed(o)

LostOrders == {o \in Members(latest) : ~OnItsWay(o)}

ARemainder(lost) == Cardinality(lost) < NumPods /\ (Len(latest) <= NumPods => lost = {})

(* Once the orders are shared out, the others are a remainder.             *)
RestIsLost ==
    (UsedWithCare /\ fails = 0 /\ \A r \in Requests : at[r] \notin Preparing)
        => ARemainder(LostOrders)

KeptInv == DropInv /\ Prepares /\ RestIsLost

LEMMA PreparesInductive ==
    TypeOK /\ OneAtATime /\ AllocatesInQuiet /\ Prepares /\ [Next]_vars => Prepares'
<1> SUFFICES ASSUME TypeOK, OneAtATime, AllocatesInQuiet, Prepares, [Next]_vars,
                    hasty' = 0, calm', NEW q \in Requests
             PROVE  /\ at'[q] \in Preparing => inputs'[q] = latest'
                    /\ at'[q] \in {"delete", "assign"} =>
                          /\ workers'[q] = Pods \/ (workers'[q] = {} /\ fails' # 0)
                          /\ workers'[q] = Pods /\ ~leftovers' =>
                                \A p \in Pods : p \in stale'[q] \/ table'[p] = <<>>
                    /\ at'[q] = "assign" => stale'[q] = {}
    BY DEF Prepares, UsedWithCare, Preparing
<1> DEFINE Goal == /\ at'[q] \in Preparing => inputs'[q] = latest'
                   /\ at'[q] \in {"delete", "assign"} =>
                         /\ workers'[q] = Pods \/ (workers'[q] = {} /\ fails' # 0)
                         /\ workers'[q] = Pods /\ ~leftovers' =>
                               \A p \in Pods : p \in stale'[q] \/ table'[p] = <<>>
                   /\ at'[q] = "assign" => stale'[q] = {}
<1> SUFFICES ASSUME at'[q] \in Preparing PROVE Goal
    BY DEF Preparing
<1>1. hasty = 0 /\ calm /\ (leftovers => leftovers')
    BY NextFlags
<1>2. /\ at[q] \in Preparing => inputs[q] = latest
      /\ at[q] \in {"delete", "assign"} =>
            /\ workers[q] = Pods \/ (workers[q] = {} /\ fails # 0)
            /\ workers[q] = Pods /\ ~leftovers =>
                  \A p \in Pods : p \in stale[q] \/ table[p] = <<>>
      /\ at[q] = "assign" => stale[q] = {}
    BY <1>1 DEF Prepares, UsedWithCare
<1>3. ASSUME NEW r \in Requests, Allocate(r) PROVE Goal
    <2>1. q \in UnderWay' /\ UnderWay' = {r} /\ at'[r] = "pool"
        BY <1>3, NewRequest DEF UnderWay, Allocating, Preparing
    <2>2. q = r
        BY <2>1
    <2>3. inputs'[q] = latest'
        BY <1>3, <2>2 DEF Allocate, TypeOK
    <2> QED
        BY <2>1, <2>2, <2>3
<1>4. ASSUME NEW r \in Requests, Restart(r) PROVE FALSE
    <2>1. q \in UnderWay' /\ UnderWay' = {r} /\ at'[r] = "count"
        BY <1>4, NewRequest DEF UnderWay, Allocating, Preparing
    <2> QED
        BY <2>1 DEF Preparing
<1>5. ASSUME NEW r \in Requests, RequestStep(r) PROVE Goal
    <2>1. at'[q] \in Allocating
        BY DEF Allocating, Preparing
    <2>2. r \in UnderWay /\ at[q] \in Allocating
        BY <1>5, <2>1, RequestMoves
    <2>3. q = r
        BY <1>1, <2>2 DEF OneAtATime, UnderWay
    <2>4. FindPool(q) \/ DeleteEntry(q) \/ EntriesDeleted(q)
        <3>1. at[q] \notin {"count", "down", "up"}
            BY <2>2 DEF Allocating
        <3>2. ~Assign(q) /\ ~EndAllocation(q)
            BY DEF Assign, EndAllocation, TypeOK, Preparing
        <3>3. ~Panic(q)
            BY DEF Panic, Preparing
        <3>4. ~\E p \in Pods : Push(q, p)
            BY DEF Push, Preparing
        <3> QED
            BY <1>5, <2>3, <3>1, <3>2, <3>3, <3>4
            DEF RequestStep, CountPool, ScaleDown, ScaleUp, ScaleService
    <2>5. CASE FindPool(q)
        <3>1. Running = Pods
            BY <1>1, <2>2 DEF AllocatesInQuiet, UsedWithCare, Running, Done
        <3>2. /\ at[q] = "pool" /\ at'[q] = "delete"
              /\ stale'[q] = workers'[q]
              /\ UNCHANGED <<inputs, latest>>
            BY <2>5 DEF FindPool, StaleEntries, TypeOK
        <3>3. workers'[q] = Pods \/ (workers'[q] = {} /\ fails' = fails + 1)
            <4>1. GetWorkerPool(q)
                BY <2>5 DEF FindPool
            <4> HIDE DEF Pods
            <4> QED
                BY <3>1, <4>1 DEF GetWorkerPool, CommandFails, TypeOK
        <3>4. fails + 1 # 0
            BY DEF TypeOK
        <3> QED
            BY <1>2, <3>2, <3>3, <3>4 DEF Preparing
    <2>6. CASE DeleteEntry(q)
        <3>1. at[q] = "delete" /\ at' = at /\ UNCHANGED <<inputs, workers, latest>>
            BY <2>6 DEF DeleteEntry
        <3>2. PICK d \in stale[q] :
                 /\ stale' = [stale EXCEPT ![q] = @ \ {d}]
                 /\ \/ table' = [table EXCEPT ![d] = <<>>] /\ UNCHANGED <<leftovers, fails>>
                    \/ CommandFails /\ leftovers' = TRUE
            BY <2>6 DEF DeleteEntry
        <3>3. stale'[q] = stale[q] \ {d}
            BY <3>2 DEF TypeOK
        <3>4. workers'[q] = Pods \/ (workers'[q] = {} /\ fails' # 0)
            <4>1. fails' = fails \/ fails' = fails + 1
                BY <3>2 DEF CommandFails
            <4>2. fails + 1 # 0
                BY DEF TypeOK
            <4> QED
                BY <1>2, <3>1, <4>1, <4>2
        <3>5. ASSUME workers'[q] = Pods, ~leftovers'
              PROVE  \A p \in Pods : p \in stale'[q] \/ table'[p] = <<>>
            <4>1. table' = [table EXCEPT ![d] = <<>>] /\ ~leftovers
                BY <1>1, <3>2, <3>5
            <4>2. \A p \in Pods : table'[p] = IF p = d THEN <<>> ELSE table[p]
                BY <4>1 DEF TypeOK
            <4>3. \A p \in Pods : p \in stale[q] \/ table[p] = <<>>
                BY <1>2, <3>1, <3>5, <4>1
            <4> QED
                BY <3>3, <4>2, <4>3
        <3> QED
            BY <1>2, <3>1, <3>4, <3>5 DEF Preparing
    <2>7. CASE EntriesDeleted(q)
        <3>1. /\ at[q] = "delete" /\ stale[q] = {}
              /\ UNCHANGED <<table, inputs, workers, stale, latest, leftovers, fails>>
            BY <2>7 DEF EntriesDeleted, redis, history, losses
        <3> QED
            BY <1>2, <3>1 DEF Preparing
    <2> QED
        BY <2>4, <2>5, <2>6, <2>7
<1>6. ASSUME NEW p \in Pods, PodStep(p) \/ CrashPod(p) PROVE FALSE
    <2>1. at[q] \in Allocating
        BY <1>6, PodsLeaveRequests DEF portal, Allocating, Preparing
    <2> QED
        BY <1>1, <1>6, <2>1, PodsAreStill
<1>7. CASE UNCHANGED vars
    BY <1>2, <1>7 DEF vars, redis, portal, history, losses
<1> QED
    BY <1>3, <1>4, <1>5, <1>6, <1>7 DEF Next

(* A part of a remainder is a remainder.                                   *)
LEMMA FiniteMembers ==
    ASSUME NEW list \in Seq(Orders), NEW from \in Nat, from <= Len(list)
    PROVE  LET rest == {list[i] : i \in (from + 1)..Len(list)} IN
             IsFiniteSet(rest) /\ Cardinality(rest) <= Len(list) - from
<1> DEFINE places == (from + 1)..Len(list)
           rest == {list[i] : i \in places}
           f == [i \in places |-> list[i]]
<1>1. IsFiniteSet(places) /\ Cardinality(places) = Len(list) - from
    <2>1. Len(list) \in Nat /\ from + 1 \in Int /\ Len(list) \in Int
        OBVIOUS
    <2>2. IsFiniteSet(places)
          /\ Cardinality(places) = IF from + 1 > Len(list) THEN 0 ELSE Len(list) - (from + 1) + 1
        BY <2>1, FS_Interval
    <2> QED
        BY <2>1, <2>2
<1>2. f \in Surjection(places, rest)
    BY DEF Surjection
<1> HIDE DEF f, places
<1>3. IsFiniteSet(rest) /\ Cardinality(rest) <= Cardinality(places)
    BY <1>1, <1>2, FS_Surjection
<1> QED
    BY <1>1, <1>3 DEF places

LEMMA RemainderShrinks ==
    ASSUME TypeOK, ARemainder(LostOrders), NEW lost \in SUBSET LostOrders
    PROVE  ARemainder(lost)
<1>1. latest \in Seq(Orders)
    <2>1. <<>> \in Seq(Orders)
        OBVIOUS
    <2> QED
        BY <2>1, InputsAssumption DEF TypeOK
<1>2. Members(latest) = {latest[i] : i \in (0 + 1)..Len(latest)}
    BY DEF Members
<1>3. IsFiniteSet(Members(latest))
    <2>1. 0 \in Nat /\ 0 <= Len(latest)
        BY <1>1
    <2> QED
        BY <1>1, <1>2, <2>1, FiniteMembers
<1>4. LostOrders \in SUBSET Members(latest)
    BY DEF LostOrders
<1>5. IsFiniteSet(LostOrders)
    BY <1>3, <1>4, FS_Subset
<1>6. /\ IsFiniteSet(lost) /\ Cardinality(lost) <= Cardinality(LostOrders)
      /\ Cardinality(lost) \in Nat /\ Cardinality(LostOrders) \in Nat
    BY <1>5, FS_Subset, FS_CardinalityType
<1>7. Cardinality(LostOrders) < NumPods /\ (Len(latest) <= NumPods => LostOrders = {})
    BY DEF ARemainder
<1>8. Cardinality(lost) < NumPods
    BY <1>6, <1>7, PodsAssumption
<1> QED
    BY <1>7, <1>8 DEF ARemainder

(* If the pool was found, pod p is handed chunk number p - 1.              *)
LEMMA PodByNumber ==
    ASSUME NEW p \in Pods
    PROVE  1 + Cardinality({q \in Pods : q < p}) = p
<1> DEFINE before == {q \in Pods : q < p}
<1>1. before = 1..(p - 1)
    BY PodsAssumption
<1>2. Cardinality(1..(p - 1)) = p - 1
    <2>1. 1 \in Int /\ p - 1 \in Int
        BY PodsAssumption
    <2>2. Cardinality(1..(p - 1)) = IF 1 > p - 1 THEN 0 ELSE (p - 1) - 1 + 1
        BY <2>1, FS_Interval
    <2> QED
        BY <2>2, PodsAssumption
<1> HIDE DEF before
<1>3. Cardinality(before) = p - 1
    BY <1>1, <1>2
<1>4. 1 + Cardinality(before) = p
    BY <1>3, PodsAssumption
<1> QED
    BY <1>4 DEF before

LEMMA SharesByNumber ==
    ASSUME TypeOK, NEW r \in Requests, Assign(r), workers[r] = Pods
    PROVE  /\ unwritten' = [unwritten EXCEPT ![r] =
                               [p \in Pods |-> AssignWorkload(inputs[r], NumPods)[p]]]
           /\ unwritten'[r] = [p \in Pods |-> AssignWorkload(inputs[r], NumPods)[p]]
           /\ at' = [at EXCEPT ![r] = "write"] /\ at'[r] = "write"
<1> DEFINE shares == AssignWorkload(inputs[r], NumPods)
<1>1. Cardinality(Pods) = NumPods
    BY SomePods
<1>2. unwritten' = [unwritten EXCEPT ![r] =
             [p \in Pods |-> IF p \in Pods
                             THEN shares[1 + Cardinality({q \in Pods : q < p})]
                             ELSE <<>>]]
    BY <1>1 DEF Assign
<1> HIDE DEF shares
<1>3. [p \in Pods |-> IF p \in Pods THEN shares[1 + Cardinality({q \in Pods : q < p})] ELSE <<>>]
          = [p \in Pods |-> shares[p]]
    BY PodByNumber
<1>4. unwritten' = [unwritten EXCEPT ![r] = [p \in Pods |-> shares[p]]]
    BY <1>2, <1>3
<1>5. at' = [at EXCEPT ![r] = "write"]
    BY DEF Assign
<1> HIDE DEF Requests, Pods
<1> QED
    BY <1>4, <1>5 DEF shares, TypeOK

(* No step but a new allocation loses sight of an order.                   *)
LEMMA OrdersStayOnTheirWay ==
    ASSUME TypeOK, NoProcess, FailuresShow, SentIsOnTopic, NothingUnread, [Next]_vars,
           hasty' = 0, calm', fails' = 0,
           \A r \in Requests : at[r] \notin Preparing,
           \A r \in Requests : at'[r] \notin Preparing,
           NEW o \in Orders, OnItsWay(o)
    PROVE  OnItsWay(o)' /\ latest' = latest
<1> DEFINE Goal == OnItsWay(o)' /\ latest' = latest
<1>1. hasty = 0 /\ calm /\ fails = 0 /\ ~blind
    BY NextFlags DEF FailuresShow
<1>2. /\ at \in [Requests -> {"new", "ended", "dead"} \cup Allocating \cup Restarting]
      /\ table \in [Pods -> Seq(Orders)]
      /\ unwritten \in [Requests -> [Pods -> Seq(Orders)]]
    BY DEF TypeOK
<1>3. ASSUME NEW r \in Requests, Allocate(r) PROVE FALSE
    <2>1. at'[r] = "pool"
        BY <1>2, <1>3 DEF Allocate
    <2> QED
        BY <2>1 DEF Preparing
<1>4. ASSUME NEW r \in Requests, Restart(r) \/ CountPool(r) \/ ScaleDown(r) \/ ScaleUp(r)
      PROVE  Goal
    <2>1. /\ at[r] # "write"
          /\ \A q \in Requests : q # r => at'[q] = at[q]
          /\ UNCHANGED <<table, published, unwritten, latest, givenUp>>
        BY <1>2, <1>4 DEF Restart, MakeRequest, CountPool, ScaleDown, ScaleUp, ScaleService,
                          redis, losses
    <2> HIDE DEF Requests, Pods
    <2> QED
        BY <2>1 DEF OnItsWay, OnTopic, Unpushed
<1>5. ASSUME NEW r \in Requests, NEW p \in Pods, Push(r, p) PROVE Goal
    <2> DEFINE first == Head(unwritten[r][p])
               rest == Tail(unwritten[r][p])
    <2>1. unwritten[r][p] \in Seq(Orders) /\ unwritten[r][p] # <<>>
        BY <1>2, <1>5 DEF Push
    <2>2. /\ first \in Orders
          /\ Members(unwritten[r][p]) = {first} \cup Members(rest)
        BY <2>1, FirstAndRest
    <2>3. fails' = fails /\ fails' # fails + 1
        BY <1>1
    <2>4. /\ UNCHANGED <<published, at, latest, givenUp>>
          /\ table' = [table EXCEPT ![p] = <<first>> \o @]
          /\ unwritten' = [unwritten EXCEPT ![r][p] = Tail(@)]
          /\ at[r] = "write"
        BY <1>5, <2>3 DEF Push, CommandFails, losses
    <2>5. /\ table'[p] = <<first>> \o table[p]
          /\ \A q \in Pods : q # p => table'[q] = table[q]
        BY <1>2, <2>4
    <2>6. Members(table'[p]) = {first} \cup Members(table[p])
        <3>1. table[p] \in Seq(Orders)
            BY <1>2
        <3> QED
            BY <2>2, <2>5, <3>1, PutInFront
    <2>7. \A q \in Requests, d \in Pods :
             unwritten'[q][d] = IF q = r /\ d = p THEN rest ELSE unwritten[q][d]
        BY <1>2, <2>4
    <2> HIDE DEF first, rest, Requests, Pods
    <2>8. CASE o \in OnTopic
        BY <2>4, <2>8 DEF OnItsWay, OnTopic
    <2>9. CASE \E q \in Pods : o \in Members(table[q])
        BY <2>4, <2>5, <2>6, <2>9 DEF OnItsWay
    <2>10. CASE o \in givenUp
        BY <2>4, <2>10 DEF OnItsWay
    <2>11. CASE Unpushed(o)
        <3>1. PICK q \in Requests, d \in Pods :
                 at[q] = "write" /\ o \in Members(unwritten[q][d])
            BY <2>11 DEF Unpushed
        <3>2. CASE q = r /\ d = p /\ o = first
            BY <2>4, <2>6, <3>2 DEF OnItsWay
        <3>3. CASE ~(q = r /\ d = p /\ o = first)
            <4>1. o \in Members(unwritten'[q][d])
                BY <2>2, <2>7, <3>1, <3>3
            <4> QED
                BY <2>4, <3>1, <4>1 DEF OnItsWay, Unpushed
        <3> QED
            BY <3>2, <3>3
    <2> QED
        BY <2>8, <2>9, <2>10, <2>11 DEF OnItsWay
<1>6. ASSUME NEW r \in Requests, EndAllocation(r) PROVE Goal
    <2>1. /\ UNCHANGED <<table, published, unwritten, latest, givenUp>>
          /\ \A q \in Requests : q # r => at'[q] = at[q]
          /\ \A p \in Pods : unwritten[r][p] = <<>>
        BY <1>2, <1>6 DEF EndAllocation, redis, history, losses, NoWork
    <2>2. Members(<<>>) = {}
        BY DEF Members
    <2> HIDE DEF Requests, Pods
    <2> QED
        BY <2>1, <2>2 DEF OnItsWay, OnTopic, Unpushed
<1>7. ASSUME NEW r \in Requests, RequestStep(r) PROVE Goal
    <2>1. ~FindPool(r) /\ ~DeleteEntry(r) /\ ~EntriesDeleted(r) /\ ~Assign(r) /\ ~Panic(r)
        BY DEF FindPool, DeleteEntry, EntriesDeleted, Assign, Panic, Preparing
    <2> QED
        BY <1>4, <1>5, <1>6, <1>7, <2>1 DEF RequestStep
<1>8. ASSUME NEW p \in Pods, Gone(p) \/ Come(p) \/ ReadEntry(p) \/ CrashPod(p) PROVE Goal
    <2>1. UNCHANGED <<table, published, at, unwritten, latest, givenUp>>
        BY <1>8, ProcessFrame DEF redis, portal
    <2> QED
        BY <2>1 DEF OnItsWay, OnTopic, Unpushed
<1>9. ASSUME NEW p \in Pods, NEW w \in Workers, WorkerStep(p, w), ~CheckCount(p, w) PROVE Goal
    <2>1. UNCHANGED <<table, at, unwritten, latest, givenUp>>
        BY <1>9 DEF WorkerStep, TakeJob, PublishOrder, FinishTask, redis, portal, history, losses
    <2>2. o \in OnTopic => o \in OnTopic'
        <3>1. \/ published' = published
              \/ published' = [published EXCEPT ![Head(todo[p][w])] = @ + 1]
            BY <1>9 DEF WorkerStep, TakeJob, PublishOrder, FinishTask, redis
        <3>2. published \in [Orders -> Nat]
            BY DEF TypeOK
        <3> QED
            BY <3>1, <3>2 DEF OnTopic
    <2> QED
        BY <2>1, <2>2 DEF OnItsWay, Unpushed
<1>10. ASSUME NEW p \in Pods, NEW w \in Workers, CheckCount(p, w) PROVE Goal
    <2>1. /\ UNCHANGED <<published, at, unwritten, latest>>
          /\ \A q \in Pods : q # p => table'[q] = table[q]
          /\ pod[p] = "running" /\ ~Done(p)
        BY <1>10, WorkerFrame DEF WorkerStep, CheckCount, portal
    <2>2. fails' = fails /\ ~CommandFails
        BY <1>1 DEF CommandFails
    <2>3. \/ table' = table /\ givenUp' = givenUp
          \/ givenUp' = givenUp \cup ((Members(table[p]) \cap HasRead(p)) \ sent[p])
        BY <1>10, <2>2 DEF CheckCount, Purge
    <2>4. Members(table[p]) \subseteq HasRead(p) /\ sent[p] \subseteq OnTopic
        BY <1>1, <2>1 DEF NothingUnread, SentIsOnTopic, UsedWithCare
    <2>5. o \in Members(table[p]) => o \in OnTopic \/ o \in givenUp' \/ table' = table
        BY <2>3, <2>4
    <2>6. OnTopic' = OnTopic /\ givenUp \subseteq givenUp'
        BY <2>1, <2>3 DEF OnTopic
    <2> HIDE DEF Requests, Pods
    <2> QED
        BY <2>1, <2>5, <2>6 DEF OnItsWay, Unpushed
<1>11. CASE UNCHANGED vars
    BY <1>11 DEF vars, redis, portal, history, losses, OnItsWay, OnTopic, Unpushed
<1> QED
    BY <1>3, <1>4, <1>7, <1>8, <1>9, <1>10, <1>11 DEF Next, PodStep

(* Sharing the orders out loses a remainder.                               *)
LEMMA AssignLosesARemainder ==
    ASSUME TypeOK, NEW r \in Requests, Assign(r), workers[r] = Pods, inputs[r] = latest
    PROVE  ARemainder(LostOrders)'
<1> DEFINE split == AssignWorkload(latest, NumPods)
<1>1. latest \in Seq(Orders) /\ latest' = latest
    <2>1. <<>> \in Seq(Orders)
        OBVIOUS
    <2> QED
        BY <2>1, InputsAssumption DEF TypeOK, Assign, history
<1>2. unwritten'[r] = [p \in Pods |-> split[p]] /\ at'[r] = "write"
    BY SharesByNumber
<1>3. PICK m \in 0..Len(latest) :
          /\ \A i \in 1..m :
               \E w \in 1..NumPods : \E k \in 1..Len(split[w]) : split[w][k] = latest[i]
          /\ Len(latest) - m < NumPods
          /\ Len(latest) <= NumPods => m = Len(latest)
    <2> HIDE DEF Pods, Requests
    <2> SUFFICES ASSUME NEW list \in Seq(Orders), NEW n \in Nat \ {0}
                 PROVE  LET parts == AssignWorkload(list, n) IN
                          \E m \in 0..Len(list) :
                            /\ \A i \in 1..m :
                                 \E w \in 1..n : \E k \in 1..Len(parts[w]) : parts[w][k] = list[i]
                            /\ Len(list) - m < n
                            /\ Len(list) <= n => m = Len(list)
        BY <1>1, PodsAssumption, Zenon
    <2> QED
        BY AssignmentDropsARemainder, Zenon
<1> HIDE DEF split
<1> DEFINE rest == {latest[i] : i \in (m + 1)..Len(latest)}
<1>4. LostOrders' \subseteq rest
    <2> SUFFICES ASSUME NEW i \in 1..Len(latest), NEW o, o = latest[i], ~OnItsWay(o)'
                 PROVE  o \in rest
        BY <1>1 DEF LostOrders, Members
    <2>1. i \notin 1..m
        <3> SUFFICES ASSUME i \in 1..m PROVE FALSE
            OBVIOUS
        <3>1. PICK w \in Pods : \E k \in 1..Len(split[w]) : split[w][k] = o
            BY <1>3
        <3>2. o \in Members(unwritten'[r][w])
            BY <1>2, <3>1 DEF Members
        <3>3. Unpushed(o)'
            BY <1>2, <3>2 DEF Unpushed
        <3> QED
            BY <3>3 DEF OnItsWay
    <2>2. i \in (m + 1)..Len(latest)
        BY <1>1, <2>1
    <2> QED
        BY <2>2
<1>5. IsFiniteSet(rest) /\ Cardinality(rest) <= Len(latest) - m
    <2>1. m \in Nat /\ m <= Len(latest)
        BY <1>1
    <2> QED
        BY <1>1, <2>1, FiniteMembers
<1>6. LostOrders' \in SUBSET rest
    BY <1>4
<1>7. /\ Cardinality(LostOrders') <= Cardinality(rest)
      /\ Cardinality(LostOrders') \in Nat /\ Cardinality(rest) \in Nat
    BY <1>5, <1>6, FS_Subset, FS_CardinalityType
<1>8. Cardinality(LostOrders') < NumPods
    BY <1>1, <1>3, <1>5, <1>7, PodsAssumption
<1>9. ASSUME Len(latest) <= NumPods PROVE LostOrders' = {}
    <2>1. m = Len(latest) /\ m \in Nat
        BY <1>1, <1>3, <1>9
    <2>2. rest = {}
        BY <2>1
    <2> QED
        BY <1>6, <2>2
<1> HIDE DEF rest
<1> QED
    BY <1>1, <1>8, <1>9 DEF ARemainder

LEMMA RestInductive ==
    TypeOK /\ TypeOK' /\ OneAtATime /\ NoProcess /\ FailuresShow /\ SentIsOnTopic /\ AllocatesInQuiet
        /\ NothingUnread /\ Prepares /\ RestIsLost /\ [Next]_vars => RestIsLost'
<1> SUFFICES ASSUME TypeOK, TypeOK', OneAtATime, NoProcess, FailuresShow, SentIsOnTopic,
                    AllocatesInQuiet, NothingUnread, Prepares, RestIsLost, [Next]_vars,
                    hasty' = 0, calm', fails' = 0,
                    \A r \in Requests : at'[r] \notin Preparing
             PROVE  ARemainder(LostOrders)'
    BY DEF RestIsLost, UsedWithCare
<1>1. hasty = 0 /\ calm /\ fails = 0
    BY NextFlags
<1>2. CASE \A r \in Requests : at[r] \notin Preparing
    <2>1. ARemainder(LostOrders)
        BY <1>1, <1>2 DEF RestIsLost, UsedWithCare
    <2>2. Members(latest) \subseteq Orders
        <3>1. <<>> \in Seq(Orders)
            OBVIOUS
        <3>2. latest \in Seq(Orders)
            BY <3>1, InputsAssumption DEF TypeOK
        <3> QED
            BY <3>2 DEF Members
    <2>3. CASE latest' = latest
        <3>1. \A o \in Members(latest) : OnItsWay(o) => OnItsWay(o)'
            BY <1>2, <2>2, OrdersStayOnTheirWay
        <3>2. LostOrders' \in SUBSET LostOrders
            BY <2>3, <3>1 DEF LostOrders
        <3>3. ARemainder(LostOrders')
            BY <2>1, <3>2, RemainderShrinks
        <3> QED
            BY <2>3, <3>3 DEF ARemainder
    <2>4. CASE latest' # latest
        <3>1. PICK r \in Requests : Allocate(r)
            BY <2>4, RequestsLeavePods, PodsLeaveRequests
            DEF Next, Restart, history, vars
        <3>2. at'[r] = "pool"
            BY <3>1 DEF Allocate, TypeOK
        <3> QED
            BY <3>2 DEF Preparing
    <2> QED
        BY <2>3, <2>4
<1>3. ASSUME NEW q \in Requests, at[q] \in Preparing
      PROVE  ARemainder(LostOrders)'
    <2>1. q \in UnderWay /\ at[q] \in Allocating /\ at'[q] \notin Preparing
        BY <1>3 DEF UnderWay, Allocating, Preparing
    <2>2. /\ inputs[q] = latest
          /\ at[q] \in {"delete", "assign"} => workers[q] = Pods
        BY <1>1, <1>3 DEF Prepares, UsedWithCare
    <2>3. ASSUME NEW r \in Requests, Allocate(r) \/ Restart(r) PROVE FALSE
        BY <2>1, <2>3, NewRequest
    <2>4. ASSUME NEW r \in Requests, RequestStep(r) PROVE Assign(q)
        <3>1. r = q
            BY <1>1, <2>1, <2>4, RequestMoves DEF OneAtATime
        <3>2. ~FindPool(q) /\ ~DeleteEntry(q) /\ ~EntriesDeleted(q)
            BY <1>3, <2>1 DEF FindPool, DeleteEntry, EntriesDeleted, TypeOK, Preparing
        <3>3. ~Panic(q)
            <4>1. 1 \in Pods
                BY PodsAssumption
            <4> QED
                BY <2>2, <4>1 DEF Panic
        <3>4. ~(\E p \in Pods : Push(q, p)) /\ ~EndAllocation(q)
            BY <1>3 DEF Push, EndAllocation, Preparing
        <3>5. ~CountPool(q) /\ ~ScaleDown(q) /\ ~ScaleUp(q)
            BY <1>3 DEF CountPool, ScaleDown, ScaleUp, ScaleService, Preparing
        <3> QED
            BY <2>4, <3>1, <3>2, <3>3, <3>4, <3>5 DEF RequestStep
    <2>5. ASSUME NEW p \in Pods, PodStep(p) \/ CrashPod(p) PROVE FALSE
        BY <1>1, <2>1, <2>5, PodsAreStill
    <2>6. ~UNCHANGED vars
        BY <1>3, <2>1 DEF vars, portal
    <2>7. Assign(q)
        BY <2>3, <2>4, <2>5, <2>6 DEF Next
    <2> QED
        BY <2>2, <2>7, AssignLosesARemainder DEF Assign
<1> QED
    BY <1>2, <1>3

LEMMA KeptInit == Init => KeptInv
<1> SUFFICES ASSUME Init PROVE KeptInv
    OBVIOUS
<1>1. DropInv
    BY DropInit
<1>2. Prepares
    BY DEF Init, Prepares, Preparing
<1>3. Members(latest) = {} /\ Len(latest) = 0
    BY DEF Init, Members
<1>4. LostOrders = {}
    BY <1>3 DEF LostOrders
<1>5. Cardinality(LostOrders) = 0
    BY <1>4, FS_EmptySet
<1>6. ARemainder(LostOrders)
    BY <1>4, <1>5, PodsAssumption DEF ARemainder
<1> QED
    BY <1>1, <1>2, <1>6 DEF KeptInv, RestIsLost

LEMMA KeptNext == KeptInv /\ [Next]_vars => KeptInv'
<1> SUFFICES ASSUME KeptInv, [Next]_vars PROVE KeptInv'
    OBVIOUS
<1>1. /\ TypeOK /\ OneAtATime /\ NoProcess /\ FailuresShow /\ SentIsOnTopic
      /\ AllocatesInQuiet /\ NothingUnread /\ Prepares /\ RestIsLost
    BY DEF KeptInv, DropInv
<1>2. DropInv' /\ TypeOK'
    BY DropNext DEF KeptInv, DropInv
<1> QED
    BY <1>1, <1>2, PreparesInductive, RestInductive DEF KeptInv

(* With careful use, and no command failed, an allocated order is in the   *)
(* table or on the topic once the allocation has ended, or a pod that had  *)
(* read it has given it up, but for a remainder of fewer orders than there *)
(* are pods, for any number of requests, pods, workers, jobs, orders and   *)
(* crashes.  (assign_message_workload_workers)                             *)
THEOREM AllocationKeepsOrders == Spec => []AllocatedOrdersKept
<1>1. Spec => []KeptInv
    BY KeptInit, KeptNext, PTL DEF Spec
<1>2. KeptInv => AllocatedOrdersKept
    <2> SUFFICES ASSUME KeptInv, UsedWithCare, fails = 0, UnderWay = {}
                 PROVE  LET lost == Members(latest) \ (InTable \cup OnTopic \cup givenUp) IN
                          /\ Cardinality(lost) < NumPods
                          /\ Len(latest) <= NumPods => lost = {}
        BY DEF AllocatedOrdersKept
    <2>1. \A r \in Requests : at[r] \notin Preparing /\ at[r] # "write"
        BY DEF UnderWay, Allocating, Preparing
    <2>2. ARemainder(LostOrders)
        BY <2>1 DEF KeptInv, RestIsLost
    <2>3. LostOrders = Members(latest) \ (InTable \cup OnTopic \cup givenUp)
        BY <2>1 DEF LostOrders, OnItsWay, Unpushed, InTable
    <2> QED
        BY <2>2, <2>3 DEF ARemainder
<1> QED
    BY <1>1, <1>2, PTL
-----------------------------------------------------------------------------
(* With careful use an order is published once                             *)

(* No order twice, in one list or in two.                                  *)
Apart(lists) ==
    \A p \in Pods :
        /\ Distinct(lists[p])
        /\ \A q \in Pods : q # p => Members(lists[p]) \cap Members(lists[q]) = {}

TableIsClean == UsedWithCare /\ ~leftovers

(* An order is in one entry, or about to be pushed to one.                 *)
EntriesApart ==
    TableIsClean =>
        /\ Apart(table)
        /\ \A r \in Requests : at[r] = "write" =>
              /\ Apart(unwritten[r])
              /\ \A p, q \in Pods : Members(table[p]) \cap Members(unwritten[r][q]) = {}

(* What a pod can still publish is in its entry or in its memory.          *)
AtWork(p) == pod[p] = "running" /\ ~Done(p)

Hold(p) == IF AtWork(p) THEN HasRead(p) ELSE {}

Reach(p) == Members(table[p]) \cup Hold(p)

ReachesApart ==
    TableIsClean => \A p, q \in Pods : p # q => Reach(p) \cap Reach(q) = {}

(* An order is with one worker of its pod, which works on a part of its    *)
(* share.                                                                  *)
SharesApart ==
    TableIsClean => \A p \in Pods : AtWork(p) => \A w \in Workers :
        /\ Distinct(share[p][w])
        /\ \A v \in Workers : v # w => Members(share[p][v]) \cap Members(share[p][w]) = {}
        /\ state[p][w] = "busy" =>
              Distinct(todo[p][w]) /\ Members(todo[p][w]) \subseteq Members(share[p][w])

(* What a worker, and a pod, will publish unless something is repeated.    *)
Open(p, w) ==
    IF state[p][w] = "busy" THEN Members(todo[p][w])
    ELSE IF state[p][w] = "new" /\ ~Done(p) THEN Members(share[p][w]) ELSE {}

Awaits(p) == (Members(table[p]) \ sent[p]) \cup UNION {Open(p, w) : w \in Workers}

Awaited(o) == \E p \in Pods : o \in Awaits(p)

(* An order that is still to be published was published at most once for   *)
(* each repetition; none was while a request allocates.                    *)
PassesCount ==
    TableIsClean =>
        IF \E r \in Requests : at[r] \in Allocating
        THEN \A o \in Orders : published[o] = 0
        ELSE \A o \in Orders : published[o] <= IF Awaited(o) THEN repeats ELSE 1 + repeats

OnceInv == KeptInv /\ EntriesApart /\ ReachesApart /\ SharesApart /\ PassesCount

LEMMA ApartShrinks ==
    ASSUME NEW lists \in [Pods -> Seq(Orders)], Apart(lists), NEW p \in Pods,
           NEW list \in Seq(Orders), Distinct(list), Members(list) \subseteq Members(lists[p])
    PROVE  Apart([lists EXCEPT ![p] = list])
<1> DEFINE fewer == [lists EXCEPT ![p] = list]
<1>1. \A q \in Pods : fewer[q] = IF q = p THEN list ELSE lists[q]
    OBVIOUS
<1> HIDE DEF fewer, Pods
<1>2. Apart(fewer)
    BY <1>1 DEF Apart
<1> QED
    BY <1>2 DEF fewer

LEMMA ApartGrows ==
    ASSUME NEW lists \in [Pods -> Seq(Orders)], Apart(lists), NEW p \in Pods,
           NEW o \in Orders, \A q \in Pods : o \notin Members(lists[q])
    PROVE  Apart([lists EXCEPT ![p] = <<o>> \o @])
<1> DEFINE more == [lists EXCEPT ![p] = <<o>> \o @]
           longer == <<o>> \o lists[p]
<1>1. \A q \in Pods : more[q] = IF q = p THEN longer ELSE lists[q]
    OBVIOUS
<1>2. lists[p] \in Seq(Orders)
    OBVIOUS
<1>3. Members(longer) = {o} \cup Members(lists[p]) /\ Distinct(longer)
    BY <1>2, PutInFront DEF Apart
<1> HIDE DEF more, longer, Pods
<1>4. Apart(more)
    BY <1>1, <1>3 DEF Apart
<1> QED
    BY <1>4 DEF more

LEMMA EmptyList == Distinct(<<>>) /\ Members(<<>>) = {}
BY DEF Distinct, Members

LEMMA EmptyIsApart ==
    ASSUME NEW lists, \A p \in Pods : lists[p] = <<>>
    PROVE  Apart(lists)
BY EmptyList, Zenon DEF Apart

(* The shares of an allocation are apart.                                  *)
LEMMA SharesAreApart ==
    ASSUME TypeOK, NEW r \in Requests, Assign(r), workers[r] = Pods
    PROVE  Apart(unwritten'[r])
<1> DEFINE split == AssignWorkload(inputs[r], NumPods)
<1>1. inputs[r] \in Seq(Orders) /\ Distinct(inputs[r])
    <2>1. <<>> \in Seq(Orders) /\ Distinct(<<>>)
        BY EmptyList
    <2>2. inputs[r] \in Inputs \cup {<<>>}
        BY DEF TypeOK
    <2> QED
        BY <2>1, <2>2, InputsAssumption, DistinctAssumption
<1>2. \A v, w \in Pods : \A i \in 1..Len(split[v]), j \in 1..Len(split[w]) :
         (v # w \/ i # j) => split[v][i] # split[w][j]
    <2> HIDE DEF Pods, Requests
    <2> SUFFICES ASSUME NEW list \in Seq(Orders), NEW n \in Nat \ {0},
                        \A i, j \in 1..Len(list) : i # j => list[i] # list[j]
                 PROVE  LET parts == AssignWorkload(list, n) IN
                          \A v, w \in 1..n : \A i \in 1..Len(parts[v]), j \in 1..Len(parts[w]) :
                            (v # w \/ i # j) => parts[v][i] # parts[w][j]
        BY <1>1, PodsAssumption, Zenon DEF Distinct, Pods
    <2> QED
        BY AssignmentIsOnce, Zenon
<1>3. \A p \in Pods : unwritten'[r][p] = split[p]
    BY SharesByNumber
<1> HIDE DEF split, Pods, Requests
<1> QED
    BY <1>2, <1>3 DEF Apart, Distinct, Members

LEMMA EntriesInductive ==
    TypeOK /\ OneAtATime /\ Prepares /\ EntriesApart /\ [Next]_vars => EntriesApart'
<1> SUFFICES ASSUME TypeOK, OneAtATime, Prepares, EntriesApart, [Next]_vars,
                    hasty' = 0, calm', ~leftovers'
             PROVE  /\ Apart(table')
                    /\ \A r \in Requests : at'[r] = "write" =>
                          /\ Apart(unwritten'[r])
                          /\ \A p, q \in Pods :
                                Members(table'[p]) \cap Members(unwritten'[r][q]) = {}
    BY DEF EntriesApart, TableIsClean, UsedWithCare, Apart, Members
<1> DEFINE Entries == Apart(table')
           Writes == \A r \in Requests : at'[r] = "write" =>
                        /\ Apart(unwritten'[r])
                        /\ \A p, q \in Pods :
                              Members(table'[p]) \cap Members(unwritten'[r][q]) = {}
           Goal == Entries /\ Writes
<1>1. hasty = 0 /\ calm /\ ~leftovers
    BY NextFlags
<1>2. /\ Apart(table)
      /\ \A r \in Requests : at[r] = "write" =>
            /\ Apart(unwritten[r])
            /\ \A p, q \in Pods : Members(table[p]) \cap Members(unwritten[r][q]) = {}
    BY <1>1 DEF EntriesApart, TableIsClean, UsedWithCare
<1>3. /\ at \in [Requests -> {"new", "ended", "dead"} \cup Allocating \cup Restarting]
      /\ table \in [Pods -> Seq(Orders)]
      /\ unwritten \in [Requests -> [Pods -> Seq(Orders)]]
    BY DEF TypeOK
<1>4. \A r, q \in Requests : at[r] \in Allocating /\ at[q] = "write" => q = r
    BY <1>1 DEF OneAtATime, UnderWay, Allocating
<1>5. ASSUME NEW r \in Requests, Allocate(r) \/ Restart(r) PROVE Goal
    <2>1. UNCHANGED table
        BY <1>5 DEF Allocate, Restart, redis
    <2>2. UnderWay' = {r} /\ at'[r] # "write"
        BY <1>5, NewRequest
    <2>3. \A q \in Requests : at'[q] # "write"
        BY <2>2 DEF UnderWay, Allocating
    <2> QED
        BY <1>2, <2>1, <2>3
<1>6. ASSUME NEW r \in Requests, DeleteEntry(r) PROVE Goal
    <2>1. at[r] = "delete" /\ at' = at
        BY <1>6 DEF DeleteEntry
    <2>2. \A q \in Requests : at'[q] # "write"
        BY <1>4, <2>1 DEF Allocating
    <2>3. PICK p \in stale[r] : table' = table \/ table' = [table EXCEPT ![p] = <<>>]
        BY <1>6 DEF DeleteEntry
    <2>4. Entries
        <3>1. p \in Pods /\ <<>> \in Seq(Orders)
            BY DEF TypeOK
        <3>2. ASSUME table' = [table EXCEPT ![p] = <<>>] PROVE Entries
            BY <1>2, <1>3, <3>1, <3>2, EmptyList, ApartShrinks
        <3> QED
            BY <1>2, <2>3, <3>2
    <2> QED
        BY <2>2, <2>4
<1>7. ASSUME NEW r \in Requests, Assign(r) PROVE Goal
    <2>1. at[r] = "assign" /\ UNCHANGED table
        BY <1>7 DEF Assign, redis
    <2>2. workers[r] = Pods /\ \A p \in Pods : table[p] = <<>>
        BY <1>1, <1>7, <2>1 DEF Assign, Prepares, UsedWithCare
    <2>3. Apart(unwritten'[r])
        BY <1>7, <2>2, SharesAreApart
    <2>4. \A q \in Requests : at'[q] = "write" => q = r
        BY <1>3, <1>4, <1>7, <2>1 DEF Assign, Allocating
    <2>5. \A p \in Pods : Members(table'[p]) = {}
        BY <2>1, <2>2, EmptyList
    <2> QED
        BY <1>2, <2>1, <2>3, <2>4, <2>5
<1>8. ASSUME NEW r \in Requests, NEW p \in Pods, Push(r, p) PROVE Goal
    <2> DEFINE first == Head(unwritten[r][p])
               rest == Tail(unwritten[r][p])
               shares == unwritten[r]
    <2>1. /\ shares \in [Pods -> Seq(Orders)]
          /\ shares[p] \in Seq(Orders) /\ shares[p] # <<>>
        BY <1>3, <1>8 DEF Push
    <2>2. at[r] = "write" /\ at' = at
        BY <1>8 DEF Push
    <2>3. /\ Apart(shares)
          /\ \A d, q \in Pods : Members(table[d]) \cap Members(shares[q]) = {}
        BY <1>2, <2>2
    <2>4. /\ first \in Orders /\ rest \in Seq(Orders)
          /\ Members(shares[p]) = {first} \cup Members(rest)
          /\ Distinct(rest) /\ first \notin Members(rest)
        BY <2>1, <2>3, FirstAndRest DEF Apart
    <2>5. unwritten'[r] = [shares EXCEPT ![p] = rest]
        BY <1>3, <1>8 DEF Push
    <2>6. Apart(unwritten'[r])
        <3> HIDE DEF shares, first, rest
        <3>1. Members(rest) \subseteq Members(shares[p])
            BY <2>4
        <3>2. Apart([shares EXCEPT ![p] = rest])
            BY <2>1, <2>3, <2>4, <3>1, ApartShrinks
        <3> QED
            BY <2>5, <3>2
    <2>7. \A q \in Pods : /\ Members(unwritten'[r][q]) \subseteq Members(shares[q])
                          /\ first \notin Members(unwritten'[r][q])
        BY <2>1, <2>3, <2>4, <2>5 DEF Apart
    <2>8. Entries /\ \A q \in Pods : Members(table'[q]) \subseteq {first} \cup Members(table[q])
        <3>1. CASE table' = table
            BY <1>2, <3>1
        <3>2. CASE table' = [table EXCEPT ![p] = <<first>> \o @]
            <4>1. \A q \in Pods : first \notin Members(table[q])
                BY <2>3, <2>4
            <4>2. Entries
                BY <1>2, <1>3, <2>4, <3>2, <4>1, ApartGrows
            <4>3. table[p] \in Seq(Orders)
                BY <1>3
            <4>4. Members(<<first>> \o table[p]) = {first} \cup Members(table[p])
                BY <2>4, <4>3, PutInFront
            <4>5. \A q \in Pods : table'[q] = IF q = p THEN <<first>> \o table[p] ELSE table[q]
                BY <1>3, <3>2
            <4> QED
                BY <4>2, <4>4, <4>5
        <3> QED
            BY <1>8, <3>1, <3>2 DEF Push
    <2>9. \A q \in Requests : at[q] = "write" => q = r
        BY <1>4, <2>2 DEF Allocating
    <2> HIDE DEF first, rest, Entries, Pods, Requests
    <2>10. Writes
        BY <2>2, <2>3, <2>6, <2>7, <2>8, <2>9
    <2> QED
        BY <2>8, <2>10
<1>9. ASSUME NEW r \in Requests, RequestStep(r), ~DeleteEntry(r), ~Assign(r),
             ~\E p \in Pods : Push(r, p)
      PROVE  Goal
    <2>1. UNCHANGED <<table, unwritten>>
        BY <1>9 DEF RequestStep, FindPool, CountPool, EntriesDeleted, Panic, EndAllocation,
                    ScaleDown, ScaleUp, ScaleService, redis
    <2>2. \A q \in Requests : at'[q] = "write" => at[q] = "write"
        BY <1>3, <1>9 DEF RequestStep, FindPool, CountPool, EntriesDeleted, Panic, EndAllocation,
                          ScaleDown, ScaleUp, ScaleService
    <2> QED
        BY <1>2, <2>1, <2>2
<1>10. ASSUME NEW p \in Pods, PodStep(p) \/ CrashPod(p) PROVE Goal
    <2>1. table' = table \/ table' = [table EXCEPT ![p] = <<>>]
        BY <1>10 DEF PodStep, WorkerStep, Gone, Come, ReadEntry, TakeJob, PublishOrder, FinishTask,
                     CheckCount, Purge, EntryPurged, CrashPod, redis
    <2>2. Entries
        <3>1. <<>> \in Seq(Orders)
            OBVIOUS
        <3>2. ASSUME table' = [table EXCEPT ![p] = <<>>] PROVE Entries
            BY <1>2, <1>3, <3>1, <3>2, EmptyList, ApartShrinks
        <3> QED
            BY <1>2, <2>1, <3>2
    <2>3. \A q \in Pods : Members(table'[q]) \subseteq Members(table[q])
        <3>1. \A q \in Pods : table'[q] = table[q] \/ table'[q] = <<>>
            BY <1>3, <2>1
        <3> QED
            BY <3>1, EmptyList
    <2>4. UNCHANGED <<at, unwritten>>
        BY <1>10, PodsLeaveRequests DEF portal
    <2> HIDE DEF Entries, Pods, Requests
    <2> QED
        BY <1>2, <2>2, <2>3, <2>4
<1>11. CASE UNCHANGED vars
    BY <1>2, <1>11 DEF vars, redis, portal
<1> QED
    BY <1>5, <1>6, <1>7, <1>8, <1>9, <1>10, <1>11 DEF Next

(* What a pod can still publish, and what it will, depends on these only.  *)
LEMMA SameWork ==
    ASSUME NEW p \in Pods, UNCHANGED <<pod[p], jobs[p], state[p], share[p]>>
    PROVE  /\ Done(p)' = Done(p) /\ AtWork(p)' = AtWork(p) /\ Hold(p)' = Hold(p)
           /\ UNCHANGED <<table[p], todo[p], sent[p]>> => Awaits(p)' = Awaits(p)
<1>1. Done(p)' = Done(p) /\ AtWork(p)' = AtWork(p)
    BY DEF Done, Waiting, AtWork
<1>2. HasRead(p)' = HasRead(p)
    BY DEF HasRead, Members
<1>3. Hold(p)' = Hold(p)
    BY <1>1, <1>2 DEF Hold
<1>4. ASSUME UNCHANGED <<table[p], todo[p], sent[p]>> PROVE Awaits(p)' = Awaits(p)
    <2>1. \A w \in Workers : Open(p, w)' = Open(p, w)
        BY <1>1, <1>4 DEF Open, Members
    <2>2. (Members(table[p]) \ sent[p])' = Members(table[p]) \ sent[p]
        BY <1>4 DEF Members
    <2> QED
        BY <2>1, <2>2 DEF Awaits
<1> QED
    BY <1>1, <1>3, <1>4

LEMMA ReachesInductive ==
    TypeOK /\ NoProcess /\ AllocatesInQuiet /\ EntriesApart' /\ ReachesApart /\ [Next]_vars
        => ReachesApart'
<1> SUFFICES ASSUME TypeOK, NoProcess, AllocatesInQuiet, EntriesApart', ReachesApart,
                    [Next]_vars, hasty' = 0, calm', ~leftovers'
             PROVE  \A p, q \in Pods : p # q => Reach(p)' \cap Reach(q)' = {}
    BY DEF ReachesApart, TableIsClean, UsedWithCare
<1> DEFINE Goal == \A p, q \in Pods : p # q => Reach(p)' \cap Reach(q)' = {}
<1>1. hasty = 0 /\ calm /\ ~leftovers
    BY NextFlags
<1>2. \A p, q \in Pods : p # q => Reach(p) \cap Reach(q) = {}
    BY <1>1 DEF ReachesApart, TableIsClean, UsedWithCare
<1>3. ASSUME \A p \in Pods : Reach(p)' \subseteq Reach(p) PROVE Goal
    BY <1>2, <1>3
<1>4. ASSUME NEW q \in Pods, UNCHANGED <<table[q], pod[q], jobs[q], state[q], share[q]>>
      PROVE  Reach(q)' = Reach(q)
    BY <1>4, SameWork DEF Reach, Members
<1>5. ASSUME NEW r \in Requests, Allocate(r) \/ Restart(r) PROVE Goal
    <2>1. UNCHANGED <<table, pod, jobs, state, share>>
        BY <1>5 DEF Allocate, Restart, redis, cluster, processes
    <2> QED
        BY <1>3, <1>4, <2>1
<1>6. ASSUME NEW r \in Requests, RequestStep(r) PROVE Goal
    <2>1. UNCHANGED <<pod, jobs, state, share>>
        BY <1>6, RequestsLeavePods DEF processes
    <2>2. CASE at[r] \in Allocating
        <3>1. \A q \in Pods : Done(q)
            BY <1>1, <2>2 DEF AllocatesInQuiet, UsedWithCare
        <3>2. \A q \in Pods : Reach(q)' = Members(table[q])'
            BY <2>1, <3>1, SameWork DEF Reach, Hold, AtWork
        <3>3. Apart(table)'
            BY DEF EntriesApart, TableIsClean, UsedWithCare
        <3>4. \A p, q \in Pods : q # p => Members(table[p])' \cap Members(table[q])' = {}
            BY <3>3 DEF Apart, Members
        <3> QED
            BY <3>2, <3>4
    <2>3. CASE at[r] \notin Allocating
        <3>1. UNCHANGED table
            BY <1>6, <2>3 DEF RequestStep, FindPool, CountPool, DeleteEntry, EntriesDeleted, Assign,
                              Panic, Push, EndAllocation, ScaleDown, ScaleUp, ScaleService, redis,
                              Allocating
        <3> QED
            BY <1>3, <1>4, <2>1, <3>1
    <2> QED
        BY <2>2, <2>3
<1>7. ASSUME NEW p \in Pods, Gone(p) \/ Come(p) \/ ReadEntry(p) \/ CrashPod(p) PROVE Goal
    <2>1. table' = table
        BY <1>7, ProcessFrame DEF redis
    <2>2. \A q \in Pods : q # p => Reach(q)' \subseteq Reach(q)
        BY <1>4, <1>7, <2>1, ProcessFrame
    <2>3. Members(table[p])' = Members(table[p])
        BY <2>1 DEF Members
    <2>4. Hold(p)' \subseteq Members(table[p])
        <3>1. CASE pod'[p] # "running"
            BY <3>1 DEF Hold, AtWork
        <3>2. CASE pod'[p] = "running"
            <4>1. ReadEntry(p)
                BY <1>7, <3>2, ProcessFrame
            <4>2. CASE share' = [share EXCEPT ![p] = DivideAndConquer(table[p], NumWorkers)]
                BY <4>2, ReadsItAll DEF Hold
            <4>3. CASE share' = share
                <5>1. share'[p] = NoShares
                    BY <4>1, <4>3 DEF ReadEntry, NoProcess
                <5>2. HasRead(p)' = UNION {Members(share'[p][w]) : w \in Workers}
                    BY DEF HasRead, Members
                <5>3. \A w \in Workers : Members(share'[p][w]) = {}
                    BY <5>1, EmptyList DEF NoShares
                <5> QED
                    BY <5>2, <5>3 DEF Hold
            <4> QED
                BY <4>1, <4>2, <4>3 DEF ReadEntry, WholeRange
        <3> QED
            BY <3>1, <3>2
    <2>5. Reach(p)' \subseteq Reach(p)
        BY <2>3, <2>4 DEF Reach
    <2> QED
        BY <1>3, <2>2, <2>5
<1>8. ASSUME NEW p \in Pods, NEW w \in Workers, WorkerStep(p, w) PROVE Goal
    <2>1. \A q \in Pods : q # p => Reach(q)' \subseteq Reach(q)
        BY <1>4, <1>8, WorkerFrame
    <2>2. AtWork(p) /\ HasRead(p)' = HasRead(p)
        BY <1>8, WorkerFrame DEF AtWork, HasRead, Members
    <2>3. Members(table[p])' \subseteq Members(table[p])
        <3>1. table'[p] = table[p] \/ table'[p] = <<>>
            BY <1>8 DEF WorkerStep, TakeJob, PublishOrder, FinishTask, CheckCount, Purge,
                        EntryPurged, redis, TypeOK
        <3>2. Members(table[p])' = Members(table'[p])
            BY DEF Members
        <3> QED
            BY <3>1, <3>2, EmptyList
    <2>4. Reach(p)' \subseteq Reach(p)
        BY <2>2, <2>3 DEF Reach, Hold
    <2> QED
        BY <1>3, <2>1, <2>4
<1>9. CASE UNCHANGED vars
    BY <1>3, <1>4, <1>9 DEF vars, redis, cluster, processes
<1> QED
    BY <1>5, <1>6, <1>7, <1>8, <1>9 DEF Next, PodStep

(* What a step of a worker does to its pod's workers.                      *)
LEMMA WorkerEffect ==
    ASSUME TypeOK, NEW p \in Pods, NEW w \in Workers, WorkerStep(p, w)
    PROVE  /\ \A v \in Workers : v # w =>
                 state'[p][v] = state[p][v] /\ todo'[p][v] = todo[p][v]
           /\ TakeJob(p, w) => state'[p][w] = "busy" /\ todo'[p][w] = share[p][w]
           /\ PublishOrder(p, w) =>
                 state'[p][w] = state[p][w] /\ todo'[p][w] = Tail(todo[p][w])
           /\ (FinishTask(p, w) \/ CheckCount(p, w)) => state'[p][w] \in {"check", "idle"}
<1> DEFINE States == {"new", "busy", "check", "idle"}
<1>1. /\ state \in [Pods -> [Workers -> States]]
      /\ todo \in [Pods -> [Workers -> Seq(Orders)]]
      /\ share \in [Pods -> [Workers -> Seq(Orders)]]
    BY DEF TypeOK
<1>2. \A u \in States : /\ [state EXCEPT ![p][w] = u][p][w] = u
                        /\ \A v \in Workers : v # w => [state EXCEPT ![p][w] = u][p][v] = state[p][v]
    <2> HIDE DEF Pods, States
    <2> QED
        BY <1>1, Replaced
<1>3. \A list \in Seq(Orders) :
         /\ [todo EXCEPT ![p][w] = list][p][w] = list
         /\ \A v \in Workers : v # w => [todo EXCEPT ![p][w] = list][p][v] = todo[p][v]
    <2> HIDE DEF Pods
    <2> QED
        BY <1>1, Replaced
<1>4. CASE TakeJob(p, w)
    <2>1. share[p][w] \in Seq(Orders)
        BY <1>1
    <2>2. /\ todo' = [todo EXCEPT ![p][w] = share[p][w]]
          /\ state' = [state EXCEPT ![p][w] = "busy"]
        BY <1>4 DEF TakeJob
    <2>3. Waiting(p, w)
        BY <1>4 DEF TakeJob
    <2> QED
        BY <1>2, <1>3, <2>1, <2>2, <2>3 DEF PublishOrder, FinishTask, CheckCount, Waiting
<1>5. CASE PublishOrder(p, w)
    <2>1. todo[p][w] \in Seq(Orders) /\ todo[p][w] # <<>>
        BY <1>1, <1>5 DEF PublishOrder
    <2>2. Tail(todo[p][w]) \in Seq(Orders)
        BY <2>1
    <2>3. todo' = [todo EXCEPT ![p][w] = Tail(todo[p][w])] /\ state' = state
        BY <1>5 DEF PublishOrder
    <2>4. state[p][w] = "busy"
        BY <1>5 DEF PublishOrder
    <2> QED
        BY <1>3, <2>1, <2>2, <2>3, <2>4 DEF TakeJob, Waiting, FinishTask, CheckCount
<1>6. CASE FinishTask(p, w) \/ CheckCount(p, w)
    <2>1. PICK u \in {"check", "idle"} : state' = [state EXCEPT ![p][w] = u]
        BY <1>6 DEF FinishTask, CheckCount
    <2>2. todo' = todo
        BY <1>6 DEF FinishTask, CheckCount
    <2>3. ~TakeJob(p, w)
        BY <1>6 DEF FinishTask, CheckCount, TakeJob, Waiting
    <2>4. ~PublishOrder(p, w)
        BY <1>6 DEF FinishTask, CheckCount, PublishOrder
    <2> QED
        BY <1>2, <2>1, <2>2, <2>3, <2>4
<1> QED
    BY <1>4, <1>5, <1>6 DEF WorkerStep

LEMMA SharesInductive ==
    TypeOK /\ NoProcess /\ EntriesApart /\ SharesApart /\ [Next]_vars => SharesApart'
<1> SUFFICES ASSUME TypeOK, NoProcess, EntriesApart, SharesApart, [Next]_vars,
                    hasty' = 0, calm', ~leftovers', NEW q \in Pods, AtWork(q)'
             PROVE  \A w \in Workers :
                       /\ Distinct(share'[q][w])
                       /\ \A v \in Workers : v # w =>
                             Members(share'[q][v]) \cap Members(share'[q][w]) = {}
                       /\ state'[q][w] = "busy" =>
                             /\ Distinct(todo'[q][w])
                             /\ Members(todo'[q][w]) \subseteq Members(share'[q][w])
    BY DEF SharesApart, TableIsClean, UsedWithCare, Distinct, Members
<1> DEFINE Shared(s) == \A w \in Workers :
               /\ Distinct(s[w])
               /\ \A v \in Workers : v # w => Members(s[v]) \cap Members(s[w]) = {}
           Worked(s, st, t) == \A w \in Workers :
               st[w] = "busy" => Distinct(t[w]) /\ Members(t[w]) \subseteq Members(s[w])
           Goal == Shared(share'[q]) /\ Worked(share'[q], state'[q], todo'[q])
<1> SUFFICES Goal
    OBVIOUS
<1>1. hasty = 0 /\ calm /\ ~leftovers
    BY NextFlags
<1>2. AtWork(q) => Shared(share[q]) /\ Worked(share[q], state[q], todo[q])
    BY <1>1 DEF SharesApart, TableIsClean, UsedWithCare
<1>3. ASSUME UNCHANGED <<pod[q], jobs[q], state[q], share[q], todo[q]>> PROVE Goal
    <2>1. AtWork(q)
        BY <1>3, SameWork
    <2> HIDE DEF Shared, Worked
    <2> QED
        BY <1>2, <1>3, <2>1
<1>4. ASSUME NEW r \in Requests, Allocate(r) \/ Restart(r) \/ RequestStep(r) PROVE Goal
    <2>1. UNCHANGED <<pod, jobs, state, share, todo>>
        BY <1>4, RequestsLeavePods DEF Allocate, Restart, cluster, processes
    <2> HIDE DEF Goal
    <2> QED
        BY <1>3, <2>1
<1>5. ASSUME NEW p \in Pods, Gone(p) \/ Come(p) \/ ReadEntry(p) \/ CrashPod(p) PROVE Goal
    <2>1. CASE q # p
        <3> HIDE DEF Goal
        <3> QED
            BY <1>3, <1>5, <2>1, ProcessFrame
    <2>2. CASE q = p
        <3>1. ReadEntry(p)
            BY <1>5, <2>2, ProcessFrame DEF AtWork
        <3>2. Worked(share'[q], state'[q], todo'[q])
            <4>1. \A w \in Workers : state'[q][w] = "new"
                BY <2>2, <3>1 DEF ReadEntry, TypeOK
            <4> QED
                BY <4>1
        <3>3. Shared(share'[q])
            <4>1. CASE share' = share
                <5>1. \A w \in Workers : share'[q][w] = <<>>
                    BY <2>2, <3>1, <4>1 DEF ReadEntry, NoProcess, NoShares
                <5> QED
                    BY <5>1, EmptyList
            <4>2. CASE share' = [share EXCEPT ![p] = DivideAndConquer(table[p], NumWorkers)]
                <5> DEFINE split == DivideAndConquer(table[p], NumWorkers)
                <5>1. share'[q] = split
                    <6> HIDE DEF split, Pods
                    <6>1. share \in [Pods -> [Workers -> Seq(Orders)]]
                        BY DEF TypeOK
                    <6>2. share' = [share EXCEPT ![p] = split]
                        BY <4>2 DEF split
                    <6> QED
                        BY <2>2, <6>1, <6>2
                <5>2. table[p] \in Seq(Orders) /\ Distinct(table[p])
                    BY <1>1 DEF TypeOK, EntriesApart, TableIsClean, UsedWithCare, Apart
                <5>3. \A v, w \in Workers : \A i \in 1..Len(split[v]), j \in 1..Len(split[w]) :
                         (v # w \/ i # j) => split[v][i] # split[w][j]
                    <6> HIDE DEF Pods
                    <6> SUFFICES ASSUME NEW list \in Seq(Orders), NEW n \in Nat \ {0},
                                        \A i, j \in 1..Len(list) : i # j => list[i] # list[j]
                                 PROVE  LET parts == DivideAndConquer(list, n) IN
                                          \A v, w \in 1..n :
                                            \A i \in 1..Len(parts[v]), j \in 1..Len(parts[w]) :
                                              (v # w \/ i # j) => parts[v][i] # parts[w][j]
                        BY <5>2, PodsAssumption, Zenon DEF Distinct, Workers
                    <6> QED
                        BY ProducerDivisionIsOnce, Zenon
                <5> HIDE DEF split
                <5>4. Shared(split)
                    BY <5>3 DEF Distinct, Members
                <5> HIDE DEF Shared
                <5> QED
                    BY <5>1, <5>4
            <4> QED
                BY <3>1, <4>1, <4>2 DEF ReadEntry, WholeRange
        <3> QED
            BY <3>2, <3>3
    <2> QED
        BY <2>1, <2>2
<1>6. ASSUME NEW p \in Pods, NEW w \in Workers, WorkerStep(p, w) PROVE Goal
    <2>1. CASE q # p
        <3> HIDE DEF Goal
        <3> QED
            BY <1>3, <1>6, <2>1, WorkerFrame
    <2>2. CASE q = p
        <3>1. share' = share /\ Shared(share[q]) /\ Worked(share[q], state[q], todo[q])
            <4> HIDE DEF Shared, Worked
            <4> QED
                BY <1>2, <1>6, <2>2, WorkerFrame DEF AtWork
        <3>2. \A v \in Workers : v # w => state'[q][v] = state[q][v] /\ todo'[q][v] = todo[q][v]
            BY <1>6, <2>2, WorkerEffect
        <3>3. state'[q][w] = "busy" =>
                 Distinct(todo'[q][w]) /\ Members(todo'[q][w]) \subseteq Members(share[q][w])
            <4>1. CASE TakeJob(p, w)
                <5>1. todo'[q][w] = share[q][w]
                    BY <2>2, <4>1, WorkerEffect DEF WorkerStep
                <5> QED
                    BY <3>1, <5>1
            <4>2. CASE PublishOrder(p, w)
                <5>1. todo'[q][w] = Tail(todo[q][w]) /\ state[q][w] = "busy"
                    BY <2>2, <4>2, WorkerEffect DEF WorkerStep, PublishOrder
                <5>2. todo[q][w] \in Seq(Orders) /\ todo[q][w] # <<>>
                    BY <2>2, <4>2 DEF PublishOrder, TypeOK
                <5>3. Distinct(todo[q][w]) /\ Members(todo[q][w]) \subseteq Members(share[q][w])
                    BY <3>1, <5>1
                <5>4. /\ Members(todo[q][w]) = {Head(todo[q][w])} \cup Members(Tail(todo[q][w]))
                      /\ Distinct(Tail(todo[q][w]))
                    BY <5>2, <5>3, FirstAndRest
                <5> QED
                    BY <5>1, <5>3, <5>4
            <4>3. CASE FinishTask(p, w) \/ CheckCount(p, w)
                <5>1. state'[q][w] # "busy"
                    BY <2>2, <4>3, WorkerEffect DEF WorkerStep
                <5> QED
                    BY <5>1
            <4> QED
                BY <1>6, <4>1, <4>2, <4>3 DEF WorkerStep
        <3>4. Worked(share'[q], state'[q], todo'[q])
            BY <3>1, <3>2, <3>3
        <3> QED
            BY <3>1, <3>4
    <2> QED
        BY <2>1, <2>2
<1>7. CASE UNCHANGED vars
    <2> HIDE DEF Goal
    <2> QED
        BY <1>3, <1>7 DEF vars, redis, cluster, processes
<1> QED
    BY <1>4, <1>5, <1>6, <1>7 DEF Next, PodStep

(* What a pod will publish is in its reach.                                *)
LEMMA AwaitsInReach ==
    ASSUME TypeOK, NoProcess, SharesApart, TableIsClean, NEW p \in Pods
    PROVE  /\ \A w \in Workers : Open(p, w) \subseteq Members(share[p][w])
           /\ \A w \in Workers : Open(p, w) # {} => AtWork(p)
           /\ Awaits(p) \subseteq Reach(p)
<1>1. ASSUME NEW w \in Workers, Open(p, w) # {}
      PROVE  AtWork(p) /\ Open(p, w) \subseteq Members(share[p][w])
    <2>1. state[p][w] = "busy" \/ (state[p][w] = "new" /\ ~Done(p))
        BY <1>1 DEF Open
    <2>2. pod[p] = "running"
        BY <2>1 DEF NoProcess
    <2>3. ~Done(p)
        BY <2>1 DEF Done, Waiting
    <2>4. AtWork(p)
        BY <2>2, <2>3 DEF AtWork
    <2> QED
        BY <2>1, <2>4 DEF Open, SharesApart
<1>2. Awaits(p) \subseteq Reach(p)
    BY <1>1 DEF Awaits, Reach, Hold, HasRead
<1> QED
    BY <1>1, <1>2

LEMMA PassesInductive ==
    TypeOK /\ TypeOK' /\ OneAtATime /\ NoProcess /\ AllocatesInQuiet /\ ReachesApart
        /\ SharesApart /\ PassesCount /\ [Next]_vars
        => PassesCount'
<1> SUFFICES ASSUME TypeOK, TypeOK', OneAtATime, NoProcess, AllocatesInQuiet, ReachesApart,
                    SharesApart, PassesCount, [Next]_vars, hasty' = 0, calm', ~leftovers'
             PROVE  IF \E r \in Requests : at'[r] \in Allocating
                    THEN \A o \in Orders : published'[o] = 0
                    ELSE \A o \in Orders :
                            published'[o] <= IF Awaited(o)' THEN repeats' ELSE 1 + repeats'
    BY DEF PassesCount, TableIsClean, UsedWithCare
<1> DEFINE Bounded == \A o \in Orders :
                         published'[o] <= IF Awaited(o)' THEN repeats' ELSE 1 + repeats'
           Goal == IF \E r \in Requests : at'[r] \in Allocating
                   THEN \A o \in Orders : published'[o] = 0
                   ELSE \A o \in Orders :
                           published'[o] <= IF Awaited(o)' THEN repeats' ELSE 1 + repeats'
<1>1. hasty = 0 /\ calm /\ ~leftovers /\ TableIsClean
    BY NextFlags DEF TableIsClean, UsedWithCare
<1>2. /\ repeats \in Nat /\ repeats' \in Nat
      /\ published \in [Orders -> Nat]
    BY DEF TypeOK
<1>3. ASSUME \A o \in Orders : published'[o] = 0 PROVE Goal
    BY <1>2, <1>3
<1>4. ASSUME NEW r \in Requests, Allocate(r) PROVE Goal
    BY <1>3, <1>4 DEF Allocate
<1>5. ASSUME NEW q \in Requests, at[q] \in Allocating PROVE Goal
    <2>1. \A o \in Orders : published[o] = 0
        BY <1>1, <1>5 DEF PassesCount
    <2>2. ASSUME NEW r \in Requests, Restart(r) PROVE published' = published
        BY <2>2 DEF Restart, redis
    <2>3. ASSUME NEW p \in Pods, PodStep(p) \/ CrashPod(p) PROVE FALSE
        BY <1>1, <1>5, <2>3, PodsAreStill
    <2>4. (\E r \in Requests : Allocate(r)) \/ published' = published
        BY <2>2, <2>3, RequestsLeavePods DEF Next, vars, redis
    <2> HIDE DEF Goal
    <2> QED
        BY <1>3, <1>4, <2>1, <2>4
<1>6. CASE \A r \in Requests : at[r] \notin Allocating
    <2>1. \A o \in Orders : published[o] <= IF Awaited(o) THEN repeats ELSE 1 + repeats
        BY <1>1, <1>6 DEF PassesCount
    <2>2. ASSUME \A r \in Requests : ~Allocate(r)
          PROVE  ~\E r \in Requests : at'[r] \in Allocating
        <3>1. ASSUME NEW r \in Requests, Restart(r) PROVE \A q \in Requests : at'[q] \notin Allocating
            BY <1>6, <3>1 DEF Restart, TypeOK, Allocating
        <3>2. ASSUME NEW r \in Requests, RequestStep(r)
              PROVE  \A q \in Requests : at'[q] \notin Allocating
            BY <1>6, <3>2, RequestMoves
        <3>3. ASSUME NEW p \in Pods, PodStep(p) \/ CrashPod(p)
              PROVE  \A q \in Requests : at'[q] \notin Allocating
            BY <1>6, <3>3, PodsLeaveRequests DEF portal
        <3> QED
            BY <1>6, <2>2, <3>1, <3>2, <3>3 DEF Next, vars, portal
    <2>3. ASSUME UNCHANGED <<published, repeats>>,
                 \A p \in Pods : Awaits(p)' \subseteq Awaits(p)
          PROVE  Bounded
        <3>1. \A o \in Orders : Awaited(o)' => Awaited(o)
            BY <2>3 DEF Awaited
        <3>2. \A o \in Orders : published[o] \in Nat
            BY <1>2
        <3> QED
            BY <1>2, <2>1, <2>3, <3>1, <3>2
    <2>4. ASSUME published' = published, repeats' = repeats + 1 PROVE Bounded
        <3>1. \A o \in Orders : published[o] \in Nat
            BY <1>2
        <3> QED
            BY <1>2, <2>1, <2>4, <3>1
    <2>5. ASSUME NEW r \in Requests, Restart(r) \/ RequestStep(r) PROVE Bounded
        <3>1. UNCHANGED <<published, repeats, pod, jobs, state, share, todo, sent>>
            BY <2>5, RequestsLeavePods DEF Restart, redis, cluster, processes
        <3>2. UNCHANGED table
            BY <1>6, <2>5 DEF Restart, RequestStep, FindPool, CountPool, DeleteEntry,
                              EntriesDeleted, Assign, Panic, Push, EndAllocation, ScaleDown,
                              ScaleUp, ScaleService, redis, Allocating
        <3>3. \A q \in Pods : Awaits(q)' = Awaits(q)
            BY <3>1, <3>2, SameWork
        <3> QED
            BY <2>3, <3>1, <3>3
    <2>6. ASSUME NEW p \in Pods, Gone(p) \/ Come(p) \/ ReadEntry(p) \/ CrashPod(p) PROVE Bounded
        <3>1. UNCHANGED <<table, published>>
            BY <2>6, ProcessFrame DEF redis
        <3>2. \A q \in Pods : q # p => Awaits(q)' = Awaits(q)
            BY <2>6, <3>1, ProcessFrame, SameWork
        <3>3. Members(table[p])' = Members(table[p])
            BY <3>1 DEF Members
        <3>4. CASE Gone(p) \/ CrashPod(p)
            <4>1. ProcessEnds(p)
                BY <3>4 DEF Gone, CrashPod
            <4>2. CASE sent[p] \cap Members(table[p]) # {}
                BY <2>4, <3>1, <4>1, <4>2 DEF ProcessEnds
            <4>3. CASE sent[p] \cap Members(table[p]) = {}
                <5>1. repeats' = repeats
                    BY <4>1, <4>3 DEF ProcessEnds
                <5>2. \A w \in Workers : state'[p][w] = "idle"
                    BY <4>1 DEF ProcessEnds, TypeOK
                <5>3. \A w \in Workers : Open(p, w)' = {}
                    BY <5>2 DEF Open
                <5>4. Awaits(p)' \subseteq Members(table[p])
                    BY <3>3, <5>3 DEF Awaits
                <5>5. Members(table[p]) \subseteq Awaits(p)
                    BY <4>3 DEF Awaits
                <5> QED
                    BY <2>3, <3>1, <3>2, <5>1, <5>4, <5>5
            <4> QED
                BY <4>2, <4>3
        <3>5. CASE Come(p)
            <4>1. UNCHANGED <<repeats, jobs, state, share, todo, sent>>
                BY <3>5 DEF Come, processes, history
            <4>2. pod[p] = "none"
                BY <3>5 DEF Come
            <4>3. \A w \in Workers : state'[p][w] = "idle"
                BY <4>1, <4>2 DEF NoProcess
            <4>4. \A w \in Workers : Open(p, w)' = {}
                BY <4>3 DEF Open
            <4>5. Awaits(p)' \subseteq Awaits(p)
                BY <3>3, <4>1, <4>4 DEF Awaits
            <4> QED
                BY <2>3, <3>1, <3>2, <4>1, <4>5
        <3>6. CASE ReadEntry(p)
            <4>1. repeats' = repeats /\ sent' = sent /\ sent[p] = {}
                BY <3>6 DEF ReadEntry, NoProcess
            <4>2. HasRead(p)' \subseteq Members(table[p])
                <5>1. CASE share' = [share EXCEPT ![p] = DivideAndConquer(table[p], NumWorkers)]
                    BY <5>1, ReadsItAll
                <5>2. CASE share' = share
                    <6>1. share'[p] = NoShares
                        BY <3>6, <5>2 DEF ReadEntry, NoProcess
                    <6>2. HasRead(p)' = UNION {Members(share'[p][w]) : w \in Workers}
                        BY DEF HasRead, Members
                    <6>3. \A w \in Workers : Members(share'[p][w]) = {}
                        BY <6>1, EmptyList DEF NoShares
                    <6> QED
                        BY <6>2, <6>3
                <5> QED
                    BY <3>6, <5>1, <5>2 DEF ReadEntry, WholeRange
            <4>3. \A w \in Workers : state'[p][w] = "new"
                BY <3>6 DEF ReadEntry, TypeOK
            <4>4. \A w \in Workers : Open(p, w)' \subseteq HasRead(p)'
                <5>1. HasRead(p)' = UNION {Members(share'[p][w]) : w \in Workers}
                    BY DEF HasRead, Members
                <5>2. \A w \in Workers : Open(p, w)' \subseteq Members(share'[p][w])
                    BY <4>3 DEF Open, Members
                <5> QED
                    BY <5>1, <5>2
            <4>5. Awaits(p)' \subseteq Members(table[p])
                BY <3>3, <4>2, <4>4 DEF Awaits
            <4>6. Members(table[p]) \subseteq Awaits(p)
                BY <4>1 DEF Awaits
            <4> QED
                BY <2>3, <3>1, <3>2, <4>1, <4>5, <4>6
        <3> QED
            BY <2>6, <3>4, <3>5, <3>6
    <2>7. ASSUME NEW p \in Pods, NEW w \in Workers, WorkerStep(p, w), ~PublishOrder(p, w)
          PROVE  Bounded
        <3>1. UNCHANGED <<published, sent>>
            BY <2>7 DEF WorkerStep, TakeJob, FinishTask, CheckCount, redis
        <3>2. \A q \in Pods : q # p => Awaits(q)' = Awaits(q)
            BY <2>7, WorkerFrame, SameWork
        <3>3. AtWork(p) /\ share' = share
            BY <2>7, WorkerFrame DEF AtWork
        <3>4. Members(table[p])' \subseteq Members(table[p])
            <4>1. table'[p] = table[p] \/ table'[p] = <<>>
                BY <2>7 DEF WorkerStep, TakeJob, PublishOrder, FinishTask, CheckCount, Purge,
                            EntryPurged, redis, TypeOK
            <4>2. Members(table[p])' = Members(table'[p])
                BY DEF Members
            <4> QED
                BY <4>1, <4>2, EmptyList
        <3>5. \A v \in Workers : v # w => Open(p, v)' \subseteq Open(p, v)
            <4>1. \A v \in Workers : v # w => state'[p][v] = state[p][v] /\ todo'[p][v] = todo[p][v]
                BY <2>7, WorkerEffect
            <4> QED
                BY <3>3, <4>1 DEF Open, AtWork, Members
        <3>6. ASSUME Open(p, w)' \subseteq Open(p, w) PROVE Awaits(p)' \subseteq Awaits(p)
            BY <3>1, <3>4, <3>5, <3>6 DEF Awaits
        <3>7. CASE TakeJob(p, w)
            <4>1. CASE state[p][w] = "idle" /\ share[p][w] # <<>>
                BY <2>4, <3>1, <3>7, <4>1 DEF TakeJob
            <4>2. CASE state[p][w] # "idle" \/ share[p][w] = <<>>
                <5>1. repeats' = repeats
                    BY <3>7, <4>2 DEF TakeJob
                <5>2. state'[p][w] = "busy" /\ todo'[p][w] = share[p][w]
                    BY <2>7, <3>7, WorkerEffect
                <5>3. Open(p, w)' = Members(share[p][w])
                    BY <5>2 DEF Open, Members
                <5>4. state[p][w] = "new" \/ Members(share[p][w]) = {}
                    BY <3>7, <4>2, EmptyList DEF TakeJob, Waiting
                <5>5. Open(p, w)' \subseteq Open(p, w)
                    BY <3>3, <5>3, <5>4 DEF Open, AtWork
                <5> QED
                    BY <2>3, <3>1, <3>2, <3>6, <5>1, <5>5
            <4> QED
                BY <4>1, <4>2
        <3>8. CASE FinishTask(p, w) \/ CheckCount(p, w)
            <4>1. repeats' = repeats
                BY <3>8 DEF FinishTask, CheckCount, history
            <4>2. state'[p][w] \in {"check", "idle"}
                BY <2>7, <3>8, WorkerEffect
            <4>3. Open(p, w)' = {}
                BY <4>2 DEF Open
            <4> QED
                BY <2>3, <3>1, <3>2, <3>6, <4>1, <4>3
        <3> QED
            BY <2>7, <3>7, <3>8 DEF WorkerStep
    <2>8. ASSUME NEW p \in Pods, NEW w \in Workers, PublishOrder(p, w) PROVE Bounded
        <3>0. PICK first : first = Head(todo[p][w])
            OBVIOUS
        <3>1. WorkerStep(p, w)
            BY <2>8 DEF WorkerStep
        <3>2. AtWork(p) /\ share' = share /\ UNCHANGED <<table, pod, jobs, state, repeats>>
            BY <2>8, <3>1, WorkerFrame DEF AtWork, PublishOrder, history
        <3>3. state[p][w] = "busy" /\ todo[p][w] \in Seq(Orders) /\ todo[p][w] # <<>>
            BY <2>8 DEF PublishOrder, TypeOK
        <3>4. /\ todo'[p][w] = Tail(todo[p][w])
              /\ \A v \in Workers : v # w => todo'[p][v] = todo[p][v]
            BY <2>8, <3>1, WorkerEffect
        <3>5. /\ Distinct(todo[p][w])
              /\ Members(todo[p][w]) \subseteq Members(share[p][w])
              /\ \A v \in Workers : v # w => Members(share[p][v]) \cap Members(share[p][w]) = {}
            BY <1>1, <3>2, <3>3 DEF SharesApart
        <3>6. /\ first \in Orders
              /\ Members(todo[p][w]) = {first} \cup Members(Tail(todo[p][w]))
              /\ first \notin Members(Tail(todo[p][w]))
            BY <3>0, <3>3, <3>5, FirstAndRest
        <3>7. /\ Open(p, w) = Members(todo[p][w])
              /\ Open(p, w)' = Members(Tail(todo[p][w]))
            BY <3>2, <3>3, <3>4 DEF Open, Members
        <3>8. \A v \in Workers : v # w => Open(p, v)' = Open(p, v) /\ first \notin Open(p, v)
            <4>1. Done(p)' = Done(p)
                BY <3>2, SameWork
            <4>2. \A v \in Workers : v # w => Open(p, v)' = Open(p, v)
                BY <3>2, <3>4, <4>1 DEF Open, Members
            <4>3. \A v \in Workers : Open(p, v) \subseteq Members(share[p][v])
                BY <1>1, AwaitsInReach
            <4> QED
                BY <3>5, <3>6, <4>2, <4>3
        <3>9. /\ sent'[p] = sent[p] \cup {first}
              /\ (Members(table[p]) \ sent[p])' = (Members(table[p]) \ sent[p]) \ {first}
            <4>1. sent'[p] = sent[p] \cup {first}
                BY <2>8, <3>0 DEF PublishOrder, TypeOK
            <4> QED
                BY <3>2, <4>1 DEF Members
        <3>10. first \in Awaits(p) /\ first \notin Awaits(p)' /\ Awaits(p)' \subseteq Awaits(p)
            BY <3>6, <3>7, <3>8, <3>9 DEF Awaits
        <3>11. \A q \in Pods : q # p => Awaits(q)' = Awaits(q) /\ first \notin Awaits(q)
            <4>1. \A q \in Pods : q # p => Awaits(q)' = Awaits(q)
                BY <3>1, <3>2, WorkerFrame, SameWork
            <4>2. \A q \in Pods : Awaits(q) \subseteq Reach(q)
                BY <1>1, AwaitsInReach
            <4>3. \A q \in Pods : q # p => Reach(p) \cap Reach(q) = {}
                BY <1>1 DEF ReachesApart
            <4> QED
                BY <3>10, <4>1, <4>2, <4>3
        <3>12. Awaited(first) /\ ~Awaited(first)'
            BY <3>10, <3>11 DEF Awaited
        <3>13. \A o \in Orders : Awaited(o)' => Awaited(o)
            BY <3>10, <3>11 DEF Awaited
        <3>14. \A o \in Orders :
                  /\ published[o] \in Nat
                  /\ published'[o] = IF o = first THEN published[o] + 1 ELSE published[o]
            BY <1>2, <2>8, <3>0 DEF PublishOrder
        <3>15. published[first] <= repeats
            BY <2>1, <3>6, <3>12
        <3>16. published'[first] <= 1 + repeats
            BY <1>2, <3>6, <3>14, <3>15
        <3>17. ASSUME NEW o \in Orders, o # first
               PROVE  published'[o] <= IF Awaited(o)' THEN repeats ELSE 1 + repeats
            BY <1>2, <2>1, <3>13, <3>14, <3>17
        <3> QED
            BY <3>2, <3>12, <3>16, <3>17
    <2>9. ASSUME UNCHANGED vars PROVE Bounded
        <3>1. \A q \in Pods : Awaits(q)' = Awaits(q)
            BY <2>9, SameWork DEF vars, redis, cluster, processes
        <3> QED
            BY <2>3, <2>9, <3>1 DEF vars, redis, history
    <2> HIDE DEF Bounded
    <2>10. (\A r \in Requests : ~Allocate(r)) => Bounded
        BY <2>5, <2>6, <2>7, <2>8, <2>9 DEF Next, PodStep
    <2>11. (\A r \in Requests : ~Allocate(r)) => Goal
        BY <2>2, <2>10 DEF Bounded
    <2> QED
        BY <1>4, <2>11
<1> QED
    BY <1>5, <1>6

(* With careful use, and every entry deleted that the portal meant to, an  *)
(* order of the latest allocation is published once, and once more at most *)
(* for each time a worker took a second job or a process ended before its  *)
(* entry was deleted, for any number of requests, pods, workers, jobs,     *)
(* orders, crashes and other failed commands.                              *)
(* (delete_stale_allocation_data, idAllocator)                             *)
THEOREM OrdersArePublishedOnce == Spec => []PublishedOncePerPass
<1>1. Init => OnceInv
    <2> SUFFICES ASSUME Init PROVE OnceInv
        OBVIOUS
    <2>1. KeptInv
        BY KeptInit
    <2>2. Apart(table)
        BY EmptyIsApart DEF Init, NoWork
    <2>3. EntriesApart
        BY <2>2 DEF Init, EntriesApart
    <2>4. \A p \in Pods : ~AtWork(p)
        BY DEF Init, AtWork, Done, Waiting
    <2>5. \A p \in Pods : Reach(p) = {}
        BY <2>4, EmptyList DEF Init, NoWork, Reach, Hold
    <2>6. ReachesApart /\ SharesApart
        BY <2>4, <2>5 DEF ReachesApart, SharesApart
    <2>7. PassesCount
        BY DEF Init, PassesCount, Allocating
    <2> QED
        BY <2>1, <2>3, <2>6, <2>7 DEF OnceInv
<1>2. OnceInv /\ [Next]_vars => OnceInv'
    <2> SUFFICES ASSUME OnceInv, [Next]_vars PROVE OnceInv'
        OBVIOUS
    <2>1. /\ TypeOK /\ OneAtATime /\ NoProcess /\ AllocatesInQuiet /\ Prepares
          /\ EntriesApart /\ ReachesApart /\ SharesApart /\ PassesCount
        BY DEF OnceInv, KeptInv, DropInv
    <2>2. KeptInv' /\ TypeOK'
        BY KeptNext DEF OnceInv, KeptInv, DropInv
    <2>3. EntriesApart'
        BY <2>1, EntriesInductive
    <2>4. ReachesApart'
        BY <2>1, <2>3, ReachesInductive
    <2>5. SharesApart'
        BY <2>1, SharesInductive
    <2>6. PassesCount'
        BY <2>1, <2>2, PassesInductive
    <2> QED
        BY <2>2, <2>3, <2>4, <2>5, <2>6 DEF OnceInv
<1>3. OnceInv => PublishedOncePerPass
    <2> SUFFICES ASSUME OnceInv, TableIsClean, NEW o \in Orders
                 PROVE  published[o] <= 1 + repeats
        BY DEF PublishedOncePerPass, TableIsClean
    <2>1. repeats \in Nat /\ published[o] \in Nat
        BY DEF OnceInv, KeptInv, DropInv, TypeOK
    <2>2. published[o] = 0 \/ published[o] <= repeats \/ published[o] <= 1 + repeats
        BY DEF OnceInv, PassesCount
    <2> QED
        BY <2>1, <2>2
<1>4. Spec => []OnceInv
    BY <1>1, <1>2, PTL DEF Spec
<1> QED
    BY <1>3, <1>4, PTL
=============================================================================
