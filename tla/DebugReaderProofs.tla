-------------------------- MODULE DebugReaderProofs --------------------------
(***************************************************************************)
(* The process of redisDebugReader.go, for any number of workers and jobs  *)
(* and any lists of keys: the tasks are counted against the jobs, and the  *)
(* results main waits for against those that can still come.               *)
(***************************************************************************)
EXTENDS DebugReader, WorkSplitProofs, FiniteSetTheorems

(* The workers that stand in a state of A.                                 *)
At(S, A) == {v \in Workers : S[v] \in A}
Count(S, A) == Cardinality(At(S, A))

(* A job in the hands of a worker: its task is not yet counted / its       *)
(* result is not yet sent.                                                 *)
Busy == {"connect", "read", "lock", "write"}
Occupied == Busy \cup {"check1", "check2", "purge"}

(* Nothing has been counted before the workers start.                      *)
Fresh == phase \in {"off", "divide"} => taskCount = 0 /\ jobs = 0

Placed == \A w \in Workers : state[w] \in {"lock", "write"} => fIndex[w] <= Len(taskMap[w])

(* Each task counted, and each still to come, has a job of its own.        *)
TasksHaveJobs == taskCount + unsent + jobs + Count(state, Busy) <= NumJobs

PurgeIsLate == \A w \in Workers : state[w] = "purge" => NumWorkers - 1 <= taskCount

(* main waits for more results than can come.                              *)
TooManyAwaited == phase = "run" => 1 + unsent + jobs + Count(state, Occupied) <= awaited

NeverReturns == phase # "returned"

Divided == phase = "run" => taskMap = Division /\ ~LoopNeverEnds

ReaderInv ==
    /\ ReaderTypeOK
    /\ Fresh
    /\ Placed
    /\ TasksHaveJobs
    /\ PurgeIsLate
    /\ TooManyAwaited
    /\ NeverReturns
    /\ Divided
    /\ FaultNeedsATaskLeft
-----------------------------------------------------------------------------
(* The number of workers in A is a natural number.                         *)
LEMMA CountType ==
    ASSUME NEW S, NEW A
    PROVE  /\ IsFiniteSet(At(S, A))
           /\ Count(S, A) \in Nat
           /\ \A w \in Workers : S[w] \in A => Count(S, A) >= 1
<1>1. IsFiniteSet(Workers)
  BY PoolAssumption, FS_Interval DEF Workers
<1>2. At(S, A) \in SUBSET Workers
  BY DEF At
<1>3. IsFiniteSet(At(S, A))
  BY <1>1, <1>2, FS_Subset
<1>4. Count(S, A) \in Nat
  BY <1>3, FS_CardinalityType DEF Count
<1>5. ASSUME NEW w \in Workers, S[w] \in A PROVE Count(S, A) >= 1
  <2>1. w \in At(S, A)
    BY <1>5 DEF At
  <2>2. /\ IsFiniteSet(At(S, A) \ {w})
        /\ Cardinality(At(S, A) \ {w}) = Cardinality(At(S, A)) - 1
    BY <1>3, <2>1, FS_RemoveElement
  <2>3. Cardinality(At(S, A) \ {w}) \in Nat
    BY <2>2, FS_CardinalityType
  <2>4. QED
    BY <1>4, <2>2, <2>3 DEF Count
<1>6. QED
  BY <1>3, <1>4, <1>5

LEMMA CountNone ==
    ASSUME NEW S, NEW A, \A w \in Workers : S[w] \notin A
    PROVE  Count(S, A) = 0
<1>1. At(S, A) = {}
  BY DEF At
<1>2. QED
  BY <1>1, FS_EmptySet DEF Count

(* main waits for at least one result more than there are jobs.            *)
LEMMA OneMoreAwaited == ResultsAwaited \in Nat /\ NumJobs + 1 <= ResultsAwaited
<1>1. NumJobs \in Nat /\ NumWorkers \in Nat /\ 1 <= NumWorkers
  BY PoolAssumption
<1>2. 1 * NumJobs <= NumWorkers * NumJobs
  BY <1>1, ProductMonotone
<1>3. 1 * NumJobs = NumJobs /\ NumWorkers * NumJobs = NumJobs * NumWorkers
      /\ NumJobs * NumWorkers \in Nat
  BY <1>1, SMT
<1>4. QED
  BY <1>1, <1>2, <1>3 DEF ResultsAwaited

LEMMA DivisionType ==
    ASSUME inputQueue \in Seq(Inputs)
    PROVE  /\ LoaderSize(inputQueue, NumWorkers) \in Nat
           /\ Division \in [Workers -> Seq(Inputs)]
<1>1. Len(inputQueue) \in Nat /\ NumWorkers \in Nat \ {0}
  BY PoolAssumption
<1>2. LoaderSize(inputQueue, NumWorkers) \in Nat
  BY <1>1, DivMod DEF LoaderSize
<1>3. \A w \in 1..NumWorkers :
         Chunk(inputQueue, LoaderSize(inputQueue, NumWorkers), w - 1) \in Seq(Inputs)
  BY <1>1, <1>2, ChunkProperties
<1>4. QED
  BY <1>2, <1>3 DEF Division, IdAllocator, Workers
-----------------------------------------------------------------------------
LEMMA InitHolds == ReaderInit => ReaderInv
<1> SUFFICES ASSUME ReaderInit PROVE ReaderInv
  OBVIOUS
<1> USE DEF ReaderInit
<1>1. <<>> \in Seq(Inputs)
  OBVIOUS
<1>2. ReaderTypeOK
  BY <1>1, PoolAssumption DEF ReaderTypeOK, Phases, Ended, WorkerStates
<1>3. Count(state, Busy) = 0
  BY CountNone DEF Busy
<1>4. TasksHaveJobs
  BY <1>3, PoolAssumption DEF TasksHaveJobs
<1>5. QED
  BY <1>2, <1>4 DEF ReaderInv, Fresh, Placed, PurgeIsLate, TooManyAwaited,
                    NeverReturns, Divided, FaultNeedsATaskLeft

(* How the number of workers in A changes when one of them moves.          *)
Moves(w, s) == state' = [state EXCEPT ![w] = s]

LEMMA MovesCount ==
    ASSUME ReaderTypeOK, NEW w \in Workers, NEW s \in WorkerStates, Moves(w, s), NEW A
    PROVE  /\ Count(state, A) \in Nat
           /\ Count(state', A) \in Nat
           /\ state[w] \in A /\ s \in A => Count(state', A) = Count(state, A)
           /\ state[w] \notin A /\ s \notin A => Count(state', A) = Count(state, A)
           /\ state[w] \in A /\ s \notin A => Count(state', A) = Count(state, A) - 1
           /\ state[w] \notin A /\ s \in A => Count(state', A) = Count(state, A) + 1
<1>1. IsFiniteSet(At(state, A)) /\ Count(state, A) \in Nat
  BY CountType
<1>2. \A v \in Workers : state'[v] = IF v = w THEN s ELSE state[v]
  BY DEF ReaderTypeOK, Moves
<1>3. ASSUME state[w] \in A <=> s \in A PROVE Count(state', A) = Count(state, A)
  <2>1. At(state', A) = At(state, A)
    BY <1>2, <1>3 DEF At
  <2>2. QED
    BY <2>1 DEF Count
<1>4. ASSUME state[w] \in A, s \notin A PROVE Count(state', A) = Count(state, A) - 1
  <2>1. At(state', A) = At(state, A) \ {w} /\ w \in At(state, A)
    BY <1>2, <1>4 DEF At
  <2>2. Cardinality(At(state, A) \ {w}) = Cardinality(At(state, A)) - 1
    BY <1>1, <2>1, FS_RemoveElement
  <2>3. QED
    BY <2>1, <2>2 DEF Count
<1>5. ASSUME state[w] \notin A, s \in A PROVE Count(state', A) = Count(state, A) + 1
  <2>1. At(state', A) = At(state, A) \cup {w} /\ w \notin At(state, A)
    BY <1>2, <1>5 DEF At
  <2>2. Cardinality(At(state, A) \cup {w}) = Cardinality(At(state, A)) + 1
    BY <1>1, <2>1, FS_AddElement
  <2>3. QED
    BY <2>1, <2>2 DEF Count
<1>6. Count(state', A) \in Nat
  BY CountType
<1>7. QED
  BY <1>1, <1>3, <1>4, <1>5, <1>6

(* Steps before the workers run.                                           *)
LEMMA ListInputsHolds == ASSUME ReaderInv, ListInputs PROVE ReaderInv'
<1> USE DEF ListInputs
<1>0. UNCHANGED <<taskMap, unsent, jobs, awaited, state, fIndex, purgeMap, taskCount>>
  BY DEF channels, workers, shared
<1>1. ReaderTypeOK'
  <2>1. inputQueue' \in Seq(Inputs) /\ phase' \in Phases
    BY ListingsAssumption DEF ReaderInv, ReaderTypeOK, Phases, Ended
  <2>2. QED
    BY <1>0, <2>1 DEF ReaderInv, ReaderTypeOK
<1>2. TasksHaveJobs'
  BY <1>0 DEF ReaderInv, TasksHaveJobs
<1>3. QED
  BY <1>0, <1>1, <1>2 DEF ReaderInv, Fresh, Placed, PurgeIsLate, TooManyAwaited,
                          NeverReturns, Divided, FaultNeedsATaskLeft

LEMMA DivideHolds == ASSUME ReaderInv, Divide PROVE ReaderInv'
<1> USE DEF Divide
<1>0. /\ UNCHANGED <<inputQueue, jobs, fIndex, purgeMap, taskCount>>
      /\ phase = "divide" /\ phase' = "run" /\ ~LoopNeverEnds
      /\ taskMap' = Division /\ unsent' = NumJobs /\ awaited' = ResultsAwaited
      /\ \A w \in Workers : state'[w] = "idle"
      /\ state' \in [Workers -> WorkerStates]
  BY DEF shared, WorkerStates
<1>1. taskCount = 0 /\ jobs = 0
  BY <1>0 DEF ReaderInv, Fresh
<1>2. ReaderTypeOK'
  <2>1. Division \in [Workers -> Seq(Inputs)] /\ ResultsAwaited \in Int
        /\ NumJobs \in 0..NumJobs /\ "run" \in Phases
    BY DivisionType, OneMoreAwaited, PoolAssumption DEF ReaderInv, ReaderTypeOK, Phases
  <2>2. QED
    BY <1>0, <2>1 DEF ReaderInv, ReaderTypeOK
<1>3. Count(state', Busy) = 0 /\ Count(state', Occupied) = 0
  BY <1>0, CountNone DEF Busy, Occupied
<1>4. TasksHaveJobs'
  BY <1>0, <1>1, <1>3, PoolAssumption DEF TasksHaveJobs
<1>5. TooManyAwaited'
  BY <1>0, <1>1, <1>3, OneMoreAwaited, PoolAssumption DEF TooManyAwaited
<1>6. Divided'
  <2>1. Division' = Division /\ LoopNeverEnds' = LoopNeverEnds
    BY <1>0 DEF Division, LoopNeverEnds
  <2>2. QED
    BY <1>0, <2>1 DEF Divided
<1>7. QED
  BY <1>0, <1>2, <1>4, <1>5, <1>6 DEF ReaderInv, Fresh, Placed, PurgeIsLate,
                                      NeverReturns, FaultNeedsATaskLeft

LEMMA SpinHolds == ASSUME ReaderInv, Spin PROVE ReaderInv'
<1>0. /\ UNCHANGED <<inputQueue, taskMap, unsent, jobs, awaited, state, fIndex, purgeMap, taskCount>>
      /\ phase' = "spin"
  BY DEF Spin, channels, workers, shared
<1>1. ReaderTypeOK'
  BY <1>0 DEF ReaderInv, ReaderTypeOK, Phases
<1>2. QED
  BY <1>0, <1>1 DEF ReaderInv, Fresh, Placed, TasksHaveJobs, PurgeIsLate, TooManyAwaited,
                    NeverReturns, Divided, FaultNeedsATaskLeft

(* Steps of main while they run.                                           *)
LEMMA SendJobHolds == ASSUME ReaderInv, SendJob PROVE ReaderInv'
<1>0. /\ UNCHANGED <<phase, inputQueue, taskMap, awaited, state, fIndex, purgeMap, taskCount>>
      /\ phase = "run" /\ unsent > 0 /\ unsent' = unsent - 1 /\ jobs' = jobs + 1
  BY DEF SendJob, main, workers, shared
<1>1. /\ NumJobs \in Nat /\ unsent \in Nat /\ jobs \in Nat /\ taskCount \in Nat
      /\ awaited \in Int /\ Count(state, Busy) \in Nat /\ Count(state, Occupied) \in Nat
      /\ taskCount + unsent + jobs + Count(state, Busy) <= NumJobs
      /\ 1 + unsent + jobs + Count(state, Occupied) <= awaited
  BY <1>0, CountType, PoolAssumption
  DEF ReaderInv, ReaderTypeOK, TasksHaveJobs, TooManyAwaited
<1>2. unsent' \in 0..NumJobs /\ jobs' \in 0..NumJobs
      /\ taskCount + unsent' + jobs' + Count(state, Busy) <= NumJobs
      /\ 1 + unsent' + jobs' + Count(state, Occupied) <= awaited
  BY <1>0, <1>1
<1>3. ReaderTypeOK'
  BY <1>0, <1>2 DEF ReaderInv, ReaderTypeOK
<1>4. TasksHaveJobs' /\ TooManyAwaited'
  BY <1>0, <1>2 DEF TasksHaveJobs, TooManyAwaited
<1>5. Divided' /\ FaultNeedsATaskLeft'
  BY <1>0 DEF ReaderInv, Divided, Division, LoopNeverEnds, FaultNeedsATaskLeft
<1>6. QED
  BY <1>0, <1>3, <1>4, <1>5 DEF ReaderInv, Fresh, Placed, PurgeIsLate, NeverReturns

LEMMA EndOfMainHolds == ASSUME ReaderInv, EndOfMain PROVE ReaderInv'
<1>0. /\ UNCHANGED <<inputQueue, taskMap, unsent, jobs, awaited, state, fIndex, purgeMap, taskCount>>
      /\ phase = "run"
      /\ phase' = IF awaited = 0 THEN "returned" ELSE "asleep"
  BY DEF EndOfMain, channels, workers, shared
<1>1. awaited # 0
  <2>1. /\ unsent \in Nat /\ jobs \in Nat /\ awaited \in Int
        /\ Count(state, Occupied) \in Nat
        /\ 1 + unsent + jobs + Count(state, Occupied) <= awaited
    BY <1>0, CountType DEF ReaderInv, ReaderTypeOK, TooManyAwaited
  <2>2. QED
    BY <2>1
<1>2. phase' = "asleep"
  BY <1>0, <1>1
<1>3. ReaderTypeOK'
  BY <1>0, <1>2 DEF ReaderInv, ReaderTypeOK, Phases, Ended
<1>4. QED
  BY <1>0, <1>2, <1>3 DEF ReaderInv, Fresh, Placed, TasksHaveJobs, PurgeIsLate,
                          TooManyAwaited, NeverReturns, Divided, FaultNeedsATaskLeft
-----------------------------------------------------------------------------
(* What the bounds say of a running process.                               *)
LEMMA RunFacts ==
    ASSUME ReaderInv, phase = "run"
    PROVE  /\ NumJobs \in Nat /\ NumWorkers \in Nat
           /\ unsent \in Nat /\ jobs \in Nat /\ taskCount \in Nat /\ awaited \in Int
           /\ Count(state, Busy) \in Nat /\ Count(state, Occupied) \in Nat
           /\ taskCount + unsent + jobs + Count(state, Busy) <= NumJobs
           /\ 1 + unsent + jobs + Count(state, Occupied) <= awaited
  BY CountType, PoolAssumption DEF ReaderInv, ReaderTypeOK, TasksHaveJobs, TooManyAwaited

(* What a step of a worker has to show: that main and the lists stay as    *)
(* they are, the worker keeps to its list, is not too early to go through  *)
(* the map, and the two counts still hold.                                 *)
LEMMA WorkerMoves ==
    ASSUME ReaderInv, phase = "run", NEW w \in Workers, NEW s \in WorkerStates, Moves(w, s),
           UNCHANGED <<phase, inputQueue, taskMap, unsent>>,
           jobs' \in Nat, taskCount' \in Nat, awaited' \in Int, purgeMap' \subseteq Inputs,
           fIndex' \in [Workers -> Nat \ {0}],
           \A v \in Workers : v # w => fIndex'[v] = fIndex[v],
           s \in {"lock", "write"} => fIndex'[w] <= Len(taskMap[w]),
           taskCount <= taskCount',
           s = "purge" => NumWorkers - 1 <= taskCount',
           TasksHaveJobs', TooManyAwaited'
    PROVE  ReaderInv'
<1>1. /\ state' \in [Workers -> WorkerStates]
      /\ \A v \in Workers : state'[v] = IF v = w THEN s ELSE state[v]
  BY DEF ReaderInv, ReaderTypeOK, Moves
<1>2. jobs' \in 0..NumJobs
  <2>1. /\ taskCount' + unsent' + jobs' + Count(state', Busy) <= NumJobs
        /\ unsent' \in Nat /\ Count(state', Busy) \in Nat /\ NumJobs \in Nat
    BY RunFacts, CountType DEF TasksHaveJobs
  <2>2. QED
    BY <2>1
<1>3. ReaderTypeOK'
  BY <1>1, <1>2 DEF ReaderInv, ReaderTypeOK
<1>4. Placed'
  BY <1>1 DEF ReaderInv, Placed
<1>5. PurgeIsLate'
  <2>1. taskCount \in Nat /\ NumWorkers \in Nat
    BY RunFacts
  <2>2. QED
    BY <1>1, <2>1 DEF ReaderInv, PurgeIsLate
<1>6. Divided' /\ Fresh' /\ NeverReturns' /\ FaultNeedsATaskLeft'
  BY DEF ReaderInv, Divided, Division, LoopNeverEnds, Fresh, NeverReturns, FaultNeedsATaskLeft
<1>7. QED
  BY <1>3, <1>4, <1>5, <1>6 DEF ReaderInv

(* A worker that moves within, or outside, Busy and Occupied, the counters *)
(* unchanged.                                                              *)
LEMMA SameCounts ==
    ASSUME ReaderInv, phase = "run", NEW w \in Workers, NEW s \in WorkerStates, Moves(w, s),
           UNCHANGED <<phase, unsent, jobs, awaited, taskCount>>,
           state[w] \in Busy <=> s \in Busy,
           state[w] \in Occupied <=> s \in Occupied
    PROVE  TasksHaveJobs' /\ TooManyAwaited'
<1>1. /\ Count(state', Busy) = Count(state, Busy)
      /\ Count(state', Occupied) = Count(state, Occupied)
  BY MovesCount DEF ReaderInv
<1>2. QED
  BY <1>1, RunFacts DEF TasksHaveJobs, TooManyAwaited

LEMMA TakeJobHolds ==
    ASSUME ReaderInv, phase = "run", NEW w \in Workers, TakeJob(w)
    PROVE  ReaderInv'
<1>1. /\ UNCHANGED <<phase, inputQueue, taskMap, unsent, awaited, purgeMap, taskCount>>
      /\ state[w] = "idle" /\ jobs > 0 /\ jobs' = jobs - 1 /\ Moves(w, "connect")
      /\ fIndex' = [fIndex EXCEPT ![w] = 1] /\ "connect" \in WorkerStates
  BY DEF TakeJob, Moves, main, shared, WorkerStates
<1>2. /\ Count(state', Busy) = Count(state, Busy) + 1
      /\ Count(state', Occupied) = Count(state, Occupied) + 1
  BY <1>1, MovesCount DEF ReaderInv, Busy, Occupied
<1>3. TasksHaveJobs' /\ TooManyAwaited'
  <2>1. /\ taskCount + unsent + jobs' + (Count(state, Busy) + 1) <= NumJobs
        /\ 1 + unsent + jobs' + (Count(state, Occupied) + 1) <= awaited
    BY <1>1, RunFacts
  <2>2. QED
    BY <1>1, <1>2, <2>1 DEF TasksHaveJobs, TooManyAwaited
<1>4. /\ jobs' \in Nat /\ purgeMap' \subseteq Inputs /\ taskCount <= taskCount'
      /\ fIndex' \in [Workers -> Nat \ {0}]
      /\ \A v \in Workers : v # w => fIndex'[v] = fIndex[v]
      /\ taskCount' \in Nat /\ awaited' \in Int
  BY <1>1, RunFacts DEF ReaderInv, ReaderTypeOK
<1>5. QED
  BY <1>1, <1>3, <1>4, WorkerMoves

(* Exit, the connection, the mutex, the end of the checks: no counter      *)
(* changes.                                                                *)
LEMMA QuietHolds ==
    ASSUME ReaderInv, phase = "run", NEW w \in Workers, NEW s \in WorkerStates, Moves(w, s),
           UNCHANGED <<phase, inputQueue, taskMap, unsent, jobs, awaited, fIndex, purgeMap, taskCount>>,
           state[w] \in Busy <=> s \in Busy,
           state[w] \in Occupied <=> s \in Occupied,
           s \in {"lock", "write"} => fIndex[w] <= Len(taskMap[w]),
           s = "purge" => NumWorkers - 1 <= taskCount
    PROVE  ReaderInv'
<1>1. TasksHaveJobs' /\ TooManyAwaited'
  BY SameCounts
<1>2. /\ jobs' \in Nat /\ purgeMap' \subseteq Inputs /\ taskCount <= taskCount'
      /\ fIndex' \in [Workers -> Nat \ {0}]
      /\ \A v \in Workers : v # w => fIndex'[v] = fIndex[v]
      /\ taskCount' \in Nat /\ awaited' \in Int
  BY RunFacts DEF ReaderInv, ReaderTypeOK
<1>3. QED
  BY <1>1, <1>2, WorkerMoves

LEMMA ConnectHolds ==
    ASSUME ReaderInv, phase = "run", NEW w \in Workers, Connect(w)
    PROVE  ReaderInv'
<1>1. /\ UNCHANGED <<inputQueue, taskMap, unsent, jobs, awaited, fIndex, purgeMap, taskCount>>
      /\ state[w] = "connect" /\ "read" \in WorkerStates
  BY DEF Connect, channels, shared, WorkerStates
<1>2. CASE state' = [state EXCEPT ![w] = "read"] /\ UNCHANGED phase
  <2>1. Moves(w, "read")
    BY <1>2 DEF Moves
  <2>2. QED
    BY <1>1, <1>2, <2>1, QuietHolds DEF Busy, Occupied
<1>3. CASE phase' = "refused" /\ UNCHANGED state
  <2>1. ReaderTypeOK'
    BY <1>1, <1>3 DEF ReaderInv, ReaderTypeOK, Phases, Ended
  <2>2. QED
    BY <1>1, <1>3, <2>1 DEF ReaderInv, Fresh, Placed, TasksHaveJobs, PurgeIsLate,
                            TooManyAwaited, NeverReturns, Divided, FaultNeedsATaskLeft
<1>4. QED
  BY <1>2, <1>3 DEF Connect

LEMMA RecordHolds ==
    ASSUME ReaderInv, phase = "run", NEW w \in Workers, Record(w)
    PROVE  ReaderInv'
<1>1. /\ UNCHANGED <<phase, inputQueue, taskMap, unsent, jobs, awaited, taskCount>>
      /\ state[w] = "write" /\ "read" \in WorkerStates /\ Moves(w, "read")
      /\ fIndex' = [fIndex EXCEPT ![w] = @ + 1]
      /\ purgeMap' = purgeMap \cup {taskMap[w][fIndex[w]]}
  BY DEF Record, Recorded, Moves, main, channels, WorkerStates
<1>2. TasksHaveJobs' /\ TooManyAwaited'
  BY <1>1, SameCounts DEF Busy, Occupied
<1>3. purgeMap' \subseteq Inputs
  <2>1. /\ fIndex[w] \in Nat \ {0} /\ taskMap[w] \in Seq(Inputs)
        /\ fIndex[w] <= Len(taskMap[w])
    BY <1>1 DEF ReaderInv, ReaderTypeOK, Placed
  <2>2. fIndex[w] \in 1..Len(taskMap[w])
    BY <2>1
  <2>3. taskMap[w][fIndex[w]] \in Inputs
    BY <2>1, <2>2
  <2>4. QED
    BY <1>1, <2>3 DEF ReaderInv, ReaderTypeOK
<1>4. /\ fIndex' \in [Workers -> Nat \ {0}]
      /\ \A v \in Workers : v # w => fIndex'[v] = fIndex[v]
  BY <1>1 DEF ReaderInv, ReaderTypeOK
<1>5. jobs' \in Nat /\ taskCount' \in Nat /\ awaited' \in Int /\ taskCount <= taskCount'
  BY <1>1, RunFacts
<1>6. QED
  BY <1>1, <1>2, <1>3, <1>4, <1>5, WorkerMoves

LEMMA FinishTaskHolds ==
    ASSUME ReaderInv, phase = "run", NEW w \in Workers, FinishTask(w)
    PROVE  ReaderInv'
<1>1. /\ UNCHANGED <<phase, inputQueue, taskMap, unsent, jobs, awaited, fIndex, purgeMap>>
      /\ state[w] = "read" /\ "check1" \in WorkerStates /\ Moves(w, "check1")
      /\ taskCount' = taskCount + 1
  BY DEF FinishTask, Moves, main, channels, WorkerStates
<1>2. /\ Count(state', Busy) = Count(state, Busy) - 1
      /\ Count(state', Occupied) = Count(state, Occupied)
  BY <1>1, MovesCount DEF ReaderInv, Busy, Occupied
<1>3. TasksHaveJobs' /\ TooManyAwaited'
  <2>1. taskCount' + unsent + jobs + (Count(state, Busy) - 1) <= NumJobs
    BY <1>1, RunFacts
  <2>2. QED
    BY <1>1, <1>2, <2>1, RunFacts DEF TasksHaveJobs, TooManyAwaited
<1>4. /\ jobs' \in Nat /\ purgeMap' \subseteq Inputs /\ taskCount <= taskCount'
      /\ fIndex' \in [Workers -> Nat \ {0}]
      /\ \A v \in Workers : v # w => fIndex'[v] = fIndex[v]
      /\ taskCount' \in Nat /\ awaited' \in Int
  BY <1>1, RunFacts DEF ReaderInv, ReaderTypeOK
<1>5. QED
  BY <1>1, <1>3, <1>4, WorkerMoves

LEMMA SendResultHolds ==
    ASSUME ReaderInv, phase = "run", NEW w \in Workers, SendResult(w),
           state[w] \in {"check2", "purge"},
           UNCHANGED <<phase, inputQueue, taskMap, unsent, jobs, fIndex, purgeMap, taskCount>>
    PROVE  ReaderInv'
<1>1. Moves(w, "idle") /\ awaited' = awaited - 1 /\ "idle" \in WorkerStates
  BY DEF SendResult, Moves, WorkerStates
<1>2. /\ Count(state', Busy) = Count(state, Busy)
      /\ Count(state', Occupied) = Count(state, Occupied) - 1
  BY <1>1, MovesCount DEF ReaderInv, Busy, Occupied
<1>3. TasksHaveJobs' /\ TooManyAwaited'
  <2>1. 1 + unsent + jobs + (Count(state, Occupied) - 1) <= awaited'
    BY <1>1, RunFacts
  <2>2. QED
    BY <1>2, <2>1, RunFacts DEF TasksHaveJobs, TooManyAwaited
<1>4. /\ jobs' \in Nat /\ purgeMap' \subseteq Inputs /\ taskCount <= taskCount'
      /\ fIndex' \in [Workers -> Nat \ {0}]
      /\ \A v \in Workers : v # w => fIndex'[v] = fIndex[v]
      /\ taskCount' \in Nat /\ awaited' \in Int
  BY <1>1, RunFacts DEF ReaderInv, ReaderTypeOK
<1>5. QED
  BY <1>1, <1>3, <1>4, WorkerMoves

LEMMA FirstCheckHolds ==
    ASSUME ReaderInv, phase = "run", NEW w \in Workers, FirstCheck(w)
    PROVE  ReaderInv'
<1>1. /\ UNCHANGED <<phase, inputQueue, taskMap, unsent, jobs, awaited, fIndex, purgeMap, taskCount>>
      /\ state[w] = "check1" /\ "purge" \in WorkerStates /\ "check2" \in WorkerStates
      /\ (OneTaskLeft /\ Moves(w, "purge")) \/ Moves(w, "check2")
  BY DEF FirstCheck, StartPurge, Moves, main, shared, WorkerStates
<1>2. taskCount \in Nat /\ NumWorkers \in Nat
  BY RunFacts
<1>3. CASE OneTaskLeft /\ Moves(w, "purge")
  <2>1. NumWorkers - 1 <= taskCount
    BY <1>2, <1>3 DEF OneTaskLeft
  <2>2. QED
    BY <1>1, <1>3, <2>1, QuietHolds DEF Busy, Occupied
<1>4. CASE Moves(w, "check2")
  BY <1>1, <1>4, QuietHolds DEF Busy, Occupied
<1>5. QED
  BY <1>1, <1>3, <1>4

LEMMA SecondCheckHolds ==
    ASSUME ReaderInv, phase = "run", NEW w \in Workers, SecondCheck(w)
    PROVE  ReaderInv'
<1>1. /\ UNCHANGED <<phase, inputQueue, taskMap, unsent, jobs, fIndex, purgeMap, taskCount>>
      /\ state[w] = "check2" /\ "purge" \in WorkerStates
      /\ (NoTaskLeft /\ Moves(w, "purge") /\ awaited' = awaited) \/ SendResult(w)
  BY DEF SecondCheck, StartPurge, Moves, main, shared, WorkerStates
<1>2. taskCount \in Nat /\ NumWorkers \in Nat
  BY RunFacts
<1>3. CASE NoTaskLeft /\ Moves(w, "purge") /\ awaited' = awaited
  <2>1. NumWorkers - 1 <= taskCount
    BY <1>2, <1>3 DEF NoTaskLeft
  <2>2. QED
    BY <1>1, <1>3, <2>1, QuietHolds DEF Busy, Occupied
<1>4. CASE SendResult(w)
  BY <1>1, <1>4, SendResultHolds
<1>5. QED
  BY <1>1, <1>3, <1>4

(* The purge started after all the tasks but one, and the writer's own is  *)
(* not among the finished.                                                 *)
LEMMA FaultHolds ==
    ASSUME ReaderInv, phase = "run", NEW w \in Workers, Fault(w)
    PROVE  ReaderInv'
<1>1. /\ UNCHANGED <<inputQueue, taskMap, unsent, jobs, awaited, state, fIndex, purgeMap, taskCount>>
      /\ state[w] = "purge" /\ phase' = "fault"
      /\ \E v \in Workers : state[v] = "write"
  BY DEF Fault, channels, workers, shared
<1>2. NumWorkers - 1 <= taskCount
  BY <1>1 DEF ReaderInv, PurgeIsLate
<1>3. Count(state, Busy) >= 1
  BY <1>1, CountType DEF Busy
<1>4. taskCount < NumJobs
  BY <1>3, RunFacts
<1>5. ReaderTypeOK'
  BY <1>1 DEF ReaderInv, ReaderTypeOK, Phases, Ended
<1>6. NumWorkers > 1
  <2>1. PICK v \in Workers : state[v] = "write"
    BY <1>1
  <2>2. v # w
    BY <1>1, <2>1
  <2>3. QED
    BY <2>2, PoolAssumption DEF Workers
<1>7. QED
  BY <1>1, <1>2, <1>4, <1>5, <1>6 DEF ReaderInv, Fresh, Placed, TasksHaveJobs, PurgeIsLate,
                            TooManyAwaited, NeverReturns, Divided, FaultNeedsATaskLeft

LEMMA WorkerHolds ==
    ASSUME ReaderInv, NEW w \in Workers, WorkerStep(w)
    PROVE  ReaderInv'
<1>0. phase = "run"
  BY DEF WorkerStep
<1>1. CASE Exit(w)
  <2>1. /\ UNCHANGED <<phase, inputQueue, taskMap, unsent, jobs, awaited, fIndex, purgeMap, taskCount>>
        /\ state[w] = "idle" /\ "exited" \in WorkerStates /\ Moves(w, "exited")
    BY <1>1 DEF Exit, Moves, main, channels, shared, WorkerStates
  <2>2. QED
    BY <1>0, <2>1, QuietHolds DEF Busy, Occupied
<1>2. CASE ReadInput(w)
  <2>1. /\ UNCHANGED <<phase, inputQueue, taskMap, unsent, jobs, awaited, fIndex, purgeMap, taskCount>>
        /\ state[w] = "read" /\ "lock" \in WorkerStates /\ Moves(w, "lock") /\ ~ListRead(w)
    BY <1>2 DEF ReadInput, Moves, main, channels, shared, WorkerStates
  <2>2. fIndex[w] <= Len(taskMap[w])
    BY <2>1 DEF ReaderInv, ReaderTypeOK, ListRead
  <2>3. QED
    BY <1>0, <2>1, <2>2, QuietHolds DEF Busy, Occupied
<1>3. CASE Lock(w)
  <2>1. /\ UNCHANGED <<phase, inputQueue, taskMap, unsent, jobs, awaited, fIndex, purgeMap, taskCount>>
        /\ state[w] = "lock" /\ "write" \in WorkerStates /\ Moves(w, "write")
    BY <1>3 DEF Lock, Moves, main, channels, shared, WorkerStates
  <2>2. fIndex[w] <= Len(taskMap[w])
    BY <2>1 DEF ReaderInv, Placed
  <2>3. QED
    BY <1>0, <2>1, <2>2, QuietHolds DEF Busy, Occupied
<1>4. CASE Purge(w)
  <2>1. /\ UNCHANGED <<phase, inputQueue, taskMap, unsent, jobs, fIndex, purgeMap, taskCount>>
        /\ state[w] = "purge" /\ SendResult(w)
    BY <1>4 DEF Purge, main, shared
  <2>2. QED
    BY <1>0, <2>1, SendResultHolds
<1>5. QED
  BY <1>0, <1>1, <1>2, <1>3, <1>4, TakeJobHolds, ConnectHolds, RecordHolds, FinishTaskHolds,
     FirstCheckHolds, SecondCheckHolds, FaultHolds DEF WorkerStep

LEMMA StepHolds == ReaderInv /\ [ReaderNext]_readerVars => ReaderInv'
<1> SUFFICES ASSUME ReaderInv, [ReaderNext]_readerVars PROVE ReaderInv'
  OBVIOUS
<1>1. CASE ListInputs
  BY <1>1, ListInputsHolds
<1>2. CASE MainStep
  BY <1>2, DivideHolds, SpinHolds, SendJobHolds, EndOfMainHolds DEF MainStep
<1>3. ASSUME NEW w \in Workers, WorkerStep(w) PROVE ReaderInv'
  BY <1>3, WorkerHolds
<1>4. CASE UNCHANGED readerVars
  <2>1. UNCHANGED <<phase, inputQueue, taskMap, unsent, jobs, awaited, state, fIndex, purgeMap, taskCount>>
    BY <1>4 DEF readerVars, main, channels, workers, shared
  <2>2. ReaderTypeOK'
    BY <2>1 DEF ReaderInv, ReaderTypeOK
  <2>3. QED
    BY <2>1, <2>2 DEF ReaderInv, Fresh, Placed, TasksHaveJobs, PurgeIsLate, TooManyAwaited,
                      NeverReturns, Divided, Division, LoopNeverEnds, FaultNeedsATaskLeft
<1>5. QED
  BY <1>1, <1>2, <1>3, <1>4 DEF ReaderNext
-----------------------------------------------------------------------------
(* The inductive invariant holds throughout: it does at the start, and      *)
(* every step keeps it. (redisDebugReader.go, main and its workers)         *)
THEOREM InvariantHolds == ReaderSpec => []ReaderInv
  BY InitHolds, StepHolds, PTL DEF ReaderSpec

(* Every variable of the process keeps to its type.                        *)
(* (redisDebugReader.go, the variables at its top and those of main)       *)
THEOREM TypeCorrect == ReaderSpec => []ReaderTypeOK
<1>1. ReaderInv => ReaderTypeOK
  BY DEF ReaderInv
<1>2. QED
  BY <1>1, InvariantHolds, PTL

(* Whatever NUM_WORKERS and NUM_JOBS, the runtime can end the process for  *)
(* the unguarded map only with two workers or more, after NUM_WORKERS - 1  *)
(* tasks and before the last of the NUM_JOBS: a process with fewer jobs    *)
(* than workers is safe from it.                                           *)
(* (process_input_data_redis_concurrent and purgeProcessedRedis)           *)
THEOREM TheFaultNeedsATaskLeft == ReaderSpec => []FaultNeedsATaskLeft
<1>1. ReaderInv => FaultNeedsATaskLeft
  BY DEF ReaderInv
<1>2. QED
  BY <1>1, InvariantHolds, PTL

(* main never comes to its end: it waits for a result for each pair of a   *)
(* job and a worker, and one more. (redisDebugReader.go:404)               *)
THEOREM MainNeverReturns == ReaderSpec => []NeverReturns
<1>1. ReaderInv => NeverReturns
  BY DEF ReaderInv
<1>2. QED
  BY <1>1, InvariantHolds, PTL
-----------------------------------------------------------------------------
(* The image of an interval has no more members than the interval.         *)
LEMMA ImageOfInterval ==
    ASSUME NEW S, NEW list \in Seq(S), NEW a \in Nat, a < Len(list)
    PROVE  LET image == {list[i] : i \in (a + 1)..Len(list)} IN
             IsFiniteSet(image) /\ Cardinality(image) <= Len(list) - a
<1> DEFINE I == (a + 1)..Len(list)
           image == {list[i] : i \in I}
           f == [i \in I |-> list[i]]
<1>1. IsFiniteSet(I) /\ Cardinality(I) = Len(list) - a
  <2>1. a + 1 \in Int /\ Len(list) \in Int /\ ~(a + 1 > Len(list))
    OBVIOUS
  <2>2. IsFiniteSet(I) /\ Cardinality(I) = Len(list) - (a + 1) + 1
    BY <2>1, FS_Interval
  <2>3. QED
    BY <2>1, <2>2
<1>2. f \in Surjection(I, image)
  BY DEF Surjection
<1>3. IsFiniteSet(image) /\ Cardinality(image) <= Cardinality(I)
  BY <1>1, <1>2, FS_Surjection
<1>4. QED
  BY <1>1, <1>3

(* What n chunks of a list leave out, when their length is not 0, is part  *)
(* of its end.                                                             *)
LEMMA LeftOutIsTheEnd ==
    ASSUME NEW S, NEW list \in Seq(S), NEW n \in Nat \ {0}, NEW size \in Nat \ {0},
           NEW m \in Nat, m = n * size
    PROVE  (KeysOf(list) \ UNION {KeysOf(IdAllocator(list, size, n)[w]) : w \in 1..n})
             \subseteq {list[i] : i \in (m + 1)..Len(list)}
<1>0. \A j \in 1..Len(list) : j <= n * size =>
         \E w \in 1..n : \E k \in 1..Len(IdAllocator(list, size, n)[w]) :
            IdAllocator(list, size, n)[w][k] = list[j]
  BY HandedOut
<1> DEFINE split == IdAllocator(list, size, n)
<1> SUFFICES ASSUME NEW i \in 1..Len(list),
                    list[i] \notin UNION {KeysOf(split[w]) : w \in 1..n}
             PROVE  i \in (m + 1)..Len(list)
  BY DEF KeysOf
<1>1. ASSUME i <= m PROVE FALSE
  <2>1. PICK w \in 1..n : \E k \in 1..Len(split[w]) : split[w][k] = list[i]
    BY <1>0, <1>1
  <2>2. list[i] \in KeysOf(split[w])
    BY <2>1 DEF KeysOf
  <2>3. QED
    BY <2>2
<1>2. i \in Nat /\ i <= Len(list) /\ Len(list) \in Nat
  OBVIOUS
<1>3. QED
  BY <1>1, <1>2

(* However long the list and however many the workers, fewer keys than     *)
(* there are workers are in nobody's list. (redisDebugReader.go,           *)
(* divide_and_conquer)                                                     *)
THEOREM TheRemainderIsLeftOut == ReaderSpec => []OnlyARemainderIsLeftOut
<1> DEFINE L == Len(inputQueue)
           size == LoaderSize(inputQueue, NumWorkers)
           leftOut == KeysOf(inputQueue) \ UNION {KeysOf(taskMap[w]) : w \in Workers}
<1>1. ASSUME ReaderInv, phase = "run" PROVE Cardinality(leftOut) < NumWorkers
  <2>1. /\ inputQueue \in Seq(Inputs) /\ L \in Nat /\ NumWorkers \in Nat \ {0}
        /\ taskMap = IdAllocator(inputQueue, size, NumWorkers)
        /\ inputQueue = <<>> \/ size # 0
    BY <1>1, PoolAssumption DEF ReaderInv, ReaderTypeOK, Divided, Division, LoopNeverEnds
  <2>2. /\ size \in Nat
        /\ L % NumWorkers \in 0..(NumWorkers - 1)
        /\ L = NumWorkers * size + (L % NumWorkers)
    BY <2>1, DivMod DEF LoaderSize
  <2>3. CASE L = 0
    <3>1. leftOut = {}
      BY <2>3 DEF KeysOf
    <3>2. Cardinality({}) = 0
      BY FS_EmptySet
    <3> HIDE DEF leftOut
    <3>3. Cardinality(leftOut) = 0
      BY <3>1, <3>2
    <3>4. QED
      BY <2>1, <3>3
  <2>4. CASE L # 0
    <3> DEFINE m == NumWorkers * size
               end == {inputQueue[i] : i \in (m + 1)..L}
    <3>1. size \in Nat \ {0}
      BY <2>1, <2>2, <2>4
    <3>2. m \in Nat
      BY <2>1, <3>1, SMT
    <3> HIDE DEF m
    <3>3. L - m < NumWorkers /\ m <= L
      BY <2>1, <2>2, <3>2 DEF m
    <3>4. leftOut \subseteq end
      BY <2>1, <3>1, <3>2, LeftOutIsTheEnd DEF m, Workers
    <3>5. IsFiniteSet(end) /\ Cardinality(end) < NumWorkers
      <4>1. CASE m < L
        <5>1. IsFiniteSet(end) /\ Cardinality(end) <= L - m
          BY <2>1, <3>2, <4>1, ImageOfInterval
        <5>2. Cardinality(end) \in Nat
          BY <5>1, FS_CardinalityType
        <5>3. QED
          BY <2>1, <3>2, <3>3, <5>1, <5>2
      <4>2. CASE m = L
        <5>1. end = {}
          BY <2>1, <4>2
        <5>2. IsFiniteSet({}) /\ Cardinality({}) = 0
          BY FS_EmptySet
        <5> HIDE DEF end
        <5>3. QED
          BY <2>1, <5>1, <5>2
      <4>3. QED
        BY <2>1, <3>2, <3>3, <4>1, <4>2
    <3>6. /\ Cardinality(leftOut) <= Cardinality(end)
          /\ Cardinality(leftOut) \in Nat /\ Cardinality(end) \in Nat
      BY <3>4, <3>5, FS_Subset, FS_CardinalityType
    <3>7. QED
      BY <2>1, <3>5, <3>6
  <2>5. QED
    BY <2>3, <2>4
<1>2. ReaderInv => OnlyARemainderIsLeftOut
  BY <1>1 DEF OnlyARemainderIsLeftOut
<1>3. QED
  BY <1>2, InvariantHolds, PTL
==============================================================================
