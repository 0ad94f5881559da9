---------------------------- MODULE DebugReader ----------------------------
(***************************************************************************)
(* src/analysis/redisDebugReader.go: the worker pool of the producers with *)
(* the publishing taken out, to watch what they read.                      *)
(*                                                                         *)
(* main lists the keys of database 6 on the replica, divides them among    *)
(* the workers in chunks of len/numWorkers, and waits for more results     *)
(* than the workers send.  A worker that takes a job reads its whole list, *)
(* on a connection of its own to the master's database 0, and records each *)
(* key in purgeMap under the mutex, read or not.  At numWorkers - 1 and at *)
(* numWorkers finished tasks a worker goes through purgeMap WITHOUT the    *)
(* mutex; the Go runtime ends a process that it catches going through a    *)
(* map while another goroutine writes to it.                               *)
(***************************************************************************)
EXTENDS Integers, Sequences, FiniteSets, WorkSplit

CONSTANTS
    Inputs,      \* keys of orders
    Listings,    \* the lists KEYS * may return
    NumWorkers,  \* NUM_WORKERS
    NumJobs      \* NUM_JOBS

ASSUME ListingsAssumption == Listings \subseteq Seq(Inputs)
ASSUME PoolAssumption == NumWorkers \in Nat \ {0} /\ NumJobs \in Nat \ {0}

Workers == 1..NumWorkers

VARIABLES
    phase,       \* what main does, or what has become of the process
    inputQueue,  \* the keys main has listed
    taskMap,     \* the keys of each worker
    unsent,      \* jobs main has still to send
    jobs,        \* jobs on the channel
    awaited,     \* results main still waits for
    state,       \* where each worker is
    fIndex,      \* its place in its list, counted from 1
    purgeMap,    \* the keys recorded
    taskCount    \* finished tasks, the shared counter

main == <<phase, inputQueue, taskMap>>
channels == <<unsent, jobs, awaited>>
workers == <<state, fIndex>>
shared == <<purgeMap, taskCount>>
readerVars == <<main, channels, workers, shared>>

(* asleep: "fatal error: all goroutines are asleep"; fault: "concurrent    *)
(* map iteration and map write"; refused: log.Fatal or panic on a          *)
(* connection; spin: the division never ends.                              *)
Ended == {"asleep", "fault", "refused"}
Phases == {"off", "divide", "spin", "run", "returned"} \cup Ended

WorkerStates == {"idle", "connect", "read", "lock", "write", "check1", "check2", "purge", "exited"}

ReaderTypeOK ==
    /\ phase \in Phases
    /\ inputQueue \in Seq(Inputs)
    /\ taskMap \in [Workers -> Seq(Inputs)]
    /\ unsent \in 0..NumJobs
    /\ jobs \in 0..NumJobs
    /\ awaited \in Int
    /\ state \in [Workers -> WorkerStates]
    /\ fIndex \in [Workers -> Nat \ {0}]
    /\ purgeMap \subseteq Inputs
    /\ taskCount \in Nat
-----------------------------------------------------------------------------
(* Conditions and values of the code, which the actions use; the variant   *)
(* before one is a plausible slip that a property at the end of the module *)
(* must catch.                                                             *)

(* for r := 0; r <= numJobs*numWorkers; r++                                *)
OneResultEach == NumJobs
ResultsAwaited == NumJobs * NumWorkers + 1

(* the length of a chunk is 0 with fewer keys than workers                 *)
EmptyListSpins == LoaderSize(inputQueue, NumWorkers) = 0
LoopNeverEnds == inputQueue # <<>> /\ LoaderSize(inputQueue, NumWorkers) = 0

HalfChunks == IdAllocator(inputQueue, LoaderSize(inputQueue, NumWorkers + 1), NumWorkers)
Division == IdAllocator(inputQueue, LoaderSize(inputQueue, NumWorkers), NumWorkers)

(* mutex.Lock(): nobody else is between Lock and Unlock                    *)
MutexFree == \A w \in Workers : state[w] # "write"

ListRead(w) == fIndex[w] > Len(taskMap[w])

(* taskCount == numWorkers-1 || taskCount == numWorkers                    *)
TwoTasksEarly == taskCount = NumWorkers - 2
OneTaskLeft == taskCount = NumWorkers - 1

NoTaskLeft == taskCount = NumWorkers

IndexRecorded(w) == purgeMap \cup {fIndex[w] - 1}
Recorded(w) == purgeMap \cup {taskMap[w][fIndex[w]]}
-----------------------------------------------------------------------------
ReaderInit ==
    /\ phase = "off"
    /\ inputQueue = <<>>
    /\ taskMap = [w \in Workers |-> <<>>]
    /\ unsent = 0
    /\ jobs = 0
    /\ awaited = 0
    /\ state = [w \in Workers |-> "exited"]
    /\ fIndex = [w \in Workers |-> 1]
    /\ purgeMap = {}
    /\ taskCount = 0

(* read_input_sources_redis                                                *)
ListInputs ==
    /\ phase = "off"
    /\ \/ inputQueue' \in Listings /\ phase' = "divide"
       \/ phase' = "refused" /\ UNCHANGED inputQueue
    /\ UNCHANGED <<taskMap, channels, workers, shared>>

(* divide_and_conquer, and main starts the workers ...                     *)
Divide ==
    /\ phase = "divide"
    /\ ~LoopNeverEnds
    /\ phase' = "run"
    /\ taskMap' = Division
    /\ unsent' = NumJobs
    /\ awaited' = ResultsAwaited
    /\ state' = [w \in Workers |-> "idle"]
    /\ UNCHANGED <<inputQueue, jobs, fIndex, shared>>

(* ... or the loop goes on for ever, in place.                             *)
Spin ==
    /\ phase = "divide"
    /\ LoopNeverEnds
    /\ phase' = "spin"
    /\ UNCHANGED <<inputQueue, taskMap, channels, workers, shared>>

(* jobs <- j; the channel has room for all, and is closed after the last.  *)
SendJob ==
    /\ phase = "run"
    /\ unsent > 0
    /\ unsent' = unsent - 1
    /\ jobs' = jobs + 1
    /\ UNCHANGED <<main, awaited, workers, shared>>

TakeJob(w) ==
    /\ state[w] = "idle"
    /\ jobs > 0
    /\ jobs' = jobs - 1
    /\ state' = [state EXCEPT ![w] = "connect"]
    /\ fIndex' = [fIndex EXCEPT ![w] = 1]
    /\ UNCHANGED <<main, unsent, awaited, shared>>

Exit(w) ==
    /\ state[w] = "idle"
    /\ jobs = 0
    /\ unsent = 0
    /\ state' = [state EXCEPT ![w] = "exited"]
    /\ UNCHANGED <<main, channels, fIndex, shared>>

(* A connection that is refused ends the process.                          *)
Connect(w) ==
    /\ state[w] = "connect"
    /\ \/ state' = [state EXCEPT ![w] = "read"] /\ UNCHANGED phase
       \/ phase' = "refused" /\ UNCHANGED state
    /\ UNCHANGED <<inputQueue, taskMap, channels, fIndex, shared>>

(* readFromRedis: five HGETs; what came of them is printed and no more.    *)
ReadInput(w) ==
    /\ state[w] = "read"
    /\ ~ListRead(w)
    /\ state' = [state EXCEPT ![w] = "lock"]
    /\ UNCHANGED <<main, channels, fIndex, shared>>

(* purgeMap[input_id] = input_id, between Lock and Unlock.                 *)
Lock(w) ==
    /\ state[w] = "lock"
    /\ MutexFree
    /\ state' = [state EXCEPT ![w] = "write"]
    /\ UNCHANGED <<main, channels, fIndex, shared>>

Record(w) ==
    /\ state[w] = "write"
    /\ purgeMap' = Recorded(w)
    /\ fIndex' = [fIndex EXCEPT ![w] = @ + 1]
    /\ state' = [state EXCEPT ![w] = "read"]
    /\ UNCHANGED <<main, channels, taskCount>>

(* taskCount++ under the mutex.                                            *)
FinishTask(w) ==
    /\ state[w] = "read"
    /\ ListRead(w)
    /\ MutexFree
    /\ taskCount' = taskCount + 1
    /\ state' = [state EXCEPT ![w] = "check1"]
    /\ UNCHANGED <<main, channels, fIndex, purgeMap>>

(* "please fix this!!": each side of the || reads the counter by itself.   *)
StartPurge(w) ==
    /\ state' = [state EXCEPT ![w] = "purge"]
    /\ UNCHANGED awaited

(* results <- numJobs: the channel has room for all, main takes what comes.*)
SendResult(w) ==
    /\ state' = [state EXCEPT ![w] = "idle"]
    /\ awaited' = awaited - 1

FirstCheck(w) ==
    /\ state[w] = "check1"
    /\ \/ OneTaskLeft /\ StartPurge(w)
       \/ /\ ~OneTaskLeft
          /\ state' = [state EXCEPT ![w] = "check2"]
          /\ UNCHANGED awaited
    /\ UNCHANGED <<main, unsent, jobs, fIndex, shared>>

SecondCheck(w) ==
    /\ state[w] = "check2"
    /\ \/ NoTaskLeft /\ StartPurge(w)
       \/ ~NoTaskLeft /\ SendResult(w)
    /\ UNCHANGED <<main, unsent, jobs, fIndex, shared>>

(* purgeProcessedRedis only prints the keys it comes by ("dummy purging") *)
(* ...                                                                     *)
Purge(w) ==
    /\ state[w] = "purge"
    /\ SendResult(w)
    /\ UNCHANGED <<main, unsent, jobs, fIndex, shared>>

(* ... unless the runtime catches another goroutine in the middle of a     *)
(* write.                                                                  *)
Fault(w) ==
    /\ state[w] = "purge"
    /\ \E v \in Workers : state[v] = "write"
    /\ phase' = "fault"
    /\ UNCHANGED <<inputQueue, taskMap, channels, workers, shared>>

(* main has its results and returns, or is the last goroutine and waits.   *)
EndOfMain ==
    /\ phase = "run"
    /\ unsent = 0
    /\ awaited = 0 \/ \A w \in Workers : state[w] = "exited"
    /\ phase' = IF awaited = 0 THEN "returned" ELSE "asleep"
    /\ UNCHANGED <<inputQueue, taskMap, channels, workers, shared>>

WorkerStep(w) ==
    /\ phase = "run"
    /\ \/ TakeJob(w) \/ Exit(w) \/ Connect(w)
       \/ ReadInput(w) \/ Lock(w) \/ Record(w)
       \/ FinishTask(w) \/ FirstCheck(w) \/ SecondCheck(w) \/ Purge(w) \/ Fault(w)

MainStep == Divide \/ Spin \/ SendJob \/ EndOfMain

ReaderNext ==
    \/ ListInputs
    \/ MainStep
    \/ \E w \in Workers : WorkerStep(w)

ReaderSpec == ReaderInit /\ [][ReaderNext]_readerVars

(* The Go scheduler runs every goroutine that can run; a mutex is handed   *)
(* to each that waits for it.                                              *)
ReaderFairness ==
    /\ WF_readerVars(MainStep)
    /\ \A w \in Workers : SF_readerVars(WorkerStep(w))
-----------------------------------------------------------------------------
KeysOf(list) == {list[i] : i \in 1..Len(list)}

(* The division leaves out fewer keys than there are workers, those of the *)
(* last, short chunk, which belongs to nobody (divide_and_conquer).        *)
OnlyARemainderIsLeftOut ==
    phase = "run" =>
        Cardinality(KeysOf(inputQueue) \ UNION {KeysOf(taskMap[w]) : w \in Workers}) < NumWorkers

(* The map is gone through and written to at once only when all workers    *)
(* but one could have done a task and one of the jobs is still to do: with *)
(* fewer jobs than workers, or one worker, the runtime never ends the      *)
(* process for it; with more jobs than workers it may at any of the counts *)
(* between (process_input_data_redis_concurrent, purgeProcessedRedis).     *)
FaultNeedsATaskLeft ==
    phase = "fault" => NumWorkers > 1 /\ NumWorkers - 1 <= taskCount /\ taskCount < NumJobs

(* Once started the process ends, and only by an error, since main waits   *)
(* for NumJobs * NumWorkers + 1 results and gets NumJobs (line 404); unless*)
(* it has keys but fewer than workers: then it is still dividing them.     *)
EndsOrSpins ==
    (phase = "divide") ~>
        (phase \in Ended \/ (phase = "spin" /\ Len(inputQueue) \in 1..(NumWorkers - 1)))
=============================================================================
