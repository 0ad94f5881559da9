# Verification of the trading-system load engine

TLA+ models of the Go services under `src/microservices/` and of the programs
under `src/analysis/`, `src/tools/` and `src/fix-protocol/`, the TLC runs that
check them and the TLAPS proofs about them. The reference is the code; the
Pulsar versions (`build/pulsar/*.go`) are the ones the manifests deploy, and
they are what is modelled unless a section says otherwise.

1. [The system](#1-the-system): components, state, interactions, what is hard
2. [The modules](#2-the-modules): how each corresponds to the code
3. [The runs](#3-the-runs): what each checks and shows, bounds, fairness
4. [The proofs](#4-the-proofs)
5. [What the models found](#5-what-the-models-found)
   and [Disagreements seen while modelling](#disagreements-seen-while-modelling)
6. [What is not modelled](#6-what-is-not-modelled)
7. [What is left](#7-what-is-left)

## 1. The system

An operator uses the **load management portal** (`loader.go`) to prepare a load
test: historical or synthetic orders go into Redis, the list of order ids is
divided among the **producer** pods and left in Redis database 11 under each
pod's host name, and the pods are restarted. A producer pod reads its list,
divides it among goroutines, reads each order's hash and publishes it on a
Pulsar topic. **Consumer** pods share a subscription of the topic, turn each
message into a REST call on the trading system (or FIX, **fix-consumer**), and
cancel orders in batches. **Ingestor**, **order-dumper** and **streamer**
move historical orders between files, Pulsar, Kafka and Redis; **loadcreds**
refreshes the table of user credentials the consumers check out. The **load
sink** is a dummy target that writes every order to a file. Beside the services
stand **programs run by hand**: loaders and readers of the table of credentials,
a pool that reads the orders without publishing them, and three that take a log
or a dump apart.

```
 S3 files --> ingestor --.                    .--> producer pod 1 --.
 Kafka -----> dumper ----+--> Redis (orders)--+--> producer pod 2 --+--> Pulsar topic
 topic -----> streamer --'        ^           '--> ...            --'       |
                                  |                  ^                      v
              portal -- orders ---'   db 11: lists --'              consumer pods ---> trading system
              portal -- kubectl scale --> StatefulSet               (db 14: credentials)
```

| component | source | state it keeps | operations | interacts with |
|---|---|---|---|---|
| producer pod | `producer/build/pulsar/producer.go` | `taskMap`, `taskCount`, `purgeMap`, job and result channels; entry in db 11 | start, take job, read, publish, count, purge, die | portal (db 11), data db, topic |
| serial producer | `serialin/build/pulsar/serialin.go` | same, list taken with `KEYS *` | same, no purge | data db, topic |
| portal | `loader/build/pulsar/loader.go` | `taskMap`, `purgeMap`, `taskCount`, `workCount`, `scaleMax`; dbs 0, 3, 6, 11 | allocate, load synthetic/historical/sequence, bulk load, restart pods, bootstrap | every other service |
| consumer | `consumer/build/pulsar/consumer.go` | `batchIndex`, `orderIndex`, credentials, session | receive, ack, check, post, batch cancel, cancel all | topic, db 14, trading API |
| serial consumer | `serialout/build/pulsar/serialout.go` | same | same | same |
| FIX consumer | `fix-consumer/build/pulsar/fxconsumer.go` | same plus FIX session metrics | same | topic, FIX gateway |
| credential loader | `loader/build/pulsar/loadcreds/loadcreds.go` | `msgIndex`; db 14 | load, reset used flags | consumers, portal |
| ingestor | `ingestor/build/pulsar/ingestor.go` | `loadStatus`; db 3 | start, load, status | portal |
| order dumper | `order-dumper/build/dumper.go` | `loadStatus`; db 6 | start, dump, status | portal, Kafka |
| streamer | `replay/build/pulsar/streamer.go` | `loadStatus`, `backupStatus`, counters; db 7 | backup, replay a range, restore, status | portal, Pulsar, Redis |
| FIX user utilities | `fix-protocol/pt_users/{process_user,write,update}.go`, `tools/processCredentials.go`, `analysis/{update,lookup}.go` | `msgIndex`; db 14 | load a table, mark, look up, take a credential | consumers, credential loader |
| debug reader | `analysis/redisDebugReader.go` | `taskMap`, `purgeMap`, `taskCount`, channels | list, divide, read, record, purge (prints only) | Redis |
| sequence check | `analysis/seqCheck.go` | previous number, total, numbers printed | a step per line of a log | - |
| file classifier | `analysis/classifier.go` | files and sizes | list, read, classify | a directory |
| order extraction | `tools/processing.go` | two files | scan, filter, look a symbol up | a dump of a FIX session |
| load sink | `load-sink/build/anvil.go`, `replay-sink` | `orderCount`, files | accept an order | consumers |

### What is hard, and what makes each part correct

**Producer pod.** Worker goroutines share a job channel, a counter that is
incremented under a mutex and compared outside it, and the entry in Redis; the
process can die at any publish and come back under the same name. Correct:
orders of a list reach the topic, the entry is kept until the work is done and
is gone afterwards, `main` does not return and start the work over. Most errors
of Redis commands are only printed: what the pod does next, it does with less.

**Portal and pods.** The portal learns the pool from `kubectl`, writes the
lists one push at a time and restarts the pods by scaling them to 0 and back.
Nothing orders this with the pods, with other requests, or with what earlier
requests left. Correct: an allocated order is published before the entry that
names it is deleted, and not on two pods.

**Historical loads.** A start request returns before the load has begun, one
string tells about any number of loads, the portal polls it, and a load that the
page of the service starts may panic without ending the process (`net/http`
recovers the panics of its handlers). Correct: the
status follows the loads, polling ends, the portal goes on with complete data.

**Consumers.** Messages are acknowledged before they are dealt with and without
waiting, connections and processes are lost, and batches of cancellations hang
on a counter compared for equality. Correct: a death costs at most the order in
hand, nothing is posted twice without a failure, cancellations keep pace.

**Credentials.** Marks are read from a replica, set on the master, never
returned, and cleared or set again by whichever of five loaders runs next; a
loader may fail in the middle or run beside another. Correct: those that take a
credential one after another get one of their own, the table stays numbered
without gaps, and a load leaves what its files say.

**Debug reader.** The producers' pool over again, with a mutex around the
writing of a map and none around the reading of it, and more results awaited
than sent. Correct: what it divides is divided, and how it ends is known.

**Streamer and its callers.** One status for all loads, one for all backups, and
a function that sets the first in both; the answer and the status come at
different times. Correct: a backup that was waited for is complete, a range is
the one asked for, the portal's polling ends.

**Bulk load.** Workers write the same places, delete and rebuild the same
entries, and purge a map others write to. Correct: what the allocation names
exists, and what concurrent rebuilding leaves is a whole allocation.

**Log and dump programs.** Sequential, over files that change or lines that do
not scan. Correct: what they print agrees with what was in the file.

**Sinks, FIX consumer.** A file name taken from an unlocked counter. Not modelled
(section 6).

`PROJECT.json` lists every component and every hazard at its line.

## 2. The modules

| module | what it is |
|---|---|
| `WorkSplit` | the division of a list into chunks, in the three lengths the repository has |
| `ProducerPod` | one producer pod: `main`, the workers, the counter, the entry, crashes |
| `OrderRelay` | abstract: a stage that passes orders on and settles its request when all are delivered |
| `ProducerRelay` | the refinement mapping from `ProducerPod` to `OrderRelay` |
| `Allocation` | the portal's allocations and restarts, the table in db 11, the StatefulSet and its pods |
| `HistoricalLoad` | the portal's handlers waiting for the ingestor or the dumper, and the service |
| `Consumer` | consumer pods on a shared subscription |
| `Credentials` | the credential table, its replica, everything that takes from it and every loader |
| `DebugReader` | `redisDebugReader.go`: `main`, the workers, mutex, map, counter, and how the process ends |
| `SeqCheck` | `seqCheck.go`, a step per line |
| `Classifier` | `classifier.go` over a directory that others edit |
| `OrderExtract` | `processing.go`: the scan, the filter, the table read again for each order |
| `Streamer` | the streamer's loads, backups and refreshes, and the portal's two callers |
| `BulkLoad` | `bulkOrderLoad` of the portal and its workers |
| `*Proofs` | theorems about the module they are named after; `PartsProofs` has those of `SeqCheck`, `OrderExtract`, `Streamer`, `BulkLoad` and `Classifier`, and of their composition in `MCParts` |
| `MC*` | instances for TLC; `MCParts` chooses one of six modules that share no state and runs it |

`Allocation` and `ProducerPod` both use `WorkSplit`. `Allocation` composes the
portal with the pods. A pod in it is that of `ProducerPod` with its workers and
jobs, which decide what is published before the entry is deleted, and without
the steps that the other processes cannot tell apart (below). `HistoricalLoad`
ends where a handler turns to the database, which is where `Allocation` (with
any list as its input) begins.

### ProducerPod

`allocation` is the list under the host name in db 11; `stored` the orders whose
hash has every field; `published` and `bareIds` count what is on the topic. The
rest is the process: `taskMap`, `purgeMap` and `taskCount` as in the code,
`state`, `index` and `payload` the program counter, `fIndex` and local variables
of each worker, `unsent`, `jobs` and `awaited` the loop of `main` and its
channels. Each read of `taskCount` outside the mutex is an action of its own
(`FirstCheck`, `SecondCheck`: the two sides of the `||` at producer.go:538). A
worker that takes a job goes through its *whole* list, whatever the job number.
An order that cannot be read is published as its bare id, as
`process_input_data_redis_concurrent` does with what `readFromRedis` returns.
`Crash` is `log.Fatal` in `produce` or an eviction; it may happen at any step.
Up to `MaxFails` commands fail. After a failed LRANGE `Start` divides an empty
list, so that the process counts its empty tasks and deletes an entry it has not
read (`unread`); a failed HGET sends the id; a failed DEL is printed and never
repeated (`undeleted`). A failed AUTH or SELECT panics and is a `Crash`.

### WorkSplit

`Chunk` is the slice the Go loop makes and `IdAllocator` gives chunk w-1 to
worker w. `ProducerSize` is `len/n + 1`, `AssignSize` is `max(len/n, 1)`, and
`LoaderSize` is `len/n`, which is 0 with fewer orders than workers; its loop
then does not end. The debug reader and the bulk load divide that way
(`LoopNeverEnds`, and the phase "spin" in both).

### Allocation

A request is an allocation (`Allocate`, `FindPool`, `DeleteEntry` for each pod
found, `EntriesDeleted`, `Assign`, `Push` for each order, `EndAllocation`) or a
restart (`Restart`, `CountPool`, `ScaleDown`, `ScaleUp`). `get_worker_pool` sleeps
before it asks `kubectl`, so what it finds or counts is found in a step of its own.
`workers`, `stale`, `unwritten` and `dest` are the locals of the request's
goroutine. `Push` puts each order in FRONT of the entry (LPUSH), goes through the
pods in any order (a Go map), and passes over a failure, as `DeleteEntry` passes
over a DEL that fails. With an empty pool `assign_message_workload_workers` divides
by zero: `Panic` ends the request or, in the goroutine `main` starts, every
request. Kubernetes is external: `Scale` marks the pods beyond the new size as
leaving, `Gone` and `Come` remove and start them under their stable names, at any
later time.

A pod is `ReadEntry` (which fails like `ProducerPod`'s `Start`), then its workers
interleaved: `TakeJob`, `PublishOrder`, `FinishTask`, `CheckCount` with `Purge`. Jobs
belong to no worker here either, so a worker may go through its list twice and
another not at all, and the entry goes when all tasks but one are counted. Left
to `ProducerPod` are the sending of jobs (here all are there from the start, and
their order does not matter), whether a message is an order or a bare id, and the
two reads of the counter in one check.

The history is of two kinds. `latest`, `sent`, `dropped`, `givenUp`, `repeats`,
`last`, `blind` and `leftovers` say what the properties talk about: `dropped` are
orders a pod has deleted with its entry and not read, `givenUp` those it had read
and not published by then, be the worker starved or late; `blind` and `leftovers`
record a failed LRANGE of a pod and a failed DEL of the portal. `hasty` counts
requests made *without care*, and `calm` is lost when a pod crashes while a
request allocates. With care means that no other request is under way, that an
allocation finds every pod with its work done, and that a restart finds every pod
there and none on its way out. The code asks none of it; an operator at the page
cannot even see it. The properties that need it say so, and `MaxHasty` lets TLC
explore use without care as well. There is no property of the pool's size: with
care it follows from what care asks for, without it it is not kept (section 5).

### HistoricalLoad

One module for two services, by `kind`: the ingestor writes and sets its status
file by file, the dumper replaces its one file and sets the status once. `at` is
where each handler of the portal is, `run` where the goroutine of its request
is; `loadStatus` is the one string all goroutines assign. A load asked for on the
page of the ingestor (`OperatorLoad`) runs in the HTTP handler, and its panic
(`HandlerPanics`) ends the request and leaves the status and the process as they
are; the same panic in the goroutine of `initialiseHandler` is a `Crash`. Records are
represented by the version of the source they come from, so that old and new
data can be told apart, and nothing else of them.

### Consumer

`place` says where the subscription has each message and `acking` holds the
acknowledgements on their way. `at` is the pod's place in its one loop, from
`Receive` to `BulkCancel`. A message is one of four kinds: a complete order,
one with an empty field, a bare id as producers publish it, or nothing. The
trading system answers "sent" or "refused" and lists up to the limit of orders.
`Cut` is a lost connection, `Die` a `log.Fatal` or an eviction. `serialout.go`
differs in metric names and in where a database number comes from: the module
stands for both.

### Credentials

`master`, `replica` and `stream` model asynchronous replication: the replica
applies the master's writes in order, later. Nine source files use the table in
two ways. **Takers** count the keys on the replica, look at one after the other,
take the first that is not marked, and mark it on the master: the consumer pods,
and `lookup.go`, from which their code was made and which differs where all are
marked (a pod re-uses the last, `lookup.go` goes on with key 0 and no name).
`pt_users/update.go` looks at one key, and takes it only if it is marked unused.
**Loaders** write a hash per file, look the last one up and then set a mark on
as many keys as they have files: `update.go` and `loadcreds.go` (one program)
clear it, `processCredentials.go` and `process_user.go` (one program) set it,
`write.go` has no such loop. `msgIndex` moves on only after a write that
succeeded (`NextKey`, `KeyIsKept`); a file that cannot be read goes on as an
empty name (`FileRead`); the key that is looked up after a write is the one
after it (`LookedUpKey`). A taker whose HGETALL fails takes the key for one that is
not marked. `BreakOff` is the `log.Fatal` of a lost connection.
`clean` and `intact` are history: no overlap so far, and no failure in this run.

### DebugReader

`phase` is `main`, or how the process ended: "refused" (a connection), "fault"
(the runtime's "concurrent map iteration and map write"), "asleep" ("all
goroutines are asleep"), or "spin". The mutex is the state "write": a worker
between `Lock` and `Unlock`. `taskCount` and `purgeMap` are read without it, each
side of the `||` as an action of its own. `purgeProcessedRedis` deletes nothing
in this program, so `Purge` only takes time, during which `Fault` may happen.

### SeqCheck, Classifier, OrderExtract

`SeqCheck` steps through a log; `missingCount` and `missingIds` are what the
program prints. The first number is compared with itself, which takes one from the
total. `Classifier` lists the directory, then reads and measures each file while
`Edit` changes one; it stops at the first it cannot read. Each of the three
readings of the directory may fail (`ReadFails`), which the program takes for an
empty one; `unread` remembers which did. `OrderExtract` keeps of a line its kind
(an order, a symbol, a request, something else, cut off, longer than the scanner
takes) and, of an order or a symbol, the security it is about; `processing.go`
scans the table of symbols again for each order, and the last row that fits wins.

### Streamer

Message n of the topic is written under n, so messages are numbers. `at` is the
goroutine of a request and, from "poll" on, the portal that waits. A range is
read with the code's one if-else (`AtStop`, `Streams`): the message that opens
the range may be the one that would close it, and nothing opens a range after
its start has passed. `WriteOrder` sets `loadStatus` in backups too.
`EndReading` says "done" of a backup whose messages are not yet written.
`OpenStore` connects to Redis: a failed SELECT is printed and the orders go to
database 0 (`astray`); a failed AUTH panics, which `net/http` recovers
(`HandlerPanics`): the caller is cut off, and the status stays.
`Restart` loses requests under way; a poll that meets no answer gives up.

### BulkLoad

`share`, `allData`, `msgCount` are a worker's lists and counts, `entry` the
allocation table all of them delete and push to, `orderOf` database 0. The list
comes from `StagedLists`, not from what is staged: it is read from a replica, and
always from database 6. A worker's steps follow the code's loops one command at
a time, because the others' commands fall between. The purge may or may not come
by what is recorded while it runs. The handler's own waiting is left out: it
is that of `DebugReader` (line 1964 waits for `numJobs*numWorkers + 1` results),
and only the page that asked hangs.

### Variants

Before some definitions stands a variant (`OneTaskEarly` before
`FirstCheckHolds`): a plausible slip in that line of the code. Nothing uses it.
`PROJECT.json` "mutants" pairs each with the property that notices it.

## 3. The runs

`tlc -config <cfg> <module>` in this directory. The longest takes about two
minutes on two workers.

| run | shows | distinct states |
|---|---|---|
| `producer_pool` | 3 workers, 3 jobs, lists of 0 to 3 orders, 1 crash, 1 failed command: a list its worker has finished is on the topic; the entry is deleted only when all but one of the tasks are counted | 5,657,520 |
| `producer_single` | 1 worker, 2 crashes, 2 failed commands: the pod implements `OrderRelay` (only a process that could not read its list gives orders up), the entry goes in the end unless the last DEL failed | 588,548 |
| `producer_starved` | violation, see section 5 | |
| `allocation_orders` | 2 requests in any order with care, 2 pods of 2 workers and 2 jobs, 1 crash, 1 failed command: only a pod that could not read its entry drops orders unread, an order is published once per pass, of the allocated orders only a remainder is nowhere, the table is worked off | 543,172 |
| `allocation_purged` | violation | |
| `historical_overlap` | 2 handlers, one of them the portal's own start, both services, loads of the ingestor's page, a source that grows, 1 crash, 1 failure: the status follows the loads, a lone load is complete, loads do not undo each other, polling ends | 118,840 |
| `historical_stale` | violation | |
| `consumer_shared` | 2 pods, 2 orders and a hollow one, refusals, 1 death, 1 cut: at most one order lost per death, none posted again without a failure, batches keep pace | 1,356,165 |
| `consumer_drained` | order, bare id and empty message, 1 death: the topic is drained | 48,331 |
| `credentials_table` | 2 pods, `lookup.go`, `pt_users/update.go`, three kinds of loaders, any 2 runs of them together or in turn, 2 failures: who takes in turn is served, what is held is marked, named keys come first, no user has two keys unless a write failed, a load leaves its list | 675,643 |
| `credentials_race` | violation | |
| `parts_alone` | each of six modules by itself, below | 328,054 |

`parts_alone` chooses a program and runs it (`MCParts`):

- **DebugReader**, 3 workers, 3 jobs, 0, 2, 3 or 5 keys: fewer keys than workers
  are left out (`OnlyARemainderIsLeftOut`); the map fault needs a task left
  (`FaultNeedsATaskLeft`); the process ends, by an error, or divides for ever
  (`EndsOrSpins`).
- **SeqCheck**, every log of up to four numbers out of six: the total depends on
  the ends of the log alone (`TotalTelescopes`); no number is overlooked, and
  only numbers right before a gap are printed without being missing
  (`BreaksAreListed`).
- **Classifier**, up to three files, one edit, any of the three readings failing:
  as far as they did not fail, the report adds up (`ReportAddsUp`).
- **OrderExtract**, up to three lines, four tables, one change of the table between
  two readings: every order printed is in the dump and has a symbol of the table
  (`ExtractedOrders`).
- **Streamer**, 2 requests, a topic of 2 messages, one failed command, panic of a
  handler or restart: a backup is complete when the portal goes on
  (`BackupIsComplete`), polling ends with stated exceptions
  (`StreamPollingEnds`).
- **BulkLoad**, 2 workers, 2 jobs, up to 3 pods, 4 staged orders, lists that
  lag, one failure: concurrent rebuilding still leaves a whole allocation
  (`AllocationSurvives`).

One run for six modules, because none can see another's state: their products
would only multiply states.

**Why the bounds are enough.** Three workers is the least number for which
`numWorkers - 1` is neither the first nor the last task, and three orders the
least that give a worker two and leave a chunk short. In `Allocation` two pods
and three orders leave a remainder, one order leaves a pod without an entry, two
workers with two jobs can take one each or one of them both, and two requests are
the least for an allocation and its restart, and for an allocation over what
another has left; one request made with a pool that failed to be listed panics.
Two overlapping loads are
what the shared status needs to be wrong about, and sizes 1 and 2 make a later
version both overwrite and add. Two pods on one subscription are enough for a
message to move from one to another, and a batch limit of 2 with three messages
reaches a full batch, a restart in the middle of one, and the threshold. Two
keys are used up by two takers, and two runs are the least that overlap; three
kinds of loader with two lists make a table that one has left and another
overwrites. With 3 workers the debug reader's `numWorkers - 1` and `numWorkers`
differ from the first task, and 2, 3 and 5 keys give an endless division, an
exact one and one with a remainder. Logs of four numbers have a repetition, a
step back and two gaps. For `BulkLoad` the run with 6 orders, 2 workers and 3 pods
(4.0 million states) holds as well. One crash or failure at every
place is explored; more of them add states, not kinds of behaviour, except
where a count is the subject (`producer_single` has 2 of each).

`CHECK_DEADLOCK FALSE` stands in every cfg because every model comes to rest:
requests, messages and lists are finite.

**Symmetry** is used in `consumer_shared` and `credentials_table` only, over
pods that differ in nothing, and never in a run with a liveness property.

**Fairness.** Only of what something runs: goroutines that can run (the Go
scheduler), containers Kubernetes starts again, the broker handing out its
backlog, the StatefulSet controller. No failure, crash, operator's request or
change of a source is ever obliged, and no step that depends on the answer of
another system is fair in one direction only. `FairSpec` (in `MCParts`, `Spec`)
says which. In `Allocation` `Gone` is fair by itself: a pod that is being
stopped keeps working until it goes. It is weak fairness throughout, but for the
workers of `DebugReader`: a worker that waits for the mutex is disabled again
and again while others hold it, and Go's mutex serves every waiter in time (its
starvation mode), which is strong fairness. In `Streamer` the weak fairness is
of a request's goroutine and of the polling that follows it; that the portal
*sees* the status in one of its polls is the exception `StreamPollingEnds`
states, where another kind of request can move it away.

## 4. The proofs

`tlapm <module>`; each proves in some minutes, with no constant bounded by a
number. Every theorem rests only on the module's named assumptions (numbers are
naturals, there is at least one worker, pod and file, lists are over the orders,
files are sequences, a directory and a database have finitely many names) and on
two the code makes true: a list of orders names an order once
(`DistinctAssumption` for the allocation, `BulkAssumption` for the bulk load: it
comes from `KEYS`, which returns a key once, or from `generate_input_sources`,
which counts up), and there is one content of length 0 (`BlankAssumption`). Two
more hypotheses about constants are stated in the theorems that need them, and
only there:

- `SourceGrows` (`LoneLoad`): orders come to the source and stay. Nothing in the
  repository takes files out of the ingestor's bucket or messages out of the
  dumper's topic; of a source that shrinks between the asking and the reading the
  property is false, and no reader could help it.
- `FixedPlaces` (`UsersHaveOneKey`, `TakersAreServed`): the loaders that have a
  user's file have it at the same place. They read one directory, which `ReadDir`
  sorts; `write.go` makes up users of its own. With two orders of the same files
  the keys a loader overwrites are not the ones it repeats, and a user has two.

**WorkSplitProofs.** `ProducerDivisionCovers`: the producer's chunks hold every
order of the list and nothing else. `AssignmentDropsARemainder`: the portal's
leave out fewer orders than there are pods, and none if there is a pod for each
order. Both from `Chunk`'s bounds and the quotient and remainder of the length.
`AssignmentIsOnce`: no order is handed out twice, if the list names it once, for
chunks follow each other in the list (`ChunksInOrder`) and the last, short one
goes to one pod. `ProducerDivisionIsOnce` says the same of the workers of a pod;
both are cases of one lemma about chunks of any length (`HandedOutOnce`).

**ProducerPodProofs.** `TypeCorrect`, from types and "a worker about to publish
stands at an order of its list". `FinishedListsAreOnTopic`: with `WalkInv`, which
records what a worker has passed (`PassedIsRecorded`), that what is recorded in
`purgeMap` is on the topic, and that a stopped process has no passes; the property
alone is not inductive because it says nothing of a pass under way.
`EntryOutlivesTasks` (`EntryKeptUntilLastTask`): directly, since the two checks
compare the counter with what the property states. `ThePurgeLeavesOneTask` (the
action property `PurgeLeavesOneTask`): with `TasksInv`, which says that the
counter is right: the tasks counted, the jobs unsent or on the channel and the
workers busy with one are `NumJobs` together, from the start of a process to its
end (`OneMoves` says how the last number changes when a worker moves). From it and
`LastTaskIsChecked` (while all tasks are counted, the entry is gone or a worker
has a check before it) follows `EqualNumbersPurge`: with as many jobs as workers
the deletion cannot be missed, it can only fail. It is the safety half of
`EntryEventuallyPurged`; the other half, that the workers get there, is left to
TLC. `SingleWorkerDelivers` (`SingleWorkerLosesNothing`): with `SingleInv`: the
entry is the assigned list or gone, the one worker holds all of it unless the
process could not read it, and a worker at a check has passed it.
`SingleWorkerImplementsRelay`: initial states and steps map to `OrderRelay`'s,
`Start` and `Crash` to `Look`, `Produce` to `Deliver`, the deleting checks to
`Settle`, everything else to a stutter.

**AllocationProofs.** `TypeCorrect`, which needs that the place of a pod among
those found is one of the chunks' numbers (`PlaceAmongFound`). `NothingDropped`
(`CarefulUseDropsNothing`): with `DropInv`: with careful use one request at most
is under way (`OneAtATime`); while it allocates every pod is there and has done its
work (`AllocatesInQuiet`); so a pod at work has read all of its entry
(`NothingUnread`: at `ReadEntry` because the division hands out the whole list,
`ProducerDivisionCovers`, and afterwards because nobody pushes), which is what a
deletion needs.
`AllocationKeepsOrders` (`AllocatedOrdersKept`): with `KeptInv`, which follows an
order from the chunk it is dealt to (`AssignmentDropsARemainder`) to the entry it
is pushed to and from there to the topic, or to a pod that has read it and deletes
its entry; what is nowhere on that way is a remainder in every state but those
before the dealing (`RestIsLost`). The request has found every pod, or none after
a failed command, and has cleared every entry it found (`Prepares`); what a pod
counts as sent is on the topic (`SentIsOnTopic`); a pod that failed to read or an
entry that failed to go shows in `fails` (`FailuresShow`).
`OrdersArePublishedOnce` (`PublishedOncePerPass`): with `OnceInv`. An order is in
one entry or about to be pushed to one, never both (`EntriesApart`, from
`AssignmentIsOnce`). What two pods may still publish has nothing in common, be it in
an entry or in the memory of a process (`ReachesApart`), and neither have the shares
of two workers of a pod (`SharesApart`, from `ProducerDivisionIsOnce`). And an order
has been published at most once for each pass counted in `repeats`, and once more
only if no entry and no worker will bring it again unless something is repeated
(`PassesCount`): the bound on
an order still to be published is one less, which is what makes it inductive.

**HistoricalLoadProofs.** `TypeCorrect`, with "a goroutine writes only where it
has read" and "a handler asks once". `StatusIsRight` (`StatusFollowsRuns`):
inductive over the places of all goroutines at once; only a load that panicked in a
handler leaves "started" behind with nobody at work. `LoadedStaysLoaded`: what
the ingestor wrote stays in the database through overlapping and cut-short
loads; `LoadedInv` relates each goroutine's place to the records below it and to
the local files, and says that "done" is said only of a full database. `LoneLoad`
(`LoneLoadIsComplete`): with `LoneInv`: while a handler is alone and nothing has
failed, the status is its own (`OwnStatus`), and what its goroutine reads from,
has written and holds is at least as new as what it asked for (`AskedFor`).
Another handler's flush would undo that, but only the portal's own start flushes,
before it asks (`FlushesAtBoot`).

**ConsumerProofs.** `TypeCorrect`. `CancellationsKeepPace`: `BatchInv`, by the
place in the loop. `RepeatsNeedFailures`: `PostInv` counts, for each message, its
posts plus the chances that it is posted again; only a death or a cut gives a
new chance. `LossesAreDeaths`: `HandInv` (what a process has acknowledged it has
in hand or has dealt with) and `LossInv` (the lost messages are finitely
many and no more than the deaths).

**CredentialsProofs.** `TypeCorrect` and `TheNamedKeysComeFirst`, from one
invariant, `TableInv`. The order of the named keys is not inductive alone: a
write to `msgIndex` keeps it only if every key below has a name
(`KeysBelowNamed`), and that key is in the table only because a loader has used
no more keys than it has dealt with files (`LoaderInv`). No write takes a name
away (`WrittenType`), so loaders cannot break each other's `KeysBelowNamed`.
The takers' part (`TakerInv`: a taker that looks at keys looks at one it
counted) is what type correctness needs. Four more, over `TableInv`:
`UsersHaveOneKey` (`OneKeyPerUser`), with `PlacesInv`: until a read or write
fails, a loader's key keeps up with its files, so every entry is where a list has
it. `HeldCredentialsAreMarked` (`HeldIsMarked`), with `HoldInv` (what a taker is
about to mark is what it chose, and then is marked), on top of `CleanInv` (as long
as no program has overlapped another, a loader runs alone and one taker at a time
chooses) and `Follows`: there are tables that lead from the replica to the master
by the writes of the stream, so that an empty stream means equal tables.
`ALoadLeavesItsList` (`LoadLeavesItsList`, an action property), with `LoadInv`,
what an undisturbed load has done so far. `TakersAreServed`
(`SequentialTakersServed`), with `ServedInv`: a scan has passed only marked keys,
and two takers hold one credential only when none is free, which stays so because
nothing but a load takes a mark away.

**PartsProofs.** Sequence check: `TheTotalTelescopes`, `TheBreaksAreListed`,
`SeqTypeCorrect`, for every log, with `SeqInv`: the program stands where its last
number says, and each number printed lies between two lines of the log next to
each other (`PrintedInBreaks`).
Order extraction: `ExtractTypeCorrect`, `OrdersAreExtracted` (`ExtractedOrders`),
for every dump and table, with `ExtractInv`. `ScannedLines` says what the scanner
returns and `SymbolOfLastRow` what the lookup does, both from `SmallestOf` and
`LargestOf`: a set of naturals has a smallest member (by `WFMin` of the library),
a bounded one a largest. An update of the table makes the last symbol stale, not
wrong: `OrdersPrinted` speaks of it only while there was none since.
Streamer: `StreamTypeCorrect`, `BackupsAreComplete` (`BackupIsComplete`), with
`StreamInv`: a reader keeps message n in place n, at most up to the topic
(`ReadInv`), and while nothing fails what a backup has written is what it has read
(`BackupInv`). That a status one backup sets lets another's caller go on does no
harm to the data: each caller turns to polling only with its answer, and that
comes after the writing. `TheStatusComes` is the safety half of
`StreamPollingEnds`: while somebody polls, the status is what he waits for or some
request will still set it. For a load it holds only as long as every request is a
load and none has panicked, for the writes of a backup leave "working" behind and
a panic "reloading".
Bulk load: `AnAllocationIsLeft` (`AllocationSurvives`), with `BulkInv`: integer
division gives each worker as many orders as any other (`EvenShares`), and nobody
has more than it has come by (`LoaderInv`). From the moment nobody is left that
will delete entries, the table and what some one worker has yet to push make an
allocation (`TableInv`): the last to delete has all its numbers before it, and
every other push only adds. What it pushes is all the numbers because a shuffle
that repeats none leaves none out (`FS_Injection`) and the dealing drops a
remainder (`AssignmentDropsARemainder`). `BulkTypeCorrect` with `BulkBounds`: only
staged orders pass through the workers, and no list is longer than there are keys.
Classifier: `ClassTypeCorrect`, `TheReportAddsUp` (`ReportAddsUp`), for every
directory, edits and failed readings, with `ClassInv`: what `main` has counted
differs from what the directory holds by no more than the edits (`StillNear`), and
not at all in one left alone (`LeftAlone`). The bins are summed by a fold over a
set, for which no induction is to be had; but a fold is a recursive function on
the sets below it, and if its sum disagreed with the counting of files for some
set of sizes there would be a smallest such number of sizes (`SmallestOf`), from
which taking one size out gives a smaller (`SummedTakesOut`, `BinsAddUp`).
All together: `EachPartIsItself`: the run's `Spec` implements the specification of
every part, so `PartsTypeCorrect` and `ThePartsAreSafe` state of the composition,
for all constants, every invariant that `parts_alone` checks.

**DebugReaderProofs.** For any numbers of workers and jobs and any list.
`TheFaultNeedsATaskLeft` and `MainNeverReturns` from `ReaderInv`, which counts
jobs: finished tasks, jobs to send, jobs on the channel and workers busy with one
are at most `NumJobs` (`TasksHaveJobs`), so a worker in the middle of a write
leaves a task unfinished; and `main` awaits at least one result more than there
are jobs anywhere (`TooManyAwaited`, from `NumJobs * NumWorkers >= NumJobs`).
`MovesCount` says how those counts change when one worker moves.
`TheRemainderIsLeftOut`: what n chunks leave out lies after the last full one
(`LeftOutIsTheEnd`, from `WorkSplitProofs`), and that end is shorter than n.

**Only model-checked.** Of the properties of the passing runs, the liveness
properties and no others: `EntryEventuallyPurged`, `TopicDrained`, `PollingEnds`,
`TableWorkedOff`, `EndsOrSpins`, `StreamPollingEnds`. TLAPS proves no liveness under
fairness and nothing about ENABLED. The properties of the four runs that expect a
violation do not hold, so there is nothing to prove of them.

## 5. What the models found

Four runs show the code doing something other than what its documents and
comments say; `PROJECT.json` "findings" quotes the lines.

- **A worker starves** (`producer_starved`). Jobs are not tied to workers. With
  as many jobs as workers, as in the manifests, one worker may take two jobs and
  another none: a list is published twice and another never.
- **The entry deleted unread** (`allocation_purged`). A pod deletes its entry at
  the end of its work, whatever the portal has put there meanwhile.
- **Another load's "done"** (`historical_stale`). The portal takes the "done" of
  an earlier load, or of someone else's, for its own.
- **A shared credential** (`credentials_race`). Pods that start together choose
  the same credential while others are free.

Behaviours the models have and no run singles out:

- An order that cannot be read reaches the consumer as a bare id, passes
  `data_check` and is posted as an order without fields.
- With more than one worker the entry is deleted one task early, so a crash
  during the last task loses it; and with `NUM_JOBS` a good deal larger than
  `NUM_WORKERS` (100 and 20 in `local-rancher`) the counter can pass both values
  between the reads and the entry stays.
- A refusal that is answer number `cancelBatchLimit` steps the consumer's counter
  past the limit, and since it is compared for equality there are no more
  batches after it; `BatchesKeepPace` allows for it by name.
- `cancelAllOrders` runs when the count of *messages* equals the threshold, once
  in the life of a process.
- A restart asked for while pods are still to come counts fewer of them, and the
  pool stays smaller for good; the count is seconds after the request, so a request
  that found all of them may count fewer, or some on their way out. A failed
  `kubectl` between the two commands leaves the pool at 0.
- A pod whose LRANGE failed deletes its entry unread; one whose DEL failed leaves
  it, and works the list again when it next starts.
- A starved worker's orders are deleted with the entry although the request, the
  pod and every command did what they should (`givenUp`).
- A DEL of the portal that fails leaves the old list behind the new one, and both
  are published.
- An allocation deletes the entries of the pods that run; an entry of one that
  does not stays and is worked off when that pod comes.
- The portal's own start with an empty pool divides by zero and ends the portal.
- Orders come out of a list in the reverse of the order they went in (LPUSH,
  LRANGE 0 -1), although a comment of `allocateOrderDataSerial` speaks of
  preserving the sequence.

- The page of a bulk load never gets an answer.
- A pool of no pods, or a `kubectl` that fails, divides by zero in a worker of the
  bulk load and ends the portal.
- A portal that polls for "reloaded" may do so for ever when a backup runs after
  its load, because writing an order of a backup sets the load's status to
  "working"; a refresh whose command fails leaves "refreshing", and a load whose
  handler panics "reloading". A load of the ingestor's page that panics leaves
  "started" in the same way.
- A classifier that cannot read its directory at one of three times reports no
  files, or no sizes, and no error.
- A taker of credentials whose HGETALL fails marks a key it has not seen and goes on
  without a name.
- `seqCheck` prints the number before a gap, and a total that is one short.
- The debug reader never ends well: it awaits a result per job *and* worker, and
  one more.
- The credential a loader looks up to confirm its write is the key after it.
- A failed write moves the users after it one key down, over the entries of an
  earlier load, so that two keys may name one user.

### Disagreements seen while modelling

Two more places where the code does something other than its comments say. The
models do what the code does; no run states either, since a property that held of
them would state the slip as if it were meant.

- **The range of a sequence.** loader.go:1391 says of the streamer: "reach out to
  separate sequence streaming service to load the required sequence into REDIS".
  `streamSequence` tests start and stop of the range in one if-else
  (streamer.go:156) and ends at the first message it does not keep: a range that
  does not start at 1 is empty, and 1..1 is the whole topic (`Streams`, `AtStop`).
- **The data of a bulk load.** loader.go:818-820 says of `bulkOrderLoad(3)`: "load
  data from DB index 3 to index 0 in REDIS". The workers write the same places of
  database 0, each counting from 0 (loader.go:1736, 1770), so the share of one of
  them is left; and the allocation names 1 and up, so that its last number has no
  order (`PlaceOf`, `WriteLoaded`, `Shuffles`).

## 6. What is not modelled

- **Load sink and replay sink**: an HTTP handler that counts requests in an
  unlocked global and names a file by the count. One read-modify-write is the
  whole of its state; the hazard is listed.
- **Serial producer**: the producer over every key of a database, without the
  deletion of an entry. Its pool is `ProducerPod`'s; its listing and division are
  `DebugReader`'s and `ProducerPod`'s.
- **FIX consumer**: copies of the consumer's functions, and a `main` that runs an
  external client once. No state of its own.
- **Streamer**: `restoreHandler`, which does nothing and reports done; the fields
  of a message. **Portal**: `dump_pulsar_messages_to_input` and
  `reloadPulsarQueue`, which nothing calls.
- **The clock and metrics samples** (`tools/time.go`,
  `monitoring/instrumentation/sample-*.go`): they print two dates, and serve one
  metric. **`process_input_data_redis`** of the debug reader: nothing calls it.
- **Synthetic data**: prices and quantities are data; the allocation and the
  writing of orders one by one are in `Allocation` and `ProducerPod.StoreOrder`.
- **The order dumper's content**: lines of a dump that are not orders leave
  holes, and `initialiseHandler` swaps the ends of the interval asked for; the
  model has a record at each place. Its own page cannot start a load (the handler
  panics on a parameter the form does not send).
- **Replication between portal and dumper**: the portal reads the list of orders
  from a Redis replica; `Allocation` takes any list, a short one among them.
- **Metrics, logging, request signing, formatting**: nothing depends on them.
- **The order in which a subscription hands out messages**: not kept, and no
  property depends on it.
- **Time**: polling intervals, sleeps and timeouts are left out; everything they
  wait for may come earlier or later than they expect.
- **Kafka versions of the services, the WebSocket subscriber, manifests, vendored
  libraries**: reasons in `PROJECT.json`. `internalAck` of the vendored Pulsar
  client was read to learn that `Ack` does not wait.

## 7. What is left

In order of what it would add:

1. **A pipeline**: `Allocation` with the topic of `Consumer`, each stage an
   `OrderRelay`; which of the stages' promises compose, and which (a message
   acknowledged before it is dealt with) do not.
2. **A service with a status**: the abstract specification that `HistoricalLoad`
   and `Streamer` would both implement, and where the streamer's shared function
   does not.
3. **Proofs**: the steps of the pipeline above to `OrderRelay`'s; for the other
   liveness properties, safety halves like `EqualNumbersPurge` and `TheStatusComes`.
