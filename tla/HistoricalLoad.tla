--------------------------- MODULE HistoricalLoad ---------------------------
(***************************************************************************)
(* How the portal (loader.go) has historical orders loaded: by the         *)
(* ingestor (ingestor.go: files from S3 into Redis database 3) or by the   *)
(* order dumper (dumper.go: a Kafka topic into database 6).                *)
(*                                                                         *)
(* The two services work alike.  A start request returns at once and       *)
(* leaves a goroutine behind that fetches the source into local files and  *)
(* writes them one by one to Redis; a global string, loadStatus, tells     *)
(* what is going on.  A handler of the portal asks for a start, polls the  *)
(* status until it is "done", and then works on what the database holds.   *)
(* Handlers and goroutines run concurrently and share the one status.      *)
(*                                                                         *)
(* The ingestor's operator may start a load from its own page as well.     *)
(* That load runs in the HTTP handler of the request, so a panic of it ends*)
(* only the request, where a panic of a goroutine ends the process.        *)
(*                                                                         *)
(* The source changes over time.  Only the version a record comes from     *)
(* counts here; 0 is no record.                                            *)
(***************************************************************************)
EXTENDS Integers, Sequences

CONSTANTS
    Handlers,     \* requests to the portal, each for one load
    Boot,         \* those made by the portal's own start
    Sizes,        \* how many records each version of the source has
    Least,        \* the fewest
    Largest,      \* the most
    MaxRestarts,  \* bound on the crashes of the service
    MaxFails      \* bound on failed fetches, reads and writes

ASSUME HandlersAssumption == Boot \subseteq Handlers
ASSUME SizesAssumption == Sizes \in Seq(Nat) /\ Sizes # <<>>
ASSUME BoundsAssumption == MaxRestarts \in Nat /\ MaxFails \in Nat

Versions == 1..Len(Sizes)
ASSUME RangeAssumption ==
    /\ Least \in Nat /\ Largest \in Nat
    /\ \A v \in Versions : Least <= Sizes[v] /\ Sizes[v] <= Largest

Places == 1..Largest
Records == [Places -> {0} \cup Versions]
Empty == [i \in Places |-> 0]

VARIABLES
    kind,        \* which of the two services this is
    source,      \* version of the source
    db,          \* the records in Redis
    \* the service
    up,          \* is its process running
    loadStatus,  \* loadStatus
    local,       \* the files in its container
    run,         \* where the goroutine of each request is
    lines,       \* what it goes through
    place,       \* f, line: the record it is at
    record,      \* the record it has read
    \* the portal
    at,          \* where each handler is
    \* history
    asked,       \* version of the source when the handler asked for the load
    found,       \* what was in the database when the handler went on
    restarts,
    fails

goroutine == <<run, lines, place, record>>
service == <<up, loadStatus, local, goroutine>>
history == <<asked, found, restarts, fails>>
vars == <<kind, source, db, service, at, history>>

Working == {"fetch", "read", "write"}

TypeOK ==
    /\ kind \in {"ingestor", "dumper"}
    /\ source \in Versions
    /\ db \in Records
    /\ up \in BOOLEAN
    /\ loadStatus \in {"pending", "started", "working", "done"}
    /\ local \in Records
    /\ run \in [Handlers -> {"none", "spawned", "ended", "panicked"} \cup Working]
    /\ lines \in [Handlers -> Records]
    /\ place \in [Handlers -> 1..(Largest + 1)]
    /\ record \in [Handlers -> {0} \cup Versions]
    /\ at \in [Handlers -> {"flush", "look", "ask", "poll", "go", "on", "dead", "own"}]
    /\ asked \in [Handlers -> {0} \cup Versions]
    /\ found \in [Handlers -> Records]
    /\ restarts \in 0..MaxRestarts
    /\ fails \in 0..MaxFails
-----------------------------------------------------------------------------
(* Conditions and values of the code, which the actions use; the variant   *)
(* before one is a plausible slip that a property at the end of the module *)
(* must catch.                                                             *)

(* what the loop over the files, or the fetch of the dump, sets            *)
DoneTooEarly == "done"
BusyStatus == "working"

(* what the end of loadHistoricalData sets                                 *)
Completed == "completed"
NeverDone == "working"
FinalStatus == "done"

(* for f := range fileList, for line := range theData                      *)
LastDropped(h) == place[h] + 1 \notin {i \in Places : lines[h][i] # 0}
AllWritten(h) == place[h] \notin {i \in Places : lines[h][i] # 0}
-----------------------------------------------------------------------------
Init ==
    /\ kind \in {"ingestor", "dumper"}
    /\ source = 1
    /\ db = Empty
    /\ up = TRUE
    /\ loadStatus = "pending"
    /\ local = Empty
    /\ run = [h \in Handlers |-> "none"]
    /\ lines = [h \in Handlers |-> Empty]
    /\ place = [h \in Handlers |-> 1]
    /\ record = [h \in Handlers |-> 0]
    /\ at = [h \in Handlers |-> CASE kind = "ingestor" -> "look"
                                  [] kind = "dumper" /\ h \in Boot -> "flush"
                                  [] OTHER -> "ask"]
    /\ asked = [h \in Handlers |-> 0]
    /\ found = [h \in Handlers |-> Empty]
    /\ restarts = 0
    /\ fails = 0

(* New orders arrive at the source.                                        *)
SourceChanges ==
    /\ source < Len(Sizes)
    /\ source' = source + 1
    /\ UNCHANGED <<kind, db, service, at, history>>

(* One of the many calls that report an error and go on.                   *)
Fails ==
    /\ fails < MaxFails
    /\ fails' = fails + 1

(* main of the portal: flushStaleOrderData, before its own load.           *)
Flush(h) ==
    /\ at[h] = "flush"
    /\ \/ db' = Empty /\ UNCHANGED fails
       \/ Fails /\ UNCHANGED db
    /\ at' = [at EXCEPT ![h] = "ask"]
    /\ UNCHANGED <<kind, source, service, asked, found, restarts>>

(* loadHistoricalData of the portal first asks for the status, of which it *)
(* makes no use; without an answer its handler panics.                     *)
Look(h) ==
    /\ at[h] = "look"
    /\ at' = [at EXCEPT ![h] = IF up THEN "ask" ELSE "dead"]
    /\ UNCHANGED <<kind, source, db, service, history>>

(* The ingestor's own page (selectionHandler): the load runs in the HTTP   *)
(* handler of the service, and nobody polls.                               *)
OperatorLoad(h) ==
    /\ at[h] = "look"
    /\ up
    /\ run' = [run EXCEPT ![h] = "spawned"]
    /\ at' = [at EXCEPT ![h] = "own"]
    /\ UNCHANGED <<kind, source, db, up, loadStatus, local, lines, place, record, history>>

(* GET /ingest-start, /dumper-start: initialiseHandler starts a goroutine  *)
(* and returns.                                                            *)
Ask(h) ==
    /\ at[h] = "ask"
    /\ up
    /\ run' = [run EXCEPT ![h] = "spawned"]
    /\ at' = [at EXCEPT ![h] = "poll"]
    /\ asked' = [asked EXCEPT ![h] = source]
    /\ UNCHANGED <<kind, source, db, up, loadStatus, local, lines, place, record,
                   found, restarts, fails>>

(* The service went down: loadHistoricalData ends the whole portal with    *)
(* log.Fatalln, bootStrapOrderData goes on with what there is.             *)
AskRefused(h) ==
    /\ at[h] = "ask"
    /\ ~up
    /\ at' = IF kind = "ingestor"
             THEN [g \in Handlers |-> IF at[g] = "own" THEN "own" ELSE "dead"]
             ELSE [at EXCEPT ![h] = "go"]
    /\ UNCHANGED <<kind, source, db, service, history>>

(* GET /ingest-status, /dumper-status, until the answer is "done".         *)
PollDone(h) ==
    /\ at[h] = "poll"
    /\ up
    /\ loadStatus = "done"
    /\ at' = [at EXCEPT ![h] = "go"]
    /\ UNCHANGED <<kind, source, db, service, history>>

(* An answer that breaks off ends the polling as "done" does.              *)
PollCut(h) ==
    /\ at[h] = "poll"
    /\ up
    /\ Fails
    /\ at' = [at EXCEPT ![h] = "go"]
    /\ UNCHANGED <<kind, source, db, service, asked, found, restarts>>

(* The service is down: loadHistoricalData reads the body of a nil         *)
(* response, and the panic ends the handler; bootStrapOrderData polls on.  *)
PollRefused(h) ==
    /\ at[h] = "poll"
    /\ ~up
    /\ kind = "ingestor"
    /\ at' = [at EXCEPT ![h] = "dead"]
    /\ UNCHANGED <<kind, source, db, service, history>>

(* bulkOrderLoad, allocateOrderDataConcurrent: the handler turns to the    *)
(* database.  What it makes of it is not modelled here.                    *)
GoOn(h) ==
    /\ at[h] = "go"
    /\ at' = [at EXCEPT ![h] = "on"]
    /\ found' = [found EXCEPT ![h] = db]
    /\ UNCHANGED <<kind, source, db, service, asked, restarts, fails>>

(* loadHistoricalData of the service: loadStatus = "started".              *)
Begin(h) ==
    /\ run[h] = "spawned"
    /\ loadStatus' = "started"
    /\ run' = [run EXCEPT ![h] = "fetch"]
    /\ UNCHANGED <<kind, source, db, up, local, lines, place, record, at, history>>

(* aws s3 sync adds and overwrites files, the Kafka dump replaces its one. *)
Fetched ==
    [i \in Places |->
        IF i <= Sizes[source] THEN source ELSE IF kind = "ingestor" THEN local[i] ELSE 0]

(* Fetch, then list the files or read the dump.  A fetch that fails is     *)
(* reported and what an earlier one left is used.                          *)
Fetch(h) ==
    /\ run[h] = "fetch"
    /\ \/ /\ local' = Fetched
          /\ loadStatus' = IF kind = "dumper" THEN BusyStatus ELSE loadStatus
          /\ UNCHANGED fails
       \/ Fails /\ UNCHANGED <<local, loadStatus>>
    /\ lines' = [lines EXCEPT ![h] = local']
    /\ run' = [run EXCEPT ![h] = "read"]
    /\ UNCHANGED <<kind, source, db, up, place, record, at, asked, found, restarts>>

(* The panics of the ingestor's load, at a line of the listing that has no *)
(* name and at an AUTH that fails after the fetch: net/http recovers those *)
(* of the operator's own load, and the process lives on with "started".    *)
HandlerPanics(h) ==
    /\ run[h] = "fetch"
    /\ at[h] = "own"
    /\ Fails
    /\ local' \in {local, Fetched}
    /\ run' = [run EXCEPT ![h] = "panicked"]
    /\ UNCHANGED <<kind, source, db, up, loadStatus, lines, place, record, at,
                   asked, found, restarts>>

(* getFileContent reads the file as it now is; the lines of a dump were    *)
(* read when it was fetched.                                               *)
Read(h) ==
    /\ run[h] = "read"
    /\ ~AllWritten(h)
    /\ record' = [record EXCEPT ![h] = IF kind = "ingestor" THEN local[place[h]]
                                       ELSE lines[h][place[h]]]
    /\ run' = [run EXCEPT ![h] = "write"]
    /\ UNCHANGED <<kind, source, db, up, loadStatus, local, lines, place, at, history>>

(* A file that cannot be read is passed over.                              *)
PassOver(h) ==
    /\ run[h] = "read"
    /\ ~AllWritten(h)
    /\ kind = "ingestor"
    /\ Fails
    /\ place' = [place EXCEPT ![h] = @ + 1]
    /\ UNCHANGED <<kind, source, db, up, loadStatus, local, run, lines, record, at,
                   asked, found, restarts>>

(* write_binary_message_to_redis, and the status whether it worked or not. *)
Write(h) ==
    /\ run[h] = "write"
    /\ \/ db' = [db EXCEPT ![place[h]] = record[h]] /\ UNCHANGED fails
       \/ Fails /\ UNCHANGED db
    /\ loadStatus' = IF kind = "ingestor" THEN BusyStatus ELSE loadStatus
    /\ place' = [place EXCEPT ![h] = @ + 1]
    /\ run' = [run EXCEPT ![h] = "read"]
    /\ UNCHANGED <<kind, source, up, local, lines, record, at, asked, found, restarts>>

Finish(h) ==
    /\ run[h] = "read"
    /\ AllWritten(h)
    /\ loadStatus' = FinalStatus
    /\ run' = [run EXCEPT ![h] = "ended"]
    /\ UNCHANGED <<kind, source, db, up, local, lines, place, record, at, history>>

(* log.Fatal without Redis or without the source directory, a panic of a   *)
(* goroutine that initialiseHandler started, or an evicted pod: memory and *)
(* files are gone.                                                         *)
Crash ==
    /\ up
    /\ restarts < MaxRestarts
    /\ restarts' = restarts + 1
    /\ up' = FALSE
    /\ loadStatus' = "pending"
    /\ local' = Empty
    /\ run' = [h \in Handlers |-> "none"]
    /\ lines' = [h \in Handlers |-> Empty]
    /\ place' = [h \in Handlers |-> 1]
    /\ record' = [h \in Handlers |-> 0]
    /\ UNCHANGED <<kind, source, db, at, asked, found, fails>>

Restart ==
    /\ ~up
    /\ up' = TRUE
    /\ UNCHANGED <<kind, source, db, loadStatus, local, goroutine, at, history>>

PortalStep(h) ==
    \/ Flush(h) \/ Look(h) \/ Ask(h) \/ AskRefused(h)
    \/ PollDone(h) \/ PollRefused(h) \/ GoOn(h)

ServiceStep(h) ==
    \/ Begin(h) \/ Fetch(h) \/ HandlerPanics(h)
    \/ Read(h) \/ PassOver(h) \/ Write(h) \/ Finish(h)

Next ==
    \/ SourceChanges
    \/ \E h \in Handlers :
          PortalStep(h) \/ ServiceStep(h) \/ OperatorLoad(h) \/ PollCut(h)
    \/ Crash
    \/ Restart

Spec == Init /\ [][Next]_vars

(* Both processes run their goroutines, the commands that fetch end, and   *)
(* Kubernetes restarts the service.                                        *)
FairSpec ==
    /\ Spec
    /\ WF_vars(Restart)
    /\ \A h \in Handlers : WF_vars(PortalStep(h)) /\ WF_vars(ServiceStep(h))
-----------------------------------------------------------------------------
AtWork == \E h \in Handlers : run[h] \in Working

Panicked == \E h \in Handlers : run[h] = "panicked"

(* The one status speaks for all loads, however their assignments are      *)
(* interleaved (loadHistoricalData of both services): it is "working" only *)
(* while one writes, and once the last has ended it is "done".  Only       *)
(* a load that panicked in a handler of the service leaves "started"       *)
(* behind with nobody at work.                                             *)
StatusFollowsRuns ==
    /\ loadStatus = "working" => \E h \in Handlers : run[h] \in {"read", "write"}
    /\ loadStatus = "started" => AtWork \/ Panicked
    /\ (\E h \in Handlers : run[h] = "ended") /\ ~AtWork => loadStatus = "done" \/ Panicked

(* A handler that is the only one to have asked or to flush, of a service  *)
(* that did not crash or fail, goes on with every record the source had    *)
(* when it asked, or later ones, of a source that only grows.              *)
Alone(h) ==
    \A g \in Handlers \ {h} : at[g] \in {"look", "ask"} /\ (kind = "ingestor" \/ g \notin Boot)

LoneLoadIsComplete ==
    \A h \in Handlers :
        (at[h] = "on" /\ restarts + fails = 0 /\ Alone(h))
            => \A i \in 1..Sizes[asked[h]] : found[h][i] >= asked[h]

(* A handler that went on with the ingestor's data, however many loads ran *)
(* into each other or were cut short by a crash, finds as many records as  *)
(* the source always had: what one load has written no other takes away.   *)
SomeLoadIsComplete ==
    \A h \in Handlers :
        (at[h] = "on" /\ kind = "ingestor" /\ fails = 0)
            => \A i \in 1..Least : found[h][i] # 0

(* A handler does not poll for ever, unless the service was restarted or a *)
(* load of its operator has panicked.                                      *)
PollingEnds ==
    \A h \in Handlers : at[h] = "poll" ~> at[h] # "poll" \/ restarts > 0 \/ Panicked

(* "Wait until it's status "ok"" (comment in loadHistoricalData of the     *)
(* portal): the load a handler asked for has ended when it goes on.        *)
OwnLoadAwaited == \A h \in Handlers : at[h] \in {"go", "on"} => run[h] = "ended"
=============================================================================
