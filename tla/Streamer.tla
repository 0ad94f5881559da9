------------------------------ MODULE Streamer ------------------------------
(***************************************************************************)
(* src/microservices/replay/build/pulsar/streamer.go, the replay service,  *)
(* and the two calls of the portal that wait for it: loadOrderSequence and *)
(* backupOrderQueue (loader/build/pulsar/loader.go).                       *)
(*                                                                         *)
(* A load copies a range of the messages of the topic into one database,   *)
(* a backup all of them into another.  Every request has a reader of its   *)
(* own, but the service has one loadStatus and one backupStatus for all,   *)
(* and the function that writes an order sets loadStatus in a backup too.  *)
(* The portal gets the answer when the messages are written, and polls the *)
(* status afterwards.  Message n of the topic is written under n, so it is *)
(* named n here; the broker does not trim the topic meanwhile.             *)
(***************************************************************************)
EXTENDS Integers, Sequences

CONSTANTS
    Callers,     \* requests to the service
    MaxTopic,    \* bound on the messages of the topic
    MaxMishaps   \* bound on failed commands and restarts

ASSUME StreamerAssumption == MaxTopic \in Nat /\ MaxMishaps \in Nat

VARIABLES
    topic,         \* how many messages the topic has
    loadStatus, backupStatus,
    stored,        \* the message under each number in either database, 0 if none
    at,            \* where each request is
    what,          \* what it asks for
    start, stop,   \* the range of a load
    outerCnt,      \* messages its reader has read
    streamContent, \* messages it keeps
    left,          \* the numbers it has still to write
    astray,        \* the requests whose connection is to database 0
    \* history
    had,           \* the messages of the topic when a backup was asked for
    mishaps,       \* failed commands, of Redis and of kubectl
    restarts       \* restarts of the service

statuses == <<loadStatus, backupStatus>>
request == <<what, start, stop, had>>
reading == <<outerCnt, streamContent, left, astray>>
bounds == <<mishaps, restarts>>
streamVars == <<topic, statuses, stored, at, request, reading, bounds>>

Numbers == 1..MaxTopic
Databases == {"load", "backup"}

StreamTypeOK ==
    /\ topic \in 0..MaxTopic
    /\ loadStatus \in {"pending", "reloading", "working", "reloaded", "refreshing"}
    /\ backupStatus \in {"pending", "working", "done"}
    /\ stored \in [Databases -> [Numbers -> 0..MaxTopic]]
    /\ at \in [Callers -> {"idle", "open", "read", "connect", "write", "rollout", "poll", "on", "gone"}]
    /\ what \in [Callers -> Databases \cup {"refresh"}]
    /\ start \in [Callers -> 0..MaxTopic] /\ stop \in [Callers -> 0..MaxTopic]
    /\ outerCnt \in [Callers -> 0..MaxTopic]
    /\ \A c \in Callers : streamContent[c] \in Seq(Numbers) /\ left[c] \subseteq Numbers
    /\ astray \subseteq Callers
    /\ had \in [Callers -> 0..MaxTopic]
    /\ mishaps + restarts \in 0..MaxMishaps
-----------------------------------------------------------------------------
(* The variant before a definition is a slip that a property must catch.   *)

(* if outerCnt == start { stream = true } else if outerCnt == stop ...     *)
AtStop(c, n) == n # start[c] /\ n = stop[c]

(* A message after start has its turn only if stream is still true.        *)
Streams(c, n) == ~AtStop(c, n) /\ start[c] \in 1..n

(* what a request does after its last message                              *)
AnsweredFirst == "poll"
AfterReading == "connect"

(* loadStatus = "reloaded", at the end of theThing                         *)
LeftWorking == "working"
StatusOfEnd == "reloaded"

Status(c) == IF what[c] = "load" THEN loadStatus = "reloaded" ELSE backupStatus = "done"
-----------------------------------------------------------------------------
StreamInit ==
    /\ topic = 0
    /\ loadStatus = "pending" /\ backupStatus = "pending"
    /\ stored = [d \in Databases |-> [n \in Numbers |-> 0]]
    /\ at = [c \in Callers |-> "idle"]
    /\ what = [c \in Callers |-> "load"]
    /\ start = [c \in Callers |-> 0] /\ stop = [c \in Callers |-> 0]
    /\ outerCnt = [c \in Callers |-> 0]
    /\ streamContent = [c \in Callers |-> <<>>]
    /\ left = [c \in Callers |-> {}]
    /\ astray = {}
    /\ had = [c \in Callers |-> 0]
    /\ mishaps = 0 /\ restarts = 0

Publish ==
    /\ topic < MaxTopic
    /\ topic' = topic + 1
    /\ UNCHANGED <<statuses, stored, at, request, reading, bounds>>

(* theThing, backupHandler, refreshHandler; a range is what the user types.*)
AskLoad(c) ==
    /\ at[c] = "idle"
    /\ \E from, to \in 0..MaxTopic :
          start' = [start EXCEPT ![c] = from] /\ stop' = [stop EXCEPT ![c] = to]
    /\ loadStatus' = "reloading"
    /\ at' = [at EXCEPT ![c] = "read"]
    /\ UNCHANGED <<topic, backupStatus, stored, what, had, reading, bounds>>

AskBackup(c) ==
    /\ at[c] = "idle"
    /\ what' = [what EXCEPT ![c] = "backup"]
    /\ backupStatus' = "pending"
    /\ had' = [had EXCEPT ![c] = topic]
    /\ at' = [at EXCEPT ![c] = "open"]
    /\ UNCHANGED <<topic, loadStatus, stored, start, stop, reading, bounds>>

OpenReader(c) ==
    /\ at[c] = "open"
    /\ backupStatus' = "working"
    /\ at' = [at EXCEPT ![c] = "read"]
    /\ UNCHANGED <<topic, loadStatus, stored, request, reading, bounds>>

AskRefresh(c) ==
    /\ at[c] = "idle"
    /\ what' = [what EXCEPT ![c] = "refresh"]
    /\ loadStatus' = "refreshing"
    /\ at' = [at EXCEPT ![c] = "rollout"]
    /\ UNCHANGED <<topic, backupStatus, stored, start, stop, had, reading, bounds>>

(* One command may fail and the service lives on.                          *)
CommandFails == mishaps + restarts < MaxMishaps /\ mishaps' = mishaps + 1

(* reloadQueueHack waits for the brokers; a command that fails leaves the  *)
(* status as it is.                                                        *)
EndRefresh(c) ==
    /\ at[c] = "rollout"
    /\ \/ loadStatus' = "reloaded" /\ UNCHANGED mishaps
       \/ CommandFails /\ UNCHANGED loadStatus
    /\ at' = [at EXCEPT ![c] = "on"]
    /\ UNCHANGED <<topic, backupStatus, stored, request, reading, restarts>>

(* reader.Next: backupStream keeps every message, streamSequence those     *)
(* from start to before stop, and breaks out at the first it does not keep.*)
Keep(c) ==
    /\ at[c] = "read"
    /\ outerCnt[c] < topic
    /\ what[c] = "load" => Streams(c, outerCnt[c] + 1)
    /\ outerCnt' = [outerCnt EXCEPT ![c] = @ + 1]
    /\ streamContent' = [streamContent EXCEPT ![c] = Append(@, outerCnt[c] + 1)]
    /\ UNCHANGED <<topic, statuses, stored, at, request, left, astray, bounds>>

EndReading(c) ==
    /\ at[c] = "read"
    /\ \/ outerCnt[c] = topic /\ UNCHANGED outerCnt
       \/ /\ outerCnt[c] < topic
          /\ what[c] = "load" /\ ~Streams(c, outerCnt[c] + 1)
          /\ outerCnt' = [outerCnt EXCEPT ![c] = @ + 1]
    /\ backupStatus' = IF what[c] = "backup" THEN "done" ELSE backupStatus
    /\ left' = [left EXCEPT ![c] = 1..Len(streamContent[c])]
    /\ at' = [at EXCEPT ![c] = AfterReading]
    /\ UNCHANGED <<topic, loadStatus, stored, request, streamContent, astray, bounds>>

(* loadSequenceData: a SELECT that fails is printed, and the connection    *)
(* stays with database 0.                                                  *)
OpenStore(c) ==
    /\ at[c] = "connect"
    /\ at' = [at EXCEPT ![c] = "write"]
    /\ \/ UNCHANGED <<astray, mishaps>>
       \/ CommandFails /\ astray' = astray \cup {c}
    /\ UNCHANGED <<topic, statuses, stored, request, outerCnt, streamContent, left, restarts>>

(* panic(err) on a failed AUTH: net/http recovers it and cuts the caller   *)
(* off, the service runs on, and the status stays what it was.             *)
HandlerPanics(c) ==
    /\ at[c] = "connect"
    /\ at' = [at EXCEPT ![c] = "gone"]
    /\ CommandFails
    /\ UNCHANGED <<topic, statuses, stored, request, reading, restarts>>

(* write_order_to_redis, for the entries of a map, in any order; a write   *)
(* that fails is counted and passed over.                                  *)
WriteOrder(c) ==
    /\ at[c] = "write"
    /\ loadStatus' = "working"
    /\ \E n \in left[c] :
          /\ left' = [left EXCEPT ![c] = @ \ {n}]
          /\ \/ /\ c \notin astray
                /\ stored' = [stored EXCEPT ![what[c]][n] = streamContent[c][n]]
                /\ UNCHANGED mishaps
             \/ c \in astray /\ UNCHANGED <<stored, mishaps>>
             \/ CommandFails /\ UNCHANGED stored
    /\ UNCHANGED <<topic, backupStatus, at, request, outerCnt, streamContent, astray, restarts>>

(* The handler answers, and its range and what it has read are gone.       *)
EndWriting(c) ==
    /\ at[c] = "write"
    /\ left[c] = {}
    /\ loadStatus' = IF what[c] = "load" THEN StatusOfEnd ELSE loadStatus
    /\ at' = [at EXCEPT ![c] = "poll"]
    /\ start' = [start EXCEPT ![c] = 0] /\ stop' = [stop EXCEPT ![c] = 0]
    /\ outerCnt' = [outerCnt EXCEPT ![c] = 0]
    /\ streamContent' = [streamContent EXCEPT ![c] = <<>>]
    /\ UNCHANGED <<topic, backupStatus, stored, what, had, left, astray, bounds>>

(* The portal polls until the status is "reloaded", or "done".             *)
Poll(c) ==
    /\ at[c] = "poll"
    /\ Status(c)
    /\ at' = [at EXCEPT ![c] = "on"]
    /\ UNCHANGED <<topic, statuses, stored, request, reading, bounds>>

(* log.Fatal, or the pod is restarted: requests under way are gone, and so *)
(* is a poll that nobody answers; the portal gives up on no answer.        *)
Restart ==
    /\ mishaps + restarts < MaxMishaps
    /\ restarts' = restarts + 1
    /\ loadStatus' = "pending" /\ backupStatus' = "pending"
    /\ \E unanswered \in SUBSET {c \in Callers : at[c] = "poll"} :
          at' = [c \in Callers |->
                   IF at[c] \in {"open", "read", "connect", "write", "rollout"} \/ c \in unanswered THEN "gone" ELSE at[c]]
    /\ UNCHANGED <<topic, stored, request, reading, mishaps>>

Serve(c) ==
    \/ OpenReader(c) \/ EndRefresh(c) \/ Keep(c) \/ EndReading(c)
    \/ OpenStore(c) \/ HandlerPanics(c) \/ WriteOrder(c) \/ EndWriting(c)

StreamNext ==
    \/ Publish
    \/ \E c \in Callers : AskLoad(c) \/ AskBackup(c) \/ AskRefresh(c)
    \/ \E c \in Callers : Serve(c) \/ Poll(c)
    \/ Restart

StreamSpec == StreamInit /\ [][StreamNext]_streamVars

(* The goroutine of a request runs on, and the portal goes on polling.     *)
StreamFairness == \A c \in Callers : WF_streamVars(Serve(c) \/ Poll(c))
-----------------------------------------------------------------------------
(* When the portal goes on after a backup and no command has failed,       *)
(* every message the topic had when it was asked for is in the database,   *)
(* although the status is "done" before the first is written, and any      *)
(* other backup may have set it (backupHandler, backupOrderQueue).         *)
BackupIsComplete ==
    \A c \in Callers :
        (at[c] = "on" /\ what[c] = "backup" /\ mishaps = 0) =>
            \A n \in 1..had[c] : stored["backup"][n] = n

(* The portal does not poll for ever, however many loads and backups run   *)
(* into each other, unless the service was restarted or, for a load, a     *)
(* backup or a refresh has been at the status it waits for, or another     *)
(* load panicked and left it at "reloading" (theThing, loadSequenceData).  *)
StreamPollingEnds ==
    \A c \in Callers :
        at[c] = "poll" ~>
            \/ at[c] # "poll"
            \/ restarts > 0
            \/ what[c] = "load" /\ \E d \in Callers : what[d] # "load" \/ at[d] = "gone"
=============================================================================
