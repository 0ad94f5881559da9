------------------------------ MODULE Consumer ------------------------------
(***************************************************************************)
(* The consumer pods (src/microservices/consumer/build/pulsar/consumer.go; *)
(* serialout.go differs only in metric names and in where the credentials  *)
(* database index comes from).                                             *)
(*                                                                         *)
(* Each pod runs one loop over a shared Pulsar subscription.  A message is *)
(* acknowledged as soon as it is received, without waiting for the broker, *)
(* then checked and posted to the trading system as an order.  After every *)
(* cancelBatchLimit answers the pod lists and cancels orders one by one,   *)
(* and at cancelAllThreshold messages it cancels all of them.  Every       *)
(* failed request ends the process, and Kubernetes starts it again.        *)
(*                                                                         *)
(* The order in which a shared subscription hands out messages is not      *)
(* kept: nothing below depends on it.                                      *)
(***************************************************************************)
EXTENDS Integers, FiniteSets

CONSTANTS
    Messages,            \* the messages of the topic
    Kind,                \* what each is: see Kinds
    Consumers,           \* the pods
    Answers,             \* what the trading system may answer to an order
    CancelBatchLimit,    \* CANCEL_BATCH_LIMIT
    CancelAllThreshold,  \* CANCEL_ALL_THRESHOLD
    MaxDeaths,           \* bound on the number of processes that die
    MaxCuts              \* bound on the number of lost broker connections

(* A complete order; a JSON object with an empty field; a bare order id,   *)
(* as the producers publish one for an order they cannot read; nothing.    *)
Kinds == {"order", "hollow", "bare", "empty"}

ASSUME KindAssumption == Kind \in [Messages -> Kinds]
ASSUME AnswersAssumption == Answers \subseteq {"sent", "refused"}
ASSUME LimitAssumption == CancelBatchLimit \in Nat \ {0} /\ CancelAllThreshold \in Nat
ASSUME PlacesAssumption == {"backlog", "acked"} \cap Consumers = {}
ASSUME BoundsAssumption == MaxDeaths \in Nat /\ MaxCuts \in Nat

VARIABLES
    \* the broker and the connections to it
    place,       \* where the subscription has each message
    acking,      \* acknowledgements a pod has sent that are not at the broker
    \* the processes
    at,          \* where each process is
    hand,        \* the message it is dealing with, none or one
    orderIndex,  \* messages received by this process
    batchIndex,  \* answers since the last batch of cancellations
    errorCount,  \* messages that failed the check
    answer,      \* the trading system's last answer
    toCancel,    \* orders still to cancel of those getOrders listed
    \* history
    posts,       \* how often each message was posted as an order
    answered,    \* answers a process has read
    refused,     \* was one of them a refusal
    batches,     \* batches of cancellations finished by a process
    cancelAlls,  \* cancellations of everything by a process
    deaths,
    cuts

broker == <<place, acking>>
batching == <<batchIndex, answer, toCancel>>
process == <<at, hand, orderIndex, batching, errorCount>>
counts == <<answered, refused, batches, cancelAlls>>
history == <<posts, counts, deaths, cuts>>
vars == <<broker, process, history>>

Places == {"backlog", "acked"} \cup Consumers
Steps == {"down", "receive", "check", "post", "answer", "list", "cancel", "bulk"}

TypeOK ==
    /\ place \in [Messages -> Places]
    /\ acking \in [Consumers -> SUBSET Messages]
    /\ at \in [Consumers -> Steps]
    /\ hand \in [Consumers -> SUBSET Messages]
    /\ orderIndex \in [Consumers -> Nat]
    /\ batchIndex \in [Consumers -> Nat]
    /\ errorCount \in [Consumers -> Nat]
    /\ answer \in [Consumers -> {"none", "sent", "refused"}]
    /\ toCancel \in [Consumers -> 0..CancelBatchLimit]
    /\ posts \in [Messages -> Nat]
    /\ answered \in [Consumers -> Nat]
    /\ refused \in [Consumers -> BOOLEAN]
    /\ batches \in [Consumers -> Nat]
    /\ cancelAlls \in [Consumers -> Nat]
    /\ deaths \in 0..MaxDeaths
    /\ cuts \in 0..MaxCuts
-----------------------------------------------------------------------------
(* Conditions and values of the code, which the actions use; the variant   *)
(* before one is a plausible slip that a property at the end of the module *)
(* must catch.                                                             *)

(* What the client library has received and not handed to the loop yet:    *)
(* an acknowledged message is not handed out again.                        *)
Redelivered(c) == {m \in Messages : place[m] = c}
Queued(c) == {m \in Messages : place[m] = c /\ m \notin acking[c]}

(* consumer.Ack(msg) acknowledges that message and no other.               *)
Cumulative(c, m) == Queued(c)
Acknowledged(c, m) == {m}

(* data_check refuses a field that is empty, and parses a bare id into a   *)
(* map without fields.                                                     *)
PassesCheck(m) == Kind[m] \in {"order", "bare"}

(* batchIndex == cancelBatchLimit, and the batch count afterwards.         *)
ListIsFull(c) == batchIndex[c] + 1 = CancelBatchLimit

ResetForgotten(c) == batchIndex[c]
ResetBatchIndex(c) == 0

(* requestParams["limit"]: how many orders the trading system may list.    *)
NoLimit == 0..(CancelBatchLimit + 1)
Listed == 0..CancelBatchLimit

(* for orderIndex, p := range response.Orders                              *)
SameOrderAgain(c) == toCancel[c]
NextOrder(c) == toCancel[c] - 1
-----------------------------------------------------------------------------
Init ==
    /\ place = [m \in Messages |-> "backlog"]
    /\ acking = [c \in Consumers |-> {}]
    /\ at = [c \in Consumers |-> "down"]
    /\ hand = [c \in Consumers |-> {}]
    /\ orderIndex = [c \in Consumers |-> 0]
    /\ batchIndex = [c \in Consumers |-> 0]
    /\ errorCount = [c \in Consumers |-> 0]
    /\ answer = [c \in Consumers |-> "none"]
    /\ toCancel = [c \in Consumers |-> 0]
    /\ posts = [m \in Messages |-> 0]
    /\ answered = [c \in Consumers |-> 0]
    /\ refused = [c \in Consumers |-> FALSE]
    /\ batches = [c \in Consumers |-> 0]
    /\ cancelAlls = [c \in Consumers |-> 0]
    /\ deaths = 0
    /\ cuts = 0

(* main: log on with a credential, connect, subscribe.                     *)
Start(c) ==
    /\ at[c] = "down"
    /\ at' = [at EXCEPT ![c] = "receive"]
    /\ UNCHANGED <<broker, hand, orderIndex, batching, errorCount, history>>

(* The broker sends a message of the backlog to one of the pods.           *)
Dispatch(c, m) ==
    /\ at[c] # "down"
    /\ place[m] = "backlog"
    /\ place' = [place EXCEPT ![m] = c]
    /\ UNCHANGED <<acking, process, history>>

(* consumer.Receive, then consumer.Ack, which does not wait.               *)
Receive(c) ==
    /\ at[c] = "receive"
    /\ \E m \in Queued(c) :
         /\ hand' = [hand EXCEPT ![c] = {m}]
         /\ acking' = [acking EXCEPT ![c] = @ \cup Acknowledged(c, m)]
    /\ orderIndex' = [orderIndex EXCEPT ![c] = @ + 1]
    /\ at' = [at EXCEPT ![c] = "check"]
    /\ UNCHANGED <<place, batching, errorCount, history>>

AckArrives(c, m) ==
    /\ m \in acking[c]
    /\ acking' = [acking EXCEPT ![c] = @ \ {m}]
    /\ place' = [place EXCEPT ![m] = "acked"]
    /\ UNCHANGED <<process, history>>

(* empty_msg_check: an empty message is skipped, the bulk cancel with it.  *)
SkipEmpty(c) ==
    /\ at[c] = "check"
    /\ \E m \in hand[c] : Kind[m] = "empty"
    /\ hand' = [hand EXCEPT ![c] = {}]
    /\ at' = [at EXCEPT ![c] = "receive"]
    /\ UNCHANGED <<broker, orderIndex, batching, errorCount, history>>

(* data_check: a message that fails is counted and dropped.                *)
FailCheck(c) ==
    /\ at[c] = "check"
    /\ \E m \in hand[c] : Kind[m] # "empty" /\ ~PassesCheck(m)
    /\ errorCount' = [errorCount EXCEPT ![c] = @ + 1]
    /\ hand' = [hand EXCEPT ![c] = {}]
    /\ at' = [at EXCEPT ![c] = "bulk"]
    /\ UNCHANGED <<broker, orderIndex, batching, history>>

(* jsonToMap and updateOrder put the pod's account in the order.           *)
PassCheck(c) ==
    /\ at[c] = "check"
    /\ \E m \in hand[c] : Kind[m] # "empty" /\ PassesCheck(m)
    /\ at' = [at EXCEPT ![c] = "post"]
    /\ UNCHANGED <<broker, hand, orderIndex, batching, errorCount, history>>

(* create_order: the request is with the trading system.                   *)
Post(c) ==
    /\ at[c] = "post"
    /\ \E m \in hand[c] : posts' = [posts EXCEPT ![m] = @ + 1]
    /\ \E r \in Answers : answer' = [answer EXCEPT ![c] = r]
    /\ at' = [at EXCEPT ![c] = "answer"]
    /\ UNCHANGED <<broker, hand, orderIndex, batchIndex, toCancel, errorCount, counts, deaths, cuts>>

(* batchCancels: every answer counts, but only one that says "sent" is     *)
(* compared with the limit.                                                *)
CountAnswer(c) ==
    /\ at[c] = "answer"
    /\ batchIndex' = [batchIndex EXCEPT ![c] = @ + 1]
    /\ hand' = [hand EXCEPT ![c] = {}]
    /\ answer' = [answer EXCEPT ![c] = "none"]
    /\ at' = [at EXCEPT ![c] = IF answer[c] = "sent" /\ ListIsFull(c) THEN "list" ELSE "bulk"]
    /\ answered' = [answered EXCEPT ![c] = @ + 1]
    /\ refused' = [refused EXCEPT ![c] = @ \/ answer[c] = "refused"]
    /\ UNCHANGED <<broker, orderIndex, toCancel, errorCount, posts, batches, cancelAlls, deaths, cuts>>

(* getOrders: the trading system lists at most "limit" orders ...          *)
ListOrders(c) ==
    /\ at[c] = "list"
    /\ \E n \in Listed : toCancel' = [toCancel EXCEPT ![c] = n]
    /\ at' = [at EXCEPT ![c] = "cancel"]
    /\ UNCHANGED <<broker, hand, orderIndex, batchIndex, answer, errorCount, history>>

(* ... cancel_order for each of them ...                                   *)
CancelOrder(c) ==
    /\ at[c] = "cancel"
    /\ toCancel[c] > 0
    /\ toCancel' = [toCancel EXCEPT ![c] = NextOrder(c)]
    /\ UNCHANGED <<broker, at, hand, orderIndex, batchIndex, answer, errorCount, history>>

(* ... and the batch starts again.                                         *)
FinishBatch(c) ==
    /\ at[c] = "cancel"
    /\ toCancel[c] = 0
    /\ batchIndex' = [batchIndex EXCEPT ![c] = ResetBatchIndex(c)]
    /\ batches' = [batches EXCEPT ![c] = @ + 1]
    /\ at' = [at EXCEPT ![c] = "bulk"]
    /\ UNCHANGED <<broker, hand, orderIndex, answer, toCancel, errorCount, posts, answered,
                   refused, cancelAlls, deaths, cuts>>

(* The end of the loop's body: cancelAllOrders at the threshold.           *)
BulkCancel(c) ==
    /\ at[c] = "bulk"
    /\ cancelAlls' = IF orderIndex[c] = CancelAllThreshold
                     THEN [cancelAlls EXCEPT ![c] = @ + 1] ELSE cancelAlls
    /\ at' = [at EXCEPT ![c] = "receive"]
    /\ UNCHANGED <<broker, hand, orderIndex, batching, errorCount, posts, answered, refused,
                   batches, deaths, cuts>>

(* The broker takes back what a lost connection held; acknowledgements on  *)
(* the way are lost with it.                                               *)
TakeBack(c) ==
    /\ place' = [m \in Messages |-> IF place[m] = c THEN "backlog" ELSE place[m]]
    /\ acking' = [acking EXCEPT ![c] = {}]

(* The connection is lost; the library connects again by itself.           *)
Cut(c) ==
    /\ at[c] # "down"
    /\ cuts < MaxCuts
    /\ cuts' = cuts + 1
    /\ TakeBack(c)
    /\ UNCHANGED <<process, posts, counts, deaths>>

(* log.Fatal on an error of Receive, of a request or of its answer, a nil  *)
(* response in getOrders, or an evicted pod.                               *)
Die(c) ==
    /\ at[c] # "down"
    /\ deaths < MaxDeaths
    /\ deaths' = deaths + 1
    /\ TakeBack(c)
    /\ at' = [at EXCEPT ![c] = "down"]
    /\ hand' = [hand EXCEPT ![c] = {}]
    /\ orderIndex' = [orderIndex EXCEPT ![c] = 0]
    /\ batchIndex' = [batchIndex EXCEPT ![c] = 0]
    /\ errorCount' = [errorCount EXCEPT ![c] = 0]
    /\ answer' = [answer EXCEPT ![c] = "none"]
    /\ toCancel' = [toCancel EXCEPT ![c] = 0]
    /\ answered' = [answered EXCEPT ![c] = 0]
    /\ refused' = [refused EXCEPT ![c] = FALSE]
    /\ batches' = [batches EXCEPT ![c] = 0]
    /\ cancelAlls' = [cancelAlls EXCEPT ![c] = 0]
    /\ UNCHANGED <<posts, cuts>>

(* One pass of the loop, whatever way it takes.                            *)
LoopStep(c) ==
    \/ Receive(c)
    \/ SkipEmpty(c)
    \/ FailCheck(c)
    \/ PassCheck(c)
    \/ Post(c)
    \/ CountAnswer(c)
    \/ ListOrders(c)
    \/ CancelOrder(c)
    \/ FinishBatch(c)
    \/ BulkCancel(c)

Next ==
    \E c \in Consumers :
        \/ Start(c)
        \/ LoopStep(c)
        \/ \E m \in Messages : Dispatch(c, m) \/ AckArrives(c, m)
        \/ Cut(c)
        \/ Die(c)

Spec == Init /\ [][Next]_vars

(* Kubernetes starts a pod that died, a running process runs, and the      *)
(* broker hands out its backlog and gets the acknowledgements of a         *)
(* connection that lasts.                                                  *)
Fairness ==
    \A c \in Consumers :
        /\ WF_vars(Start(c))
        /\ WF_vars(LoopStep(c))
        /\ \A m \in Messages : WF_vars(AckArrives(c, m))
FairSpec ==
    /\ Spec
    /\ Fairness
    /\ \A m \in Messages : WF_vars(\E c \in Consumers : Dispatch(c, m))
-----------------------------------------------------------------------------
(* Orders that are off the topic, were never posted, and that no process   *)
(* is dealing with.                                                        *)
Lost == {m \in Messages :
            /\ place[m] = "acked"
            /\ PassesCheck(m)
            /\ posts[m] = 0
            /\ \A c \in Consumers : m \notin hand[c]}

(* A message is acknowledged before it is dealt with, so a process that    *)
(* dies takes an order with it, but only the one it has in hand: what the  *)
(* library has fetched ahead goes back to the topic, and a lost connection *)
(* loses nothing.                                                          *)
DeathLosesAtMostOne == Cardinality(Lost) <= deaths

(* No order is posted again unless a process or a connection was lost      *)
(* between, however many pods share the subscription.                      *)
PostedAgainOnlyAfterFailure == \A m \in Messages : posts[m] <= 1 + deaths + cuts

(* As long as the trading system takes every order, the batches of         *)
(* cancellations keep pace with the orders (batchCancels).                 *)
BatchesKeepPace ==
    \A c \in Consumers :
        ~refused[c] =>
            /\ answered[c] = batches[c] * CancelBatchLimit + batchIndex[c]
            /\ batchIndex[c] = CancelBatchLimit => at[c] \in {"list", "cancel"}

(* Processes and connections are lost finitely often, so in the end the    *)
(* whole topic is acknowledged and every order was posted or lost.         *)
TopicDrained == <>[](\A m \in Messages : place[m] = "acked" /\ \A c \in Consumers : hand[c] = {})
=============================================================================
