---------------------------- MODULE Credentials ----------------------------
(***************************************************************************)
(* The table of user credentials, Redis database 14: one hash per          *)
(* credential under the keys 0, 1, ..., and every program that uses it.    *)
(*                                                                         *)
(* Loaders fill it, one hash per file: analysis/update.go and the loadcreds *)
(* the portal runs (the same program) then clear the marks,                *)
(* processCredentials.go and process_user.go (one program too) set them,   *)
(* and write.go, which writes two samples, leaves them.  Takers take a     *)
(* credential and mark it: the consumer pods (lookupRandomCredentials),    *)
(* analysis/lookup.go, from which their code was made, and                 *)
(* pt_users/update.go, which marks the one it is asked for.  All read a    *)
(* replica, which applies the master's writes in order, some time later,   *)
(* and write to the master.  Nothing gives a credential back.              *)
(***************************************************************************)
EXTENDS Integers, Sequences, FiniteSets

CONSTANTS
    Pods,       \* consumer pods
    Lookups,    \* users of analysis/lookup.go
    Readers,    \* users of pt_users/update.go
    Loaders,    \* users of a loader
    List,       \* the credentials each loader has files for, in their order
    FinalMark,  \* the mark each loader sets at its end; "none" is write.go
    Users,      \* the users there are credentials of
    Size,       \* number of keys
    MaxRuns,    \* bound on the number of programs that run
    MaxFails,   \* bound on failed commands, unreadable files and broken loads
    blank,      \* the empty name that comes of a file that cannot be read
    nobody      \* a name that was never filled in

ASSUME ListAssumption ==
    /\ List \in [Loaders -> Seq(Users)]
    /\ \A l \in Loaders : Len(List[l]) <= Size
ASSUME FinalMarkAssumption == FinalMark \in [Loaders -> {"no", "yes", "none"}]
ASSUME NumbersAssumption == Size \in Nat \ {0} /\ {MaxRuns, MaxFails} \subseteq Nat
ASSUME NobodyAssumption == {nobody, blank} \cap Users = {} /\ nobody # blank
ASSUME TakersAssumption ==
    /\ Pods \cap Lookups = {}
    /\ Pods \cap Readers = {}
    /\ Lookups \cap Readers = {}

Keys == 0..(Size - 1)
Takers == Pods \cup Lookups \cup Readers

VARIABLES
    master,    \* the table
    replica,   \* the table a reader sees
    stream,    \* writes of the master the replica has not applied
    \* the takers
    at,        \* where each is
    count,     \* len(indices): how many keys it saw
    next,      \* idx: the key it looks at next
    selected,  \* the key it will mark
    user,      \* the credential it goes on with
    \* the loaders
    loading,   \* whether it runs, and what it does
    file,      \* files dealt with, or marks set
    msgIndex,  \* msgIndex: the key it writes next
    seen,      \* what it found when it looked its last write up
    \* history
    runs,      \* programs started so far
    fails,     \* failed writes and unreadable files so far
    breaks,    \* broken loads and failed readings so far
    clean,     \* no program so far overlapped another or a lagging replica
    intact     \* each loader's run has had no failure and no other loader beside it

tables == <<master, replica, stream>>
takers == <<at, count, next, selected, user>>
loaders == <<loading, file, msgIndex, seen>>
history == <<runs, fails, breaks, clean, intact>>
vars == <<tables, takers, loaders, history>>

Names == Users \cup {blank, nobody}

(* A hash is absent, or has a mark and may lack the name.                  *)
Entry == [user : Names, used : {"none", "no", "yes"}]
Absent == [user |-> nobody, used |-> "none"]
Writes == [key : Keys, name : Names, mark : {"no", "yes"}]

TypeOK ==
    /\ master \in [Keys -> Entry]
    /\ replica \in [Keys -> Entry]
    /\ stream \in Seq(Writes)
    /\ at \in [Takers -> {"down", "scan", "mark", "on"}]
    /\ count \in [Takers -> 0..Size]
    /\ next \in [Takers -> 0..Size]
    /\ selected \in [Takers -> Keys]
    /\ user \in [Takers -> Names]
    /\ loading \in [Loaders -> {"no", "write", "look", "mark"}]
    /\ file \in [Loaders -> 0..Size]
    /\ msgIndex \in [Loaders -> 0..Size]
    /\ seen \in [Loaders -> Names]
    /\ runs \in 0..MaxRuns
    /\ fails \in 0..MaxFails
    /\ breaks \in 0..MaxFails
    /\ clean \in BOOLEAN
    /\ intact \in [Loaders -> BOOLEAN]
-----------------------------------------------------------------------------
(* HMSET writes name and mark; HSET writes the mark alone, and makes the   *)
(* hash when there is none.                                                *)
Written(table, w) ==
    [table EXCEPT ![w.key] =
        [user |-> IF w.name = nobody THEN @.user ELSE w.name, used |-> w.mark]]

Write(k, name, mark) ==
    LET w == [key |-> k, name |-> name, mark |-> mark] IN
      /\ master' = Written(master, w)
      /\ stream' = Append(stream, w)
      /\ UNCHANGED replica

Mishap == fails + breaks < MaxFails

(* A failed write is reported, and the caller goes on.                     *)
WriteFails ==
    /\ Mishap
    /\ fails' = fails + 1
    /\ UNCHANGED tables

(* A failed HGETALL is reported too, and what comes of it is a hash without *)
(* a name or a mark.                                                       *)
ReadingFails ==
    /\ Mishap
    /\ breaks' = breaks + 1
    /\ UNCHANGED <<tables, runs, fails, clean, intact>>

(* KEYS * : how many hashes the replica has.                               *)
KeysSeen == Cardinality({k \in Keys : replica[k] # Absent})

(* Conditions and values of the code, which the actions use; the variant   *)
(* before one is a plausible slip that a property at the end of the module *)
(* must catch.                                                             *)

(* if s == "1"                                                             *)
NeverUsed(t) == FALSE
FoundUsed(t) == replica[next[t]].used = "yes"

(* the key looked at is the last one; in a pod, tryCount, which counts the *)
(* used ones, is then availableCredentials                                 *)
LastKey(t) == next[t] + 1 = count[t]

MarksFirst(t) == 0
MarkedKey(t) == selected[t]

(* the global msgIndex after a write that succeeded, and one that failed   *)
SameKey(l) == msgIndex[l]
NextKey(l) == msgIndex[l] + 1

KeyIsSkipped(l) == msgIndex[l] + 1
KeyIsKept(l) == msgIndex[l]

(* the key main looks up is the msgIndex that dump_credentials_to_input    *)
(* returns                                                                 *)
LookedUpKey(l) == msgIndex[l]
-----------------------------------------------------------------------------
(* The table is empty, or as an earlier run of a loader has left it.       *)
LeftBy(l) ==
    [k \in Keys |->
        IF k < Len(List[l])
        THEN [user |-> List[l][k + 1], used |-> IF FinalMark[l] = "none" THEN "no" ELSE FinalMark[l]]
        ELSE Absent]

Init ==
    /\ master \in {[k \in Keys |-> Absent]} \cup {LeftBy(l) : l \in Loaders}
    /\ replica = master
    /\ stream = <<>>
    /\ at = [t \in Takers |-> "down"]
    /\ count = [t \in Takers |-> 0]
    /\ next = [t \in Takers |-> 0]
    /\ selected = [t \in Takers |-> 0]
    /\ user = [t \in Takers |-> nobody]
    /\ loading = [l \in Loaders |-> "no"]
    /\ file = [l \in Loaders |-> 0]
    /\ msgIndex = [l \in Loaders |-> 0]
    /\ seen = [l \in Loaders |-> nobody]
    /\ runs = 0
    /\ fails = 0
    /\ breaks = 0
    /\ clean = TRUE
    /\ intact = [l \in Loaders |-> FALSE]

Replicate ==
    /\ stream # <<>>
    /\ replica' = Written(replica, Head(stream))
    /\ stream' = Tail(stream)
    /\ UNCHANGED <<master, takers, loaders, history>>

(* A program that takes a credential begins; clean starts have the table   *)
(* to themselves.                                                          *)
Alone == stream = <<>> /\ \A l \in Loaders : loading[l] = "no"

Start(t) ==
    /\ at[t] = "down"
    /\ runs < MaxRuns
    /\ runs' = runs + 1
    /\ clean' = (clean /\ Alone /\ \A q \in Takers : at[q] \notin {"scan", "mark"})
    /\ UNCHANGED <<tables, selected, user, loaders, fails, breaks, intact>>

(* getAllunused: despite its name, all the keys.                           *)
Begin(t) ==
    /\ t \in Pods \cup Lookups
    /\ Start(t)
    /\ count' = [count EXCEPT ![t] = KeysSeen]
    /\ at' = [at EXCEPT ![t] = IF KeysSeen = 0 THEN "mark" ELSE "scan"]
    /\ UNCHANGED next

(* getCredentialbyIndex, on the key that is taken.                         *)
Take(t) ==
    /\ selected' = [selected EXCEPT ![t] = next[t]]
    /\ user' = [user EXCEPT ![t] = replica[next[t]].user]
    /\ at' = [at EXCEPT ![t] = "mark"]
    /\ UNCHANGED next

(* The first key that is not used ends the loop.                           *)
LookAtFree(t) ==
    /\ t \in Pods \cup Lookups
    /\ at[t] = "scan"
    /\ ~FoundUsed(t)
    /\ Take(t)
    /\ UNCHANGED <<tables, count, loaders, history>>

(* A used one is passed over, but when all are used a pod re-uses the last *)
(* and lookup.go is left with selected as it was declared: key 0.          *)
LookAtUsed(t) ==
    /\ t \in Pods \cup Lookups
    /\ at[t] = "scan"
    /\ FoundUsed(t)
    /\ \/ LastKey(t) /\ t \in Pods /\ Take(t)
       \/ /\ LastKey(t) /\ t \in Lookups
          /\ at' = [at EXCEPT ![t] = "mark"]
          /\ UNCHANGED <<next, selected, user>>
       \/ /\ ~LastKey(t)
          /\ next' = [next EXCEPT ![t] = @ + 1]
          /\ UNCHANGED <<at, selected, user>>
    /\ UNCHANGED <<tables, count, loaders, history>>

(* A hash that could not be read is not used: it is taken, without a name, *)
(* and will be marked.                                                     *)
LookInVain(t) ==
    /\ t \in Pods \cup Lookups
    /\ at[t] = "scan"
    /\ ReadingFails
    /\ selected' = [selected EXCEPT ![t] = next[t]]
    /\ user' = [user EXCEPT ![t] = nobody]
    /\ at' = [at EXCEPT ![t] = "mark"]
    /\ UNCHANGED <<count, next, loaders>>

(* pt_users/update.go is about one key.                                    *)
Open(t) ==
    /\ t \in Readers
    /\ Start(t)
    /\ \E k \in Keys : next' = [next EXCEPT ![t] = k]
    /\ at' = [at EXCEPT ![t] = "scan"]
    /\ UNCHANGED count

(* readFromRedis there: whatever is not marked unused is not for taking.   *)
Read(t) ==
    /\ t \in Readers
    /\ at[t] = "scan"
    /\ \/ replica[next[t]].used = "no" /\ Take(t)
       \/ /\ replica[next[t]].used # "no"
          /\ at' = [at EXCEPT ![t] = "on"]
          /\ UNCHANGED <<next, selected, user>>
    /\ UNCHANGED <<tables, count, loaders, history>>

ReadInVain(t) ==
    /\ t \in Readers
    /\ at[t] = "scan"
    /\ ReadingFails
    /\ at' = [at EXCEPT ![t] = "on"]
    /\ UNCHANGED <<count, next, selected, user, loaders>>

(* update_parameter_to_redis; the program goes on with what it looked up.  *)
Mark(t) ==
    /\ at[t] = "mark"
    /\ \/ Write(MarkedKey(t), nobody, "yes") /\ UNCHANGED fails
       \/ WriteFails
    /\ at' = [at EXCEPT ![t] = "on"]
    /\ UNCHANGED <<count, next, selected, user, loaders, runs, breaks, clean, intact>>

(* The program ends, or the pod dies: no code runs that clears the mark.   *)
Die(t) ==
    /\ at[t] # "down"
    /\ at' = [at EXCEPT ![t] = "down"]
    /\ count' = [count EXCEPT ![t] = 0]
    /\ next' = [next EXCEPT ![t] = 0]
    /\ selected' = [selected EXCEPT ![t] = 0]
    /\ user' = [user EXCEPT ![t] = nobody]
    /\ UNCHANGED <<tables, loaders, history>>

(* A loader's main starts on its files.                                    *)
Load(l) ==
    /\ loading[l] = "no"
    /\ runs < MaxRuns
    /\ runs' = runs + 1
    /\ loading' = [loading EXCEPT ![l] = "write"]
    /\ clean' = (clean /\ Alone /\ \A t \in Takers : at[t] = "down")
    /\ intact' = [m \in Loaders |-> m = l /\ \A n \in Loaders : loading[n] = "no"]
    /\ UNCHANGED <<tables, takers, file, msgIndex, seen, fails, breaks>>

(* getUserCredentials: a file that cannot be read or parsed is reported,   *)
(* and an empty name goes on.                                              *)
FileRead(l, name) ==
    \/ name = List[l][file[l] + 1] /\ UNCHANGED <<fails, intact>>
    \/ /\ Mishap
       /\ name = blank
       /\ fails' = fails + 1
       /\ intact' = [intact EXCEPT ![l] = FALSE]

(* write_message_to_redis: a key is used up only by a write that succeeds. *)
WriteFile(l) ==
    /\ loading[l] = "write"
    /\ file[l] < Len(List[l])
    /\ file' = [file EXCEPT ![l] = @ + 1]
    /\ loading' = [loading EXCEPT ![l] = "look"]
    /\ \/ /\ \E name \in Names : FileRead(l, name) /\ Write(msgIndex[l], name, "no")
          /\ msgIndex' = [msgIndex EXCEPT ![l] = NextKey(l)]
       \/ /\ WriteFails
          /\ msgIndex' = [msgIndex EXCEPT ![l] = KeyIsKept(l)]
          /\ intact' = [intact EXCEPT ![l] = FALSE]
    /\ UNCHANGED <<takers, seen, runs, breaks, clean>>

(* "lookup the credential again": nothing comes of an absent or used one,  *)
(* nor ever in write.go, which returns variables it never assigned.        *)
LookUp(k) == IF k \in Keys /\ replica[k].used = "no" THEN replica[k].user ELSE nobody

ReadBack(l) ==
    /\ loading[l] = "look"
    /\ FinalMark[l] # "none"
    /\ seen' = [seen EXCEPT ![l] = LookUp(LookedUpKey(l))]
    /\ loading' = [loading EXCEPT ![l] = "write"]
    /\ UNCHANGED <<tables, takers, file, msgIndex, history>>

ReadBackInVain(l) ==
    /\ loading[l] = "look"
    /\ FinalMark[l] # "none"
    /\ ReadingFails
    /\ seen' = [seen EXCEPT ![l] = nobody]
    /\ loading' = [loading EXCEPT ![l] = "write"]
    /\ UNCHANGED <<takers, file, msgIndex>>

ReadNothing(l) ==
    /\ loading[l] = "look"
    /\ FinalMark[l] = "none"
    /\ loading' = [loading EXCEPT ![l] = "write"]
    /\ UNCHANGED <<tables, takers, file, msgIndex, seen, history>>

StartMarking(l) ==
    /\ loading[l] = "write"
    /\ file[l] = Len(List[l])
    /\ FinalMark[l] # "none"
    /\ loading' = [loading EXCEPT ![l] = "mark"]
    /\ file' = [file EXCEPT ![l] = 0]
    /\ UNCHANGED <<tables, takers, msgIndex, seen, history>>

(* for i := range indices: one key per file, written or not.               *)
MarksOneLess(l) == file[l] + 1 >= Len(List[l])
MarksOneMore(l) == file[l] > Len(List[l])
MarkingDone(l) == file[l] = Len(List[l])

MarkKey(l) ==
    /\ loading[l] = "mark"
    /\ ~MarkingDone(l)
    /\ \/ Write(file[l], nobody, FinalMark[l]) /\ UNCHANGED <<fails, intact>>
       \/ WriteFails /\ intact' = [intact EXCEPT ![l] = FALSE]
    /\ file' = [file EXCEPT ![l] = @ + 1]
    /\ UNCHANGED <<takers, loading, msgIndex, seen, runs, breaks, clean>>

Stop(l) ==
    /\ loading' = [loading EXCEPT ![l] = "no"]
    /\ file' = [file EXCEPT ![l] = 0]
    /\ msgIndex' = [msgIndex EXCEPT ![l] = 0]
    /\ seen' = [seen EXCEPT ![l] = nobody]
    /\ UNCHANGED <<tables, takers, runs, fails, clean>>

FinishLoad(l) ==
    /\ loading[l] = "mark" /\ MarkingDone(l)
    /\ Stop(l)
    /\ UNCHANGED <<breaks, intact>>

(* write.go ends after its two samples.                                    *)
FinishSamples(l) ==
    /\ loading[l] = "write" /\ file[l] = Len(List[l])
    /\ FinalMark[l] = "none"
    /\ Stop(l)
    /\ UNCHANGED <<breaks, intact>>

(* log.Fatal or panic when Redis cannot be reached.                        *)
BreakOff(l) ==
    /\ loading[l] # "no"
    /\ Mishap
    /\ breaks' = breaks + 1
    /\ intact' = [intact EXCEPT ![l] = FALSE]
    /\ Stop(l)

TakerStep(t) ==
    \/ Begin(t)
    \/ LookAtFree(t) \/ LookAtUsed(t) \/ LookInVain(t)
    \/ Open(t) \/ Read(t) \/ ReadInVain(t)
    \/ Mark(t)
    \/ Die(t)

LoaderStep(l) ==
    \/ Load(l)
    \/ WriteFile(l)
    \/ ReadBack(l) \/ ReadBackInVain(l) \/ ReadNothing(l)
    \/ StartMarking(l) \/ MarkKey(l)
    \/ FinishLoad(l) \/ FinishSamples(l)
    \/ BreakOff(l)

Next ==
    \/ Replicate
    \/ \E t \in Takers : TakerStep(t)
    \/ \E l \in Loaders : LoaderStep(l)

Spec == Init /\ [][Next]_vars
-----------------------------------------------------------------------------
On == {t \in Takers : at[t] = "on"}

Shared == \E t, q \in On : t # q /\ user[t] = user[q] /\ user[t] # nobody

NoneFree == \A k \in Keys : master[k].used # "no"

Undisturbed == clean /\ fails = 0 /\ breaks = 0

(* Takers that start one after another, on a loaded table and a replica    *)
(* that has caught up, get different credentials for as long as there are  *)
(* free ones, and a pod always gets one (lookupRandomCredentials; main of  *)
(* lookup.go; readFromRedis of pt_users/update.go).                        *)
SequentialTakersServed ==
    Undisturbed =>
        /\ Shared => NoneFree
        /\ (\E k \in Keys : master[k].user # nobody) =>
              \A p \in Pods : at[p] = "on" => user[p] # nobody

(* What such a taker holds is marked, and still its own, until a loader    *)
(* runs again, so later takers leave it alone.                             *)
HeldIsMarked ==
    Undisturbed =>
        \A t \in On : user[t] # nobody => master[selected[t]] = [user |-> user[t], used |-> "yes"]

(* The hashes that have a name are the first ones of the table, whatever   *)
(* failed or broke off and however many loaders ran together: a taker,     *)
(* which counts the keys and then numbers them from 0, finds them all.     *)
NamedKeysComeFirst ==
    \A j, k \in Keys : j < k /\ master[k].user # nobody => master[j].user # nobody

(* As long as every file is read and written, no user has two entries,     *)
(* through loads that overlap or break off.  (A failed write moves the     *)
(* users after it one key down over entries of an earlier load.)           *)
OneKeyPerUser ==
    fails = 0 =>
        \A j, k \in Keys : j # k /\ master[j].user \in Users => master[j].user # master[k].user

(* A run of a loader without failures and without another beside it leaves *)
(* the credentials of its files under the first keys, in order, and, if no *)
(* taker was about, with its mark (main of the loaders).                   *)
LoadLeavesItsList ==
    [][\A l \in Loaders :
         (loading[l] # "no" /\ loading'[l] = "no" /\ intact'[l]) =>
             \A i \in 1..Len(List[l]) :
                 /\ master'[i - 1].user = List[l][i]
                 /\ clean => master'[i - 1].used = IF FinalMark[l] = "none" THEN "no" ELSE FinalMark[l]
      ]_vars

(* "get the first available credential and mark as used", and re-use one   *)
(* only because "there won't be enough credentials to go around" (comments *)
(* in lookupRandomCredentials): no two pods have one while another is free *)
NotSharedWhileFree == Shared => \A k \in Keys : master[k].used = "yes"
=============================================================================
