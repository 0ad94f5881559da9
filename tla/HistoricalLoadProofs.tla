------------------------ MODULE HistoricalLoadProofs ------------------------
(***************************************************************************)
(* Theorems about HistoricalLoad, for any number of handlers, versions and *)
(* records: the types, that the one status follows all goroutines, that    *)
(* what the ingestor loaded stays loaded, and that a load with nobody      *)
(* beside it is complete.                                                  *)
(***************************************************************************)
EXTENDS HistoricalLoad, TLAPS

USE DEF Working, Places, Records, Empty

-----------------------------------------------------------------------------
(* Types                                                                   *)

LEMMA InitType == Init => TypeOK
<1> SUFFICES ASSUME Init PROVE TypeOK
    OBVIOUS
<1> USE HandlersAssumption, SizesAssumption, BoundsAssumption, RangeAssumption
<1>1. 1 \in Versions /\ Largest \in Nat
    BY DEF Versions
<1>2. kind \in {"ingestor", "dumper"} /\ up \in BOOLEAN
    BY DEF Init
<1>3. at \in [Handlers -> {"flush", "look", "ask", "poll", "go", "on", "dead", "own"}]
    BY DEF Init
<1> QED
    BY <1>1, <1>2, <1>3 DEF Init, TypeOK

LEMMA FetchedType ==
    ASSUME TypeOK
    PROVE  Fetched \in Records
<1>1. source \in Versions /\ local \in Records
    BY DEF TypeOK
<1> QED
    BY <1>1 DEF Fetched

(* A goroutine that has not written everything is at a record.             *)
LEMMA AtARecord ==
    ASSUME TypeOK, NEW h \in Handlers, ~AllWritten(h)
    PROVE  place[h] \in Places /\ lines[h][place[h]] # 0
BY DEF AllWritten

(* A goroutine writes a record, not what is past the last.                 *)
WritesARecord == \A h \in Handlers : run[h] = "write" => place[h] \in Places

LEMMA NextType == TypeOK /\ WritesARecord /\ [Next]_vars => TypeOK'
<1> SUFFICES ASSUME TypeOK, WritesARecord, [Next]_vars PROVE TypeOK'
    OBVIOUS
<1> USE BoundsAssumption, RangeAssumption
<1>1. CASE SourceChanges
    <2>1. source' \in Versions
        BY <1>1, SizesAssumption DEF SourceChanges, TypeOK, Versions
    <2> QED
        BY <1>1, <2>1 DEF SourceChanges, TypeOK, service, goroutine, history
<1>2. ASSUME NEW h \in Handlers, PortalStep(h) \/ OperatorLoad(h) \/ PollCut(h) PROVE TypeOK'
    <2>1. CASE Flush(h)
        BY <2>1 DEF Flush, Fails, TypeOK, service, goroutine
    <2>2. CASE Look(h)
        BY <2>2 DEF Look, TypeOK, service, goroutine, history
    <2>3. CASE OperatorLoad(h)
        BY <2>3 DEF OperatorLoad, TypeOK, history
    <2>4. CASE Ask(h)
        BY <2>4 DEF Ask, TypeOK
    <2>5. CASE AskRefused(h)
        BY <2>5 DEF AskRefused, TypeOK, service, goroutine, history
    <2>6. CASE PollDone(h)
        BY <2>6 DEF PollDone, TypeOK, service, goroutine, history
    <2>7. CASE PollCut(h)
        BY <2>7 DEF PollCut, Fails, TypeOK, service, goroutine
    <2>8. CASE PollRefused(h)
        BY <2>8 DEF PollRefused, TypeOK, service, goroutine, history
    <2>9. CASE GoOn(h)
        BY <2>9 DEF GoOn, TypeOK, service, goroutine
    <2> QED
        BY <1>2, <2>1, <2>2, <2>3, <2>4, <2>5, <2>6, <2>7, <2>8, <2>9 DEF PortalStep
<1>3. ASSUME NEW h \in Handlers, ServiceStep(h) PROVE TypeOK'
    <2>1. CASE Begin(h)
        BY <2>1 DEF Begin, TypeOK, history
    <2>2. CASE Fetch(h)
        <3>1. local' \in Records
            BY <2>2, FetchedType DEF Fetch, TypeOK
        <3>2. lines' \in [Handlers -> Records] /\ run' \in [Handlers -> {"none", "spawned", "ended", "panicked"} \cup Working]
            BY <2>2, <3>1 DEF Fetch, TypeOK
        <3>3. loadStatus' \in {"pending", "started", "working", "done"} /\ fails' \in 0..MaxFails
            BY <2>2 DEF Fetch, Fails, BusyStatus, TypeOK
        <3> QED
            BY <2>2, <3>1, <3>2, <3>3 DEF Fetch, TypeOK
    <2>3. CASE Read(h)
        <3>1. local[place[h]] \in {0} \cup Versions /\ lines[h][place[h]] \in {0} \cup Versions
            BY <2>3, AtARecord DEF Read, TypeOK
        <3> QED
            BY <2>3, <3>1 DEF Read, TypeOK, history
    <2>4. CASE PassOver(h)
        <3>1. place[h] + 1 \in 1..(Largest + 1)
            BY <2>4, AtARecord DEF PassOver
        <3> QED
            BY <2>4, <3>1 DEF PassOver, Fails, TypeOK
    <2>5. CASE Write(h)
        <3>1. place[h] \in Places /\ place[h] + 1 \in 1..(Largest + 1)
            BY <2>5 DEF Write, WritesARecord
        <3>2. record[h] \in {0} \cup Versions /\ db \in Records
            BY DEF TypeOK
        <3>4. db' \in Records
            BY <2>5, <3>1, <3>2 DEF Write
        <3>5. fails' \in 0..MaxFails
            BY <2>5 DEF Write, Fails, TypeOK
        <3>3. loadStatus' \in {"pending", "started", "working", "done"}
            BY <2>5 DEF Write, BusyStatus, TypeOK
        <3> QED
            BY <2>5, <3>1, <3>3, <3>4, <3>5 DEF Write, TypeOK
    <2>6. CASE Finish(h)
        BY <2>6 DEF Finish, FinalStatus, TypeOK, history
    <2>7. CASE HandlerPanics(h)
        <3>1. local' \in Records /\ fails' \in 0..MaxFails
            BY <2>7, FetchedType DEF HandlerPanics, Fails, TypeOK
        <3> QED
            BY <2>7, <3>1 DEF HandlerPanics, TypeOK
    <2> QED
        BY <1>3, <2>1, <2>2, <2>3, <2>4, <2>5, <2>6, <2>7 DEF ServiceStep
<1>4. CASE Crash
    <2>1. Empty \in Records /\ 1 \in 1..(Largest + 1)
        OBVIOUS
    <2>2. /\ lines' \in [Handlers -> Records] /\ local' \in Records
          /\ place' \in [Handlers -> 1..(Largest + 1)]
          /\ run' \in [Handlers -> {"none", "spawned", "ended", "panicked"} \cup Working]
          /\ record' \in [Handlers -> {0} \cup Versions]
        BY <1>4, <2>1 DEF Crash
    <2>3. restarts' \in 0..MaxRestarts
        BY <1>4 DEF Crash, TypeOK
    <2> QED
        BY <1>4, <2>2, <2>3 DEF Crash, TypeOK
<1>5. CASE Restart
    BY <1>5 DEF Restart, TypeOK, goroutine, history
<1>6. CASE UNCHANGED vars
    BY <1>6 DEF vars, service, goroutine, history, TypeOK
<1> QED
    BY <1>1, <1>2, <1>3, <1>4, <1>5, <1>6 DEF Next

LEMMA NextWrites == TypeOK /\ WritesARecord /\ [Next]_vars => WritesARecord'
<1> SUFFICES ASSUME TypeOK, WritesARecord, [Next]_vars,
                    NEW g \in Handlers, run'[g] = "write"
             PROVE  place'[g] \in Places
    BY DEF WritesARecord
<1>1. ASSUME NEW h \in Handlers, Read(h) PROVE place'[g] \in Places
    <2>1. CASE g = h
        BY <1>1, <2>1, AtARecord DEF Read
    <2>2. CASE g # h
        BY <1>1, <2>2 DEF Read, WritesARecord, TypeOK
    <2> QED
        BY <2>1, <2>2
<1>2. ASSUME NEW h \in Handlers, PassOver(h) PROVE place'[g] \in Places
    BY <1>2 DEF PassOver, WritesARecord, TypeOK
<1>3. ASSUME NEW h \in Handlers, Write(h) PROVE place'[g] \in Places
    BY <1>3 DEF Write, WritesARecord, TypeOK
<1>4. ASSUME NEW h \in Handlers,
             \/ Ask(h) \/ OperatorLoad(h) \/ Begin(h) \/ Fetch(h) \/ HandlerPanics(h) \/ Finish(h)
      PROVE  place'[g] \in Places
    BY <1>4 DEF Ask, OperatorLoad, Begin, Fetch, HandlerPanics, Finish, WritesARecord, TypeOK
<1>5. ASSUME NEW h \in Handlers,
             \/ Flush(h) \/ Look(h) \/ AskRefused(h) \/ PollDone(h) \/ PollCut(h)
             \/ PollRefused(h) \/ GoOn(h)
      PROVE  place'[g] \in Places
    BY <1>5 DEF Flush, Look, AskRefused, PollDone, PollCut, PollRefused, GoOn, service, goroutine,
                WritesARecord
<1>6. CASE SourceChanges \/ Restart \/ UNCHANGED vars
    BY <1>6 DEF SourceChanges, Restart, vars, service, goroutine, WritesARecord
<1>7. CASE Crash
    BY <1>7 DEF Crash
<1> QED
    BY <1>1, <1>2, <1>3, <1>4, <1>5, <1>6, <1>7 DEF Next, PortalStep, ServiceStep

(* A handler that has not asked yet has no goroutine.                      *)
AsksOnce == \A h \in Handlers : at[h] \in {"flush", "look", "ask"} => run[h] = "none"

LEMMA NextAsks == TypeOK /\ AsksOnce /\ [Next]_vars => AsksOnce'
<1> SUFFICES ASSUME TypeOK, AsksOnce, [Next]_vars,
                    NEW g \in Handlers, at'[g] \in {"flush", "look", "ask"}
             PROVE  run'[g] = "none"
    BY DEF AsksOnce
<1>1. ASSUME NEW h \in Handlers, Flush(h) \/ Look(h) \/ Ask(h) \/ AskRefused(h) \/ OperatorLoad(h)
      PROVE  run'[g] = "none"
    BY <1>1 DEF Flush, Look, Ask, AskRefused, OperatorLoad, service, goroutine, AsksOnce, TypeOK
<1>2. ASSUME NEW h \in Handlers, PollDone(h) \/ PollCut(h) \/ PollRefused(h) \/ GoOn(h)
      PROVE  run'[g] = "none"
    BY <1>2 DEF PollDone, PollCut, PollRefused, GoOn, service, goroutine, AsksOnce, TypeOK
<1>3. ASSUME NEW h \in Handlers, ServiceStep(h) PROVE run'[g] = "none"
    <2>1. at[g] = at'[g] /\ run[h] # "none"
        BY <1>3 DEF ServiceStep, Begin, Fetch, HandlerPanics, Read, PassOver, Write, Finish, history
    <2>2. run[g] = "none" /\ g # h
        BY <2>1 DEF AsksOnce
    <2>3. \E x : run' = [run EXCEPT ![h] = x]
        <3>1. CASE PassOver(h)
            <4>1. run' = [run EXCEPT ![h] = run[h]]
                BY <3>1 DEF PassOver, TypeOK
            <4> QED
                BY <4>1
        <3>2. CASE Begin(h) \/ Fetch(h) \/ HandlerPanics(h) \/ Read(h) \/ Write(h) \/ Finish(h)
            BY <3>2 DEF Begin, Fetch, HandlerPanics, Read, Write, Finish
        <3> QED
            BY <1>3, <3>1, <3>2 DEF ServiceStep
    <2> QED
        BY <2>2, <2>3 DEF TypeOK
<1>4. CASE SourceChanges \/ Crash \/ Restart \/ UNCHANGED vars
    BY <1>4 DEF SourceChanges, Crash, Restart, vars, service, goroutine, history, AsksOnce
<1> QED
    BY <1>1, <1>2, <1>3, <1>4 DEF Next, PortalStep

TypeInv == TypeOK /\ WritesARecord /\ AsksOnce

LEMMA TypeInvInductive == (Init => TypeInv) /\ (TypeInv /\ [Next]_vars => TypeInv')
<1>1. Init => WritesARecord /\ AsksOnce
    BY DEF Init, WritesARecord, AsksOnce
<1> QED
    BY <1>1, InitType, NextType, NextWrites, NextAsks DEF TypeInv

(* The variables of the portal and of the service keep their types         *)
(* (loader.go, ingestor.go, dumper.go).                                    *)
THEOREM TypeCorrect == Spec => []TypeOK
<1>1. TypeInv => TypeOK
    BY DEF TypeInv
<1> QED
    BY <1>1, TypeInvInductive, PTL DEF Spec
-----------------------------------------------------------------------------
(* The status                                                              *)

LEMMA NextStatus == TypeInv /\ StatusFollowsRuns /\ [Next]_vars => StatusFollowsRuns'
<1> SUFFICES ASSUME TypeInv, StatusFollowsRuns, [Next]_vars PROVE StatusFollowsRuns'
    OBVIOUS
<1>t. run \in [Handlers -> {"none", "spawned", "ended", "panicked"} \cup Working]
    BY DEF TypeInv, TypeOK
<1>1. ASSUME NEW h \in Handlers, Begin(h) PROVE StatusFollowsRuns'
    <2>1. loadStatus' = "started" /\ run'[h] \in Working
        BY <1>1, <1>t DEF Begin
    <2> QED
        BY <2>1 DEF StatusFollowsRuns, AtWork
<1>2. ASSUME NEW h \in Handlers, Fetch(h) \/ Read(h) \/ PassOver(h) \/ Write(h)
      PROVE  StatusFollowsRuns'
    <2>1. run'[h] \in {"read", "write"}
        BY <1>2, <1>t DEF Fetch, Read, PassOver, Write
    <2> QED
        BY <2>1 DEF StatusFollowsRuns, AtWork
<1>3. ASSUME NEW h \in Handlers, HandlerPanics(h) PROVE StatusFollowsRuns'
    <2>1. run[h] = "fetch" /\ run' = [run EXCEPT ![h] = "panicked"] /\ loadStatus' = loadStatus
        BY <1>3 DEF HandlerPanics
    <2>2. Panicked'
        BY <2>1, <1>t DEF Panicked
    <2>3. \A g \in Handlers : run[g] \in {"read", "write"} => run'[g] \in {"read", "write"}
        BY <2>1, <1>t
    <2> QED
        BY <2>1, <2>2, <2>3 DEF StatusFollowsRuns
<1>4. ASSUME NEW h \in Handlers, Finish(h) PROVE StatusFollowsRuns'
    BY <1>4 DEF Finish, FinalStatus, StatusFollowsRuns
<1>5. ASSUME NEW h \in Handlers, Ask(h) \/ OperatorLoad(h) PROVE StatusFollowsRuns'
    <2>1. loadStatus' = loadStatus /\ run' = [run EXCEPT ![h] = "spawned"]
        BY <1>5 DEF Ask, OperatorLoad
    <2>2. run[h] = "none"
        BY <1>5 DEF Ask, OperatorLoad, TypeInv, AsksOnce
    <2>3. /\ \A g \in Handlers : run[g] \in Working => run'[g] = run[g]
          /\ \A g \in Handlers : run'[g] # "spawned" => run'[g] = run[g]
          /\ Panicked => Panicked'
        BY <2>1, <2>2, <1>t DEF Panicked
    <2>4. AtWork' <=> AtWork
        BY <2>3 DEF AtWork
    <2> QED
        BY <2>1, <2>3, <2>4 DEF StatusFollowsRuns
<1>6. ASSUME UNCHANGED <<loadStatus, run>> PROVE StatusFollowsRuns'
    BY <1>6 DEF StatusFollowsRuns, AtWork, Panicked
<1>7. ASSUME NEW h \in Handlers,
             \/ Flush(h) \/ Look(h) \/ AskRefused(h) \/ PollDone(h) \/ PollCut(h)
             \/ PollRefused(h) \/ GoOn(h)
      PROVE  StatusFollowsRuns'
    BY <1>6, <1>7 DEF Flush, Look, AskRefused, PollDone, PollCut, PollRefused, GoOn, service, goroutine
<1>8. CASE SourceChanges \/ Restart \/ UNCHANGED vars
    BY <1>6, <1>8 DEF SourceChanges, Restart, vars, service, goroutine
<1>9. CASE Crash
    BY <1>9 DEF Crash, StatusFollowsRuns
<1> QED
    BY <1>1, <1>2, <1>3, <1>4, <1>5, <1>7, <1>8, <1>9 DEF Next, PortalStep, ServiceStep

(* One status for all loads is enough to tell whether any is at work, but  *)
(* for one that has panicked in a handler of the service (loadStatus of    *)
(* ingestor.go and dumper.go).                                             *)
THEOREM StatusIsRight == Spec => []StatusFollowsRuns
<1>1. Init => StatusFollowsRuns
    BY DEF Init, StatusFollowsRuns
<1> QED
    BY <1>1, TypeInvInductive, NextStatus, PTL DEF Spec
-----------------------------------------------------------------------------
(* What the ingestor loaded stays loaded                                   *)

LoadedAll == \A i \in 1..Least : db[i] # 0

(* A goroutine of the ingestor goes through a list that is long enough, of *)
(* files that are still there, and has left no gap behind it.              *)
Progress(h) ==
    /\ run[h] \in {"none", "spawned", "fetch"} => place[h] = 1
    /\ run[h] \in {"read", "write"} =>
          /\ \A i \in 1..Least : lines[h][i] # 0
          /\ \A i \in Places : lines[h][i] # 0 => local[i] # 0
    /\ run[h] = "write" => record[h] # 0
    /\ \A i \in Places : i < place[h] => db[i] # 0

LoadedInv ==
    (kind = "ingestor" /\ fails = 0) =>
        /\ \A h \in Handlers : Progress(h)
        /\ loadStatus = "done" => LoadedAll
        /\ \A h \in Handlers : at[h] # "flush"
        /\ \A h \in Handlers : at[h] = "go" => LoadedAll
        /\ \A h \in Handlers : at[h] = "on" => \A i \in 1..Least : found[h][i] # 0

LEMMA InitLoaded == Init => LoadedInv
<1> SUFFICES ASSUME Init PROVE LoadedInv
    OBVIOUS
<1> USE DEF Init
<1>1. \A h \in Handlers : Progress(h)
    <2> SUFFICES ASSUME NEW h \in Handlers PROVE Progress(h)
        OBVIOUS
    <2>1. run[h] = "none" /\ place[h] = 1
        OBVIOUS
    <2> QED
        BY <2>1 DEF Progress
<1>2. kind = "ingestor" => \A h \in Handlers : at[h] = "look"
    OBVIOUS
<1>3. loadStatus # "done"
    OBVIOUS
<1> HIDE DEF Init
<1>4. kind = "ingestor" => \A h \in Handlers : at[h] # "flush" /\ at[h] # "go" /\ at[h] # "on"
    BY <1>2
<1> QED
    BY <1>1, <1>3, <1>4 DEF LoadedInv

LEMMA Counts ==
    /\ Least \in Nat /\ Largest \in Nat /\ Least <= Largest
    /\ \A v \in Versions : v # 0 /\ Least <= Sizes[v]
<1>1. 1 \in Versions /\ \A v \in Versions : v # 0
    BY SizesAssumption DEF Versions
<1>2. Sizes[1] \in Nat
    BY SizesAssumption, <1>1 DEF Versions
<1> QED
    BY <1>1, <1>2, RangeAssumption

(* A file that was fetched once is there until the container goes.         *)
LEMMA FetchedStays ==
    ASSUME TypeOK, kind = "ingestor"
    PROVE  /\ \A i \in 1..Least : Fetched[i] # 0
           /\ \A i \in Places : local[i] # 0 => Fetched[i] # 0
<1>1. source \in Versions /\ source # 0 /\ Least <= Sizes[source]
    BY Counts DEF TypeOK
<1>2. \A i \in Places : Fetched[i] = IF i <= Sizes[source] THEN source ELSE local[i]
    BY DEF Fetched
<1>3. Sizes[source] \in Nat
    BY <1>1, SizesAssumption DEF Versions
<1>4. \A i \in 1..Least : i \in Places /\ i <= Sizes[source]
    BY <1>1, <1>3, Counts
<1> QED
    BY <1>1, <1>2, <1>4

LEMMA NextLoaded == TypeInv /\ LoadedInv /\ [Next]_vars => LoadedInv'
<1> SUFFICES ASSUME TypeInv, LoadedInv, [Next]_vars, kind' = "ingestor", fails' = 0
             PROVE  /\ \A h \in Handlers : Progress(h)'
                    /\ loadStatus' = "done" => LoadedAll'
                    /\ \A h \in Handlers : at'[h] # "flush"
                    /\ \A h \in Handlers : at'[h] = "go" => LoadedAll'
                    /\ \A h \in Handlers : at'[h] = "on" => \A i \in 1..Least : found'[h][i] # 0
    BY DEF LoadedInv
<1>k. kind = "ingestor"
    BY DEF Next, PortalStep, ServiceStep, SourceChanges, Flush, Look, OperatorLoad, Ask, AskRefused,
           PollDone, PollCut, PollRefused, GoOn, Begin, Fetch, HandlerPanics, Read, PassOver, Write, Finish, Crash,
           Restart, vars
<1>f. fails = 0 /\ ~Fails
    <2>1. fails \in Nat
        BY BoundsAssumption DEF TypeInv, TypeOK
    <2>2. ~Fails
        BY <2>1 DEF Fails
    <2> QED
        BY <2>2 DEF Next, PortalStep, ServiceStep, SourceChanges, Flush, Look, OperatorLoad, Ask,
           AskRefused, PollDone, PollCut, PollRefused, GoOn, Begin, Fetch, HandlerPanics, Read, PassOver, Write,
           Finish, Crash, Restart, vars, history
<1>t. TypeOK
    BY DEF TypeInv
<1>i. /\ \A h \in Handlers : Progress(h)
      /\ loadStatus = "done" => LoadedAll
      /\ \A h \in Handlers : at[h] # "flush"
      /\ \A h \in Handlers : at[h] = "go" => LoadedAll
      /\ \A h \in Handlers : at[h] = "on" => \A i \in 1..Least : found[h][i] # 0
    BY <1>k, <1>f DEF LoadedInv
<1>1. CASE SourceChanges \/ Restart \/ UNCHANGED vars
    <2>1. UNCHANGED <<db, loadStatus, local, run, lines, place, record, at, found>>
        BY <1>1 DEF SourceChanges, Restart, vars, service, goroutine, history
    <2> QED
        BY <2>1, <1>i DEF Progress, LoadedAll
<1>2. ASSUME NEW g \in Handlers,
             \/ Look(g) \/ AskRefused(g) \/ PollDone(g) \/ PollRefused(g)
      PROVE  LoadedInv'
    <2>1. UNCHANGED <<db, loadStatus, local, run, lines, place, record, found>>
        BY <1>2 DEF Look, AskRefused, PollDone, PollRefused, service, goroutine, history
    <2>2. \A h \in Handlers : Progress(h)'
        BY <2>1, <1>i DEF Progress
    <2>3. \A h \in Handlers : /\ at'[h] # "flush" /\ (at'[h] = "on" => at[h] = "on")
                              /\ at'[h] = "go" => at[h] = "go" \/ loadStatus = "done"
        BY <1>2, <1>t, <1>i, <1>k DEF Look, AskRefused, PollDone, PollRefused, TypeOK
    <2>4. LoadedAll => LoadedAll'
        BY <2>1 DEF LoadedAll
    <2>5. \A h \in Handlers : at'[h] = "on" => \A i \in 1..Least : found'[h][i] # 0
        <3> SUFFICES ASSUME NEW h \in Handlers, at'[h] = "on"
                     PROVE  \A i \in 1..Least : found[h][i] # 0
            BY <2>1
        <3> QED
            BY <2>3, <1>i
    <2>6. \A h \in Handlers : at'[h] = "go" => LoadedAll'
        BY <2>3, <2>4, <1>i
    <2>7. loadStatus' = "done" => LoadedAll'
        BY <2>1, <2>4, <1>i
    <2> QED
        BY <2>2, <2>3, <2>5, <2>6, <2>7 DEF LoadedInv
<1>3. ASSUME NEW g \in Handlers, GoOn(g) PROVE LoadedInv'
    <2>1. UNCHANGED <<db, loadStatus, local, run, lines, place, record>>
        BY <1>3 DEF GoOn, service, goroutine
    <2>2. \A h \in Handlers : Progress(h)'
        BY <2>1, <1>i DEF Progress
    <2>3. \A h \in Handlers : at'[h] # "flush" /\ (at'[h] = "go" => at[h] = "go")
        BY <1>3, <1>t, <1>i DEF GoOn, TypeOK
    <2>4. \A h \in Handlers : at'[h] = "on" => \A i \in 1..Least : found'[h][i] # 0
        BY <1>3, <1>t, <1>i DEF GoOn, TypeOK, LoadedAll
    <2> QED
        BY <2>1, <2>2, <2>3, <2>4, <1>i DEF LoadedInv, LoadedAll
<1>4. ASSUME NEW g \in Handlers, Ask(g) \/ OperatorLoad(g) PROVE LoadedInv'
    <2>1. UNCHANGED <<db, loadStatus, local, lines, place, record, found>>
        BY <1>4 DEF Ask, OperatorLoad, history
    <2>2. run' = [run EXCEPT ![g] = "spawned"] /\ run[g] = "none"
        BY <1>4 DEF Ask, OperatorLoad, TypeInv, AsksOnce
    <2>3. \A h \in Handlers : Progress(h)'
        BY <2>1, <2>2, <1>i, <1>t DEF Progress, TypeOK
    <2>4. \A h \in Handlers : /\ at'[h] # "flush" /\ (at'[h] = "go" => at[h] = "go")
                              /\ at'[h] = "on" => at[h] = "on"
        BY <1>4, <1>t, <1>i DEF Ask, OperatorLoad, TypeOK
    <2>5. LoadedAll => LoadedAll'
        BY <2>1 DEF LoadedAll
    <2>6. \A h \in Handlers : at'[h] = "on" => \A i \in 1..Least : found'[h][i] # 0
        <3> SUFFICES ASSUME NEW h \in Handlers, at'[h] = "on"
                     PROVE  \A i \in 1..Least : found[h][i] # 0
            BY <2>1
        <3> QED
            BY <2>4, <1>i
    <2>7. \A h \in Handlers : at'[h] = "go" => LoadedAll'
        BY <2>4, <2>5, <1>i
    <2>8. loadStatus' = "done" => LoadedAll'
        BY <2>1, <2>5, <1>i
    <2> QED
        BY <2>3, <2>4, <2>6, <2>7, <2>8 DEF LoadedInv
<1>5. ASSUME NEW g \in Handlers, Begin(g) \/ Fetch(g) \/ Read(g)
      PROVE  LoadedInv'
    <2>1. /\ UNCHANGED <<db, place, at, found>>
          /\ loadStatus' # "done" \/ loadStatus' = loadStatus
        BY <1>5, <1>k DEF Begin, Fetch, Read, history
    <2>2. ASSUME NEW h \in Handlers PROVE Progress(h)'
        <3>1. CASE Begin(g)
            BY <3>1, <1>i, <1>t DEF Begin, Progress, TypeOK
        <3>2. CASE Fetch(g)
            <4>1. /\ local' = Fetched /\ lines' = [lines EXCEPT ![g] = Fetched]
                  /\ run' = [run EXCEPT ![g] = "read"] /\ run[g] = "fetch" /\ record' = record
                BY <3>2, <1>f DEF Fetch
            <4>2. \A i \in Places : local[i] # 0 => local'[i] # 0
                BY <4>1, <1>t, <1>k, FetchedStays
            <4>3. CASE h = g
                <5>1. lines'[h] = local' /\ run'[h] = "read" /\ \A i \in 1..Least : local'[i] # 0
                    BY <4>1, <4>3, <1>t, <1>k, FetchedStays DEF TypeOK
                <5> QED
                    BY <5>1, <4>3, <2>1, <1>i DEF Progress
            <4>4. CASE h # g
                <5>1. lines'[h] = lines[h] /\ run'[h] = run[h]
                    BY <4>1, <4>4, <1>t DEF TypeOK
                <5> QED
                    BY <5>1, <4>1, <4>2, <2>1, <1>i DEF Progress
            <4> QED
                BY <4>3, <4>4
        <3>3. CASE Read(g)
            <4>1. /\ record' = [record EXCEPT ![g] = local[place[g]]]
                  /\ run' = [run EXCEPT ![g] = "write"] /\ run[g] = "read"
                  /\ local' = local /\ lines' = lines
                BY <3>3, <1>k DEF Read
            <4>2. local[place[g]] # 0
                BY <3>3, <1>i, <1>t, AtARecord DEF Read, Progress
            <4>3. CASE h = g
                <5>1. record'[h] # 0 /\ run'[h] = "write" /\ run[h] = "read"
                    BY <4>1, <4>2, <4>3, <1>t DEF TypeOK
                <5> QED
                    BY <5>1, <4>1, <2>1, <1>i DEF Progress
            <4>4. CASE h # g
                <5>1. record'[h] = record[h] /\ run'[h] = run[h]
                    BY <4>1, <4>4, <1>t DEF TypeOK
                <5> QED
                    BY <5>1, <4>1, <2>1, <1>i DEF Progress
            <4> QED
                BY <4>3, <4>4
        <3> QED
            BY <1>5, <3>1, <3>2, <3>3
    <2>3. LoadedAll => LoadedAll'
        BY <2>1 DEF LoadedAll
    <2> QED
        BY <2>1, <2>2, <2>3, <1>i DEF LoadedInv
<1>6. ASSUME NEW g \in Handlers, Write(g) PROVE LoadedInv'
    <2>1. /\ run[g] = "write" /\ run' = [run EXCEPT ![g] = "read"]
          /\ db' = [db EXCEPT ![place[g]] = record[g]]
          /\ place' = [place EXCEPT ![g] = place[g] + 1]
          /\ UNCHANGED <<local, lines, record, at, found>> /\ loadStatus' # "done"
        BY <1>6, <1>f, <1>k DEF Write, BusyStatus
    <2>2. record[g] # 0 /\ place[g] \in Places
        BY <2>1, <1>i DEF Progress, TypeInv, WritesARecord
    <2>3. /\ \A i \in Places : db[i] # 0 => db'[i] # 0
          /\ db'[place[g]] # 0
        BY <2>1, <2>2, <1>t DEF TypeOK
    <2>4. ASSUME NEW h \in Handlers PROVE Progress(h)'
        <3>1. \A i \in Places : i < place'[h] => db'[i] # 0
            <4>1. CASE h = g
                BY <4>1, <2>1, <2>2, <2>3, <1>i, <1>t, RangeAssumption DEF Progress, TypeOK
            <4>2. CASE h # g
                BY <4>2, <2>1, <2>3, <1>i, <1>t DEF Progress, TypeOK
            <4> QED
                BY <4>1, <4>2
        <3> QED
            BY <3>1, <2>1, <1>i, <1>t DEF Progress, TypeOK
    <2>5. LoadedAll => LoadedAll'
        BY <2>3, Counts DEF LoadedAll
    <2> QED
        BY <2>1, <2>4, <2>5, <1>i DEF LoadedInv
<1>7. ASSUME NEW g \in Handlers, Finish(g) PROVE LoadedInv'
    <2>1. /\ run[g] = "read" /\ run' = [run EXCEPT ![g] = "ended"] /\ AllWritten(g)
          /\ UNCHANGED <<db, local, lines, place, record, at, found>>
        BY <1>7 DEF Finish, history
    <2>2. LoadedAll
        <3> SUFFICES ASSUME NEW i \in 1..Least PROVE db[i] # 0
            BY DEF LoadedAll
        <3>1. place[g] \in 1..(Largest + 1) /\ i \in Places
            BY <1>t, Counts DEF TypeOK
        <3>2. CASE i < place[g]
            BY <3>1, <3>2, <1>i DEF Progress
        <3>3. CASE place[g] <= i
            <4>1. place[g] \in 1..Least /\ place[g] \in Places
                BY <3>1, <3>3, Counts
            <4>2. lines[g][place[g]] # 0
                BY <4>1, <2>1, <1>i DEF Progress
            <4> QED
                BY <4>1, <4>2, <2>1 DEF AllWritten
        <3> QED
            BY <3>1, <3>2, <3>3, Counts
    <2>3. \A h \in Handlers : Progress(h)'
        BY <2>1, <1>i, <1>t DEF Progress, TypeOK
    <2> QED
        BY <2>1, <2>2, <2>3, <1>i DEF LoadedInv, LoadedAll
<1>8. CASE Crash
    <2>1. /\ UNCHANGED <<db, at, found>> /\ loadStatus' # "done"
          /\ \A h \in Handlers : run'[h] = "none" /\ place'[h] = 1
        BY <1>8 DEF Crash
    <2>2. \A h \in Handlers : Progress(h)'
        BY <2>1 DEF Progress
    <2> QED
        BY <2>1, <2>2, <1>i DEF LoadedAll
<1>9. ASSUME NEW g \in Handlers, Flush(g) \/ PollCut(g) \/ PassOver(g) \/ HandlerPanics(g)
      PROVE  FALSE
    BY <1>9, <1>i, <1>f DEF Flush, PollCut, PassOver, HandlerPanics
<1>10. LoadedInv' \/ SourceChanges \/ Restart \/ UNCHANGED vars \/ Crash
    BY <1>2, <1>3, <1>4, <1>5, <1>6, <1>7, <1>9 DEF Next, PortalStep, ServiceStep
<1> QED
    BY <1>1, <1>8, <1>10 DEF LoadedInv

(* Overlapping loads and crashes take nothing from a handler that goes on  *)
(* with the ingestor's data (loadHistoricalData of loader.go and           *)
(* ingestor.go).                                                           *)
THEOREM LoadedStaysLoaded == Spec => []SomeLoadIsComplete
<1>1. LoadedInv => SomeLoadIsComplete
    BY DEF LoadedInv, SomeLoadIsComplete
<1> QED
    BY <1>1, TypeInvInductive, InitLoaded, NextLoaded, PTL DEF Spec
-----------------------------------------------------------------------------
(* A lone load is complete                                                 *)

(* Orders come to the source and stay.                                     *)
SourceGrows == \A v, w \in Versions : v <= w => Sizes[v] <= Sizes[w]

(* Only the portal's own start flushes the database.                       *)
FlushesAtBoot == \A g \in Handlers : at[g] = "flush" => kind = "dumper" /\ g \in Boot

Undisturbed(h) == restarts = 0 /\ fails = 0 /\ Alone(h)

(* Every record the handler asked for, or a later one.                     *)
HasAskedFor(h, records) == \A i \in 1..Sizes[asked[h]] : records[i] >= asked[h]

(* How far the load of a handler is: what it reads from is complete, and   *)
(* so is the database up to the place it is at.                            *)
Written(h) == \A i \in 1..Sizes[asked[h]] : i < place[h] => db[i] >= asked[h]

AskedFor(h) ==
    /\ run[h] # "none"
    /\ asked[h] \in 1..source
    /\ run[h] \in {"read", "write"} =>
          /\ HasAskedFor(h, lines[h])
          /\ kind = "ingestor" => HasAskedFor(h, local)
          /\ Written(h)
    /\ run[h] = "write" /\ place[h] <= Sizes[asked[h]] => record[h] >= asked[h]
    /\ run[h] = "ended" => HasAskedFor(h, db)

(* The status is the handler's own: nobody else has set it.                *)
OwnStatus(h) ==
    /\ run[h] \in {"none", "spawned"} => loadStatus = "pending"
    /\ run[h] \in Working => loadStatus # "done"
    /\ run[h] \in {"none", "spawned", "fetch"} => place[h] = 1
    /\ run[h] # "panicked"

LoneProgress(h) ==
    /\ up
    /\ OwnStatus(h)
    /\ at[h] \in {"poll", "go", "on"} => AskedFor(h)
    /\ at[h] \in {"go", "on"} => run[h] = "ended"
    /\ at[h] = "on" => HasAskedFor(h, found[h])

LoneInv == FlushesAtBoot /\ \A h \in Handlers : Undisturbed(h) => LoneProgress(h)

LEMMA NextFlushes == TypeOK /\ FlushesAtBoot /\ [Next]_vars => FlushesAtBoot'
<1> SUFFICES ASSUME TypeOK, FlushesAtBoot, [Next]_vars, NEW g \in Handlers, at'[g] = "flush"
             PROVE  kind' = "dumper" /\ g \in Boot
    BY DEF FlushesAtBoot
<1>1. UNCHANGED kind
    BY DEF Next, SourceChanges, PortalStep, Flush, Look, Ask, AskRefused, PollDone, PollRefused,
           GoOn, ServiceStep, Begin, Fetch, HandlerPanics, Read, PassOver, Write, Finish, OperatorLoad,
           PollCut, Crash, Restart, vars
<1>2. at[g] = "flush"
    <2>1. ASSUME NEW h \in Handlers, PortalStep(h) \/ OperatorLoad(h) \/ PollCut(h)
          PROVE  at[g] = "flush"
        BY <2>1 DEF PortalStep, Flush, Look, Ask, AskRefused, PollDone, PollRefused,
                    GoOn, OperatorLoad, PollCut, TypeOK
    <2>2. ASSUME NEW h \in Handlers, ServiceStep(h) PROVE at' = at
        BY <2>2 DEF ServiceStep, Begin, Fetch, HandlerPanics, Read, PassOver, Write, Finish
    <2>3. SourceChanges \/ Crash \/ Restart \/ UNCHANGED vars => at' = at
        BY DEF SourceChanges, Crash, Restart, vars
    <2> QED
        BY <2>1, <2>2, <2>3 DEF Next
<1> QED
    BY <1>1, <1>2 DEF FlushesAtBoot

(* A disturbance is for good.                                              *)
LEMMA StaysUndisturbed ==
    ASSUME TypeOK, FlushesAtBoot, [Next]_vars, NEW h \in Handlers, Undisturbed(h)'
    PROVE  Undisturbed(h)
<1>1. restarts \in Nat /\ fails \in Nat
    BY BoundsAssumption DEF TypeOK
<1>2. restarts' \in {restarts, restarts + 1} /\ fails' \in {fails, fails + 1}
    BY DEF Next, SourceChanges, PortalStep, Flush, Look, Ask, AskRefused, PollDone, PollRefused,
           GoOn, ServiceStep, Begin, Fetch, HandlerPanics, Read, PassOver, Write, Finish, OperatorLoad,
           PollCut, Crash, Restart, Fails, vars, history
<1>3. restarts = 0 /\ fails = 0
    BY <1>1, <1>2 DEF Undisturbed
<1>4. UNCHANGED kind
    BY DEF Next, SourceChanges, PortalStep, Flush, Look, Ask, AskRefused, PollDone, PollRefused,
           GoOn, ServiceStep, Begin, Fetch, HandlerPanics, Read, PassOver, Write, Finish, OperatorLoad,
           PollCut, Crash, Restart, vars
<1>5. ASSUME NEW g \in Handlers \ {h} PROVE at[g] \in {"look", "ask"}
    <2>1. at'[g] \in {"look", "ask"} /\ (kind = "ingestor" \/ g \notin Boot)
        BY <1>4 DEF Undisturbed, Alone
    <2>2. at[g] \in {"flush", "look", "ask"}
        <3>1. ASSUME NEW q \in Handlers, PortalStep(q) \/ OperatorLoad(q) \/ PollCut(q)
              PROVE  at[g] \in {"flush", "look", "ask"}
            BY <2>1, <3>1 DEF PortalStep, Flush, Look, Ask, AskRefused, PollDone, PollRefused,
                        GoOn, OperatorLoad, PollCut, TypeOK
        <3>2. ASSUME NEW q \in Handlers, ServiceStep(q) PROVE at' = at
            BY <3>2 DEF ServiceStep, Begin, Fetch, HandlerPanics, Read, PassOver, Write, Finish
        <3>3. SourceChanges \/ Crash \/ Restart \/ UNCHANGED vars => at' = at
            BY DEF SourceChanges, Crash, Restart, vars
        <3> QED
            BY <2>1, <3>1, <3>2, <3>3 DEF Next
    <2>3. at[g] # "flush"
        BY <2>1 DEF FlushesAtBoot
    <2> QED
        BY <2>2, <2>3
<1> QED
    BY <1>3, <1>4, <1>5 DEF Undisturbed, Alone

(* What a step of somebody else may do to the progress of a handler.       *)
LEMMA ProgressKept ==
    ASSUME TypeOK, NEW h \in Handlers, LoneProgress(h), source' \in {source, source + 1},
           UNCHANGED <<kind, db, up, loadStatus, local, goroutine, asked, found>>,
           at'[h] = at[h]
    PROVE  LoneProgress(h)'
<1>1. AskedFor(h) => AskedFor(h)'
    BY DEF AskedFor, HasAskedFor, Written, goroutine, TypeOK, Versions
<1>2. OwnStatus(h)'
    BY DEF LoneProgress, OwnStatus, goroutine
<1> QED
    BY <1>1, <1>2 DEF LoneProgress, HasAskedFor, goroutine

LEMMA LoneNext ==
    ASSUME SourceGrows, TypeInv, TypeInv', LoneInv, [Next]_vars
    PROVE  LoneInv'
<1> SUFFICES ASSUME NEW h \in Handlers, Undisturbed(h)' PROVE LoneProgress(h)'
    BY NextFlushes DEF LoneInv, TypeInv
<1>1. TypeOK /\ TypeOK' /\ AsksOnce /\ FlushesAtBoot
    BY DEF TypeInv, LoneInv
<1>2. Undisturbed(h) /\ LoneProgress(h)
    BY <1>1, StaysUndisturbed DEF LoneInv
<1>3. \A g \in Handlers : g # h => at[g] \in {"look", "ask"} /\ at'[g] \in {"look", "ask"}
                                   /\ run[g] = "none"
    BY <1>1, <1>2 DEF Undisturbed, Alone, AsksOnce
<1>4. up /\ fails = 0 /\ ~Fails /\ restarts' = 0 /\ restarts = 0
    BY <1>2 DEF Undisturbed, LoneProgress, Fails
<1>5. /\ kind \in {"ingestor", "dumper"} /\ source \in Versions
      /\ db \in Records /\ local \in Records
      /\ run \in [Handlers -> {"none", "spawned", "ended", "panicked"} \cup Working]
      /\ lines \in [Handlers -> Records]
      /\ place \in [Handlers -> 1..(Largest + 1)]
      /\ record \in [Handlers -> {0} \cup Versions]
      /\ at \in [Handlers -> {"flush", "look", "ask", "poll", "go", "on", "dead", "own"}]
      /\ asked \in [Handlers -> {0} \cup Versions]
      /\ found \in [Handlers -> Records]
    BY <1>1 DEF TypeOK
<1>6. \A v \in Versions : /\ v \in Nat /\ v >= 1
                          /\ Sizes[v] \in Nat
                          /\ \A i \in 1..Sizes[v] : i \in Places
    BY SizesAssumption, RangeAssumption DEF Versions
<1>7. CASE SourceChanges
    BY <1>1, <1>2, <1>7, ProgressKept DEF SourceChanges, service, history
<1>8. ASSUME NEW g \in Handlers, g # h,
             PortalStep(g) \/ ServiceStep(g) \/ OperatorLoad(g) \/ PollCut(g)
      PROVE  LoneProgress(h)'
    <2>1. ~ServiceStep(g)
        BY <1>3, <1>8 DEF ServiceStep, Begin, Fetch, HandlerPanics, Read, PassOver, Write, Finish
    <2>2. ~OperatorLoad(g) /\ ~PollCut(g)
        BY <1>3, <1>4, <1>5, <1>8 DEF OperatorLoad, PollCut
    <2>3. Look(g)
        BY <1>3, <1>4, <1>5, <1>8, <2>1, <2>2
        DEF PortalStep, Flush, Ask, AskRefused, PollDone, PollRefused, GoOn
    <2>4. at'[h] = at[h]
        BY <1>5, <1>8, <2>3 DEF Look
    <2> QED
        BY <1>1, <1>2, <2>3, <2>4, ProgressKept DEF Look, service, history
<1>9. ASSUME PortalStep(h) \/ OperatorLoad(h) \/ PollCut(h) PROVE LoneProgress(h)'
    <2>1. at[h] \in {"flush", "look", "ask"} => run[h] = "none"
        BY <1>1 DEF AsksOnce
    <2>2. ASSUME Flush(h) \/ Look(h) PROVE LoneProgress(h)'
        <3>1. at'[h] \notin {"poll", "go", "on"} /\ UNCHANGED service
            BY <1>5, <2>2 DEF Flush, Look
        <3> QED
            BY <1>2, <3>1 DEF LoneProgress, OwnStatus, service, goroutine
    <2>3. ASSUME OperatorLoad(h) PROVE LoneProgress(h)'
        <3>1. at'[h] = "own" /\ run[h] = "none" /\ run'[h] = "spawned"
              /\ UNCHANGED <<up, loadStatus, place>>
            BY <1>5, <2>1, <2>3 DEF OperatorLoad
        <3> QED
            BY <1>2, <3>1 DEF LoneProgress, OwnStatus
    <2>4. ASSUME Ask(h) PROVE LoneProgress(h)'
        <3>1. /\ at'[h] = "poll" /\ run[h] = "none" /\ run'[h] = "spawned"
              /\ asked'[h] = source /\ UNCHANGED <<up, loadStatus, place, source>>
            BY <1>5, <2>1, <2>4 DEF Ask
        <3>2. asked'[h] \in 1..source'
            BY <1>5, <1>6, <3>1
        <3> QED
            BY <1>2, <3>1, <3>2 DEF LoneProgress, OwnStatus, AskedFor
    <2>5. ASSUME PollDone(h) PROVE LoneProgress(h)'
        <3>1. /\ at[h] = "poll" /\ at'[h] = "go" /\ loadStatus = "done"
              /\ UNCHANGED <<kind, source, db, service, asked, found>>
            BY <1>5, <2>5 DEF PollDone, history
        <3>2. run[h] = "ended"
            BY <1>2, <1>5, <3>1 DEF LoneProgress, OwnStatus, AskedFor
        <3>3. OwnStatus(h)' /\ AskedFor(h)'
            BY <1>2, <3>1
            DEF LoneProgress, OwnStatus, AskedFor, HasAskedFor, Written, service, goroutine
        <3> QED
            BY <1>2, <3>1, <3>2, <3>3 DEF LoneProgress, service, goroutine
    <2>6. ASSUME GoOn(h) PROVE LoneProgress(h)'
        <3>1. /\ at[h] = "go" /\ at'[h] = "on" /\ found'[h] = db
              /\ UNCHANGED <<kind, source, db, service, asked>>
            BY <1>5, <2>6 DEF GoOn
        <3>2. run[h] = "ended" /\ HasAskedFor(h, db)
            BY <1>2, <3>1 DEF LoneProgress, AskedFor
        <3>3. OwnStatus(h)' /\ AskedFor(h)'
            BY <1>2, <3>1
            DEF LoneProgress, OwnStatus, AskedFor, HasAskedFor, Written, service, goroutine
        <3>4. HasAskedFor(h, found[h])'
            BY <3>1, <3>2 DEF HasAskedFor
        <3> QED
            BY <1>2, <3>1, <3>2, <3>3, <3>4 DEF LoneProgress, service, goroutine
    <2> QED
        BY <1>4, <1>9, <2>2, <2>3, <2>4, <2>5, <2>6
        DEF PortalStep, AskRefused, PollRefused, PollCut
<1>10. ASSUME ServiceStep(h) PROVE LoneProgress(h)'
    <2>1. run[h] \notin {"none", "ended"} /\ UNCHANGED <<kind, source, up, at, asked, found>>
        BY <1>10 DEF ServiceStep, Begin, Fetch, HandlerPanics, Read, PassOver, Write, Finish, history
    <2>2. at[h] \notin {"go", "on"} /\ up'
        BY <1>2, <2>1 DEF LoneProgress
    <2> SUFFICES /\ OwnStatus(h)'
                 /\ at[h] = "poll" => AskedFor(h)'
        BY <2>1, <2>2 DEF LoneProgress
    <2>3. OwnStatus(h) /\ (at[h] = "poll" => AskedFor(h))
        BY <1>2 DEF LoneProgress
    <2>4. ASSUME Begin(h) PROVE OwnStatus(h)' /\ (at[h] = "poll" => AskedFor(h)')
        <3>1. /\ run[h] = "spawned" /\ run'[h] = "fetch" /\ loadStatus' = "started"
              /\ UNCHANGED <<place, source, asked>>
            BY <1>5, <2>4 DEF Begin, history
        <3> QED
            BY <2>3, <3>1 DEF OwnStatus, AskedFor
    <2>5. ASSUME Fetch(h) PROVE OwnStatus(h)' /\ (at[h] = "poll" => AskedFor(h)')
        <3>1. /\ run[h] = "fetch" /\ run'[h] = "read"
              /\ local' = Fetched /\ lines'[h] = Fetched
              /\ loadStatus' \in {loadStatus, "working"}
              /\ UNCHANGED <<place, db>>
            BY <1>4, <1>5, <2>5 DEF Fetch, BusyStatus
        <3>2. OwnStatus(h)'
            BY <2>3, <3>1 DEF OwnStatus
        <3>3. ASSUME at[h] = "poll" PROVE AskedFor(h)'
            <4>1. asked[h] \in 1..source /\ place[h] = 1 /\ asked[h] \in Versions
                BY <1>5, <1>6, <2>3, <3>1, <3>3 DEF OwnStatus, AskedFor, Versions
            <4>2. Sizes[asked[h]] <= Sizes[source]
                BY <1>5, <4>1 DEF SourceGrows
            <4>3. \A i \in 1..Sizes[asked[h]] : Fetched[i] >= asked[h]
                <5> SUFFICES ASSUME NEW i \in 1..Sizes[asked[h]] PROVE Fetched[i] >= asked[h]
                    OBVIOUS
                <5>1. i \in Places /\ i <= Sizes[source]
                    BY <1>5, <1>6, <4>1, <4>2
                <5>2. Fetched[i] = source
                    BY <5>1 DEF Fetched
                <5> QED
                    BY <1>5, <1>6, <4>1, <5>2
            <4>4. HasAskedFor(h, lines[h])' /\ HasAskedFor(h, local)'
                BY <2>1, <3>1, <4>3 DEF HasAskedFor
            <4>5. Written(h)'
                BY <2>1, <3>1, <4>1 DEF Written
            <4> QED
                BY <2>1, <3>1, <4>1, <4>4, <4>5 DEF AskedFor
        <3> QED
            BY <3>2, <3>3
    <2>6. ASSUME Read(h) PROVE OwnStatus(h)' /\ (at[h] = "poll" => AskedFor(h)')
        <3>1. /\ run[h] = "read" /\ run'[h] = "write"
              /\ record'[h] = IF kind = "ingestor" THEN local[place[h]] ELSE lines[h][place[h]]
              /\ UNCHANGED <<loadStatus, local, lines, place, db, asked>>
            BY <1>5, <2>6 DEF Read, history
        <3>2. OwnStatus(h)'
            BY <2>3, <3>1 DEF OwnStatus
        <3>3. ASSUME at[h] = "poll" PROVE AskedFor(h)'
            <4>1. AskedFor(h)
                BY <2>3, <3>3
            <4>2. place[h] <= Sizes[asked[h]] => record'[h] >= asked[h]
                BY <1>5, <3>1, <4>1 DEF AskedFor, HasAskedFor
            <4>3. HasAskedFor(h, lines[h])' /\ (kind' = "ingestor" => HasAskedFor(h, local)')
                  /\ Written(h)'
                BY <2>1, <3>1, <4>1 DEF AskedFor, HasAskedFor, Written
            <4> QED
                BY <2>1, <3>1, <4>1, <4>2, <4>3 DEF AskedFor
        <3> QED
            BY <3>2, <3>3
    <2>7. ASSUME Write(h) PROVE OwnStatus(h)' /\ (at[h] = "poll" => AskedFor(h)')
        <3>1. /\ run[h] = "write" /\ run'[h] = "read"
              /\ db' = [db EXCEPT ![place[h]] = record[h]]
              /\ loadStatus' \in {loadStatus, "working"}
              /\ place'[h] = place[h] + 1
              /\ UNCHANGED <<local, lines>>
            BY <1>4, <1>5, <2>7 DEF Write, BusyStatus
        <3>2. OwnStatus(h)'
            BY <2>3, <3>1 DEF OwnStatus
        <3>3. ASSUME at[h] = "poll" PROVE AskedFor(h)'
            <4>1. AskedFor(h)
                BY <2>3, <3>3
            <4>2. asked[h] \in Versions
                BY <1>5, <1>6, <4>1 DEF AskedFor, Versions
            <4>3. ASSUME NEW i \in 1..Sizes[asked[h]], i < place'[h] PROVE db'[i] >= asked[h]
                <5>1. i \in Places /\ place[h] \in Nat
                    BY <1>5, <1>6, <4>2, RangeAssumption
                <5>2. CASE i = place[h]
                    <6>1. record[h] >= asked[h] /\ db'[i] = record[h]
                        BY <1>5, <3>1, <4>1, <5>1, <5>2 DEF AskedFor
                    <6> QED
                        BY <6>1
                <5>3. CASE i # place[h]
                    <6>1. i < place[h]
                        BY <3>1, <4>3, <5>1, <5>3
                    <6>2. db'[i] = db[i]
                        BY <1>5, <3>1, <5>1, <5>3
                    <6> QED
                        BY <3>1, <4>1, <6>1, <6>2 DEF AskedFor, Written
                <5> QED
                    BY <5>2, <5>3
            <4>4. Written(h)'
                BY <2>1, <4>3 DEF Written
            <4>5. HasAskedFor(h, lines[h])' /\ (kind' = "ingestor" => HasAskedFor(h, local)')
                BY <2>1, <3>1, <4>1 DEF AskedFor, HasAskedFor
            <4> QED
                BY <2>1, <3>1, <4>1, <4>4, <4>5 DEF AskedFor
        <3> QED
            BY <3>2, <3>3
    <2>8. ASSUME Finish(h) PROVE OwnStatus(h)' /\ (at[h] = "poll" => AskedFor(h)')
        <3>1. /\ run[h] = "read" /\ run'[h] = "ended" /\ AllWritten(h)
              /\ UNCHANGED <<place, db>>
            BY <1>5, <2>8 DEF Finish
        <3>2. OwnStatus(h)'
            BY <3>1 DEF OwnStatus
        <3>3. ASSUME at[h] = "poll" PROVE AskedFor(h)'
            <4>1. AskedFor(h)
                BY <2>3, <3>3
            <4>2. asked[h] \in Versions /\ asked[h] >= 1
                BY <1>5, <1>6, <4>1 DEF AskedFor, Versions
            <4>3. \A i \in 1..Sizes[asked[h]] : i \in Places /\ lines[h][i] >= asked[h]
                BY <1>6, <3>1, <4>1, <4>2 DEF AskedFor, HasAskedFor
            <4>4. place[h] \notin 1..Sizes[asked[h]]
                <5> SUFFICES ASSUME place[h] \in 1..Sizes[asked[h]] PROVE FALSE
                    OBVIOUS
                <5>1. place[h] \in Places /\ lines[h][place[h]] >= asked[h]
                    BY <4>3
                <5>2. lines[h][place[h]] # 0
                    <6>1. asked[h] \in Nat
                        BY <1>6, <4>2
                    <6> QED
                        BY <4>2, <5>1, <6>1
                <5> QED
                    BY <3>1, <5>1, <5>2 DEF AllWritten
            <4>5. \A i \in 1..Sizes[asked[h]] : i < place[h]
                BY <1>5, <1>6, <4>2, <4>4, RangeAssumption
            <4>6. HasAskedFor(h, db)'
                BY <2>1, <3>1, <4>1, <4>5 DEF AskedFor, Written, HasAskedFor
            <4> QED
                BY <2>1, <3>1, <4>1, <4>6 DEF AskedFor
        <3> QED
            BY <3>2, <3>3
    <2> QED
        BY <1>4, <1>10, <2>4, <2>5, <2>6, <2>7, <2>8 DEF ServiceStep, HandlerPanics, PassOver
<1>11. CASE UNCHANGED vars
    BY <1>1, <1>2, <1>11, ProgressKept DEF vars, service, history
<1>12. ~Crash /\ ~Restart
    BY <1>4 DEF Crash, Restart
<1> QED
    BY <1>7, <1>8, <1>9, <1>10, <1>11, <1>12 DEF Next

(* If the source only grows, a handler alone with the service gets every   *)
(* record the source had when it asked, or later ones, for any number of   *)
(* handlers, versions and records.  (loadHistoricalData of the portal and  *)
(* of both services)                                                       *)
THEOREM LoneLoad == SourceGrows => (Spec => []LoneLoadIsComplete)
<1> SUFFICES ASSUME SourceGrows PROVE Spec => []LoneLoadIsComplete
    OBVIOUS
<1> DEFINE Inv == TypeInv /\ LoneInv
<1>1. Init => Inv
    <2>1. Init => TypeInv
        BY TypeInvInductive
    <2>2. ASSUME Init PROVE LoneInv
        <3>1. \A h \in Handlers : /\ at[h] \in {"flush", "look", "ask"}
                                  /\ run[h] = "none" /\ place[h] = 1
                                  /\ at[h] = "flush" => kind = "dumper" /\ h \in Boot
            BY <2>2 DEF Init
        <3>2. up /\ loadStatus = "pending"
            BY <2>2 DEF Init
        <3> QED
            BY <3>1, <3>2 DEF LoneInv, FlushesAtBoot, LoneProgress, OwnStatus
    <2> QED
        BY <2>1, <2>2
<1>2. Inv /\ [Next]_vars => Inv'
    BY TypeInvInductive, LoneNext
<1>3. Inv => LoneLoadIsComplete
    <2> SUFFICES ASSUME Inv, NEW h \in Handlers, at[h] = "on", restarts + fails = 0, Alone(h)
                 PROVE  \A i \in 1..Sizes[asked[h]] : found[h][i] >= asked[h]
        BY DEF LoneLoadIsComplete
    <2>1. restarts = 0 /\ fails = 0
        BY BoundsAssumption DEF TypeInv, TypeOK
    <2>2. LoneProgress(h)
        BY <2>1 DEF LoneInv, Undisturbed
    <2> QED
        BY <2>2 DEF LoneProgress, HasAskedFor
<1> HIDE DEF Inv
<1>4. Spec => []Inv
    BY <1>1, <1>2, PTL DEF Spec
<1> QED
    BY <1>3, <1>4, PTL

=============================================================================
