-------------------------- MODULE CredentialsProofs --------------------------
(***************************************************************************)
(* The table of credentials, for any takers, loaders, lists of files and   *)
(* bounds: it is well formed, its named keys are the first ones, a user    *)
(* has one key, what a taker holds is marked, a load leaves its list, and  *)
(* takers that come one after another are served.                          *)
(***************************************************************************)
EXTENDS Credentials, FiniteSetTheorems, SequenceTheorems, TLAPS

Named(table, k) == table[k].user # nobody

(* A taker that looks at keys looks at one of the table, and one that      *)
(* counted them at one of those it counted.                                *)
TakerInv ==
    \A t \in Takers :
        /\ at[t] = "down" => next[t] = 0
        /\ at[t] = "scan" => next[t] \in Keys
        /\ at[t] = "scan" /\ t \in Pods \cup Lookups => next[t] < count[t]

(* A loader has at most one key for each file it has dealt with, and sets  *)
(* marks only if it has one to set ...                                     *)
LoaderInv ==
    \A l \in Loaders :
        /\ loading[l] \in {"write", "look"} => msgIndex[l] <= file[l]
        /\ loading[l] = "no" => msgIndex[l] = 0 /\ file[l] = 0
        /\ loading[l] = "mark" => FinalMark[l] # "none"
        /\ file[l] <= Len(List[l])

(* ... and every key below its next one has a name.                        *)
KeysBelowNamed == \A l \in Loaders : \A k \in Keys : k < msgIndex[l] => Named(master, k)

TableInv ==
    /\ TypeOK
    /\ TakerInv
    /\ LoaderInv
    /\ KeysBelowNamed
    /\ NamedKeysComeFirst
-----------------------------------------------------------------------------
LEMMA ListFacts ==
    ASSUME NEW l \in Loaders
    PROVE  /\ List[l] \in Seq(Users) /\ Len(List[l]) \in Nat
           /\ Len(List[l]) <= Size /\ Size \in Nat /\ 0 \in Keys
           /\ \A i \in 1..Len(List[l]) : List[l][i] \in Users
  BY ListAssumption, NumbersAssumption DEF Keys

LEMMA NobodyIsNoUser == \A u \in Users \cup {blank} : u # nobody /\ u \in Names
  BY NobodyAssumption DEF Names

(* KEYS * never returns more keys than the table has.                      *)
LEMMA KeysSeenType == KeysSeen \in 0..Size
<1> DEFINE T == {k \in Keys : replica[k] # Absent}
<1>1. Size \in Nat /\ Size # 0
  BY NumbersAssumption
<1>2. IsFiniteSet(Keys) /\ Cardinality(Keys) = Size
  <2>1. 0 \in Int /\ Size - 1 \in Int
    BY <1>1
  <2>2. IsFiniteSet(0..(Size - 1))
        /\ Cardinality(0..(Size - 1)) = IF 0 > Size - 1 THEN 0 ELSE (Size - 1) - 0 + 1
    BY <2>1, FS_Interval
  <2>3. QED
    BY <1>1, <2>2 DEF Keys
<1>3. T \in SUBSET Keys
  OBVIOUS
<1>4. IsFiniteSet(T) /\ Cardinality(T) <= Cardinality(Keys)
  BY <1>2, <1>3, FS_Subset
<1>5. Cardinality(T) \in Nat
  BY <1>4, FS_CardinalityType
<1> HIDE DEF T
<1>6. Cardinality(T) \in 0..Size
  BY <1>1, <1>2, <1>4, <1>5
<1>7. QED
  BY <1>6 DEF KeysSeen, T

(* A write leaves the table well formed, and takes no name away.           *)
LEMMA WrittenType ==
    ASSUME NEW table \in [Keys -> Entry], NEW w \in Writes
    PROVE  /\ Written(table, w) \in [Keys -> Entry]
           /\ \A k \in Keys :
                Named(Written(table, w), k) <=> Named(table, k) \/ (k = w.key /\ w.name # nobody)
<1>1. w.key \in Keys /\ w.name \in Names /\ w.mark \in {"no", "yes"}
  BY DEF Writes
<1>2. \A k \in Keys : table[k].user \in Names /\ table[k].used \in {"none", "no", "yes"}
  BY DEF Entry
<1>3. \A k \in Keys :
         Written(table, w)[k] =
           IF k = w.key
           THEN [user |-> IF w.name = nobody THEN table[k].user ELSE w.name, used |-> w.mark]
           ELSE table[k]
  BY <1>1 DEF Written
<1>4. ASSUME NEW k \in Keys PROVE Written(table, w)[k] \in Entry
  <2>1. CASE k # w.key
    BY <1>3, <2>1
  <2>2. CASE k = w.key /\ w.name = nobody
    <3>1. Written(table, w)[k] = [user |-> table[k].user, used |-> w.mark]
      BY <1>3, <2>2
    <3>2. QED
      BY <1>1, <1>2, <3>1 DEF Entry
  <2>3. CASE k = w.key /\ w.name # nobody
    BY <1>1, <1>2, <1>3, <2>3 DEF Entry
  <2>4. QED
    BY <2>1, <2>2, <2>3
<1>5. Written(table, w) = [k \in Keys |-> Written(table, w)[k]]
  BY DEF Written
<1>6. Written(table, w) \in [Keys -> Entry]
  BY <1>4, <1>5
<1>7. ASSUME NEW k \in Keys
      PROVE  Named(Written(table, w), k) <=> Named(table, k) \/ (k = w.key /\ w.name # nobody)
  <2>1. CASE k # w.key
    BY <1>3, <2>1 DEF Named
  <2>2. CASE k = w.key /\ w.name = nobody
    <3>1. Written(table, w)[k] = [user |-> table[k].user, used |-> w.mark]
      BY <1>3, <2>2
    <3>2. Written(table, w)[k].user = table[k].user
      BY <3>1
    <3>3. QED
      BY <2>2, <3>2 DEF Named
  <2>3. CASE k = w.key /\ w.name # nobody
    BY <1>3, <2>3 DEF Named
  <2>4. QED
    BY <2>1, <2>2, <2>3
<1>8. QED
  BY <1>6, <1>7

(* What the writers do to the tables.                                      *)
LEMMA WriteFacts ==
    ASSUME TypeOK, NEW k \in Keys, NEW name \in Names, NEW mark \in {"no", "yes"},
           Write(k, name, mark)
    PROVE  /\ master' \in [Keys -> Entry] /\ replica' \in [Keys -> Entry]
           /\ stream' \in Seq(Writes)
           /\ \A j \in Keys : Named(master', j) <=> Named(master, j) \/ (j = k /\ name # nobody)
<1> DEFINE w == [key |-> k, name |-> name, mark |-> mark]
<1>1. w \in Writes /\ w.key = k /\ w.name = name
  BY DEF Writes
<1>2. master' = Written(master, w) /\ stream' = Append(stream, w) /\ replica' = replica
  BY DEF Write
<1> HIDE DEF w
<1>3. master' \in [Keys -> Entry]
      /\ \A j \in Keys : Named(master', j) <=> Named(master, j) \/ (j = k /\ name # nobody)
  BY <1>1, <1>2, WrittenType DEF TypeOK, Named
<1>4. stream' \in Seq(Writes)
  BY <1>1, <1>2, AppendProperties DEF TypeOK
<1>5. QED
  BY <1>2, <1>3, <1>4 DEF TypeOK

(* A step that keeps the names and the loaders' keys keeps the order.      *)
LEMMA OrderKept ==
    ASSUME KeysBelowNamed, NamedKeysComeFirst, UNCHANGED msgIndex,
           \A k \in Keys : Named(master', k) <=> Named(master, k)
    PROVE  KeysBelowNamed' /\ NamedKeysComeFirst'
  BY DEF KeysBelowNamed, NamedKeysComeFirst, Named
-----------------------------------------------------------------------------
LEMMA InitHolds == Init => TableInv
<1> SUFFICES ASSUME Init PROVE TableInv
  OBVIOUS
<1>1. Absent \in Entry /\ Absent.user = nobody
  BY DEF Absent, Entry, Names
<1>2. master \in [Keys -> Entry] /\ NamedKeysComeFirst
  <2>1. CASE master = [k \in Keys |-> Absent]
    BY <1>1, <2>1 DEF NamedKeysComeFirst
  <2>2. ASSUME NEW l \in Loaders, master = LeftBy(l)
        PROVE  master \in [Keys -> Entry] /\ NamedKeysComeFirst
    <3> DEFINE mark == IF FinalMark[l] = "none" THEN "no" ELSE FinalMark[l]
    <3>1. mark \in {"none", "no", "yes"}
      BY FinalMarkAssumption
    <3> HIDE DEF mark
    <3>2. \A k \in Keys : k \in Nat
      BY NumbersAssumption DEF Keys
    <3>3. \A k \in Keys :
             master[k] = IF k < Len(List[l]) THEN [user |-> List[l][k + 1], used |-> mark] ELSE Absent
      BY <2>2 DEF LeftBy, mark
    <3>4. ASSUME NEW k \in Keys, k < Len(List[l])
          PROVE  master[k] \in Entry /\ master[k].user # nobody
      <4>1. k + 1 \in 1..Len(List[l])
        BY <3>2, <3>4, ListFacts
      <4>2. List[l][k + 1] \in Users
        BY <4>1, ListFacts
      <4>3. master[k] = [user |-> List[l][k + 1], used |-> mark]
        BY <3>3, <3>4
      <4>4. QED
        BY <3>1, <4>2, <4>3, NobodyIsNoUser DEF Entry
    <3>5. \A k \in Keys : ~(k < Len(List[l])) => master[k] = Absent
      BY <3>3
    <3>6. master \in [Keys -> Entry]
      <4>1. \A k \in Keys : master[k] \in Entry
        BY <1>1, <3>4, <3>5
      <4>2. master = [k \in Keys |-> master[k]]
        BY <2>2 DEF LeftBy
      <4>3. QED
        BY <4>1, <4>2
    <3>7. NamedKeysComeFirst
      <4> SUFFICES ASSUME NEW j \in Keys, NEW k \in Keys, j < k, master[k].user # nobody
                   PROVE  master[j].user # nobody
        BY DEF NamedKeysComeFirst
      <4>1. k < Len(List[l])
        BY <1>1, <3>5
      <4>2. j < Len(List[l])
        BY <3>2, <4>1, ListFacts
      <4>3. QED
        BY <3>4, <4>2
    <3>8. QED
      BY <3>6, <3>7
  <2>3. QED
    BY <2>1, <2>2 DEF Init
<1>3. Size \in Nat /\ 0 \in Keys /\ MaxRuns \in Nat /\ MaxFails \in Nat /\ nobody \in Names
  BY NumbersAssumption DEF Keys, Names
<1>4. <<>> \in Seq(Writes)
  OBVIOUS
<1>5. TypeOK
  BY <1>2, <1>3, <1>4 DEF Init, TypeOK
<1>6. TakerInv
  BY DEF Init, TakerInv
<1>7. LoaderInv /\ KeysBelowNamed
  BY <1>3, ListFacts DEF Init, LoaderInv, KeysBelowNamed, Keys
<1>8. QED
  BY <1>2, <1>5, <1>6, <1>7 DEF TableInv

LEMMA ReplicateHolds == ASSUME TableInv, Replicate PROVE TableInv'
<1>1. UNCHANGED <<master, at, count, next, selected, user, loading, file, msgIndex, seen,
                  runs, fails, breaks, clean, intact>>
      /\ stream # <<>> /\ stream' = Tail(stream) /\ replica' = Written(replica, Head(stream))
  BY DEF Replicate, takers, loaders, history
<1>2. Head(stream) \in Writes /\ Tail(stream) \in Seq(Writes)
  BY <1>1, HeadTailProperties DEF TableInv, TypeOK
<1>3. replica' \in [Keys -> Entry]
  BY <1>1, <1>2, WrittenType DEF TableInv, TypeOK
<1>4. TypeOK'
  BY <1>1, <1>2, <1>3 DEF TableInv, TypeOK
<1>5. QED
  BY <1>1, <1>4 DEF TableInv, TakerInv, LoaderInv, KeysBelowNamed, Named, NamedKeysComeFirst
-----------------------------------------------------------------------------
(* What a step of a taker that leaves the master alone has to show.        *)
LEMMA TakerMoves ==
    ASSUME TableInv, NEW t \in Takers,
           UNCHANGED <<tables, loaders, fails, breaks, intact>>,
           runs' \in 0..MaxRuns, clean' \in BOOLEAN,
           \E a \in {"down", "scan", "mark", "on"} : at' = [at EXCEPT ![t] = a],
           \E n \in 0..Size : count' = [count EXCEPT ![t] = n],
           \E n \in 0..Size : next' = [next EXCEPT ![t] = n],
           \E k \in Keys : selected' = [selected EXCEPT ![t] = k],
           \E u \in Names : user' = [user EXCEPT ![t] = u],
           at'[t] = "down" => next'[t] = 0,
           at'[t] = "scan" => next'[t] \in Keys,
           at'[t] = "scan" /\ t \in Pods \cup Lookups => next'[t] < count'[t]
    PROVE  TableInv'
<1>1. UNCHANGED <<master, replica, stream, loading, file, msgIndex, seen, fails, breaks, intact>>
  BY DEF tables, loaders
<1>2. at' \in [Takers -> {"down", "scan", "mark", "on"}] /\ count' \in [Takers -> 0..Size]
  BY DEF TableInv, TypeOK
<1>3. next' \in [Takers -> 0..Size] /\ selected' \in [Takers -> Keys]
      /\ user' \in [Takers -> Names]
  BY DEF TableInv, TypeOK
<1>4. TypeOK'
  BY <1>1, <1>2, <1>3 DEF TableInv, TypeOK
<1>5. \A q \in Takers : q # t => at'[q] = at[q] /\ next'[q] = next[q] /\ count'[q] = count[q]
  BY DEF TableInv, TypeOK
<1>6. TakerInv'
  BY <1>5 DEF TableInv, TakerInv
<1>7. QED
  BY <1>1, <1>4, <1>6 DEF TableInv, LoaderInv, KeysBelowNamed, Named, NamedKeysComeFirst

(* What a taker does not change.                                           *)
LEMMA TakerFacts ==
    ASSUME TableInv, NEW t \in Takers
    PROVE  /\ at = [at EXCEPT ![t] = at[t]] /\ at[t] \in {"down", "scan", "mark", "on"}
           /\ count = [count EXCEPT ![t] = count[t]] /\ count[t] \in 0..Size
           /\ next = [next EXCEPT ![t] = next[t]] /\ next[t] \in 0..Size
           /\ selected = [selected EXCEPT ![t] = selected[t]] /\ selected[t] \in Keys
           /\ user = [user EXCEPT ![t] = user[t]] /\ user[t] \in Names
           /\ at[t] = "down" => next[t] = 0
           /\ at[t] = "scan" => next[t] \in Keys
           /\ at[t] = "scan" /\ t \in Pods \cup Lookups => next[t] < count[t]
           /\ runs \in 0..MaxRuns /\ clean \in BOOLEAN
           /\ Size \in Nat /\ Size # 0 /\ MaxRuns \in Nat
  BY NumbersAssumption DEF TableInv, TypeOK, TakerInv

LEMMA BeginHolds == ASSUME TableInv, NEW t \in Takers, Begin(t) PROVE TableInv'
<1>1. /\ UNCHANGED <<tables, loaders, fails, breaks, intact, next, selected, user>>
      /\ at[t] = "down" /\ runs < MaxRuns /\ runs' = runs + 1
      /\ count' = [count EXCEPT ![t] = KeysSeen]
      /\ at' = [at EXCEPT ![t] = IF KeysSeen = 0 THEN "mark" ELSE "scan"]
  BY DEF Begin, Start
<1>2. clean' \in BOOLEAN
  BY DEF Begin, Start
<1>3. KeysSeen \in 0..Size
  BY KeysSeenType
<1>4. runs' \in 0..MaxRuns
  BY <1>1, TakerFacts
<1>5. next[t] = 0 /\ 0 \in Keys
  BY <1>1, TakerFacts DEF Keys
<1>6. at'[t] = (IF KeysSeen = 0 THEN "mark" ELSE "scan") /\ count'[t] = KeysSeen
  BY <1>1 DEF TableInv, TypeOK
<1>7. at'[t] = "scan" => next'[t] < count'[t]
  BY <1>1, <1>3, <1>5, <1>6, TakerFacts
<1>8. \E a \in {"down", "scan", "mark", "on"} : at' = [at EXCEPT ![t] = a]
  BY <1>1
<1>9. /\ \E n \in 0..Size : next' = [next EXCEPT ![t] = n]
      /\ \E k \in Keys : selected' = [selected EXCEPT ![t] = k]
      /\ \E u \in Names : user' = [user EXCEPT ![t] = u]
  BY <1>1, TakerFacts
<1>10. \E n \in 0..Size : count' = [count EXCEPT ![t] = n]
  BY <1>1, <1>3
<1>11. at'[t] # "down" /\ next'[t] \in Keys
  BY <1>1, <1>5, <1>6
<1>12. QED
  BY <1>1, <1>2, <1>4, <1>7, <1>8, <1>9, <1>10, <1>11, TakerMoves

(* A taker that takes the key it looks at.                                 *)
LEMMA TakeHolds ==
    ASSUME TableInv, NEW t \in Takers, at[t] = "scan", Take(t),
           UNCHANGED <<tables, count, loaders, history>>
    PROVE  TableInv'
<1>1. /\ at' = [at EXCEPT ![t] = "mark"] /\ UNCHANGED next
      /\ selected' = [selected EXCEPT ![t] = next[t]]
      /\ user' = [user EXCEPT ![t] = replica[next[t]].user]
      /\ UNCHANGED <<runs, fails, breaks, clean, intact>>
  BY DEF Take, history
<1>2. next[t] \in Keys
  BY TakerFacts
<1>3. replica[next[t]].user \in Names
  BY <1>2 DEF TableInv, TypeOK, Entry
<1>4. at'[t] = "mark"
  BY <1>1 DEF TableInv, TypeOK
<1>5. /\ \E n \in 0..Size : next' = [next EXCEPT ![t] = n]
      /\ \E n \in 0..Size : count' = [count EXCEPT ![t] = n]
      /\ \E k \in Keys : selected' = [selected EXCEPT ![t] = k]
      /\ \E u \in Names : user' = [user EXCEPT ![t] = u]
      /\ \E a \in {"down", "scan", "mark", "on"} : at' = [at EXCEPT ![t] = a]
  BY <1>1, <1>2, <1>3, TakerFacts
<1>6. runs' \in 0..MaxRuns /\ clean' \in BOOLEAN
  BY <1>1, TakerFacts
<1>7. QED
  BY <1>1, <1>4, <1>5, <1>6, TakerMoves

(* A taker that only goes elsewhere, or to another key.                    *)
LEMMA WalkHolds ==
    ASSUME TableInv, NEW t \in Takers, NEW a \in {"scan", "mark", "on"}, NEW n \in 0..Size,
           at' = [at EXCEPT ![t] = a], next' = [next EXCEPT ![t] = n],
           UNCHANGED <<tables, count, selected, user, loaders, fails, breaks, intact>>,
           runs' \in 0..MaxRuns, clean' \in BOOLEAN,
           a = "scan" => n \in Keys,
           a = "scan" /\ t \in Pods \cup Lookups => n < count[t]
    PROVE  TableInv'
<1>1. at'[t] = a /\ next'[t] = n
  BY DEF TableInv, TypeOK
<1>2. /\ \E m \in 0..Size : next' = [next EXCEPT ![t] = m]
      /\ \E m \in 0..Size : count' = [count EXCEPT ![t] = m]
      /\ \E k \in Keys : selected' = [selected EXCEPT ![t] = k]
      /\ \E u \in Names : user' = [user EXCEPT ![t] = u]
      /\ \E b \in {"down", "scan", "mark", "on"} : at' = [at EXCEPT ![t] = b]
  BY TakerFacts
<1>3. QED
  BY <1>1, <1>2, TakerMoves

LEMMA LookAtUsedHolds == ASSUME TableInv, NEW t \in Takers, LookAtUsed(t) PROVE TableInv'
<1>1. /\ UNCHANGED <<tables, count, loaders, runs, fails, breaks, clean, intact>>
      /\ UNCHANGED history
      /\ t \in Pods \cup Lookups /\ at[t] = "scan"
  BY DEF LookAtUsed, history
<1>2. runs' \in 0..MaxRuns /\ clean' \in BOOLEAN
  BY <1>1, TakerFacts
<1>3. CASE Take(t)
  BY <1>1, <1>3, TakeHolds
<1>4. CASE at' = [at EXCEPT ![t] = "mark"] /\ UNCHANGED <<next, selected, user>>
  <2>1. next' = [next EXCEPT ![t] = next[t]] /\ next[t] \in 0..Size
    BY <1>4, TakerFacts
  <2>2. QED
    BY <1>1, <1>2, <1>4, <2>1, WalkHolds
<1>5. CASE ~LastKey(t) /\ next' = [next EXCEPT ![t] = @ + 1] /\ UNCHANGED <<at, selected, user>>
  <2>1. at' = [at EXCEPT ![t] = "scan"] /\ next' = [next EXCEPT ![t] = next[t] + 1]
    BY <1>1, <1>5, TakerFacts
  <2>2. /\ next[t] + 1 \in 0..Size /\ next[t] + 1 \in Keys
        /\ next[t] + 1 < count[t]
    BY <1>1, <1>5, TakerFacts DEF LastKey, Keys
  <2>3. QED
    BY <1>1, <1>2, <1>5, <2>1, <2>2, WalkHolds
<1>6. QED
  BY <1>3, <1>4, <1>5 DEF LookAtUsed

LEMMA OpenHolds == ASSUME TableInv, NEW t \in Takers, Open(t) PROVE TableInv'
<1>1. /\ UNCHANGED <<tables, count, loaders, fails, breaks, intact, selected, user>>
      /\ t \in Readers /\ runs < MaxRuns /\ runs' = runs + 1
      /\ at' = [at EXCEPT ![t] = "scan"]
  BY DEF Open, Start
<1>2. clean' \in BOOLEAN
  BY DEF Open, Start
<1>3. PICK k \in Keys : next' = [next EXCEPT ![t] = k]
  BY DEF Open
<1>4. k \in 0..Size /\ runs' \in 0..MaxRuns
  BY <1>1, TakerFacts DEF Keys
<1>5. t \notin Pods \cup Lookups
  BY <1>1, TakersAssumption
<1>6. QED
  BY <1>1, <1>2, <1>3, <1>4, <1>5, WalkHolds

LEMMA ReadHolds == ASSUME TableInv, NEW t \in Takers, Read(t) PROVE TableInv'
<1>1. /\ UNCHANGED <<tables, count, loaders, runs, fails, breaks, clean, intact>>
      /\ UNCHANGED history /\ at[t] = "scan"
  BY DEF Read, history
<1>2. runs' \in 0..MaxRuns /\ clean' \in BOOLEAN
  BY <1>1, TakerFacts
<1>3. CASE Take(t)
  BY <1>1, <1>3, TakeHolds
<1>4. CASE at' = [at EXCEPT ![t] = "on"] /\ UNCHANGED <<next, selected, user>>
  <2>1. next' = [next EXCEPT ![t] = next[t]] /\ next[t] \in 0..Size
    BY <1>4, TakerFacts
  <2>2. QED
    BY <1>1, <1>2, <1>4, <2>1, WalkHolds
<1>5. QED
  BY <1>3, <1>4 DEF Read

LEMMA FailFacts ==
    ASSUME TableInv, Mishap
    PROVE  fails + 1 \in 0..MaxFails /\ breaks + 1 \in 0..MaxFails
  BY NumbersAssumption DEF TableInv, TypeOK, Mishap

LEMMA MarkHolds == ASSUME TableInv, NEW t \in Takers, Mark(t) PROVE TableInv'
<1>1. /\ UNCHANGED <<count, next, selected, user, loading, file, msgIndex, seen,
                      runs, breaks, clean, intact>>
      /\ at' = [at EXCEPT ![t] = "on"]
  BY DEF Mark, loaders
<1>2. /\ master' \in [Keys -> Entry] /\ replica' \in [Keys -> Entry]
      /\ stream' \in Seq(Writes) /\ fails' \in 0..MaxFails
      /\ \A k \in Keys : Named(master', k) <=> Named(master, k)
  <2>1. CASE Write(MarkedKey(t), nobody, "yes") /\ UNCHANGED fails
    <3>1. selected[t] \in Keys /\ nobody \in Names
      BY TakerFacts DEF Names
    <3>2. Write(selected[t], nobody, "yes")
      BY <2>1 DEF MarkedKey
    <3>3. /\ master' \in [Keys -> Entry] /\ replica' \in [Keys -> Entry]
          /\ stream' \in Seq(Writes)
          /\ \A j \in Keys :
               Named(master', j) <=> Named(master, j) \/ (j = selected[t] /\ nobody # nobody)
      BY <3>1, <3>2, WriteFacts DEF TableInv
    <3>4. QED
      BY <2>1, <3>3 DEF TableInv, TypeOK
  <2>2. CASE WriteFails
    BY <2>2, FailFacts DEF WriteFails, tables, TableInv, TypeOK, Named
  <2>3. QED
    BY <2>1, <2>2 DEF Mark
<1>3. TypeOK'
  BY <1>1, <1>2 DEF TableInv, TypeOK
<1>4. TakerInv' /\ LoaderInv'
  BY <1>1 DEF TableInv, TypeOK, TakerInv, LoaderInv
<1>5. KeysBelowNamed' /\ NamedKeysComeFirst'
  BY <1>1, <1>2, OrderKept DEF TableInv
<1>6. QED
  BY <1>3, <1>4, <1>5 DEF TableInv

LEMMA DieHolds == ASSUME TableInv, NEW t \in Takers, Die(t) PROVE TableInv'
<1>1. /\ UNCHANGED <<tables, loaders, runs, fails, breaks, clean, intact>>
      /\ at' = [at EXCEPT ![t] = "down"] /\ count' = [count EXCEPT ![t] = 0]
      /\ next' = [next EXCEPT ![t] = 0] /\ selected' = [selected EXCEPT ![t] = 0]
      /\ user' = [user EXCEPT ![t] = nobody]
  BY DEF Die, history
<1>2. at'[t] = "down" /\ next'[t] = 0
  BY <1>1 DEF TableInv, TypeOK
<1>3. 0 \in 0..Size /\ 0 \in Keys /\ nobody \in Names
  BY TakerFacts DEF Keys, Names
<1>4. runs' \in 0..MaxRuns /\ clean' \in BOOLEAN
  BY <1>1, TakerFacts
<1>5. QED
  BY <1>1, <1>2, <1>3, <1>4, TakerMoves
-----------------------------------------------------------------------------
(* What a step of a loader has to show.                                    *)
LEMMA LoaderMoves ==
    ASSUME TableInv, NEW l \in Loaders,
           NEW a \in {"no", "write", "look", "mark"}, NEW n \in 0..Size, NEW m \in 0..Size,
           loading' = [loading EXCEPT ![l] = a],
           file' = [file EXCEPT ![l] = n],
           msgIndex' = [msgIndex EXCEPT ![l] = m],
           UNCHANGED takers,
           master' \in [Keys -> Entry], replica' \in [Keys -> Entry], stream' \in Seq(Writes),
           seen' \in [Loaders -> Names], runs' \in 0..MaxRuns, fails' \in 0..MaxFails,
           breaks' \in 0..MaxFails, clean' \in BOOLEAN, intact' \in [Loaders -> BOOLEAN],
           NamedKeysComeFirst',
           \A k \in Keys : Named(master, k) => Named(master', k),
           \A k \in Keys : k < m => Named(master', k),
           a \in {"write", "look"} => m <= n,
           a = "no" => m = 0 /\ n = 0,
           a = "mark" => FinalMark[l] # "none",
           n <= Len(List[l])
    PROVE  TableInv'
<1>1. UNCHANGED <<at, count, next, selected, user>>
  BY DEF takers
<1>2. /\ loading' \in [Loaders -> {"no", "write", "look", "mark"}]
      /\ file' \in [Loaders -> 0..Size] /\ msgIndex' \in [Loaders -> 0..Size]
      /\ loading'[l] = a /\ file'[l] = n /\ msgIndex'[l] = m
      /\ \A j \in Loaders : j # l => /\ loading'[j] = loading[j]
                                     /\ file'[j] = file[j]
                                     /\ msgIndex'[j] = msgIndex[j]
  BY DEF TableInv, TypeOK
<1>3. TypeOK'
  BY <1>1, <1>2 DEF TableInv, TypeOK
<1>4. LoaderInv'
  BY <1>2 DEF TableInv, LoaderInv
<1>5. KeysBelowNamed'
  BY <1>2 DEF TableInv, KeysBelowNamed
<1>6. TakerInv'
  BY <1>1 DEF TableInv, TakerInv
<1>7. QED
  BY <1>3, <1>4, <1>5, <1>6 DEF TableInv

(* What a loader does not change.                                          *)
LEMMA LoaderFacts ==
    ASSUME TableInv, NEW l \in Loaders
    PROVE  /\ loading = [loading EXCEPT ![l] = loading[l]]
           /\ file = [file EXCEPT ![l] = file[l]] /\ file[l] \in 0..Size
           /\ msgIndex = [msgIndex EXCEPT ![l] = msgIndex[l]] /\ msgIndex[l] \in 0..Size
           /\ loading[l] \in {"write", "look"} => msgIndex[l] <= file[l]
           /\ loading[l] = "no" => msgIndex[l] = 0 /\ file[l] = 0
           /\ loading[l] = "mark" => FinalMark[l] # "none"
           /\ file[l] <= Len(List[l]) /\ Len(List[l]) \in Nat
           /\ Len(List[l]) <= Size /\ Size \in Nat
           /\ \A k \in Keys : k < msgIndex[l] => Named(master, k)
           /\ master \in [Keys -> Entry] /\ replica \in [Keys -> Entry]
           /\ stream \in Seq(Writes) /\ seen \in [Loaders -> Names]
           /\ runs \in 0..MaxRuns /\ fails \in 0..MaxFails /\ breaks \in 0..MaxFails
           /\ clean \in BOOLEAN /\ intact \in [Loaders -> BOOLEAN]
           /\ NamedKeysComeFirst
  BY ListFacts DEF TableInv, TypeOK, LoaderInv, KeysBelowNamed

(* A loader that leaves the tables alone and keeps its key.                *)
LEMMA LoaderGoesOn ==
    ASSUME TableInv, NEW l \in Loaders,
           NEW a \in {"write", "look", "mark"}, NEW n \in 0..Size,
           loading' = [loading EXCEPT ![l] = a],
           file' = [file EXCEPT ![l] = n],
           UNCHANGED <<tables, takers, msgIndex, fails, breaks>>,
           seen' \in [Loaders -> Names], runs' \in 0..MaxRuns,
           clean' \in BOOLEAN, intact' \in [Loaders -> BOOLEAN],
           a \in {"write", "look"} => msgIndex[l] <= n,
           a = "mark" => FinalMark[l] # "none",
           n <= Len(List[l])
    PROVE  TableInv'
<1>1. UNCHANGED <<master, replica, stream>>
  BY DEF tables
<1>2. NamedKeysComeFirst' /\ \A k \in Keys : Named(master', k) <=> Named(master, k)
  BY <1>1 DEF TableInv, NamedKeysComeFirst, Named
<1>3. /\ master' \in [Keys -> Entry] /\ replica' \in [Keys -> Entry]
      /\ stream' \in Seq(Writes) /\ fails' \in 0..MaxFails /\ breaks' \in 0..MaxFails
      /\ msgIndex' = [msgIndex EXCEPT ![l] = msgIndex[l]] /\ msgIndex[l] \in 0..Size
      /\ \A k \in Keys : k < msgIndex[l] => Named(master', k)
  BY <1>1, <1>2, LoaderFacts
<1>4. QED
  BY <1>2, <1>3, LoaderMoves

LEMMA LoadHolds == ASSUME TableInv, NEW l \in Loaders, Load(l) PROVE TableInv'
<1>1. /\ UNCHANGED <<tables, takers, file, msgIndex, seen, fails, breaks>>
      /\ loading[l] = "no" /\ runs < MaxRuns /\ runs' = runs + 1
      /\ loading' = [loading EXCEPT ![l] = "write"]
      /\ clean' \in BOOLEAN /\ intact' \in [Loaders -> BOOLEAN]
  BY DEF Load
<1>2. file' = [file EXCEPT ![l] = 0] /\ msgIndex[l] <= 0 /\ 0 \in 0..Size
  BY <1>1, LoaderFacts
<1>3. runs' \in 0..MaxRuns /\ seen' \in [Loaders -> Names]
  BY <1>1, LoaderFacts, NumbersAssumption
<1>4. 0 <= Len(List[l])
  BY ListFacts
<1>5. QED
  BY <1>1, <1>2, <1>3, <1>4, LoaderGoesOn

LEMMA LookHolds ==
    ASSUME TableInv, NEW l \in Loaders, ReadBack(l) \/ ReadNothing(l)
    PROVE  TableInv'
<1>1. /\ UNCHANGED <<tables, takers, file, msgIndex, runs, fails, breaks, clean, intact>>
      /\ loading[l] = "look" /\ loading' = [loading EXCEPT ![l] = "write"]
  BY DEF ReadBack, ReadNothing, history
<1>2. seen' \in [Loaders -> Names]
  <2>1. CASE ReadNothing(l)
    BY <2>1, LoaderFacts DEF ReadNothing
  <2>2. CASE ReadBack(l)
    <3>1. LookUp(LookedUpKey(l)) \in Names
      <4>1. nobody \in Names /\ \A k \in Keys : replica[k].user \in Names
        BY DEF Names, TableInv, TypeOK, Entry
      <4>2. QED
        BY <4>1 DEF LookUp
    <3>2. seen' = [seen EXCEPT ![l] = LookUp(LookedUpKey(l))]
      BY <2>2 DEF ReadBack
    <3>3. QED
      BY <3>1, <3>2, LoaderFacts
  <2>3. QED
    BY <2>1, <2>2
<1>3. file' = [file EXCEPT ![l] = file[l]] /\ file[l] \in 0..Size
      /\ msgIndex[l] <= file[l] /\ file[l] <= Len(List[l])
      /\ runs' \in 0..MaxRuns /\ clean' \in BOOLEAN /\ intact' \in [Loaders -> BOOLEAN]
  BY <1>1, LoaderFacts
<1>4. QED
  BY <1>1, <1>2, <1>3, LoaderGoesOn

LEMMA StartMarkingHolds == ASSUME TableInv, NEW l \in Loaders, StartMarking(l) PROVE TableInv'
<1>1. /\ UNCHANGED <<tables, takers, msgIndex, seen, runs, fails, breaks, clean, intact>>
      /\ loading' = [loading EXCEPT ![l] = "mark"] /\ file' = [file EXCEPT ![l] = 0]
      /\ FinalMark[l] # "none"
  BY DEF StartMarking, history
<1>2. 0 \in 0..Size /\ 0 <= Len(List[l]) /\ seen' \in [Loaders -> Names]
      /\ runs' \in 0..MaxRuns /\ clean' \in BOOLEAN /\ intact' \in [Loaders -> BOOLEAN]
  BY <1>1, LoaderFacts, ListFacts
<1>3. QED
  BY <1>1, <1>2, LoaderGoesOn

(* The write of a file: the next key gets a name, and those below it have  *)
(* theirs, so the named keys are still the first ones.                     *)
LEMMA WriteFileHolds == ASSUME TableInv, NEW l \in Loaders, WriteFile(l) PROVE TableInv'
<1>1. /\ UNCHANGED <<takers, seen, runs, breaks, clean>>
      /\ loading[l] = "write" /\ file[l] < Len(List[l])
      /\ file' = [file EXCEPT ![l] = file[l] + 1]
      /\ loading' = [loading EXCEPT ![l] = "look"]
  BY DEF WriteFile
<1>2. /\ file[l] + 1 \in 0..Size /\ file[l] + 1 <= Len(List[l]) /\ file[l] + 1 \in 1..Len(List[l])
      /\ msgIndex[l] \in Keys /\ msgIndex[l] + 1 \in 0..Size
      /\ msgIndex[l] <= file[l] + 1 /\ msgIndex[l] + 1 <= file[l] + 1
      /\ msgIndex[l] \in 0..Size
  <2>1. /\ file[l] \in Nat /\ msgIndex[l] \in Nat /\ Size \in Nat /\ Len(List[l]) \in Nat
        /\ msgIndex[l] <= file[l] /\ file[l] < Len(List[l]) /\ Len(List[l]) <= Size
    BY <1>1, LoaderFacts
  <2>2. QED
    BY <2>1 DEF Keys
<1>3. /\ seen' \in [Loaders -> Names] /\ runs' \in 0..MaxRuns
      /\ breaks' \in 0..MaxFails /\ clean' \in BOOLEAN
  BY <1>1, LoaderFacts
<1>4. ASSUME NEW name \in Names, FileRead(l, name), Write(msgIndex[l], name, "no"),
             msgIndex' = [msgIndex EXCEPT ![l] = NextKey(l)]
      PROVE  TableInv'
  <2>1. name # nobody /\ fails' \in 0..MaxFails /\ intact' \in [Loaders -> BOOLEAN]
    <3>1. CASE name = List[l][file[l] + 1] /\ UNCHANGED <<fails, intact>>
      BY <1>2, <3>1, ListFacts, NobodyIsNoUser, LoaderFacts
    <3>2. CASE /\ Mishap /\ name = blank /\ fails' = fails + 1
               /\ intact' = [intact EXCEPT ![l] = FALSE]
      BY <3>2, NobodyIsNoUser, FailFacts, LoaderFacts
    <3>3. QED
      BY <1>4, <3>1, <3>2 DEF FileRead
  <2>2. /\ master' \in [Keys -> Entry] /\ replica' \in [Keys -> Entry] /\ stream' \in Seq(Writes)
        /\ \A j \in Keys :
             Named(master', j) <=> Named(master, j) \/ (j = msgIndex[l] /\ name # nobody)
    BY <1>2, <1>4, WriteFacts DEF TableInv
  <2>3. \A k \in Keys : k < msgIndex[l] + 1 => Named(master', k)
    BY <1>2, <2>1, <2>2, LoaderFacts DEF Keys
  <2>4. NamedKeysComeFirst'
    <3> SUFFICES ASSUME NEW j \in Keys, NEW k \in Keys, j < k, Named(master', k)
                 PROVE  Named(master', j)
      BY DEF NamedKeysComeFirst, Named
    <3>1. CASE Named(master, k)
      BY <2>2, <3>1 DEF TableInv, NamedKeysComeFirst, Named
    <3>2. CASE k = msgIndex[l]
      BY <2>2, <3>2, LoaderFacts
    <3>3. QED
      BY <2>2, <3>1, <3>2
  <2>5. msgIndex' = [msgIndex EXCEPT ![l] = msgIndex[l] + 1]
    BY <1>4 DEF NextKey
  <2>6. QED
    BY <1>1, <1>2, <1>3, <2>1, <2>2, <2>3, <2>4, <2>5, LoaderMoves
<1>5. ASSUME WriteFails, msgIndex' = [msgIndex EXCEPT ![l] = KeyIsKept(l)],
             intact' = [intact EXCEPT ![l] = FALSE]
      PROVE  TableInv'
  <2>1. UNCHANGED <<master, replica, stream>> /\ fails' \in 0..MaxFails
    BY <1>5, FailFacts DEF WriteFails, tables
  <2>2. intact' \in [Loaders -> BOOLEAN]
    BY <1>5, LoaderFacts
  <2>3. NamedKeysComeFirst' /\ \A k \in Keys : Named(master', k) <=> Named(master, k)
    BY <2>1 DEF TableInv, NamedKeysComeFirst, Named
  <2>4. /\ master' \in [Keys -> Entry] /\ replica' \in [Keys -> Entry] /\ stream' \in Seq(Writes)
        /\ \A k \in Keys : k < msgIndex[l] => Named(master', k)
    BY <2>1, <2>3, LoaderFacts
  <2>5. msgIndex' = [msgIndex EXCEPT ![l] = msgIndex[l]]
    BY <1>5 DEF KeyIsKept
  <2>6. QED
    BY <1>1, <1>2, <1>3, <2>1, <2>2, <2>3, <2>4, <2>5, LoaderMoves
<1>6. QED
  BY <1>4, <1>5 DEF WriteFile

LEMMA MarkKeyHolds == ASSUME TableInv, NEW l \in Loaders, MarkKey(l) PROVE TableInv'
<1>1. /\ UNCHANGED <<takers, loading, msgIndex, seen, runs, breaks, clean>>
      /\ loading[l] = "mark" /\ file[l] # Len(List[l])
      /\ file' = [file EXCEPT ![l] = file[l] + 1]
  BY DEF MarkKey, MarkingDone
<1>2. /\ loading' = [loading EXCEPT ![l] = "mark"]
      /\ msgIndex' = [msgIndex EXCEPT ![l] = msgIndex[l]] /\ msgIndex[l] \in 0..Size
      /\ file[l] \in Keys /\ file[l] + 1 \in 0..Size /\ file[l] + 1 <= Len(List[l])
      /\ FinalMark[l] # "none"
      /\ seen' \in [Loaders -> Names] /\ runs' \in 0..MaxRuns
      /\ breaks' \in 0..MaxFails /\ clean' \in BOOLEAN
  BY <1>1, LoaderFacts DEF Keys
<1>3. /\ master' \in [Keys -> Entry] /\ replica' \in [Keys -> Entry]
      /\ stream' \in Seq(Writes) /\ fails' \in 0..MaxFails /\ intact' \in [Loaders -> BOOLEAN]
      /\ \A k \in Keys : Named(master', k) <=> Named(master, k)
  <2>1. CASE Write(file[l], nobody, FinalMark[l]) /\ UNCHANGED <<fails, intact>>
    <3>1. nobody \in Names
      BY DEF Names
    <3>2. FinalMark[l] \in {"no", "yes"}
      BY <1>1, LoaderFacts, FinalMarkAssumption
    <3>3. /\ master' \in [Keys -> Entry] /\ replica' \in [Keys -> Entry]
          /\ stream' \in Seq(Writes)
          /\ \A j \in Keys :
               Named(master', j) <=> Named(master, j) \/ (j = file[l] /\ nobody # nobody)
      BY <1>2, <2>1, <3>1, <3>2, WriteFacts DEF TableInv
    <3>4. QED
      BY <2>1, <3>3, LoaderFacts
  <2>2. CASE WriteFails /\ intact' = [intact EXCEPT ![l] = FALSE]
    BY <2>2, FailFacts, LoaderFacts DEF WriteFails, tables, Named
  <2>3. QED
    BY <2>1, <2>2 DEF MarkKey
<1>4. NamedKeysComeFirst'
  BY <1>1, <1>3, OrderKept DEF TableInv
<1>5. \A k \in Keys : k < msgIndex[l] => Named(master', k)
  BY <1>3, LoaderFacts
<1>6. QED
  BY <1>1, <1>2, <1>3, <1>4, <1>5, LoaderMoves

LEMMA StopHolds ==
    ASSUME TableInv, NEW l \in Loaders, Stop(l), breaks' \in 0..MaxFails,
           intact' \in [Loaders -> BOOLEAN]
    PROVE  TableInv'
<1>1. /\ UNCHANGED <<master, replica, stream, takers, runs, fails, clean>>
      /\ loading' = [loading EXCEPT ![l] = "no"] /\ file' = [file EXCEPT ![l] = 0]
      /\ msgIndex' = [msgIndex EXCEPT ![l] = 0] /\ seen' = [seen EXCEPT ![l] = nobody]
  BY DEF Stop, tables
<1>2. NamedKeysComeFirst' /\ \A k \in Keys : Named(master', k) <=> Named(master, k)
  BY <1>1 DEF TableInv, NamedKeysComeFirst, Named
<1>3. /\ master' \in [Keys -> Entry] /\ replica' \in [Keys -> Entry] /\ stream' \in Seq(Writes)
      /\ runs' \in 0..MaxRuns /\ fails' \in 0..MaxFails /\ clean' \in BOOLEAN
      /\ 0 \in 0..Size /\ 0 <= Len(List[l])
  BY <1>1, LoaderFacts
<1>4. seen' \in [Loaders -> Names]
  BY <1>1, LoaderFacts DEF Names
<1>5. \A k \in Keys : k < 0 => Named(master', k)
  BY NumbersAssumption DEF Keys
<1>6. QED
  BY <1>1, <1>2, <1>3, <1>4, <1>5, LoaderMoves

(* A reading that fails costs a taker the name and counts as one that broke *)
(* off.                                                                    *)
LEMMA VainHolds ==
    ASSUME TableInv, NEW t \in Takers, LookInVain(t) \/ ReadInVain(t)
    PROVE  TableInv'
<1>1. /\ UNCHANGED <<master, replica, stream, loading, file, msgIndex, seen, fails, intact>>
      /\ UNCHANGED <<count, next, runs, clean>> /\ at[t] = "scan"
  BY DEF LookInVain, ReadInVain, ReadingFails, tables, loaders
<1>2. breaks' \in 0..MaxFails
  BY FailFacts DEF LookInVain, ReadInVain, ReadingFails
<1>3. at' = [at EXCEPT ![t] = "mark"] \/ at' = [at EXCEPT ![t] = "on"]
  BY DEF LookInVain, ReadInVain
<1>4. selected' \in [Takers -> Keys] /\ user' \in [Takers -> Names]
  <2>1. CASE LookInVain(t)
    <3>1. nobody \in Names /\ next[t] \in Keys
      BY <1>1, TakerFacts DEF Names
    <3>2. QED
      BY <2>1, <3>1 DEF LookInVain, TableInv, TypeOK
  <2>2. CASE ReadInVain(t)
    BY <2>2 DEF ReadInVain, TableInv, TypeOK
  <2>3. QED
    BY <2>1, <2>2
<1>5. at' \in [Takers -> {"down", "scan", "mark", "on"}]
  BY <1>3 DEF TableInv, TypeOK
<1>6. TypeOK'
  BY <1>1, <1>2, <1>4, <1>5 DEF TableInv, TypeOK
<1>7. \A q \in Takers : at'[q] \in {"scan", "down"} => at'[q] = at[q]
  BY <1>3 DEF TableInv, TypeOK
<1>8. TakerInv'
  BY <1>1, <1>7 DEF TableInv, TakerInv
<1>9. QED
  BY <1>1, <1>6, <1>8 DEF TableInv, LoaderInv, KeysBelowNamed, Named, NamedKeysComeFirst

LEMMA BackInVainHolds ==
    ASSUME TableInv, NEW l \in Loaders, ReadBackInVain(l)
    PROVE  TableInv'
<1>1. /\ UNCHANGED <<master, replica, stream, at, count, next, selected, user, file, msgIndex>>
      /\ UNCHANGED <<runs, fails, clean, intact>>
      /\ loading[l] = "look" /\ loading' = [loading EXCEPT ![l] = "write"]
  BY DEF ReadBackInVain, ReadingFails, tables, takers
<1>2. breaks' \in 0..MaxFails
  BY FailFacts DEF ReadBackInVain, ReadingFails
<1>3. seen' \in [Loaders -> Names]
  <2>1. nobody \in Names
    BY DEF Names
  <2>2. QED
    BY <2>1 DEF ReadBackInVain, TableInv, TypeOK
<1>4. loading' \in [Loaders -> {"no", "write", "look", "mark"}]
  BY <1>1 DEF TableInv, TypeOK
<1>5. TypeOK'
  BY <1>1, <1>2, <1>3, <1>4 DEF TableInv, TypeOK
<1>6. /\ loading'[l] = "write"
      /\ \A m \in Loaders : m # l => loading'[m] = loading[m]
  BY <1>1 DEF TableInv, TypeOK
<1>7. LoaderInv'
  BY <1>1, <1>6 DEF TableInv, LoaderInv, KeysBelowNamed, Named
<1>8. QED
  BY <1>1, <1>5, <1>7 DEF TableInv, TakerInv, KeysBelowNamed, Named, NamedKeysComeFirst

LEMMA StepHolds == TableInv /\ [Next]_vars => TableInv'
<1> SUFFICES ASSUME TableInv, [Next]_vars PROVE TableInv'
  OBVIOUS
<1>1. CASE Replicate
  BY <1>1, ReplicateHolds
<1>2. ASSUME NEW t \in Takers, TakerStep(t) PROVE TableInv'
  <2>1. CASE LookAtFree(t)
    <3>1. at[t] = "scan" /\ Take(t) /\ UNCHANGED <<tables, count, loaders, history>>
      BY <2>1 DEF LookAtFree
    <3>2. QED
      BY <3>1, TakeHolds
  <2>2. QED
    BY <1>2, <2>1, BeginHolds, LookAtUsedHolds, VainHolds, OpenHolds, ReadHolds, MarkHolds, DieHolds
    DEF TakerStep
<1>3. ASSUME NEW l \in Loaders, LoaderStep(l) PROVE TableInv'
  <2>1. CASE FinishLoad(l) \/ FinishSamples(l)
    <3>1. Stop(l) /\ UNCHANGED <<breaks, intact>>
      BY <2>1 DEF FinishLoad, FinishSamples
    <3>2. breaks' \in 0..MaxFails /\ intact' \in [Loaders -> BOOLEAN]
      BY <3>1, LoaderFacts
    <3>3. QED
      BY <3>1, <3>2, StopHolds
  <2>2. CASE BreakOff(l)
    <3>1. Stop(l) /\ breaks' \in 0..MaxFails
      BY <2>2, FailFacts DEF BreakOff
    <3>2. intact' \in [Loaders -> BOOLEAN]
      BY <2>2, LoaderFacts DEF BreakOff
    <3>3. QED
      BY <3>1, <3>2, StopHolds
  <2>3. QED
    BY <1>3, <2>1, <2>2, LoadHolds, WriteFileHolds, LookHolds,
       BackInVainHolds, StartMarkingHolds, MarkKeyHolds
    DEF LoaderStep
<1>4. CASE UNCHANGED vars
  <2>1. UNCHANGED <<master, replica, stream, at, count, next, selected, user, loading, file,
                    msgIndex, seen, runs, fails, breaks, clean, intact>>
    BY <1>4 DEF vars, tables, takers, loaders, history
  <2>2. TypeOK'
    BY <2>1 DEF TableInv, TypeOK
  <2>3. QED
    BY <2>1, <2>2 DEF TableInv, TakerInv, LoaderInv, KeysBelowNamed, Named, NamedKeysComeFirst
<1>5. QED
  BY <1>1, <1>2, <1>3, <1>4 DEF Next
-----------------------------------------------------------------------------
(* The inductive invariant holds throughout: it does at the start, and      *)
(* every step keeps it. (loadcreds.go, lookup.go, consumer.go)              *)
THEOREM InvariantHolds == Spec => []TableInv
  BY InitHolds, StepHolds, PTL DEF Spec

(* The tables, the programs and the counts keep to their types, for any    *)
(* takers, loaders and bounds.                                             *)
(* (loadcreds.go, consumer.go lookupRandomCredentials, lookup.go)          *)
THEOREM TypeCorrect == Spec => []TypeOK
<1>1. TableInv => TypeOK
  BY DEF TableInv
<1>2. QED
  BY <1>1, InvariantHolds, PTL

(* However many loaders run, together or one after another, and whatever   *)
(* fails or breaks off, the keys that have a name are 0, 1, ... without a  *)
(* gap, which the takers rely on when they count the keys and number them. *)
(* (write_message_to_redis of the loaders; getAllunused of the takers)     *)
THEOREM TheNamedKeysComeFirst == Spec => []NamedKeysComeFirst
<1>1. TableInv => NamedKeysComeFirst
  BY DEF TableInv
<1>2. QED
  BY <1>1, InvariantHolds, PTL
-----------------------------------------------------------------------------
(* What the steps do and leave alone                                       *)

(* What a write makes of the table.                                        *)
LEMMA MasterAfter ==
    ASSUME TypeOK, NEW k \in Keys, NEW name \in Names, NEW mark \in {"no", "yes"},
           Write(k, name, mark)
    PROVE  /\ \A j \in Keys : j # k => master'[j] = master[j]
           /\ master'[k].user = IF name = nobody THEN master[k].user ELSE name
           /\ master'[k].used = mark
           /\ master'[k] = [user |-> master'[k].user, used |-> mark]
<1>1. master \in [Keys -> Entry]
  BY DEF TypeOK
<1>2. master' = [master EXCEPT ![k] =
                    [user |-> IF name = nobody THEN @.user ELSE name, used |-> mark]]
  BY DEF Write, Written
<1>3. master'[k] = [user |-> IF name = nobody THEN master[k].user ELSE name, used |-> mark]
  BY <1>1, <1>2
<1>4. \A j \in Keys : j # k => master'[j] = master[j]
  BY <1>1, <1>2
<1>5. QED
  BY <1>3, <1>4

(* What a mark makes of it: the names stay.                                *)
LEMMA MarkAfter ==
    ASSUME TypeOK, NEW k \in Keys, NEW mark \in {"no", "yes"}, Write(k, nobody, mark)
    PROVE  /\ \A j \in Keys : j # k => master'[j] = master[j]
           /\ \A j \in Keys : master'[j].user = master[j].user
           /\ master'[k].used = mark
           /\ master'[k] = [user |-> master[k].user, used |-> mark]
<1>1. nobody \in Names
  BY DEF Names
<1>2. /\ \A j \in Keys : j # k => master'[j] = master[j]
      /\ master'[k].user = master[k].user
      /\ master'[k].used = mark
      /\ master'[k] = [user |-> master'[k].user, used |-> mark]
  BY <1>1, MasterAfter
<1>3. QED
  BY <1>2

(* A taker changes nothing but its own state, the table only when it marks *)
(* a key and the flag only when it starts.                                 *)
LEMMA TakerFrame ==
    ASSUME TableInv, NEW t \in Takers, TakerStep(t)
    PROVE  /\ UNCHANGED <<loading, file, msgIndex, seen, intact>>
           /\ breaks' \in {breaks, breaks + 1}
           /\ LookInVain(t) \/ ReadInVain(t) => breaks' = breaks + 1
           /\ \A q \in Takers : q # t => /\ at'[q] = at[q] /\ count'[q] = count[q]
                                         /\ next'[q] = next[q] /\ user'[q] = user[q]
                                         /\ selected'[q] = selected[q]
           /\ ~Mark(t) => UNCHANGED <<master, replica, stream, fails>>
           /\ ~Begin(t) /\ ~Open(t) => UNCHANGED clean
<1>1. UNCHANGED <<loading, file, msgIndex, seen, intact>>
  BY DEF TakerStep, Begin, Open, Start, LookAtFree, LookAtUsed, LookInVain, Read, ReadInVain,
         ReadingFails, Mark, Die, loaders, history
<1>2. ASSUME NEW q \in Takers, q # t
      PROVE  /\ at'[q] = at[q] /\ count'[q] = count[q] /\ next'[q] = next[q]
             /\ user'[q] = user[q] /\ selected'[q] = selected[q]
  BY <1>2 DEF TakerStep, Begin, Open, Start, LookAtFree, LookAtUsed, LookInVain, Read, ReadInVain,
              Take, Mark, Die, TableInv, TypeOK
<1>3. ~Mark(t) => UNCHANGED <<master, replica, stream, fails>>
  BY DEF TakerStep, Begin, Open, Start, LookAtFree, LookAtUsed, LookInVain, Read, ReadInVain,
         ReadingFails, Die, tables, history
<1>4. ~Begin(t) /\ ~Open(t) => UNCHANGED clean
  BY DEF TakerStep, LookAtFree, LookAtUsed, LookInVain, Read, ReadInVain, ReadingFails, Mark,
         Die, history
<1>5. LookInVain(t) \/ ReadInVain(t) => breaks' = breaks + 1
  BY DEF LookInVain, ReadInVain, ReadingFails
<1>6. breaks' \in {breaks, breaks + 1}
  BY <1>5 DEF TakerStep, Begin, Open, Start, LookAtFree, LookAtUsed, Read, Mark, Die, history
<1>7. QED
  BY <1>1, <1>2, <1>3, <1>4, <1>5, <1>6

(* A loader changes nothing but its own state and the tables.              *)
LEMMA LoaderFrame ==
    ASSUME TableInv, NEW l \in Loaders, LoaderStep(l)
    PROVE  /\ UNCHANGED <<at, count, next, selected, user>>
           /\ \A m \in Loaders : m # l => /\ loading'[m] = loading[m] /\ file'[m] = file[m]
                                          /\ msgIndex'[m] = msgIndex[m]
           /\ ~WriteFile(l) /\ ~MarkKey(l) => UNCHANGED <<master, replica, stream>>
           /\ ~Load(l) => loading[l] # "no" /\ UNCHANGED clean
           /\ ~Load(l) => \A m \in Loaders : m # l => intact'[m] = intact[m]
           /\ ~Load(l) => (intact'[l] => intact[l])
           /\ ReadBackInVain(l) => breaks' = breaks + 1
<1>1. UNCHANGED <<at, count, next, selected, user>>
  BY DEF LoaderStep, Load, WriteFile, ReadBack, ReadBackInVain, ReadingFails, ReadNothing,
         StartMarking, MarkKey, FinishLoad,
         FinishSamples, BreakOff, Stop, takers
<1>2. ASSUME NEW m \in Loaders, m # l
      PROVE  loading'[m] = loading[m] /\ file'[m] = file[m] /\ msgIndex'[m] = msgIndex[m]
  BY <1>2 DEF LoaderStep, Load, WriteFile, ReadBack, ReadBackInVain, ReadingFails, ReadNothing,
         StartMarking, MarkKey,
              FinishLoad, FinishSamples, BreakOff, Stop, TableInv, TypeOK
<1>3. ~WriteFile(l) /\ ~MarkKey(l) => UNCHANGED <<master, replica, stream>>
  BY DEF LoaderStep, Load, ReadBack, ReadBackInVain, ReadingFails, ReadNothing,
         StartMarking, FinishLoad, FinishSamples,
         BreakOff, Stop, tables
<1>4. ~Load(l) => loading[l] # "no" /\ UNCHANGED clean
  BY DEF LoaderStep, WriteFile, ReadBack, ReadBackInVain, ReadingFails, ReadNothing,
         StartMarking, MarkKey, FinishLoad,
         FinishSamples, BreakOff, Stop, history
<1>5. ASSUME ~Load(l)
      PROVE  (\A m \in Loaders : m # l => intact'[m] = intact[m]) /\ (intact'[l] => intact[l])
  <2>1. intact' = intact \/ intact' = [intact EXCEPT ![l] = FALSE]
    BY <1>5 DEF LoaderStep, WriteFile, FileRead, ReadBack, ReadBackInVain, ReadingFails, ReadNothing,
         StartMarking, MarkKey,
                FinishLoad, FinishSamples, BreakOff, Stop, history
  <2>2. intact \in [Loaders -> BOOLEAN]
    BY DEF TableInv, TypeOK
  <2>3. CASE intact' = intact
    BY <2>3
  <2>4. CASE intact' = [intact EXCEPT ![l] = FALSE]
    <3>1. intact'[l] = FALSE
      BY <2>2, <2>4
    <3>2. \A m \in Loaders : m # l => intact'[m] = intact[m]
      BY <2>2, <2>4
    <3>3. QED
      BY <3>1, <3>2
  <2>5. QED
    BY <2>1, <2>3, <2>4
<1>6. ReadBackInVain(l) => breaks' = breaks + 1
  BY DEF ReadBackInVain, ReadingFails
<1>7. QED
  BY <1>1, <1>2, <1>3, <1>4, <1>5, <1>6

(* The tables stay, or the master is written to, or the replica catches up.*)
LEMMA TablesMove ==
    ASSUME TableInv, [Next]_vars
    PROVE  \/ UNCHANGED <<master, replica, stream>>
           \/ Replicate
           \/ \E k \in Keys, name \in Names, mark \in {"no", "yes"} : Write(k, name, mark)
<1> DEFINE Writing == \E k \in Keys, name \in Names, mark \in {"no", "yes"} : Write(k, name, mark)
<1>1. ASSUME NEW t \in Takers, TakerStep(t)
      PROVE  UNCHANGED <<master, replica, stream>> \/ Writing
  <2>1. nobody \in Names /\ selected[t] \in Keys
    BY TakerFacts DEF Names
  <2>2. CASE Mark(t)
    BY <2>1, <2>2 DEF Mark, MarkedKey, WriteFails, tables
  <2>3. QED
    BY <1>1, <2>2, TakerFrame
<1>2. ASSUME NEW l \in Loaders, LoaderStep(l)
      PROVE  UNCHANGED <<master, replica, stream>> \/ Writing
  <2>1. CASE WriteFile(l)
    <3>1. msgIndex[l] \in Keys
      BY <2>1, LoaderFacts DEF WriteFile, Keys
    <3>2. QED
      BY <2>1, <3>1 DEF WriteFile, WriteFails, tables
  <2>2. CASE MarkKey(l)
    <3>1. file[l] \in Keys
      BY <2>2, LoaderFacts DEF MarkKey, MarkingDone, Keys
    <3>2. FinalMark[l] \in {"no", "yes"} /\ nobody \in Names
      BY <2>2, LoaderFacts, FinalMarkAssumption DEF MarkKey, Names
    <3>3. QED
      BY <2>2, <3>1, <3>2 DEF MarkKey, WriteFails, tables
  <2>3. QED
    BY <1>2, <2>1, <2>2, LoaderFrame
<1>3. QED
  BY <1>1, <1>2 DEF Next, vars, tables

(* Nothing that went wrong is forgotten.                                   *)
LEMMA FlagsStay ==
    ASSUME TableInv, [Next]_vars
    PROVE  /\ clean' => clean
           /\ fails' = 0 => fails = 0
           /\ breaks' = 0 => breaks = 0
<1>1. fails \in Nat /\ breaks \in Nat /\ clean \in BOOLEAN
  BY NumbersAssumption DEF TableInv, TypeOK
<1>2. fails' \in {fails, fails + 1} /\ breaks' \in {breaks, breaks + 1}
  <2>1. ASSUME NEW t \in Takers, TakerStep(t)
        PROVE  fails' \in {fails, fails + 1} /\ breaks' \in {breaks, breaks + 1}
    BY <2>1, TakerFrame DEF Mark, WriteFails
  <2>2. ASSUME NEW l \in Loaders, LoaderStep(l)
        PROVE  fails' \in {fails, fails + 1} /\ breaks' \in {breaks, breaks + 1}
    BY <2>2 DEF LoaderStep, Load, WriteFile, FileRead, WriteFails, ReadBack, ReadBackInVain,
                ReadingFails, ReadNothing, StartMarking, MarkKey, FinishLoad, FinishSamples, BreakOff, Stop, history
  <2>3. QED
    BY <2>1, <2>2 DEF Next, Replicate, vars, history
<1>3. clean' => clean
  <2>1. ASSUME NEW t \in Takers, TakerStep(t) PROVE clean' => clean
    <3>1. CASE Begin(t) \/ Open(t)
      BY <3>1 DEF Begin, Open, Start
    <3>2. CASE ~Begin(t) /\ ~Open(t)
      BY <2>1, <3>2, TakerFrame
    <3>3. QED
      BY <3>1, <3>2
  <2>2. ASSUME NEW l \in Loaders, LoaderStep(l) PROVE clean' => clean
    <3>1. CASE Load(l)
      BY <3>1 DEF Load
    <3>2. CASE ~Load(l)
      BY <2>2, <3>2, LoaderFrame
    <3>3. QED
      BY <3>1, <3>2
  <2>3. Replicate \/ UNCHANGED vars => clean' = clean
    BY DEF Replicate, vars, history
  <2>4. QED
    BY <2>1, <2>2, <2>3 DEF Next
<1>4. QED
  BY <1>1, <1>2, <1>3
-----------------------------------------------------------------------------
(* The replica follows the master                                          *)

(* There are tables that lead from the replica to the master, one write of *)
(* the stream after the other.                                             *)
Follows ==
    \E h \in [0..Len(stream) -> [Keys -> Entry]] :
        /\ h[0] = replica /\ h[Len(stream)] = master
        /\ \A i \in 1..Len(stream) : h[i] = Written(h[i - 1], stream[i])

LEMMA FollowsInductive == TableInv /\ Follows /\ [Next]_vars => Follows'
<1> SUFFICES ASSUME TableInv, Follows, [Next]_vars PROVE Follows'
  OBVIOUS
<1>1. /\ master \in [Keys -> Entry] /\ replica \in [Keys -> Entry]
      /\ stream \in Seq(Writes) /\ Len(stream) \in Nat
  BY DEF TableInv, TypeOK
<1>2. PICK h \in [0..Len(stream) -> [Keys -> Entry]] :
          /\ h[0] = replica /\ h[Len(stream)] = master
          /\ \A i \in 1..Len(stream) : h[i] = Written(h[i - 1], stream[i])
  BY DEF Follows
<1>3. CASE UNCHANGED <<master, replica, stream>>
  BY <1>2, <1>3 DEF Follows
<1>4. CASE Replicate
  <2>1. /\ stream # <<>> /\ stream' = Tail(stream) /\ master' = master
        /\ replica' = Written(replica, Head(stream))
    BY <1>4 DEF Replicate
  <2>2. /\ Len(stream) # 0 /\ Len(stream') = Len(stream) - 1
        /\ Head(stream) = stream[1]
        /\ \A i \in 1..Len(stream') : stream'[i] = stream[i + 1]
    BY <1>1, <2>1
  <2> DEFINE g == [i \in 0..Len(stream') |-> h[i + 1]]
  <2>3. /\ g \in [0..Len(stream') -> [Keys -> Entry]]
        /\ \A i \in 0..Len(stream') : g[i] = h[i + 1]
    BY <1>1, <2>2
  <2> HIDE DEF g
  <2>4. g[0] = replica'
    <3>1. h[1] = Written(h[0], stream[1])
      BY <1>1, <1>2, <2>2
    <3>2. g[0] = h[1]
      BY <1>1, <2>2, <2>3
    <3>3. QED
      BY <1>2, <2>1, <2>2, <3>1, <3>2
  <2>5. g[Len(stream')] = master'
    BY <1>1, <1>2, <2>1, <2>2, <2>3
  <2>6. \A i \in 1..Len(stream') : g[i] = Written(g[i - 1], stream'[i])
    <3> SUFFICES ASSUME NEW i \in 1..Len(stream') PROVE g[i] = Written(g[i - 1], stream'[i])
      OBVIOUS
    <3>1. i + 1 \in 1..Len(stream) /\ i \in 0..Len(stream') /\ i - 1 \in 0..Len(stream')
          /\ (i + 1) - 1 = i /\ (i - 1) + 1 = i
      BY <1>1, <2>2
    <3>2. h[i + 1] = Written(h[i], stream[i + 1])
      BY <1>2, <3>1
    <3>3. g[i] = h[i + 1] /\ g[i - 1] = h[i] /\ stream'[i] = stream[i + 1]
      BY <2>2, <2>3, <3>1
    <3>4. QED
      BY <3>2, <3>3
  <2>7. QED
    BY <2>3, <2>4, <2>5, <2>6 DEF Follows
<1>5. ASSUME NEW k \in Keys, NEW name \in Names, NEW mark \in {"no", "yes"},
             Write(k, name, mark)
      PROVE  Follows'
  <2> DEFINE w == [key |-> k, name |-> name, mark |-> mark]
  <2>1. w \in Writes
    BY DEF Writes
  <2>2. master' = Written(master, w) /\ stream' = Append(stream, w) /\ replica' = replica
    BY <1>5 DEF Write
  <2> HIDE DEF w
  <2>3. Written(master, w) \in [Keys -> Entry]
    BY <1>1, <2>1, WrittenType
  <2>4. /\ Len(stream') = Len(stream) + 1 /\ stream'[Len(stream) + 1] = w
        /\ \A i \in 1..Len(stream) : stream'[i] = stream[i]
    BY <1>1, <2>1, <2>2
  <2> DEFINE g == [i \in 0..Len(stream') |-> IF i = Len(stream) + 1 THEN master' ELSE h[i]]
  <2>5. /\ g \in [0..Len(stream') -> [Keys -> Entry]]
        /\ \A i \in 0..Len(stream) : g[i] = h[i]
        /\ g[Len(stream')] = master'
    BY <1>1, <2>2, <2>3, <2>4
  <2> HIDE DEF g
  <2>6. \A i \in 1..Len(stream') : g[i] = Written(g[i - 1], stream'[i])
    <3> SUFFICES ASSUME NEW i \in 1..Len(stream') PROVE g[i] = Written(g[i - 1], stream'[i])
      OBVIOUS
    <3>1. CASE i = Len(stream')
      <4>1. g[i] = master' /\ stream'[i] = w /\ i - 1 = Len(stream)
        BY <1>1, <2>4, <2>5, <3>1
      <4>2. g[i - 1] = master
        BY <1>1, <1>2, <2>5, <4>1
      <4>3. QED
        BY <2>2, <4>1, <4>2
    <3>2. CASE i # Len(stream')
      <4>1. i \in 1..Len(stream) /\ i \in 0..Len(stream) /\ i - 1 \in 0..Len(stream)
        BY <1>1, <2>4, <3>2
      <4>2. QED
        BY <1>2, <2>4, <2>5, <4>1
    <3>3. QED
      BY <3>1, <3>2
  <2>7. g[0] = replica'
    BY <1>1, <1>2, <2>2, <2>5
  <2>8. QED
    BY <2>5, <2>6, <2>7 DEF Follows
<1>6. QED
  BY <1>3, <1>4, <1>5, TablesMove

LEMMA FollowsInit == Init => Follows
<1> SUFFICES ASSUME Init PROVE Follows
  OBVIOUS
<1>1. master \in [Keys -> Entry] /\ replica = master /\ Len(stream) = 0
  BY InitHolds DEF Init, TableInv, TypeOK
<1> DEFINE h == [i \in 0..Len(stream) |-> master]
<1>2. h \in [0..Len(stream) -> [Keys -> Entry]] /\ h[0] = replica /\ h[Len(stream)] = master
  BY <1>1
<1>3. \A i \in 1..Len(stream) : h[i] = Written(h[i - 1], stream[i])
  BY <1>1
<1> HIDE DEF h
<1>4. QED
  BY <1>2, <1>3 DEF Follows

(* A replica that has caught up is the master.                             *)
LEMMA CaughtUp == Follows /\ stream = <<>> => replica = master
  BY DEF Follows

-----------------------------------------------------------------------------
(* Clean programs have the table to themselves                             *)

Busy(t) == at[t] \in {"scan", "mark"}
Running(l) == loading[l] # "no"

(* While no program has overlapped another, a loader runs alone and with   *)
(* all takers down, one taker at a time chooses and marks, and while it    *)
(* does the replica has caught up.                                         *)
CleanInv ==
    clean =>
        /\ \A l \in Loaders : Running(l) =>
              /\ \A t \in Takers : at[t] = "down"
              /\ \A m \in Loaders : Running(m) => m = l
        /\ \A t \in Takers : Busy(t) =>
              /\ stream = <<>>
              /\ \A l \in Loaders : ~Running(l)
              /\ \A q \in Takers : Busy(q) => q = t

LEMMA CleanInit == Init => CleanInv
  BY DEF Init, CleanInv, Busy, Running

LEMMA CleanInductive == TableInv /\ CleanInv /\ [Next]_vars => CleanInv'
<1> SUFFICES ASSUME TableInv, CleanInv, [Next]_vars, clean' PROVE CleanInv'
  BY DEF CleanInv
<1>1. /\ \A l \in Loaders : Running(l) =>
            /\ \A t \in Takers : at[t] = "down"
            /\ \A m \in Loaders : Running(m) => m = l
      /\ \A t \in Takers : Busy(t) =>
            /\ stream = <<>>
            /\ \A l \in Loaders : ~Running(l)
            /\ \A q \in Takers : Busy(q) => q = t
  BY FlagsStay DEF CleanInv
<1>2. CASE Replicate
  BY <1>1, <1>2 DEF Replicate, takers, loaders, CleanInv, Busy, Running
<1>3. ASSUME NEW t \in Takers, TakerStep(t) PROVE CleanInv'
  <2>1. /\ \A l \in Loaders : Running(l)' <=> Running(l)
        /\ \A q \in Takers : q # t => at'[q] = at[q] /\ (Busy(q)' <=> Busy(q))
    BY <1>3, TakerFrame DEF Running, Busy
  <2>2. at \in [Takers -> {"down", "scan", "mark", "on"}]
    BY DEF TableInv, TypeOK
  <2>3. CASE Begin(t) \/ Open(t)
    <3>1. /\ Alone /\ \A q \in Takers : ~Busy(q)
          /\ stream' = stream
      BY <2>3 DEF Begin, Open, Start, Busy, tables
    <3>2. \A l \in Loaders : ~Running(l)
      BY <3>1 DEF Alone, Running
    <3>3. stream' = <<>>
      BY <3>1 DEF Alone
    <3>4. QED
      BY <2>1, <3>1, <3>2, <3>3 DEF CleanInv
  <2>4. CASE Mark(t)
    <3>1. Busy(t) /\ at' = [at EXCEPT ![t] = "on"]
      BY <2>4 DEF Mark, Busy
    <3>2. ~Busy(t)' /\ \A l \in Loaders : ~Running(l)
      BY <1>1, <2>2, <3>1 DEF Busy
    <3>3. \A q \in Takers : ~Busy(q)'
      BY <1>1, <2>1, <3>1, <3>2
    <3>4. QED
      BY <2>1, <3>2, <3>3 DEF CleanInv
  <2>5. CASE Die(t)
    <3>1. at'[t] = "down" /\ stream' = stream
      BY <2>2, <2>5 DEF Die, tables
    <3>2. ~Busy(t)'
      BY <3>1 DEF Busy
    <3>3. QED
      BY <1>1, <2>1, <3>1, <3>2 DEF CleanInv
  <2>6. CASE LookAtFree(t) \/ LookAtUsed(t) \/ LookInVain(t) \/ Read(t) \/ ReadInVain(t)
    <3>1. Busy(t) /\ stream' = stream
      BY <2>6 DEF LookAtFree, LookAtUsed, LookInVain, Read, ReadInVain, ReadingFails, Busy, tables
    <3>2. \A l \in Loaders : ~Running(l)'
      BY <1>1, <2>1, <3>1
    <3>3. \A q \in Takers : Busy(q)' => q = t
      BY <1>1, <2>1, <3>1
    <3>4. QED
      BY <1>1, <3>1, <3>2, <3>3 DEF CleanInv
  <2>7. QED
    BY <1>3, <2>3, <2>4, <2>5, <2>6 DEF TakerStep
<1>4. ASSUME NEW l \in Loaders, LoaderStep(l) PROVE CleanInv'
  <2>1. /\ at' = at
        /\ \A m \in Loaders : m # l => (Running(m)' <=> Running(m))
    BY <1>4, LoaderFrame DEF Running
  <2>2. CASE Load(l)
    <3>1. /\ \A t \in Takers : at[t] = "down"
          /\ \A m \in Loaders : ~Running(m)
      BY <2>2 DEF Load, Alone, Running
    <3>2. QED
      BY <2>1, <3>1 DEF CleanInv, Busy
  <2>3. CASE ~Load(l)
    <3>1. Running(l)
      BY <1>4, <2>3, LoaderFrame DEF Running
    <3>2. QED
      BY <1>1, <2>1, <3>1 DEF CleanInv, Busy
  <2>4. QED
    BY <2>2, <2>3
<1>5. CASE UNCHANGED vars
  <2>1. UNCHANGED <<at, loading, stream>>
    BY <1>5 DEF vars, tables, takers, loaders
  <2>2. QED
    BY <1>1, <2>1 DEF CleanInv, Busy, Running
<1>6. QED
  BY <1>2, <1>3, <1>4, <1>5 DEF Next

(* So a taker that chooses sees the master.                                *)
LEMMA ChooserSeesMaster ==
    ASSUME CleanInv, Follows, clean, NEW t \in Takers, Busy(t)
    PROVE  /\ replica = master
           /\ \A l \in Loaders : ~Running(l)
           /\ \A q \in Takers : Busy(q) => q = t
  BY CaughtUp DEF CleanInv

(* And nobody is about while a loader runs.                                *)
LEMMA LoaderIsAlone ==
    ASSUME TableInv, CleanInv, [Next]_vars, clean', NEW l \in Loaders, LoaderStep(l)
    PROVE  clean /\ \A t \in Takers : at[t] = "down" /\ at'[t] = "down"
<1>1. clean /\ at' = at
  BY FlagsStay, LoaderFrame
<1>2. CASE Load(l)
  BY <1>1, <1>2 DEF Load
<1>3. CASE ~Load(l)
  BY <1>1, <1>3, LoaderFrame DEF CleanInv, Running
<1>4. QED
  BY <1>2, <1>3

-----------------------------------------------------------------------------
(* Each user has one place                                                 *)

(* The loaders that have a user's file have it at the same place: they     *)
(* read one directory in one order, and write.go's samples are other users.*)
FixedPlaces ==
    \A l, m \in Loaders : \A i \in 1..Len(List[l]), j \in 1..Len(List[m]) :
        List[l][i] = List[m][j] => i = j

InPlace(k) == \E l \in Loaders : k + 1 \in 1..Len(List[l]) /\ master[k].user = List[l][k + 1]

(* While no read and no write has failed, a loader's key keeps up with its *)
(* files, and every entry is where a list has it.                          *)
PlacesInv ==
    fails = 0 =>
        /\ \A k \in Keys : Named(master, k) => InPlace(k)
        /\ \A l \in Loaders :
             /\ loading[l] \in {"write", "look"} => msgIndex[l] = file[l]
             /\ loading[l] = "mark" => msgIndex[l] = Len(List[l])

LEMMA PlacesInit == Init => PlacesInv
<1> SUFFICES ASSUME Init PROVE PlacesInv
  OBVIOUS
<1>1. ASSUME NEW k \in Keys, Named(master, k) PROVE InPlace(k)
  <2>1. Absent.user = nobody
    BY DEF Absent
  <2>2. PICK l \in Loaders : master = LeftBy(l)
    BY <1>1, <2>1 DEF Init, Named
  <2>3. k < Len(List[l]) /\ master[k].user = List[l][k + 1]
    BY <1>1, <2>1, <2>2 DEF LeftBy, Named
  <2>4. k + 1 \in 1..Len(List[l])
    BY <2>3, ListFacts DEF Keys
  <2>5. QED
    BY <2>3, <2>4 DEF InPlace
<1>2. QED
  BY <1>1 DEF Init, PlacesInv

LEMMA PlacesInductive == TableInv /\ PlacesInv /\ [Next]_vars => PlacesInv'
<1> SUFFICES ASSUME TableInv, PlacesInv, [Next]_vars, fails' = 0 PROVE PlacesInv'
  BY DEF PlacesInv
<1>1. /\ fails = 0
      /\ \A k \in Keys : Named(master, k) => InPlace(k)
      /\ \A l \in Loaders :
           /\ loading[l] \in {"write", "look"} => msgIndex[l] = file[l]
           /\ loading[l] = "mark" => msgIndex[l] = Len(List[l])
  BY FlagsStay DEF PlacesInv
<1>2. ASSUME NEW k \in Keys, master'[k].user = master[k].user, Named(master', k)
      PROVE  InPlace(k)'
  BY <1>1, <1>2 DEF Named, InPlace
<1>3. CASE Replicate
  BY <1>1, <1>2, <1>3 DEF Replicate, loaders, PlacesInv
<1>4. ASSUME NEW t \in Takers, TakerStep(t) PROVE PlacesInv'
  <2>1. \A k \in Keys : master'[k].user = master[k].user
    <3>1. CASE Mark(t) /\ ~WriteFails
      <4>1. Write(selected[t], nobody, "yes") /\ selected[t] \in Keys /\ TypeOK
        BY <3>1, TakerFacts DEF Mark, MarkedKey, TableInv
      <4>2. QED
        BY <4>1, MarkAfter
    <3>2. CASE Mark(t) /\ WriteFails
      BY <3>2 DEF WriteFails, tables
    <3>3. CASE ~Mark(t)
      BY <1>4, <3>3, TakerFrame
    <3>4. QED
      BY <3>1, <3>2, <3>3
  <2>2. UNCHANGED <<loading, msgIndex, file>>
    BY <1>4, TakerFrame
  <2>3. QED
    BY <1>1, <1>2, <2>1, <2>2 DEF PlacesInv
<1>5. ASSUME NEW l \in Loaders, LoaderStep(l) PROVE PlacesInv'
  <2>1. \A m \in Loaders : m # l => /\ loading'[m] = loading[m] /\ file'[m] = file[m]
                                    /\ msgIndex'[m] = msgIndex[m]
    BY <1>5, LoaderFrame
  <2>2. /\ loading \in [Loaders -> {"no", "write", "look", "mark"}]
        /\ file \in [Loaders -> 0..Size] /\ msgIndex \in [Loaders -> 0..Size]
    BY DEF TableInv, TypeOK
  <2>3. CASE WriteFile(l)
    <3>1. /\ loading[l] = "write" /\ loading'[l] = "look"
          /\ file[l] < Len(List[l]) /\ file'[l] = file[l] + 1 /\ msgIndex[l] = file[l]
      BY <1>1, <2>2, <2>3 DEF WriteFile
    <3>2. fails \in Nat
      BY <1>1
    <3>3. PICK name \in Names : FileRead(l, name) /\ Write(msgIndex[l], name, "no")
                                /\ msgIndex' = [msgIndex EXCEPT ![l] = NextKey(l)]
      BY <1>1, <2>3, <3>2 DEF WriteFile, WriteFails
    <3>4. name = List[l][file[l] + 1]
      BY <1>1, <3>2, <3>3 DEF FileRead
    <3>5. msgIndex[l] \in Keys /\ msgIndex[l] + 1 \in 1..Len(List[l])
      BY <3>1, LoaderFacts DEF Keys
    <3>6. name # nobody
      BY <3>1, <3>4, <3>5, ListFacts, NobodyIsNoUser
    <3>7. /\ \A k \in Keys : k # msgIndex[l] => master'[k] = master[k]
          /\ master'[msgIndex[l]].user = List[l][msgIndex[l] + 1]
      <4>1. TypeOK /\ Write(msgIndex[l], name, "no")
        BY <3>3 DEF TableInv
      <4>2. /\ \A k \in Keys : k # msgIndex[l] => master'[k] = master[k]
            /\ master'[msgIndex[l]].user = IF name = nobody THEN master[msgIndex[l]].user ELSE name
        BY <3>5, <4>1, MasterAfter
      <4>3. QED
        BY <3>1, <3>4, <3>6, <4>2
    <3>8. \A k \in Keys : Named(master', k) => InPlace(k)'
      BY <1>2, <3>5, <3>7 DEF InPlace
    <3>9. msgIndex'[l] = file'[l]
      BY <2>2, <3>1, <3>3 DEF NextKey
    <3>10. QED
      BY <1>1, <2>1, <3>1, <3>8, <3>9 DEF PlacesInv
  <2>4. CASE MarkKey(l)
    <3>1. Write(file[l], nobody, FinalMark[l])
      BY <1>1, <2>4 DEF MarkKey, WriteFails
    <3>2. file[l] \in Keys /\ FinalMark[l] \in {"no", "yes"} /\ TypeOK
      BY <2>4, LoaderFacts, FinalMarkAssumption DEF MarkKey, MarkingDone, Keys, TableInv
    <3>3. \A k \in Keys : master'[k].user = master[k].user
      BY <3>1, <3>2, MarkAfter
    <3>4. UNCHANGED <<loading, msgIndex>> /\ loading[l] = "mark"
      BY <2>4 DEF MarkKey
    <3>5. QED
      BY <1>1, <1>2, <2>1, <3>3, <3>4 DEF PlacesInv
  <2>5. CASE ~WriteFile(l) /\ ~MarkKey(l)
    <3>1. \A k \in Keys : Named(master', k) => InPlace(k)'
      BY <1>2, <1>5, <2>5, LoaderFrame
    <3>2. /\ loading'[l] \in {"write", "look"} => msgIndex'[l] = file'[l]
          /\ loading'[l] = "mark" => msgIndex'[l] = Len(List[l])
      <4>1. CASE Load(l)
        BY <2>2, <4>1, LoaderFacts DEF Load
      <4>2. CASE ReadBack(l) \/ ReadBackInVain(l) \/ ReadNothing(l)
        BY <1>1, <2>2, <4>2 DEF ReadBack, ReadBackInVain, ReadNothing
      <4>3. CASE StartMarking(l)
        BY <1>1, <2>2, <4>3 DEF StartMarking
      <4>4. CASE FinishLoad(l) \/ FinishSamples(l) \/ BreakOff(l)
        BY <2>2, <4>4 DEF FinishLoad, FinishSamples, BreakOff, Stop
      <4>5. QED
        BY <1>5, <2>5, <4>1, <4>2, <4>3, <4>4 DEF LoaderStep
    <3>3. QED
      BY <1>1, <2>1, <3>1, <3>2 DEF PlacesInv
  <2>6. QED
    BY <2>3, <2>4, <2>5
<1>6. CASE UNCHANGED vars
  BY <1>1, <1>2, <1>6 DEF vars, tables, loaders, PlacesInv
<1>7. QED
  BY <1>3, <1>4, <1>5, <1>6 DEF Next

LEMMA OnePlace ==
    ASSUME FixedPlaces, PlacesInv, fails = 0, NEW j \in Keys, NEW k \in Keys,
           Named(master, j), master[j].user = master[k].user
    PROVE  j = k
<1>1. InPlace(j) /\ InPlace(k)
  BY DEF PlacesInv, Named
<1>2. PICK l \in Loaders : j + 1 \in 1..Len(List[l]) /\ master[j].user = List[l][j + 1]
  BY <1>1 DEF InPlace
<1>3. PICK m \in Loaders : k + 1 \in 1..Len(List[m]) /\ master[k].user = List[m][k + 1]
  BY <1>1 DEF InPlace
<1>4. j + 1 = k + 1
  BY <1>2, <1>3 DEF FixedPlaces
<1>5. QED
  BY <1>4, NumbersAssumption DEF Keys

(* However many loaders run, together or one after another, no user comes  *)
(* to have two entries as long as every file is read and written, where    *)
(* the loaders agree on the order of the files, as those that read one     *)
(* directory do. (getUserCredentials and write_message_to_redis)           *)
THEOREM UsersHaveOneKey == FixedPlaces => (Spec => []OneKeyPerUser)
<1> SUFFICES ASSUME FixedPlaces PROVE Spec => []OneKeyPerUser
  OBVIOUS
<1>1. PlacesInv => OneKeyPerUser
  <2> SUFFICES ASSUME PlacesInv, fails = 0, NEW j \in Keys, NEW k \in Keys,
                      j # k, master[j].user \in Users, master[j].user = master[k].user
               PROVE  FALSE
    BY DEF OneKeyPerUser
  <2>1. Named(master, j)
    BY NobodyIsNoUser DEF Named
  <2>2. QED
    BY <2>1, OnePlace
<1>2. QED
  BY <1>1, InvariantHolds, PlacesInit, PlacesInductive, PTL DEF Spec

-----------------------------------------------------------------------------
(* A credential in hand is marked                                          *)

(* While nothing is disturbed, a taker has no name before it has chosen,   *)
(* then the name of the key it is about to mark, and then that of a key    *)
(* that is marked.                                                         *)
HoldInv ==
    Undisturbed =>
        \A t \in Takers :
            /\ at[t] \in {"down", "scan"} => user[t] = nobody
            /\ at[t] = "mark" /\ user[t] # nobody => master[selected[t]].user = user[t]
            /\ at[t] = "on" /\ user[t] # nobody =>
                  master[selected[t]] = [user |-> user[t], used |-> "yes"]

LEMMA HoldInit == Init => HoldInv
  BY DEF Init, HoldInv

LEMMA UndisturbedStays ==
    ASSUME TableInv, [Next]_vars, Undisturbed' PROVE Undisturbed
  BY FlagsStay DEF Undisturbed

LEMMA HoldInductive ==
    TableInv /\ Follows /\ CleanInv /\ HoldInv /\ [Next]_vars => HoldInv'
<1> SUFFICES ASSUME TableInv, Follows, CleanInv, HoldInv, [Next]_vars, Undisturbed'
             PROVE  HoldInv'
  BY DEF HoldInv
<1>1. Undisturbed /\ clean /\ fails \in Nat
  BY UndisturbedStays, NumbersAssumption DEF Undisturbed, TableInv, TypeOK
<1>2. \A t \in Takers :
         /\ at[t] \in {"down", "scan"} => user[t] = nobody
         /\ at[t] = "mark" /\ user[t] # nobody => master[selected[t]].user = user[t]
         /\ at[t] = "on" /\ user[t] # nobody =>
               master[selected[t]] = [user |-> user[t], used |-> "yes"]
  BY <1>1 DEF HoldInv
<1>3. CASE Replicate
  BY <1>2, <1>3 DEF Replicate, takers, HoldInv
<1>4. ASSUME NEW t \in Takers, TakerStep(t) PROVE HoldInv'
  <2>1. \A q \in Takers : q # t => /\ at'[q] = at[q] /\ user'[q] = user[q]
                                   /\ selected'[q] = selected[q]
    BY <1>4, TakerFrame
  <2>2. /\ at \in [Takers -> {"down", "scan", "mark", "on"}]
        /\ user \in [Takers -> Names] /\ selected \in [Takers -> Keys]
    BY DEF TableInv, TypeOK
  <2>3. CASE Mark(t)
    <3>1. Write(selected[t], nobody, "yes")
      BY <1>1, <2>3 DEF Mark, MarkedKey, WriteFails, Undisturbed
    <3>2. selected[t] \in Keys /\ TypeOK
      BY <2>2 DEF TableInv
    <3>3. /\ \A j \in Keys : j # selected[t] => master'[j] = master[j]
          /\ master'[selected[t]] = [user |-> master[selected[t]].user, used |-> "yes"]
      BY <3>1, <3>2, MarkAfter
    <3>4. /\ at[t] = "mark" /\ at'[t] = "on"
          /\ UNCHANGED <<user, selected>>
      BY <2>2, <2>3 DEF Mark
    <3>5. ASSUME NEW q \in Takers, q # t, at[q] = "on", user[q] # nobody
          PROVE  master'[selected[q]] = [user |-> user[q], used |-> "yes"]
      <4>1. master[selected[q]] = [user |-> user[q], used |-> "yes"] /\ selected[q] \in Keys
        BY <1>2, <2>2, <3>5
      <4>2. CASE selected[q] = selected[t]
        <5>1. master[selected[t]].user = user[q]
          BY <4>1, <4>2
        <5>2. QED
          BY <3>3, <4>2, <5>1
      <4>3. CASE selected[q] # selected[t]
        BY <3>3, <4>1, <4>3
      <4>4. QED
        BY <4>2, <4>3
    <3>6. ASSUME NEW q \in Takers, q # t
          PROVE  at[q] # "mark"
      BY <1>1, <3>4, <3>6, ChooserSeesMaster DEF Busy
    <3>7. user[t] # nobody => master'[selected[t]] = [user |-> user[t], used |-> "yes"]
      BY <1>2, <3>3, <3>4
    <3>8. QED
      BY <1>2, <2>1, <3>4, <3>5, <3>6, <3>7 DEF HoldInv
  <2>4. CASE ~Mark(t)
    <3>1. master' = master
      BY <1>4, <2>4, TakerFrame
    <3>2. /\ at'[t] \in {"down", "scan"} => user'[t] = nobody
          /\ at'[t] = "mark" /\ user'[t] # nobody => master[selected'[t]].user = user'[t]
          /\ at'[t] = "on" /\ user'[t] # nobody =>
                master[selected'[t]] = [user |-> user'[t], used |-> "yes"]
      <4>1. CASE at[t] = "scan" /\ Take(t)
        <5>1. replica = master
          BY <1>1, <4>1, ChooserSeesMaster DEF Busy
        <5>2. at'[t] = "mark" /\ selected'[t] = next[t] /\ user'[t] = replica[next[t]].user
          BY <2>2, <4>1 DEF Take
        <5>3. QED
          BY <5>1, <5>2
      <4>2. CASE at[t] \in {"down", "scan"} /\ at'[t] # "down" /\ UNCHANGED user
        BY <1>2, <4>2
      <4>3. CASE Die(t)
        BY <2>2, <4>3 DEF Die
      <4>4. \/ at[t] = "scan" /\ Take(t)
            \/ at[t] \in {"down", "scan"} /\ at'[t] # "down" /\ UNCHANGED user
            \/ Die(t)
            \/ LookInVain(t)
        BY <1>4, <2>2, <2>4 DEF TakerStep, Begin, Open, Start, LookAtFree, LookAtUsed, Read, ReadInVain
      <4>5. CASE LookInVain(t)
        BY <2>2, <4>5 DEF LookInVain
      <4>6. QED
        BY <4>1, <4>2, <4>3, <4>4, <4>5
    <3>3. QED
      BY <1>2, <2>1, <3>1, <3>2 DEF HoldInv
  <2>5. QED
    BY <2>3, <2>4
<1>5. ASSUME NEW l \in Loaders, LoaderStep(l) PROVE HoldInv'
  <2>1. \A t \in Takers : at[t] = "down" /\ at'[t] = "down"
    BY <1>5, LoaderIsAlone DEF Undisturbed
  <2>2. UNCHANGED user
    BY <1>5, LoaderFrame
  <2>3. QED
    BY <1>2, <2>1, <2>2 DEF HoldInv
<1>6. CASE UNCHANGED vars
  BY <1>2, <1>6 DEF vars, tables, takers, HoldInv
<1>7. QED
  BY <1>3, <1>4, <1>5, <1>6 DEF Next

(* Takers that come one after another, on a table nobody is loading and a  *)
(* replica that has caught up, keep what they took: the entry is theirs    *)
(* and marked until a loader runs again, however many takers come and die. *)
(* (updateCredentialParameter of consumer.go and lookup.go; update.go)     *)
THEOREM HeldCredentialsAreMarked == Spec => []HeldIsMarked
<1>1. HoldInv => HeldIsMarked
  BY DEF HoldInv, HeldIsMarked, On
<1>2. Init => TableInv /\ Follows /\ CleanInv /\ HoldInv
  BY InitHolds, FollowsInit, CleanInit, HoldInit
<1>3. TableInv /\ Follows /\ CleanInv /\ HoldInv /\ [Next]_vars
        => (TableInv /\ Follows /\ CleanInv /\ HoldInv)'
  BY StepHolds, FollowsInductive, CleanInductive, HoldInductive
<1>4. QED
  BY <1>1, <1>2, <1>3, PTL DEF Spec

-----------------------------------------------------------------------------
(* A load leaves its list                                                  *)

(* A loader whose run is intact runs alone, and has put the credentials of *)
(* its files so far under the first keys, in their order; if no taker was  *)
(* about they have the mark it left them with.                             *)
LoadInv ==
    \A l \in Loaders : intact[l] /\ Running(l) =>
        /\ \A m \in Loaders : Running(m) => m = l
        /\ loading[l] \in {"write", "look"} =>
              /\ msgIndex[l] = file[l]
              /\ \A i \in 1..file[l] :
                    master[i - 1].user = List[l][i] /\ (clean => master[i - 1].used = "no")
        /\ loading[l] = "mark" =>
              \A i \in 1..Len(List[l]) :
                    /\ master[i - 1].user = List[l][i]
                    /\ clean => master[i - 1].used = IF i <= file[l] THEN FinalMark[l] ELSE "no"

LEMMA LoadInit == Init => LoadInv
  BY DEF Init, LoadInv

(* A step that leaves the loader and the names alone, and the marks too    *)
(* while programs are clean, leaves what it has put in place.              *)
LEMMA LoadKept ==
    ASSUME TableInv, [Next]_vars, NEW l \in Loaders,
           LoadInv, intact[l], Running(l),
           UNCHANGED <<loading, file, msgIndex>>,
           \A k \in Keys : master'[k].user = master[k].user,
           clean' => \A k \in Keys : master'[k].used = master[k].used
    PROVE  /\ \A m \in Loaders : Running(m)' => m = l
           /\ loading'[l] \in {"write", "look"} =>
                 /\ msgIndex'[l] = file'[l]
                 /\ \A i \in 1..file'[l] :
                       master'[i - 1].user = List[l][i] /\ (clean' => master'[i - 1].used = "no")
           /\ loading'[l] = "mark" =>
                 \A i \in 1..Len(List[l]) :
                       /\ master'[i - 1].user = List[l][i]
                       /\ clean' => master'[i - 1].used = IF i <= file'[l] THEN FinalMark[l] ELSE "no"
<1>1. clean' => clean
  BY FlagsStay
<1>2. \A i \in 1..Len(List[l]) : i - 1 \in Keys
  BY ListFacts DEF Keys
<1>3. \A i \in 1..file[l] : i - 1 \in Keys
  BY LoaderFacts DEF Keys
<1>4. QED
  BY <1>1, <1>2, <1>3 DEF LoadInv, Running

(* The write of a file adds an entry to those in place.                    *)
LEMMA LoadWrites ==
    ASSUME TableInv, LoadInv, [Next]_vars, NEW l \in Loaders, WriteFile(l), intact'[l]
    PROVE  /\ \A m \in Loaders : Running(m)' => m = l
           /\ loading'[l] = "look" /\ msgIndex'[l] = file'[l]
           /\ \A i \in 1..file'[l] :
                 master'[i - 1].user = List[l][i] /\ (clean' => master'[i - 1].used = "no")
<1>1. intact[l] /\ (clean' => clean) /\ \A m \in Loaders : m # l => loading'[m] = loading[m]
  <2>1. LoaderStep(l) /\ ~Load(l)
    BY DEF LoaderStep, WriteFile, Load
  <2>2. QED
    BY <2>1, LoaderFrame, FlagsStay
<1>2. /\ file \in [Loaders -> 0..Size] /\ msgIndex \in [Loaders -> 0..Size]
      /\ loading \in [Loaders -> {"no", "write", "look", "mark"}]
      /\ intact \in [Loaders -> BOOLEAN]
  BY DEF TableInv, TypeOK
<1>3. /\ loading[l] = "write" /\ loading'[l] = "look"
      /\ file[l] < Len(List[l]) /\ file'[l] = file[l] + 1
  BY <1>2 DEF WriteFile
<1>4. /\ \A m \in Loaders : Running(m) => m = l
      /\ msgIndex[l] = file[l]
      /\ \A i \in 1..file[l] :
            master[i - 1].user = List[l][i] /\ (clean => master[i - 1].used = "no")
  BY <1>1, <1>3 DEF LoadInv, Running
<1>5. PICK name \in Names : /\ FileRead(l, name) /\ Write(msgIndex[l], name, "no")
                            /\ msgIndex' = [msgIndex EXCEPT ![l] = NextKey(l)]
  BY <1>2 DEF WriteFile
<1>6. name = List[l][file[l] + 1]
  BY <1>2, <1>5 DEF FileRead
<1>7. /\ msgIndex[l] \in Keys /\ file[l] \in Nat /\ file[l] + 1 \in 1..Len(List[l])
      /\ \A i \in 1..file[l] : i - 1 \in Keys /\ i - 1 # file[l] /\ i \in Nat
  BY <1>3, <1>4, LoaderFacts DEF Keys
<1>8. name # nobody
  BY <1>6, <1>7, ListFacts, NobodyIsNoUser
<1>9. /\ \A k \in Keys : k # file[l] => master'[k] = master[k]
      /\ master'[file[l]].user = List[l][file[l] + 1] /\ master'[file[l]].used = "no"
  <2>1. TypeOK /\ Write(msgIndex[l], name, "no")
    BY <1>5 DEF TableInv
  <2>2. /\ \A k \in Keys : k # msgIndex[l] => master'[k] = master[k]
        /\ master'[msgIndex[l]].user = IF name = nobody THEN master[msgIndex[l]].user ELSE name
        /\ master'[msgIndex[l]].used = "no"
    BY <1>7, <2>1, MasterAfter
  <2>3. QED
    BY <1>4, <1>6, <1>8, <2>2
<1>10. ASSUME NEW i \in 1..file'[l]
       PROVE  master'[i - 1].user = List[l][i] /\ (clean' => master'[i - 1].used = "no")
  <2>1. CASE i = file[l] + 1
    <3>1. i - 1 = file[l]
      BY <1>7, <2>1
    <3>2. QED
      BY <1>9, <2>1, <3>1
  <2>2. CASE i # file[l] + 1
    <3>1. i \in 1..file[l]
      BY <1>3, <1>7, <2>2
    <3>2. master'[i - 1] = master[i - 1]
      BY <1>7, <1>9, <3>1
    <3>3. QED
      BY <1>1, <1>4, <3>1, <3>2
  <2>3. QED
    BY <2>1, <2>2
<1>11. msgIndex'[l] = file'[l]
  BY <1>2, <1>3, <1>4, <1>5 DEF NextKey
<1>12. QED
  BY <1>1, <1>3, <1>4, <1>10, <1>11 DEF Running

(* The final loop sets the mark of one entry and leaves its name.          *)
LEMMA LoadMarks ==
    ASSUME TableInv, LoadInv, [Next]_vars, NEW l \in Loaders, MarkKey(l), intact'[l]
    PROVE  /\ \A m \in Loaders : Running(m)' => m = l
           /\ loading'[l] = "mark"
           /\ \A i \in 1..Len(List[l]) :
                 /\ master'[i - 1].user = List[l][i]
                 /\ clean' => master'[i - 1].used = IF i <= file'[l] THEN FinalMark[l] ELSE "no"
<1>1. intact[l] /\ (clean' => clean) /\ loading' = loading /\ loading[l] = "mark"
  <2>1. LoaderStep(l) /\ ~Load(l) /\ loading' = loading /\ loading[l] = "mark"
    BY DEF LoaderStep, MarkKey, Load
  <2>2. QED
    BY <2>1, LoaderFrame, FlagsStay
<1>2. intact \in [Loaders -> BOOLEAN] /\ file \in [Loaders -> 0..Size]
  BY DEF TableInv, TypeOK
<1>3. file'[l] = file[l] + 1 /\ file[l] \in Nat /\ file[l] < Len(List[l]) /\ file[l] \in Keys
  BY <1>2, LoaderFacts DEF MarkKey, MarkingDone, Keys
<1>4. Write(file[l], nobody, FinalMark[l])
  BY <1>2 DEF MarkKey
<1>5. FinalMark[l] \in {"no", "yes"} /\ TypeOK
  BY <1>1, LoaderFacts, FinalMarkAssumption DEF TableInv
<1>6. /\ \A k \in Keys : k # file[l] => master'[k] = master[k]
      /\ master'[file[l]].user = master[file[l]].user /\ master'[file[l]].used = FinalMark[l]
  BY <1>3, <1>4, <1>5, MarkAfter
<1>7. /\ \A m \in Loaders : Running(m) => m = l
      /\ \A i \in 1..Len(List[l]) :
            /\ master[i - 1].user = List[l][i]
            /\ clean => master[i - 1].used = IF i <= file[l] THEN FinalMark[l] ELSE "no"
  BY <1>1 DEF LoadInv, Running
<1>8. ASSUME NEW i \in 1..Len(List[l])
      PROVE  /\ master'[i - 1].user = List[l][i]
             /\ clean' => master'[i - 1].used = IF i <= file'[l] THEN FinalMark[l] ELSE "no"
  <2>1. i - 1 \in Keys /\ i \in Nat
    BY ListFacts DEF Keys
  <2>2. CASE i = file[l] + 1
    <3>1. i - 1 = file[l] /\ i <= file'[l]
      BY <1>3, <2>2
    <3>2. QED
      BY <1>6, <1>7, <3>1
  <2>3. CASE i # file[l] + 1
    <3>1. i - 1 # file[l] /\ (i <= file'[l] <=> i <= file[l])
      BY <1>3, <2>1, <2>3
    <3>2. master'[i - 1] = master[i - 1]
      BY <1>6, <2>1, <3>1
    <3>3. QED
      BY <1>1, <1>7, <3>1, <3>2
  <2>4. QED
    BY <2>2, <2>3
<1>9. QED
  BY <1>1, <1>7, <1>8 DEF Running

LEMMA LoadInductive == TableInv /\ CleanInv /\ LoadInv /\ [Next]_vars => LoadInv'
<1> SUFFICES ASSUME TableInv, CleanInv, LoadInv, [Next]_vars,
                    NEW l \in Loaders, intact'[l], Running(l)'
             PROVE  /\ \A m \in Loaders : Running(m)' => m = l
                    /\ loading'[l] \in {"write", "look"} =>
                          /\ msgIndex'[l] = file'[l]
                          /\ \A i \in 1..file'[l] :
                                /\ master'[i - 1].user = List[l][i]
                                /\ clean' => master'[i - 1].used = "no"
                    /\ loading'[l] = "mark" =>
                          \A i \in 1..Len(List[l]) :
                                /\ master'[i - 1].user = List[l][i]
                                /\ clean' => master'[i - 1].used =
                                               IF i <= file'[l] THEN FinalMark[l] ELSE "no"
  BY DEF LoadInv
<1>1. /\ loading \in [Loaders -> {"no", "write", "look", "mark"}]
      /\ file \in [Loaders -> 0..Size] /\ msgIndex \in [Loaders -> 0..Size]
      /\ intact \in [Loaders -> BOOLEAN]
  BY DEF TableInv, TypeOK
<1>2. CASE Replicate \/ UNCHANGED vars
  <2>1. UNCHANGED <<master, loading, file, msgIndex, intact>>
    BY <1>2 DEF Replicate, vars, tables, loaders, history
  <2>2. QED
    BY <2>1, LoadKept DEF Running
<1>3. ASSUME NEW t \in Takers, TakerStep(t)
      PROVE  /\ UNCHANGED <<loading, file, msgIndex, intact>> /\ Running(l)
             /\ \A k \in Keys : master'[k].user = master[k].user
             /\ clean' => \A k \in Keys : master'[k].used = master[k].used
  <2>1. UNCHANGED <<loading, file, msgIndex, intact>> /\ Running(l)
    BY <1>3, TakerFrame DEF Running
  <2>2. CASE Mark(t)
    <3>1. at[t] = "mark"
      BY <2>2 DEF Mark
    <3>2. ~clean'
      BY <2>1, <3>1, FlagsStay DEF CleanInv
    <3>3. \A k \in Keys : master'[k].user = master[k].user
      <4>1. CASE WriteFails
        BY <4>1 DEF WriteFails, tables
      <4>2. CASE Write(selected[t], nobody, "yes")
        <5>1. selected[t] \in Keys /\ TypeOK
          BY TakerFacts DEF TableInv
        <5>2. QED
          BY <4>2, <5>1, MarkAfter
      <4>3. QED
        BY <2>2, <4>1, <4>2 DEF Mark, MarkedKey
    <3>4. QED
      BY <2>1, <3>2, <3>3
  <2>3. CASE ~Mark(t)
    BY <1>3, <2>1, <2>3, TakerFrame
  <2>4. QED
    BY <2>2, <2>3
<1>4. ASSUME NEW m \in Loaders, LoaderStep(m), m # l
      PROVE  FALSE
  <2>1. CASE Load(m)
    BY <1>1, <1>4, <2>1 DEF Load
  <2>2. CASE ~Load(m)
    <3>1. Running(m) /\ intact[l] /\ Running(l)
      BY <1>4, <2>2, LoaderFrame DEF Running
    <3>2. QED
      BY <1>4, <3>1 DEF LoadInv
  <2>3. QED
    BY <2>1, <2>2
<1>5. CASE LoaderStep(l)
  <2>1. CASE Load(l)
    <3>1. \A m \in Loaders : loading[m] = "no"
      BY <1>1, <2>1 DEF Load
    <3>2. loading'[l] = "write" /\ file'[l] = 0 /\ msgIndex'[l] = 0
          /\ \A m \in Loaders : m # l => loading'[m] = loading[m]
      BY <1>1, <2>1, <3>1, LoaderFacts DEF Load
    <3>3. QED
      BY <3>1, <3>2 DEF Running
  <2>2. CASE WriteFile(l)
    BY <2>2, LoadWrites
  <2>3. CASE MarkKey(l)
    BY <2>3, LoadMarks
  <2>4. CASE ReadBack(l) \/ ReadBackInVain(l) \/ ReadNothing(l) \/ StartMarking(l)
    <3>1. /\ Running(l) /\ intact[l] /\ master' = master /\ (clean' => clean)
          /\ \A m \in Loaders : m # l => loading'[m] = loading[m]
      BY <1>5, <2>4, LoaderFrame, FlagsStay
      DEF ReadBack, ReadBackInVain, ReadingFails, ReadNothing, StartMarking, Running, history, tables
    <3>2. /\ \A m \in Loaders : Running(m) => m = l
          /\ loading[l] \in {"write", "look"} =>
                /\ msgIndex[l] = file[l]
                /\ \A i \in 1..file[l] :
                      master[i - 1].user = List[l][i] /\ (clean => master[i - 1].used = "no")
      BY <3>1 DEF LoadInv
    <3>3. CASE ReadBack(l) \/ ReadBackInVain(l) \/ ReadNothing(l)
      <4>1. /\ loading[l] = "look" /\ loading'[l] = "write"
            /\ msgIndex' = msgIndex /\ file' = file
        BY <1>1, <3>3 DEF ReadBack, ReadBackInVain, ReadNothing
      <4>2. QED
        BY <3>1, <3>2, <4>1 DEF Running
    <3>4. CASE StartMarking(l)
      <4>1. /\ loading[l] = "write" /\ file[l] = Len(List[l])
            /\ loading'[l] = "mark" /\ file'[l] = 0
        BY <1>1, <3>4 DEF StartMarking
      <4>2. \A i \in 1..Len(List[l]) : ~(i <= file'[l])
        BY <4>1
      <4>3. QED
        BY <3>1, <3>2, <4>1, <4>2 DEF Running
    <3>5. QED
      BY <2>4, <3>3, <3>4
  <2>5. CASE FinishLoad(l) \/ FinishSamples(l) \/ BreakOff(l)
    BY <1>1, <2>5 DEF FinishLoad, FinishSamples, BreakOff, Stop, Running
  <2>6. QED
    BY <1>5, <2>1, <2>2, <2>3, <2>4, <2>5 DEF LoaderStep
<1>6. ASSUME NEW t \in Takers, TakerStep(t)
      PROVE  /\ UNCHANGED <<loading, file, msgIndex>> /\ intact[l] /\ Running(l)
             /\ \A k \in Keys : master'[k].user = master[k].user
             /\ clean' => \A k \in Keys : master'[k].used = master[k].used
  BY <1>3, <1>6
<1>7. QED
  BY <1>2, <1>4, <1>5, <1>6, LoadKept DEF Next

(* A run of a loader in which nothing fails, and which no other loader     *)
(* joins, leaves the credentials of its files under the first keys, in     *)
(* their order, whatever takers do meanwhile; if there are none, each has  *)
(* the mark of its final loop. (main of update.go, processCredentials.go)  *)
THEOREM ALoadLeavesItsList == Spec => LoadLeavesItsList
<1> DEFINE Leaves ==
        \A l \in Loaders :
         (loading[l] # "no" /\ loading'[l] = "no" /\ intact'[l]) =>
             \A i \in 1..Len(List[l]) :
                 /\ master'[i - 1].user = List[l][i]
                 /\ clean => master'[i - 1].used = IF FinalMark[l] = "none" THEN "no" ELSE FinalMark[l]
<1>1. TableInv /\ LoadInv /\ [Next]_vars => Leaves
  <2> SUFFICES ASSUME TableInv, LoadInv, [Next]_vars, NEW l \in Loaders,
                      loading[l] # "no", loading'[l] = "no", intact'[l]
               PROVE  \A i \in 1..Len(List[l]) :
                          /\ master'[i - 1].user = List[l][i]
                          /\ clean => master'[i - 1].used =
                                        IF FinalMark[l] = "none" THEN "no" ELSE FinalMark[l]
    OBVIOUS
  <2>1. /\ loading \in [Loaders -> {"no", "write", "look", "mark"}]
        /\ intact \in [Loaders -> BOOLEAN]
    BY DEF TableInv, TypeOK
  <2>2. LoaderStep(l)
    <3>1. ASSUME NEW t \in Takers, TakerStep(t) PROVE FALSE
      BY <3>1, TakerFrame
    <3>2. ASSUME NEW m \in Loaders, LoaderStep(m), m # l PROVE FALSE
      BY <3>2, LoaderFrame
    <3>3. ~Replicate /\ ~UNCHANGED vars
      BY DEF Replicate, vars, loaders
    <3>4. QED
      BY <3>1, <3>2, <3>3 DEF Next
  <2>3. FinishLoad(l) \/ FinishSamples(l)
    BY <2>1, <2>2 DEF LoaderStep, Load, WriteFile, ReadBack, ReadBackInVain, ReadNothing,
                      StartMarking, MarkKey, BreakOff
  <2>4. intact[l] /\ Running(l) /\ master' = master
    <3>1. intact' = intact /\ master' = master
      BY <2>3 DEF FinishLoad, FinishSamples, Stop, tables
    <3>2. QED
      BY <3>1 DEF Running
  <2>5. CASE FinishLoad(l)
    <3>1. loading[l] = "mark" /\ file[l] = Len(List[l]) /\ FinalMark[l] # "none"
      BY <2>5, LoaderFacts DEF FinishLoad, MarkingDone
    <3>2. \A i \in 1..Len(List[l]) : i <= file[l]
      BY <3>1, ListFacts
    <3>3. QED
      BY <2>4, <3>1, <3>2 DEF LoadInv
  <2>6. CASE FinishSamples(l)
    <3>1. loading[l] = "write" /\ file[l] = Len(List[l]) /\ FinalMark[l] = "none"
      BY <2>6 DEF FinishSamples
    <3>2. QED
      BY <2>4, <3>1 DEF LoadInv
  <2>7. QED
    BY <2>3, <2>5, <2>6
<1>2. Init => TableInv /\ CleanInv /\ LoadInv
  BY InitHolds, CleanInit, LoadInit
<1>3. TableInv /\ CleanInv /\ LoadInv /\ [Next]_vars => (TableInv /\ CleanInv /\ LoadInv)'
  BY StepHolds, CleanInductive, LoadInductive
<1>4. Spec => [][Leaves]_vars
  <2>1. TableInv /\ LoadInv /\ [Next]_vars => [Leaves]_vars
    BY <1>1
  <2> HIDE DEF Leaves
  <2>2. QED
    BY <1>2, <1>3, <2>1, PTL DEF Spec
<1>5. QED
  BY <1>4 DEF LoadLeavesItsList

-----------------------------------------------------------------------------
(* Takers that come one after another                                      *)

(* Only key 0 can have a mark and no name.                                 *)
MarkedHaveName == \A k \in Keys : master[k] # Absent => k = 0 \/ Named(master, k)

(* What a taker has found: it passed over used keys only, and takes a used *)
(* one only when none is free; and if there is a named key, a pod gets one.*)
Choice(t) ==
    /\ at[t] \in {"down", "scan"} => selected[t] = 0
    /\ at[t] = "scan" /\ t \in Pods \cup Lookups =>
          /\ count[t] = KeysSeen
          /\ \A k \in Keys : k < next[t] => master[k].used = "yes"
    /\ at[t] = "mark" => selected[t] = 0 \/ Named(master, selected[t])
    /\ at[t] = "mark" /\ user[t] # nobody => master[selected[t]].used # "yes" \/ NoneFree
    /\ t \in Pods /\ at[t] \in {"mark", "on"} /\ (\E k \in Keys : Named(master, k)) =>
          user[t] # nobody

ServedInv ==
    Undisturbed =>
        /\ MarkedHaveName
        /\ \A t \in Takers : Choice(t)
        /\ Shared => NoneFree

LEMMA ServedInit == Init => ServedInv
<1> SUFFICES ASSUME Init PROVE ServedInv
  OBVIOUS
<1>1. master = [k \in Keys |-> Absent] \/ \E l \in Loaders : master = LeftBy(l)
  BY DEF Init
<1>2. MarkedHaveName
  <2> SUFFICES ASSUME NEW k \in Keys, master[k] # Absent PROVE Named(master, k)
    BY DEF MarkedHaveName
  <2>1. PICK l \in Loaders : master = LeftBy(l)
    BY <1>1
  <2>2. k < Len(List[l]) /\ master[k].user = List[l][k + 1]
    BY <2>1 DEF LeftBy
  <2>3. k + 1 \in 1..Len(List[l])
    BY <2>2, ListFacts DEF Keys
  <2>4. QED
    BY <2>2, <2>3, ListFacts, NobodyIsNoUser DEF Named
<1>3. \A t \in Takers : Choice(t)
  BY DEF Init, Choice
<1>4. ~Shared
  BY DEF Init, Shared, On
<1>5. QED
  BY <1>2, <1>3, <1>4 DEF ServedInv

(* A set of keys without gaps is 0, 1, ... below its size.                 *)
LEMMA FirstKeys ==
    ASSUME NEW T \in SUBSET Keys, \A k \in T : \A j \in Keys : j < k => j \in T, NEW k \in Keys
    PROVE  k \in T <=> k < Cardinality(T)
<1>1. Size \in Nat /\ Size # 0 /\ k \in Nat /\ k - 1 \in Int
  BY NumbersAssumption DEF Keys
<1>2. IsFiniteSet(Keys)
  BY <1>1, FS_Interval DEF Keys
<1>3. IsFiniteSet(T) /\ Cardinality(T) \in Nat
  BY <1>2, FS_Subset, FS_CardinalityType
<1>4. IsFiniteSet(0..k) /\ Cardinality(0..k) = k + 1
  BY <1>1, FS_Interval
<1>5. IsFiniteSet(0..(k - 1)) /\ Cardinality(0..(k - 1)) = k
  <2>1. IsFiniteSet(0..(k - 1))
        /\ Cardinality(0..(k - 1)) = IF 0 > k - 1 THEN 0 ELSE (k - 1) - 0 + 1
    BY <1>1, FS_Interval
  <2>2. QED
    BY <1>1, <2>1
<1>6. CASE k \in T
  <2>1. 0..k \subseteq T
    BY <1>1, <1>6 DEF Keys
  <2>2. k + 1 <= Cardinality(T)
    BY <1>3, <1>4, <2>1, FS_Subset
  <2>3. QED
    BY <1>1, <1>3, <1>6, <2>2
<1>7. CASE k \notin T
  <2>1. T \subseteq 0..(k - 1)
    <3> SUFFICES ASSUME NEW j \in T, ~(j \in 0..(k - 1)) PROVE FALSE
      OBVIOUS
    <3>1. j \in Keys /\ j # k
      BY <1>7
    <3>2. k < j
      BY <1>1, <3>1 DEF Keys
    <3>3. QED
      BY <1>7, <3>2
  <2>2. Cardinality(T) <= k
    BY <1>5, <2>1, FS_Subset
  <2>3. QED
    BY <1>1, <1>3, <1>7, <2>2
<1>8. QED
  BY <1>6, <1>7

LEMMA NamedIsPresent == \A k \in Keys : Named(master, k) => master[k] # Absent
  BY DEF Named, Absent

(* What a taker that counts the keys and numbers them from 0 looks at is   *)
(* all there is.                                                           *)
LEMMA SeenAreFirst ==
    ASSUME TableInv, MarkedHaveName, replica = master, NEW k \in Keys
    PROVE  master[k] # Absent <=> k < KeysSeen
<1> DEFINE T == {j \in Keys : replica[j] # Absent}
<1>1. T \in SUBSET Keys
  OBVIOUS
<1>2. ASSUME NEW j \in T, NEW i \in Keys, i < j PROVE i \in T
  <2>1. j # 0
    BY <1>2, NumbersAssumption DEF Keys
  <2>2. Named(master, j)
    BY <2>1 DEF MarkedHaveName
  <2>3. Named(master, i)
    BY <1>2, <2>2 DEF TableInv, NamedKeysComeFirst, Named
  <2>4. QED
    BY <2>3, NamedIsPresent
<1> HIDE DEF T
<1>3. k \in T <=> k < Cardinality(T)
  BY <1>1, <1>2, FirstKeys
<1>4. QED
  BY <1>3 DEF T, KeysSeen

(* If there is a named key at all, the first one is named.                 *)
LEMMA FirstIsNamed ==
    ASSUME TableInv, NEW k \in Keys, Named(master, k) PROVE Named(master, 0)
<1>1. 0 \in Keys /\ (k = 0 \/ 0 < k)
  BY NumbersAssumption DEF Keys
<1>2. QED
  BY <1>1 DEF TableInv, NamedKeysComeFirst, Named

(* A taker that does not mark leaves the others as they are, and nothing   *)
(* is shared that was not, unless it goes on with a name.                  *)
LEMMA OthersServed ==
    ASSUME TableInv, NEW t \in Takers, TakerStep(t), ~Mark(t),
           MarkedHaveName, \A q \in Takers : Choice(q), Shared => NoneFree,
           Choice(t)', at'[t] = "on" => user'[t] = nobody
    PROVE  /\ MarkedHaveName'
           /\ \A q \in Takers : Choice(q)'
           /\ Shared' => NoneFree'
<1>1. /\ UNCHANGED <<master, replica>>
      /\ \A q \in Takers : q # t => /\ at'[q] = at[q] /\ count'[q] = count[q]
                                    /\ next'[q] = next[q] /\ user'[q] = user[q]
                                    /\ selected'[q] = selected[q]
  BY TakerFrame
<1>2. /\ MarkedHaveName' /\ (NoneFree' <=> NoneFree) /\ KeysSeen' = KeysSeen
      /\ \A k \in Keys : Named(master, k)' <=> Named(master, k)
  BY <1>1 DEF MarkedHaveName, NoneFree, KeysSeen, Named
<1>3. ASSUME NEW q \in Takers, q # t PROVE Choice(q)'
  BY <1>1, <1>2, <1>3 DEF Choice
<1>4. Shared' => Shared
  <2> SUFFICES ASSUME NEW p \in Takers, NEW q \in Takers, at'[p] = "on", at'[q] = "on",
                      p # q, user'[p] = user'[q], user'[p] # nobody
               PROVE  Shared
    BY DEF Shared, On
  <2>1. p # t /\ q # t
    OBVIOUS
  <2>2. QED
    BY <1>1, <2>1 DEF Shared, On
<1>5. QED
  BY <1>2, <1>3, <1>4

(* The key a taker takes is one it counted, named if any is.               *)
LEMMA TakenKey ==
    ASSUME TableInv, MarkedHaveName, NEW t \in Takers, Choice(t), at[t] = "scan", replica = master,
           t \in Pods \cup Lookups \/ master[next[t]].used = "no"
    PROVE  /\ next[t] \in Keys
           /\ next[t] = 0 \/ Named(master, next[t])
           /\ (\E k \in Keys : Named(master, k)) => Named(master, next[t])
<1>1. next[t] \in Keys
  BY TakerFacts
<1>2. master[next[t]] # Absent
  <2>1. CASE t \in Pods \cup Lookups
    <3>1. next[t] < KeysSeen
      BY <2>1, TakerFacts DEF Choice
    <3>2. QED
      BY <1>1, <3>1, SeenAreFirst
  <2>2. CASE master[next[t]].used = "no"
    BY <2>2 DEF Absent
  <2>3. QED
    BY <2>1, <2>2
<1>3. next[t] = 0 \/ Named(master, next[t])
  BY <1>1, <1>2 DEF MarkedHaveName
<1>4. QED
  BY <1>1, <1>3, FirstIsNamed

(* When the last key counted is used like all before it, none is free.     *)
LEMMA LastIsUsed ==
    ASSUME TableInv, MarkedHaveName, NEW t \in Takers, Choice(t), at[t] = "scan", replica = master,
           t \in Pods \cup Lookups, FoundUsed(t), LastKey(t)
    PROVE  NoneFree
<1> SUFFICES ASSUME NEW k \in Keys PROVE master[k].used # "no"
  BY DEF NoneFree
<1>1. /\ next[t] \in Keys /\ next[t] + 1 = KeysSeen /\ master[next[t]].used = "yes"
      /\ \A j \in Keys : j < next[t] => master[j].used = "yes"
  BY TakerFacts DEF Choice, FoundUsed, LastKey
<1>2. next[t] \in Nat /\ k \in Nat
  BY <1>1, NumbersAssumption DEF Keys
<1>3. CASE k < KeysSeen
  <2>1. k < next[t] \/ k = next[t]
    BY <1>1, <1>2, <1>3
  <2>2. QED
    BY <1>1, <2>1
<1>4. CASE ~(k < KeysSeen)
  <2>1. master[k] = Absent
    BY <1>4, SeenAreFirst
  <2>2. QED
    BY <2>1 DEF Absent
<1>5. QED
  BY <1>3, <1>4

(* A taker chooses.                                                        *)
LEMMA ChoiceServed ==
    ASSUME TableInv, Follows, CleanInv, HoldInv, Undisturbed,
           MarkedHaveName, NEW t \in Takers, Choice(t),
           LookAtFree(t) \/ LookAtUsed(t) \/ Read(t)
    PROVE  Choice(t)' /\ (at'[t] = "on" => user'[t] = nobody)
<1>1. /\ at[t] = "scan" /\ UNCHANGED <<master, replica, count>>
  BY DEF LookAtFree, LookAtUsed, Read, tables
<1>2. replica = master /\ user[t] = nobody /\ selected[t] = 0
  BY <1>1, ChooserSeesMaster DEF Undisturbed, Busy, HoldInv, Choice
<1>3. /\ at \in [Takers -> {"down", "scan", "mark", "on"}]
      /\ user \in [Takers -> Names] /\ selected \in [Takers -> Keys] /\ next \in [Takers -> 0..Size]
  BY DEF TableInv, TypeOK
<1>4. /\ NoneFree' <=> NoneFree
      /\ KeysSeen' = KeysSeen
      /\ \A k \in Keys : Named(master, k)' <=> Named(master, k)
  BY <1>1 DEF NoneFree, KeysSeen, Named
<1>5. ASSUME Take(t), t \in Pods \cup Lookups \/ master[next[t]].used = "no",
             master[next[t]].used # "yes" \/ NoneFree
      PROVE  Choice(t)' /\ at'[t] = "mark"
  <2>1. /\ at'[t] = "mark" /\ selected'[t] = next[t] /\ user'[t] = master[next[t]].user
    BY <1>2, <1>3, <1>5 DEF Take
  <2>2. /\ next[t] = 0 \/ Named(master, next[t])
        /\ (\E k \in Keys : Named(master, k)) => user'[t] # nobody
    BY <1>1, <1>2, <1>5, <2>1, TakenKey DEF Named
  <2>3. master'[selected'[t]].used # "yes" \/ NoneFree'
    BY <1>1, <1>4, <1>5, <2>1
  <2>4. selected'[t] = 0 \/ Named(master', selected'[t])
    BY <1>1, <2>1, <2>2 DEF Named
  <2>5. (\E k \in Keys : Named(master', k)) => user'[t] # nobody
    BY <1>1, <2>2
  <2>6. QED
    BY <2>1, <2>3, <2>4, <2>5 DEF Choice
<1>6. CASE LookAtFree(t)
  BY <1>2, <1>5, <1>6 DEF LookAtFree, FoundUsed
<1>7. CASE LookAtUsed(t)
  <2>1. t \in Pods \cup Lookups /\ FoundUsed(t)
    BY <1>7 DEF LookAtUsed
  <2>2. CASE LastKey(t) /\ Take(t)
    <3>1. NoneFree
      BY <1>1, <1>2, <2>1, <2>2, LastIsUsed
    <3>2. QED
      BY <1>5, <2>1, <2>2, <3>1
  <2>3. CASE t \in Lookups /\ at' = [at EXCEPT ![t] = "mark"] /\ UNCHANGED <<next, selected, user>>
    <3>1. at'[t] = "mark" /\ selected'[t] = 0 /\ user'[t] = nobody /\ t \notin Pods
      BY <1>2, <1>3, <2>3, TakersAssumption
    <3>2. QED
      BY <3>1 DEF Choice
  <2>4. CASE next' = [next EXCEPT ![t] = @ + 1] /\ UNCHANGED <<at, selected, user>>
    <3>1. at'[t] = "scan" /\ selected'[t] = 0 /\ next'[t] = next[t] + 1 /\ next[t] \in Nat
      BY <1>1, <1>2, <1>3, <2>4
    <3>2. /\ count'[t] = KeysSeen'
          /\ \A k \in Keys : k < next[t] => master'[k].used = "yes"
      BY <1>1, <1>4, <2>1 DEF Choice
    <3>3. ASSUME NEW k \in Keys, k < next'[t] PROVE master'[k].used = "yes"
      <4>1. k < next[t] \/ k = next[t]
        BY <3>1, <3>3, NumbersAssumption DEF Keys
      <4>2. master'[next[t]].used = "yes"
        BY <1>1, <1>2, <2>1 DEF FoundUsed
      <4>3. QED
        BY <3>2, <4>1, <4>2
    <3>4. QED
      BY <3>1, <3>2, <3>3 DEF Choice
  <2>5. QED
    BY <1>7, <2>2, <2>3, <2>4 DEF LookAtUsed
<1>8. CASE Read(t)
  <2>1. CASE replica[next[t]].used = "no" /\ Take(t)
    BY <1>2, <1>5, <2>1
  <2>2. CASE at' = [at EXCEPT ![t] = "on"] /\ UNCHANGED <<next, selected, user>>
    <3>1. at'[t] = "on" /\ user'[t] = nobody /\ t \notin Pods
      BY <1>2, <1>3, <1>8, <2>2, TakersAssumption DEF Read
    <3>2. QED
      BY <3>1 DEF Choice
  <2>3. QED
    BY <1>8, <2>1, <2>2 DEF Read
<1>9. QED
  BY <1>6, <1>7, <1>8

(* A taker begins.                                                         *)
LEMMA StartServed ==
    ASSUME TableInv, Follows, HoldInv, Undisturbed, MarkedHaveName, NEW t \in Takers, Choice(t),
           Begin(t) \/ Open(t), clean'
    PROVE  Choice(t)' /\ at'[t] # "on"
<1>1. /\ at[t] = "down" /\ stream = <<>> /\ UNCHANGED <<master, replica, selected, user>>
  BY DEF Begin, Open, Start, Alone, tables
<1>2. replica = master /\ user[t] = nobody /\ selected[t] = 0 /\ next[t] = 0
  BY <1>1, CaughtUp, TakerFacts DEF HoldInv, Choice
<1>3. /\ at \in [Takers -> {"down", "scan", "mark", "on"}] /\ count \in [Takers -> 0..Size]
  BY DEF TableInv, TypeOK
<1>4. selected'[t] = 0 /\ user'[t] = nobody
  BY <1>1, <1>2
<1>5. CASE Open(t)
  <2>1. at'[t] = "scan" /\ t \notin Pods \cup Lookups
    BY <1>3, <1>5, TakersAssumption DEF Open
  <2>2. QED
    BY <1>4, <2>1 DEF Choice
<1>6. CASE Begin(t)
  <2>1. /\ at'[t] = (IF KeysSeen = 0 THEN "mark" ELSE "scan")
        /\ count'[t] = KeysSeen /\ next'[t] = 0
    BY <1>2, <1>3, <1>6 DEF Begin
  <2>2. KeysSeen' = KeysSeen /\ \A k \in Keys : ~(k < 0)
    BY <1>1, NumbersAssumption DEF KeysSeen, Keys
  <2>3. KeysSeen = 0 => \A k \in Keys : ~Named(master', k)
    <3> SUFFICES ASSUME KeysSeen = 0, NEW k \in Keys PROVE ~Named(master, k)
      BY <1>1
    <3>1. master[k] = Absent
      BY <1>2, <2>2, SeenAreFirst
    <3>2. QED
      BY <3>1, NamedIsPresent
  <2>4. QED
    BY <1>4, <2>1, <2>2, <2>3 DEF Choice
<1>7. QED
  BY <1>5, <1>6

(* A taker marks the key it has chosen; another that holds the same name   *)
(* has marked it before, so it was not free.                               *)
LEMMA MarkServed ==
    ASSUME FixedPlaces, TableInv, Follows, CleanInv, PlacesInv, HoldInv, Undisturbed, Undisturbed',
           MarkedHaveName, \A q \in Takers : Choice(q), Shared => NoneFree,
           NEW t \in Takers, Mark(t)
    PROVE  /\ MarkedHaveName'
           /\ \A q \in Takers : Choice(q)'
           /\ Shared' => NoneFree'
<1>1. /\ at \in [Takers -> {"down", "scan", "mark", "on"}]
      /\ selected \in [Takers -> Keys] /\ fails \in Nat /\ TypeOK
  BY NumbersAssumption DEF TableInv, TypeOK
<1>2. Write(selected[t], nobody, "yes")
  BY <1>1 DEF Mark, MarkedKey, WriteFails, Undisturbed
<1>3. /\ at[t] = "mark" /\ at'[t] = "on" /\ UNCHANGED <<count, next, selected, user>>
      /\ \A q \in Takers : q # t => at'[q] = at[q] /\ ~Busy(q)
  <2>1. at[t] = "mark" /\ at' = [at EXCEPT ![t] = "on"] /\ UNCHANGED <<count, next, selected, user>>
    BY DEF Mark
  <2>2. \A q \in Takers : q # t => ~Busy(q)
    BY <2>1, ChooserSeesMaster DEF Undisturbed, Busy
  <2>3. QED
    BY <1>1, <2>1, <2>2
<1>4. /\ selected[t] \in Keys
      /\ \A j \in Keys : j # selected[t] => master'[j] = master[j]
      /\ \A j \in Keys : master'[j].user = master[j].user
      /\ master'[selected[t]].used = "yes"
  BY <1>1, <1>2, MarkAfter
<1>5. \A k \in Keys : Named(master', k) <=> Named(master, k)
  BY <1>4 DEF Named
<1>6. NoneFree => NoneFree'
  BY <1>4 DEF NoneFree
<1>7. MarkedHaveName'
  <2> SUFFICES ASSUME NEW k \in Keys, master'[k] # Absent PROVE k = 0 \/ Named(master', k)
    BY DEF MarkedHaveName
  <2>1. CASE k = selected[t]
    BY <1>3, <1>5, <2>1 DEF Choice
  <2>2. CASE k # selected[t]
    BY <1>4, <1>5, <2>2 DEF MarkedHaveName
  <2>3. QED
    BY <2>1, <2>2
<1>8. ASSUME NEW q \in Takers PROVE Choice(q)'
  <2>1. at'[q] \notin {"scan", "mark"} /\ (at'[q] = "down" => selected'[q] = 0)
    BY <1>3 DEF Busy, Choice
  <2>2. q \in Pods /\ at'[q] = "on" /\ (\E k \in Keys : Named(master', k)) => user'[q] # nobody
    BY <1>3, <1>5 DEF Choice
  <2>3. QED
    BY <2>1, <2>2 DEF Choice
<1>9. Shared' => NoneFree'
  <2>1. ASSUME NEW q \in Takers, q # t, at[q] = "on", user[q] = user[t], user[t] # nobody
        PROVE  NoneFree
    <3>1. /\ master[selected[t]].user = user[t]
          /\ master[selected[q]].user = user[q] /\ master[selected[q]].used = "yes"
      <4>1. user[q] # nobody /\ at[q] = "on" /\ at[t] = "mark"
        BY <1>3, <2>1
      <4>2. master[selected[q]] = [user |-> user[q], used |-> "yes"]
        BY <4>1 DEF HoldInv
      <4>3. master[selected[t]].user = user[t]
        BY <2>1, <4>1 DEF HoldInv
      <4>4. QED
        BY <4>2, <4>3
    <3>2. selected[t] = selected[q]
      <4>1. /\ selected[t] \in Keys /\ selected[q] \in Keys /\ fails = 0
            /\ Named(master, selected[t])
            /\ master[selected[t]].user = master[selected[q]].user
        BY <1>1, <2>1, <3>1 DEF Named, Undisturbed
      <4>2. QED
        BY <4>1, OnePlace
    <3>3. QED
      BY <1>3, <2>1, <3>1, <3>2 DEF Choice
  <2> SUFFICES ASSUME NEW p \in Takers, NEW q \in Takers, at'[p] = "on", at'[q] = "on",
                      p # q, user'[p] = user'[q], user'[p] # nobody
               PROVE  NoneFree
    BY <1>6 DEF Shared, On
  <2>2. CASE p # t /\ q # t
    BY <1>3, <2>2 DEF Shared, On
  <2>3. CASE p = t \/ q = t
    BY <1>3, <2>1, <2>3
  <2>4. QED
    BY <2>2, <2>3
<1>10. QED
  BY <1>7, <1>8, <1>9

(* A loader runs when no taker is there, and marks keys that have a name.  *)
LEMMA LoaderServed ==
    ASSUME TableInv, CleanInv, PlacesInv, Undisturbed, Undisturbed', [Next]_vars,
           MarkedHaveName, \A q \in Takers : Choice(q), NEW l \in Loaders, LoaderStep(l)
    PROVE  /\ MarkedHaveName'
           /\ \A q \in Takers : Choice(q)'
           /\ ~Shared'
<1>1. \A t \in Takers : at[t] = "down" /\ at'[t] = "down"
  BY LoaderIsAlone DEF Undisturbed
<1>2. UNCHANGED selected /\ \A q \in Takers : selected[q] = 0
  BY <1>1, LoaderFrame DEF Choice
<1>3. /\ \A q \in Takers : Choice(q)'
      /\ ~Shared'
  BY <1>1, <1>2 DEF Choice, Shared, On
<1>4. MarkedHaveName'
  <2>1. fails = 0 /\ fails' = 0 /\ TypeOK
    BY DEF Undisturbed, TableInv
  <2>2. CASE WriteFile(l)
    <3>1. PICK name \in Names : FileRead(l, name) /\ Write(msgIndex[l], name, "no")
      BY <2>1, <2>2 DEF WriteFile, WriteFails
    <3>2. msgIndex[l] \in Keys /\ name # nobody
      <4>1. loading[l] = "write" /\ file[l] < Len(List[l])
        BY <2>2 DEF WriteFile
      <4>2. msgIndex[l] \in Keys /\ file[l] + 1 \in 1..Len(List[l])
        BY <4>1, LoaderFacts DEF Keys
      <4>3. name = List[l][file[l] + 1]
        BY <2>1, <3>1 DEF FileRead
      <4>4. QED
        BY <4>2, <4>3, ListFacts, NobodyIsNoUser
    <3>3. /\ \A j \in Keys : j # msgIndex[l] => master'[j] = master[j]
          /\ Named(master', msgIndex[l])
      <4>1. /\ \A j \in Keys : j # msgIndex[l] => master'[j] = master[j]
            /\ master'[msgIndex[l]].user = IF name = nobody THEN master[msgIndex[l]].user ELSE name
        BY <2>1, <3>1, <3>2, MasterAfter
      <4>2. QED
        BY <3>2, <4>1 DEF Named
    <3>4. QED
      BY <3>3 DEF MarkedHaveName, Named
  <2>3. CASE MarkKey(l)
    <3>1. /\ Write(file[l], nobody, FinalMark[l]) /\ loading[l] = "mark"
          /\ file[l] \in Keys /\ FinalMark[l] \in {"no", "yes"}
      BY <2>1, <2>3, LoaderFacts, FinalMarkAssumption DEF MarkKey, WriteFails, MarkingDone, Keys
    <3>2. file[l] < msgIndex[l]
      <4>1. msgIndex[l] = Len(List[l]) /\ file[l] # Len(List[l])
        BY <2>1, <2>3, <3>1 DEF PlacesInv, MarkKey, MarkingDone
      <4>2. QED
        BY <4>1, LoaderFacts
    <3>3. Named(master, file[l])
      BY <3>1, <3>2, LoaderFacts
    <3>4. /\ \A j \in Keys : j # file[l] => master'[j] = master[j]
          /\ \A j \in Keys : master'[j].user = master[j].user
      BY <2>1, <3>1, MarkAfter
    <3>5. Named(master', file[l])
      BY <3>1, <3>3, <3>4 DEF Named
    <3>6. QED
      BY <3>4, <3>5 DEF MarkedHaveName, Named
  <2>4. CASE ~WriteFile(l) /\ ~MarkKey(l)
    BY <2>4, LoaderFrame DEF MarkedHaveName, Named
  <2>5. QED
    BY <2>2, <2>3, <2>4
<1>5. QED
  BY <1>3, <1>4

LEMMA ServedInductive ==
    ASSUME FixedPlaces
    PROVE  TableInv /\ Follows /\ CleanInv /\ PlacesInv /\ HoldInv /\ ServedInv /\ [Next]_vars
             => ServedInv'
<1> SUFFICES ASSUME TableInv, Follows, CleanInv, PlacesInv, HoldInv, ServedInv, [Next]_vars,
                    Undisturbed'
             PROVE  /\ MarkedHaveName'
                    /\ \A q \in Takers : Choice(q)'
                    /\ Shared' => NoneFree'
  BY DEF ServedInv
<1>1. /\ Undisturbed /\ MarkedHaveName /\ (Shared => NoneFree)
      /\ \A q \in Takers : Choice(q)
  BY UndisturbedStays DEF ServedInv
<1>2. CASE Replicate
  <2>1. UNCHANGED <<master, takers>> /\ stream # <<>>
    BY <1>2 DEF Replicate
  <2>2. \A q \in Takers : at[q] # "scan"
    BY <1>1, <2>1 DEF CleanInv, Undisturbed, Busy
  <2>3. QED
    BY <1>1, <2>1, <2>2 DEF takers, MarkedHaveName, Choice, Shared, On, NoneFree, Named
<1>3. ASSUME NEW t \in Takers, TakerStep(t)
      PROVE  /\ MarkedHaveName'
             /\ \A q \in Takers : Choice(q)'
             /\ Shared' => NoneFree'
  <2>1. CASE Mark(t)
    BY <1>1, <2>1, MarkServed
  <2>2. ASSUME ~Mark(t), Choice(t)', at'[t] = "on" => user'[t] = nobody
        PROVE  /\ MarkedHaveName'
               /\ \A q \in Takers : Choice(q)'
               /\ Shared' => NoneFree'
    BY <1>1, <1>3, <2>2, OthersServed
  <2>3. CASE LookAtFree(t) \/ LookAtUsed(t) \/ Read(t)
    <3>1. Choice(t)' /\ (at'[t] = "on" => user'[t] = nobody)
      BY <1>1, <2>3, ChoiceServed
    <3>2. QED
      BY <2>1, <2>2, <3>1
  <2>4. CASE Begin(t) \/ Open(t)
    <3>1. Choice(t)' /\ at'[t] # "on"
      BY <1>1, <2>4, StartServed DEF Undisturbed
    <3>2. QED
      BY <2>1, <2>2, <3>1
  <2>5. CASE Die(t)
    <3>1. at'[t] = "down" /\ selected'[t] = 0
      BY <2>5 DEF Die, TableInv, TypeOK
    <3>2. Choice(t)' /\ at'[t] # "on"
      BY <3>1 DEF Choice
    <3>3. QED
      BY <2>1, <2>2, <3>2
  <2>6. ~LookInVain(t) /\ ~ReadInVain(t)
    <3>1. breaks \in Nat /\ breaks' = 0
      BY NumbersAssumption DEF TableInv, TypeOK, Undisturbed
    <3>2. breaks + 1 # 0
      BY <3>1
    <3>3. QED
      BY <1>3, <3>1, <3>2, TakerFrame
  <2>7. QED
    BY <1>3, <2>1, <2>3, <2>4, <2>5, <2>6 DEF TakerStep
<1>4. ASSUME NEW l \in Loaders, LoaderStep(l)
      PROVE  /\ MarkedHaveName'
             /\ \A q \in Takers : Choice(q)'
             /\ Shared' => NoneFree'
  BY <1>1, <1>4, LoaderServed
<1>5. CASE UNCHANGED vars
  <2>1. UNCHANGED <<master, replica, at, count, next, selected, user>>
    BY <1>5 DEF vars, tables, takers
  <2>2. QED
    BY <1>1, <2>1 DEF MarkedHaveName, Choice, Shared, On, NoneFree, Named, KeysSeen
<1>6. QED
  BY <1>2, <1>3, <1>4, <1>5 DEF Next

(* Takers that come one after another, on a loaded table and a replica     *)
(* that has caught up, get different credentials for as long as there are  *)
(* free ones, and a pod gets one whenever there is one, however many come  *)
(* and die. (lookupRandomCredentials; main of lookup.go; update.go)        *)
THEOREM TakersAreServed == FixedPlaces => (Spec => []SequentialTakersServed)
<1> DEFINE Inv == TableInv /\ Follows /\ CleanInv /\ PlacesInv /\ HoldInv /\ ServedInv
<1> SUFFICES ASSUME FixedPlaces PROVE Spec => []SequentialTakersServed
  OBVIOUS
<1>1. Inv => SequentialTakersServed
  <2> SUFFICES ASSUME Inv, Undisturbed
               PROVE  /\ Shared => NoneFree
                      /\ (\E k \in Keys : Named(master, k)) =>
                            \A p \in Pods : at[p] = "on" => user[p] # nobody
    BY DEF SequentialTakersServed, Named
  <2>1. \A p \in Pods : p \in Takers
    BY DEF Takers
  <2>2. QED
    BY <2>1 DEF ServedInv, Choice
<1>2. Init => Inv
  BY InitHolds, FollowsInit, CleanInit, PlacesInit, HoldInit, ServedInit
<1>3. Inv /\ [Next]_vars => Inv'
  BY StepHolds, FollowsInductive, CleanInductive, PlacesInductive, HoldInductive, ServedInductive
<1>4. QED
  BY <1>1, <1>2, <1>3, PTL DEF Spec

==============================================================================
