----------------------------- MODULE PartsProofs -----------------------------
(***************************************************************************)
(* Theorems about parts that share no state with the others: the sequence  *)
(* check, for any log of integers, the extraction of orders, for any dumps *)
(* and tables, the streamer, for any requests, topic and mishaps, the bulk *)
(* load of the portal, for any staged orders, lists, workers, pods and     *)
(* faults, and the classifier, for any directory and edits.  At the end,   *)
(* what each is shown to do by itself holds of the composition, too.       *)
(***************************************************************************)
EXTENDS MCParts, DebugReaderProofs

(* The sequence check                                                      *)

Compared == scan \in {"loop", "done"}

BasicTypes ==
    /\ scan \in {"start", "loop", "done", "fatal", "panic"}
    /\ lines \in Seq(Int)
    /\ i \in 0..Len(lines)
    /\ seq \in Int
    /\ missingCount \in Int
    /\ missingIds \subseteq Int

(* Before the loop nothing has been counted; in it seq is the line reached.*)
AtLine ==
    /\ ~Compared => i = 0 /\ missingCount = 0 /\ missingIds = {}
    /\ Compared => /\ 1 \in 1..Len(lines)
                   /\ i = 0 => seq = lines[1]
                   /\ i # 0 => seq = lines[i]

(* Whatever has been printed lies in a break between two lines.            *)
Break(n) == lines[n] < lines[n + 1] /\ lines[n + 1] # lines[n] + 1
PrintedInBreaks ==
    \A id \in missingIds : \E n \in 1..(i - 1) : Break(n) /\ lines[n] <= id /\ id < lines[n + 1]

Overlooked == \E n \in 1..i : \E id \in lines[1]..lines[n] : id \notin Scanned \cup missingIds

SeqInv == BasicTypes /\ AtLine /\ PrintedInBreaks
-----------------------------------------------------------------------------
LEMMA SeqInitInv == SeqInit => SeqInv /\ TotalTelescopes /\ (Compared => ~Overlooked)
BY DEF SeqInit, SeqInv, BasicTypes, AtLine, PrintedInBreaks, Compared, TotalTelescopes

(* What a step of the loop finds.                                          *)
LEMMA StepOfLoop ==
    ASSUME SeqInv, CheckLine
    PROVE  /\ i + 1 \in 1..Len(lines) /\ i \in Nat
           /\ lines[i + 1] \in Int /\ lines[1] \in Int
           /\ i' = i + 1 /\ seq' = lines[i + 1] /\ lines' = lines /\ scan' = scan
           /\ Compared
           /\ i # 0 => i \in 1..Len(lines) /\ seq = lines[i]
           /\ i = 0 => seq = lines[1]
BY DEF SeqInv, BasicTypes, AtLine, CheckLine, Compared

LEMMA LineKeepsTypes == ASSUME SeqInv, CheckLine PROVE BasicTypes' /\ AtLine'
<1>1. i' \in 0..Len(lines') /\ seq' \in Int /\ lines' \in Seq(Int) /\ scan' = scan
    BY StepOfLoop DEF SeqInv, BasicTypes
<1>2. missingCount' \in Int
    BY StepOfLoop DEF SeqInv, BasicTypes, CheckLine, Total
<1>a. Listed(seq, lines[i + 1]) \subseteq Int
    BY StepOfLoop DEF SeqInv, BasicTypes, Listed
<1>b. missingIds' = missingIds \/ missingIds' = missingIds \cup Listed(seq, lines[i + 1])
    BY DEF CheckLine
<1>3. missingIds' \subseteq Int
    BY <1>a, <1>b DEF SeqInv, BasicTypes
<1>4. AtLine'
    BY StepOfLoop DEF SeqInv, BasicTypes, AtLine, Compared
<1> QED
    BY <1>1, <1>2, <1>3, <1>4 DEF SeqInv, BasicTypes

LEMMA LineListsABreak == ASSUME SeqInv, CheckLine PROVE PrintedInBreaks'
<1> SUFFICES ASSUME NEW id \in missingIds'
             PROVE  \E n \in 1..i : Break(n) /\ lines[n] <= id /\ id < lines[n + 1]
    BY StepOfLoop DEF PrintedInBreaks, Break
<1>1. CASE id \in missingIds
    BY <1>1, StepOfLoop DEF SeqInv, PrintedInBreaks
<1>2. CASE id \notin missingIds
    <2>1. lines[i + 1] # seq + 1 /\ id \in seq..(lines[i + 1] - 1)
        BY <1>2 DEF CheckLine, Listed
    <2>2. i # 0
        BY <2>1, StepOfLoop
    <2>a. i \in 1..Len(lines) /\ seq = lines[i] /\ Len(lines) \in Nat
        BY <2>2, StepOfLoop DEF SeqInv, BasicTypes
    <2>3. i \in 1..i /\ seq = lines[i] /\ lines[i] \in Int
        BY <2>a DEF SeqInv, BasicTypes
    <2>4. Break(i) /\ lines[i] <= id /\ id < lines[i + 1]
        BY <2>1, <2>3, StepOfLoop DEF Break
    <2> QED
        BY <2>3, <2>4
<1> QED
    BY <1>1, <1>2

LEMMA SeqStepInv == SeqInv /\ [SeqNext]_seqVars => SeqInv'
<1> SUFFICES ASSUME SeqInv, [SeqNext]_seqVars PROVE SeqInv'
    OBVIOUS
<1>1. CASE ReadLog
    BY <1>1, LogsAssumption DEF ReadLog, SeqInv, BasicTypes, AtLine, PrintedInBreaks, Compared
<1>2. CASE CheckLine
    BY <1>2, LineKeepsTypes, LineListsABreak DEF SeqInv
<1>3. CASE PrintTotal
    BY <1>3 DEF PrintTotal, SeqInv, BasicTypes, AtLine, PrintedInBreaks, Compared, Break
<1>4. CASE UNCHANGED seqVars
    BY <1>4 DEF seqVars, SeqInv, BasicTypes, AtLine, PrintedInBreaks, Compared, Break
<1> QED
    BY <1>1, <1>2, <1>3, <1>4 DEF SeqNext

(* The inductive invariant holds throughout: it does at the start, and      *)
(* every step keeps it. (seqCheck.go, main)                                 *)
THEOREM SeqInvariantHolds == SeqSpec => []SeqInv
<1>1. SeqInit => SeqInv
    BY SeqInitInv
<1> QED
    BY <1>1, SeqStepInv, PTL DEF SeqSpec

(* The variables keep their types, and what is printed lies between two    *)
(* lines of the log.                                                       *)
THEOREM SeqTypeCorrect == SeqSpec => []SeqTypeOK
<1>1. SeqInv => SeqTypeOK
    <2> SUFFICES ASSUME SeqInv PROVE SeqTypeOK
        OBVIOUS
    <2>1. \A id \in missingIds : \E m, n \in 1..i : lines[m] <= id /\ id < lines[n]
        <3> TAKE id \in missingIds
        <3>1. PICK n \in 1..(i - 1) : lines[n] <= id /\ id < lines[n + 1]
            BY DEF SeqInv, PrintedInBreaks
        <3>2. n \in 1..i /\ n + 1 \in 1..i
            BY DEF SeqInv, BasicTypes
        <3> QED
            BY <3>1, <3>2
    <2> QED
        BY <2>1 DEF SeqInv, BasicTypes, SeqTypeOK
<1> QED
    BY <1>1, SeqInvariantHolds, PTL
-----------------------------------------------------------------------------
LEMMA StepTotal == SeqInv /\ TotalTelescopes /\ [SeqNext]_seqVars => TotalTelescopes'
<1> SUFFICES ASSUME SeqInv, TotalTelescopes, [SeqNext]_seqVars PROVE TotalTelescopes'
    OBVIOUS
<1>1. CASE ReadLog
    BY <1>1, LogsAssumption DEF ReadLog, SeqInv, BasicTypes, AtLine, Compared, TotalTelescopes
<1>2. CASE CheckLine
    <2>1. missingCount = seq - lines[1] - i /\ missingCount \in Int /\ seq \in Int
        BY <1>2, StepOfLoop DEF TotalTelescopes, SeqInv, BasicTypes, Compared
    <2>a. lines[i + 1] \in Int /\ lines[1] \in Int /\ i \in Nat
        BY <1>2, StepOfLoop
    <2>b. \/ lines[i + 1] = seq + 1 /\ missingCount' = missingCount
          \/ missingCount' = missingCount + (lines[i + 1] - seq - 1)
        BY <1>2 DEF CheckLine, Total
    <2>2. missingCount' = lines[i + 1] - lines[1] - (i + 1)
        BY <2>1, <2>a, <2>b
    <2> QED
        BY <1>2, <2>2, StepOfLoop DEF TotalTelescopes
<1>3. CASE PrintTotal
    BY <1>3 DEF PrintTotal, TotalTelescopes
<1>4. CASE UNCHANGED seqVars
    BY <1>4 DEF seqVars, TotalTelescopes
<1> QED
    BY <1>1, <1>2, <1>3, <1>4 DEF SeqNext

(* The total printed by seqCheck depends only on the first number, the last*)
(* and how many lines there are (main, line 58).                           *)
THEOREM TheTotalTelescopes == SeqSpec => []TotalTelescopes
<1>1. SeqInit => TotalTelescopes
    BY SeqInitInv
<1> QED
    BY <1>1, StepTotal, SeqInvariantHolds, PTL DEF SeqSpec
-----------------------------------------------------------------------------
NoneOverlooked == Compared => ~Overlooked

LEMMA LineOverlooksNone ==
    ASSUME SeqInv, NoneOverlooked, CheckLine
    PROVE  NoneOverlooked'
<1> SUFFICES ASSUME NEW n \in 1..(i + 1), NEW id \in lines[1]..lines[n],
                    \A k \in 1..(i + 1) : lines[k] # id
             PROVE  id \in missingIds'
    BY StepOfLoop DEF NoneOverlooked, Overlooked, Scanned
<1>1. \A k \in 1..i : lines[k] # id
    BY StepOfLoop
<1>2. \A m \in 1..i : id \in lines[1]..lines[m] => id \in missingIds
    BY <1>1, StepOfLoop DEF NoneOverlooked, Overlooked, Scanned
<1>3. missingIds \subseteq missingIds'
    BY DEF CheckLine
<1>4. CASE n \in 1..i
    BY <1>2, <1>3, <1>4
<1>5. CASE n = i + 1
    <2>1. i # 0
        BY <1>5, StepOfLoop
    <2>2. i \in 1..i /\ seq = lines[i] /\ seq \in Int
        BY <2>1, StepOfLoop DEF SeqInv, BasicTypes
    <2>3. CASE id <= seq
        BY <1>2, <1>3, <2>2, <2>3, StepOfLoop
    <2>4. CASE ~(id <= seq)
        <3>1. id # lines[i + 1] /\ id \in seq..(lines[i + 1] - 1) /\ lines[i + 1] # seq + 1
            BY <1>5, <2>2, <2>4, StepOfLoop
        <3> QED
            BY <3>1 DEF CheckLine, Listed
    <2> QED
        BY <2>3, <2>4
<1> QED
    BY <1>4, <1>5, StepOfLoop

LEMMA StepOverlooksNone == SeqInv /\ NoneOverlooked /\ [SeqNext]_seqVars => NoneOverlooked'
<1> SUFFICES ASSUME SeqInv, NoneOverlooked, [SeqNext]_seqVars PROVE NoneOverlooked'
    OBVIOUS
<1>1. CASE ReadLog
    BY <1>1 DEF ReadLog, SeqInv, BasicTypes, AtLine, Compared, NoneOverlooked, Overlooked
<1>2. CASE CheckLine
    BY <1>2, LineOverlooksNone
<1>3. CASE PrintTotal
    BY <1>3 DEF PrintTotal, NoneOverlooked, Compared, Overlooked, Scanned
<1>4. CASE UNCHANGED seqVars
    BY <1>4 DEF seqVars, NoneOverlooked, Compared, Overlooked, Scanned
<1> QED
    BY <1>1, <1>2, <1>3, <1>4 DEF SeqNext

(* In a log that rises, a number of a break that is not missing is the one *)
(* before it, and the next number is missing.                              *)
LEMMA FalseAlarmPrecedesABreak ==
    ASSUME SeqInv, Compared, Rises, NEW id \in missingIds, id \notin Absent
    PROVE  id \in Scanned /\ id + 1 \in Absent
<1>1. PICK n \in 1..(i - 1) : Break(n) /\ lines[n] <= id /\ id < lines[n + 1]
    BY DEF SeqInv, PrintedInBreaks
<1>2. /\ n \in 1..i /\ n \in 1..Len(lines) /\ n + 1 \in 1..Len(lines)
      /\ 1 \in 1..Len(lines) /\ Len(lines) \in 1..Len(lines)
    BY DEF SeqInv, BasicTypes
<1>3. \A k \in 1..Len(lines) : lines[k] \in Int
    BY DEF SeqInv, BasicTypes
<1>4. id \in Int
    BY DEF SeqInv, BasicTypes
<1>5. \A k \in 1..Len(lines) : k <= n => lines[k] <= lines[n]
    BY <1>2, <1>3 DEF Rises
<1>6. \A k \in 1..Len(lines) : k > n => lines[k] >= lines[n + 1]
    BY <1>2, <1>3 DEF Rises
<1>7. lines[1] <= lines[n] /\ lines[n + 1] <= lines[Len(lines)]
    BY <1>2, <1>5, <1>6
<1>8. id \in lines[1]..lines[Len(lines)]
    BY <1>1, <1>2, <1>3, <1>4, <1>7
<1>9. PICK k \in 1..Len(lines) : lines[k] = id
    BY <1>8 DEF Absent
<1>10. lines[n] = id
    BY <1>1, <1>2, <1>3, <1>5, <1>6, <1>9
<1>11. id + 1 < lines[n + 1]
    BY <1>1, <1>2, <1>3, <1>10 DEF Break
<1>12. id + 1 \in lines[1]..lines[Len(lines)]
    BY <1>2, <1>3, <1>4, <1>7, <1>10, <1>11
<1>13. \A j \in 1..Len(lines) : lines[j] # id + 1
    BY <1>2, <1>3, <1>4, <1>5, <1>6, <1>10, <1>11
<1> QED
    BY <1>2, <1>10, <1>12, <1>13 DEF Absent, Scanned

(* seqCheck overlooks no number of a break, and in a log that rises it     *)
(* prints too much only the number right before one (main, line 60).       *)
THEOREM TheBreaksAreListed == SeqSpec => []BreaksAreListed
<1>1. SeqInit => NoneOverlooked
    BY SeqInitInv DEF NoneOverlooked
<1>2. SeqInv /\ NoneOverlooked => BreaksAreListed
    <2> SUFFICES ASSUME SeqInv, NoneOverlooked PROVE BreaksAreListed
        OBVIOUS
    <2>1. Compared => \A n \in 1..i : \A id \in lines[1]..lines[n] : id \in Scanned \cup missingIds
        BY DEF NoneOverlooked, Overlooked
    <2>2. (scan = "done" /\ Rises) => \A id \in missingIds \ Absent : id \in Scanned /\ id + 1 \in Absent
        BY FalseAlarmPrecedesABreak DEF Compared
    <2> QED
        BY <2>1, <2>2 DEF BreaksAreListed, Compared
<1> QED
    BY <1>1, <1>2, StepOverlooksNone, SeqInvariantHolds, PTL DEF SeqSpec
-----------------------------------------------------------------------------
(* Order extraction                                                        *)

(* A set of naturals has a smallest member, and one with a bound a largest.*)
LEMMA SmallestOf ==
    ASSUME NEW S, S \subseteq Nat, S # {}
    PROVE  Min(S) \in S /\ \A y \in S : Min(S) <= y
<1>1. PICK x \in S : \A y \in S : ~(<<y, x>> \in OpToRel(<, Nat))
  BY NatLessThanWellFounded, WFMin
<1>2. \A y \in S : x <= y
  <2>1. ASSUME NEW y \in S, y < x PROVE FALSE
    <3>1. <<y, x>> \in OpToRel(<, Nat)
      BY <2>1 DEF OpToRel
    <3>2. QED
      BY <1>1, <3>1
  <2>2. QED
    BY <2>1
<1>3. QED
  BY <1>2 DEF Min

LEMMA LargestOf ==
    ASSUME NEW n \in Nat, NEW S, S \subseteq 0..n, S # {}
    PROVE  Max(S) \in S /\ \A y \in S : Max(S) >= y
<1> DEFINE T == {n - y : y \in S}
<1>1. T \subseteq Nat /\ T # {}
  <2>1. \A y \in S : n - y \in Nat
    OBVIOUS
  <2>2. QED
    BY <2>1
<1>2. Min(T) \in T /\ \A z \in T : Min(T) <= z
  BY <1>1, SmallestOf
<1>3. PICK x \in S : Min(T) = n - x
  BY <1>2
<1>4. \A y \in S : x >= y
  <2>1. ASSUME NEW y \in S PROVE x >= y
    <3>1. n - y \in T
      OBVIOUS
    <3> HIDE DEF T
    <3>2. n - x <= n - y
      BY <1>2, <1>3, <3>1
    <3>3. x \in Int /\ y \in Int
      OBVIOUS
    <3>4. QED
      BY <3>2, <3>3
  <2>2. QED
    BY <2>1
<1>5. QED
  BY <1>4 DEF Max

(* The scanner reads the lines before the first that is too long.          *)
TooLong(file, k) == file[k].kind = "too long"

LEMMA ScannedLines ==
    ASSUME NEW file, file \in Seq(Range(file))
    PROVE  /\ ReadLines(file) \in Seq(Range(file)) /\ Len(ReadLines(file)) <= Len(file)
           /\ \A k \in 1..Len(ReadLines(file)) : ReadLines(file)[k] = file[k] /\ ~TooLong(file, k)
           /\ Len(ReadLines(file)) < Len(file) => TooLong(file, Len(ReadLines(file)) + 1)
<1> DEFINE long == {k \in 1..Len(file) : TooLong(file, k)}
<1>1. Len(file) \in Nat /\ DOMAIN file = 1..Len(file)
  OBVIOUS
<1>2. long # {} => Min(long) \in long /\ \A k \in long : Min(long) <= k
  <2>1. long \subseteq Nat
    OBVIOUS
  <2> HIDE DEF long
  <2>2. QED
    BY <2>1, SmallestOf
<1>3. ReadLines(file) = IF long = {} THEN file ELSE SubSeq(file, 1, Min(long) - 1)
  <2>2. long # {} => Min(long) # 0
    BY <1>2
  <2>3. SelectInSeq(file, LAMBDA l : l.kind = "too long") = IF long # {} THEN Min(long) ELSE 0
    BY DEF SelectInSeq, TooLong
  <2> HIDE DEF long
  <2>4. QED
    BY <2>2, <2>3 DEF ReadLines
<1>4. CASE long = {}
  BY <1>1, <1>3, <1>4
<1>5. CASE long # {}
  <2> DEFINE first == Min(long)
  <2>1. first \in 1..Len(file) /\ TooLong(file, first) /\ \A k \in long : first <= k
    BY <1>5, <1>2
  <2>2. ReadLines(file) = SubSeq(file, 1, first - 1)
    BY <1>3, <1>5
  <2> HIDE DEF first, long
  <2>3. \A k \in 1..(first - 1) : k \in 1..Len(file) /\ ~TooLong(file, k)
    BY <1>1, <2>1 DEF long
  <2>4. /\ SubSeq(file, 1, first - 1) \in Seq(Range(file))
        /\ Len(SubSeq(file, 1, first - 1)) = first - 1
        /\ \A k \in 1..(first - 1) : SubSeq(file, 1, first - 1)[k] = file[k]
    BY <1>1, <2>1, <2>3
  <2>5. (first - 1) + 1 = first
    BY <1>1, <2>1
  <2>6. QED
    BY <1>1, <2>1, <2>2, <2>3, <2>4, <2>5
<1>6. QED
  BY <1>4, <1>5

(* The symbol is that of the last row for the security, if there is one.   *)
RowsFor(file, security) ==
    {k \in 1..Len(ReadLines(file)) :
        ReadLines(file)[k].kind = "symbol" /\ ReadLines(file)[k].security = security}

IsSymbol(file, security, symbol) ==
    IF RowsFor(file, security) = {} THEN symbol = ""
    ELSE \E k \in RowsFor(file, security) :
            /\ \A j \in RowsFor(file, security) : j <= k
            /\ symbol = ReadLines(file)[k].symbol

LEMMA SymbolOfLastRow ==
    ASSUME table \in Seq(Range(table)), NEW security
    PROVE  IsSymbol(table, security, LookupSymbol(security))
<1> DEFINE rows == RowsFor(table, security)
<1>1. Len(ReadLines(table)) \in Nat
  BY ScannedLines
<1>2. rows \subseteq 1..Len(ReadLines(table)) /\ rows \subseteq 0..Len(ReadLines(table))
  BY <1>1 DEF RowsFor
<1>3. RowOf(security) = IF rows # {} THEN Max(rows) ELSE 0
  BY DEF RowOf, SelectLastInSeq, RowsFor
<1>4. rows # {} => Max(rows) \in rows /\ \A y \in rows : Max(rows) >= y
  BY <1>1, <1>2, LargestOf
<1> HIDE DEF rows
<1>5. CASE rows = {}
  BY <1>3, <1>5 DEF LookupSymbol, IsSymbol, rows
<1>6. CASE rows # {}
  <2>1. RowOf(security) = Max(rows) /\ Max(rows) \in rows /\ Max(rows) # 0
    BY <1>1, <1>2, <1>3, <1>4, <1>6
  <2>2. LookupSymbol(security) = ReadLines(table)[Max(rows)].symbol
    BY <2>1 DEF LookupSymbol
  <2>3. \A y \in rows : y <= Max(rows)
    BY <1>1, <1>2, <1>4, <2>1
  <2>4. QED
    BY <1>6, <2>1, <2>2, <2>3 DEF IsSymbol, rows
<1>7. QED
  BY <1>5, <1>6

(* A list that is added to is a list of what it had and the new member.    *)
LEMMA Appended ==
    ASSUME NEW list, list \in Seq(Range(list)), NEW x
    PROVE  /\ Append(list, x) \in Seq(Range(Append(list, x)))
           /\ Len(Append(list, x)) = Len(list) + 1
           /\ Append(list, x)[Len(list) + 1] = x
           /\ \A k \in 1..Len(list) : Append(list, x)[k] = list[k]
<1> DEFINE S == Range(list) \cup {x}
<1>1. list \in Seq(S) /\ x \in S
  OBVIOUS
<1> HIDE DEF S
<1>2. /\ Append(list, x) \in Seq(S)
      /\ Len(Append(list, x)) = Len(list) + 1
      /\ Append(list, x)[Len(list) + 1] = x
      /\ \A k \in 1..Len(list) : Append(list, x)[k] = list[k]
  BY <1>1
<1> DEFINE longer == Append(list, x)
<1>3. longer \in Seq(Range(longer))
  <2>1. longer \in Seq(S)
    BY <1>2
  <2> HIDE DEF longer
  <2>2. Len(longer) \in Nat /\ longer \in [1..Len(longer) -> S]
    BY <2>1
  <2>3. \A k \in 1..Len(longer) : longer[k] \in Range(longer)
    BY <2>2 DEF Range
  <2>4. QED
    BY <2>2, <2>3
<1>4. QED
  BY <1>2, <1>3

(* The orders among the lines gone through have been printed, in order, and*)
(* the last with the symbol the table has for it, until the table changes. *)
OrdersPrinted ==
    /\ printed \in Seq(Range(printed)) /\ Len(printed) <= line
    /\ {printed[k].line : k \in DOMAIN printed} = {k \in 1..line : theData[k].kind = "order"}
    /\ \A j, k \in DOMAIN printed : j < k => printed[j].line < printed[k].line
    /\ (printed # <<>> /\ updates = 0) =>
          IsSymbol(table, theData[LastPrinted.line].security, LastPrinted.symbol)

ExtractInv ==
    /\ extract \in {"start", "loop", "done", "panic"}
    /\ extract = "start" => line = 0 /\ printed = <<>>
    /\ dump \in Dumps \cup {<<>>} /\ dump \in Seq(Range(dump))
    /\ table \in Tables \cup {<<>>} /\ table \in Seq(Range(table))
    /\ theData = ReadLines(dump)
    /\ line \in 0..Len(theData)
    /\ updates \in 0..MaxUpdates
    /\ OrdersPrinted

LEMMA FilesAreSequences ==
    ASSUME NEW file \in Dumps \cup Tables \cup {<<>>}
    PROVE  file \in Seq(Range(file))
<1>1. CASE file = <<>>
  BY <1>1
<1>2. CASE file # <<>>
  BY <1>2, ExtractAssumption
<1>3. QED
  BY <1>1, <1>2

LEMMA ExtractInitHolds == ExtractInit => ExtractInv
<1> SUFFICES ASSUME ExtractInit PROVE ExtractInv
  OBVIOUS
<1>1. <<>> \in Seq(Range(<<>>)) /\ DOMAIN <<>> = {} /\ Len(<<>>) = 0
  OBVIOUS
<1>2. ReadLines(<<>>) = <<>>
  <2>1. ReadLines(<<>>) \in Seq(Range(<<>>)) /\ Len(ReadLines(<<>>)) <= 0
    BY <1>1, ScannedLines
  <2>2. QED
    BY <2>1
<1>3. updates \in 0..MaxUpdates
  BY ExtractAssumption DEF ExtractInit
<1>4. OrdersPrinted
  BY <1>1 DEF ExtractInit, OrdersPrinted
<1>5. QED
  BY <1>1, <1>2, <1>3, <1>4 DEF ExtractInit, ExtractInv

LEMMA ReadDumpHolds == ExtractInv /\ ReadDump => ExtractInv'
<1> SUFFICES ASSUME ExtractInv, ReadDump PROVE ExtractInv'
  OBVIOUS
<1>1. /\ dump' \in Dumps \cup {<<>>} /\ theData' = ReadLines(dump') /\ table' \in Tables \cup {<<>>}
      /\ extract' = "loop" /\ line' = 0 /\ printed' = <<>> /\ updates' \in 0..MaxUpdates
  BY DEF ReadDump, ExtractInv
<1>2. dump' \in Seq(Range(dump')) /\ table' \in Seq(Range(table'))
  BY <1>1, FilesAreSequences
<1>3. Len(theData') \in Nat
  BY <1>1, <1>2, ScannedLines
<1>4. OrdersPrinted'
  BY <1>1 DEF OrdersPrinted
<1>5. QED
  BY <1>1, <1>2, <1>3, <1>4 DEF ExtractInv

LEMMA SkipHolds == ExtractInv /\ SkipMessage => ExtractInv'
<1> SUFFICES ASSUME ExtractInv, SkipMessage PROVE ExtractInv'
  OBVIOUS
<1>1. /\ extract' = "loop" /\ line' = line + 1
      /\ line < Len(theData) /\ theData[line + 1].kind # "order"
      /\ UNCHANGED <<dump, theData, table, printed, updates>>
  BY DEF SkipMessage, Message, IsRequest
<1>2. Len(theData) \in Nat /\ line \in Nat
  BY ScannedLines DEF ExtractInv
<1>3. {k \in 1..line' : theData[k].kind = "order"} = {k \in 1..line : theData[k].kind = "order"}
  BY <1>1, <1>2
<1>4. OrdersPrinted'
  BY <1>1, <1>3 DEF ExtractInv, OrdersPrinted, LastPrinted
<1>5. QED
  BY <1>1, <1>2, <1>4 DEF ExtractInv

LEMMA PrintHolds == ExtractInv /\ PrintOrder => ExtractInv'
<1> SUFFICES ASSUME ExtractInv, PrintOrder PROVE ExtractInv'
  OBVIOUS
<1> DEFINE order == [line |-> line + 1, symbol |-> LookupSymbol(theData[line + 1].security)]
<1>1. /\ extract' = "loop" /\ line' = line + 1 /\ updates' = 0
      /\ line < Len(theData) /\ theData[line + 1].kind = "order"
      /\ printed' = Append(printed, order)
      /\ UNCHANGED <<dump, theData, table>>
  BY DEF PrintOrder, Message, IsRequest
<1>2. Len(theData) \in Nat /\ line \in Nat /\ printed \in Seq(Range(printed))
  BY ScannedLines DEF ExtractInv, OrdersPrinted
<1>3. /\ printed' \in Seq(Range(printed'))
      /\ Len(printed') = Len(printed) + 1 /\ printed'[Len(printed) + 1] = order
      /\ \A k \in 1..Len(printed) : printed'[k] = printed[k]
  BY <1>1, <1>2, Appended
<1>4. Len(printed) \in Nat /\ DOMAIN printed = 1..Len(printed) /\ DOMAIN printed' = 1..(Len(printed) + 1)
  BY <1>2, <1>3
<1>5. order.line = line + 1 /\ order.symbol = LookupSymbol(theData[line + 1].security)
  OBVIOUS
<1> HIDE DEF order
<1>6. {printed'[k].line : k \in DOMAIN printed'} = {k \in 1..line' : theData[k].kind = "order"}
  <2>1. {printed'[k].line : k \in DOMAIN printed'} = {printed[k].line : k \in DOMAIN printed} \cup {line + 1}
    BY <1>3, <1>4, <1>5
  <2>2. {k \in 1..(line + 1) : theData[k].kind = "order"} = {k \in 1..line : theData[k].kind = "order"} \cup {line + 1}
    BY <1>1, <1>2
  <2>3. QED
    BY <1>1, <2>1, <2>2 DEF ExtractInv, OrdersPrinted
<1>7. \A j, k \in DOMAIN printed' : j < k => printed'[j].line < printed'[k].line
  <2> SUFFICES ASSUME NEW j \in DOMAIN printed', NEW k \in DOMAIN printed', j < k
               PROVE  printed'[j].line < printed'[k].line
    OBVIOUS
  <2>1. j \in 1..Len(printed) /\ printed'[j] = printed[j]
    BY <1>3, <1>4
  <2>2. printed[j].line \in 1..line
    BY <1>4, <2>1 DEF ExtractInv, OrdersPrinted
  <2>3. CASE k = Len(printed) + 1
    BY <1>2, <1>3, <1>5, <2>1, <2>2, <2>3
  <2>4. CASE k # Len(printed) + 1
    <3>1. k \in 1..Len(printed) /\ printed'[k] = printed[k]
      BY <1>3, <1>4, <2>4
    <3>2. QED
      BY <1>4, <2>1, <3>1 DEF ExtractInv, OrdersPrinted
  <2>5. QED
    BY <2>3, <2>4
<1>8. LastPrinted' = order
  BY <1>3 DEF LastPrinted
<1>9. IsSymbol(table, theData[line + 1].security, order.symbol)
  BY <1>5, SymbolOfLastRow DEF ExtractInv
<1>10. IsSymbol(table', theData'[LastPrinted'.line].security, LastPrinted'.symbol)
  BY <1>1, <1>5, <1>8, <1>9
<1>11. Len(printed') <= line'
  BY <1>1, <1>2, <1>3, <1>4 DEF ExtractInv, OrdersPrinted
<1>12. OrdersPrinted'
  BY <1>1, <1>3, <1>6, <1>7, <1>10, <1>11 DEF OrdersPrinted
<1>13. updates' \in 0..MaxUpdates
  BY <1>1, ExtractAssumption
<1>14. QED
  BY <1>1, <1>2, <1>12, <1>13 DEF ExtractInv

LEMMA ExtractStepHolds == ExtractInv /\ [ExtractNext]_extractVars => ExtractInv'
<1> SUFFICES ASSUME ExtractInv, [ExtractNext]_extractVars PROVE ExtractInv'
  OBVIOUS
<1>1. CASE Panic \/ EndOfData \/ UNCHANGED extractVars
  <2>1. /\ UNCHANGED <<dump, theData, line, table, printed, updates>>
        /\ extract' \in {"start", "loop", "done", "panic"} /\ (extract' = "start" => extract = "start")
    BY <1>1 DEF Panic, EndOfData, extractVars, ExtractInv
  <2>2. OrdersPrinted'
    BY <2>1 DEF ExtractInv, OrdersPrinted, LastPrinted
  <2>3. QED
    BY <2>1, <2>2 DEF ExtractInv
<1>2. CASE UpdateTable
  <2>1. /\ extract = "loop" /\ table' \in Tables \cup {<<>>} /\ updates' = updates + 1
        /\ UNCHANGED <<extract, dump, theData, line, printed>> /\ updates \in Nat
        /\ updates' \in 0..MaxUpdates
    BY <1>2, ExtractAssumption DEF UpdateTable, ExtractInv
  <2>2. table' \in Seq(Range(table'))
    BY <2>1, FilesAreSequences
  <2>3. updates' \in Nat /\ updates' # 0
    BY <2>1
  <2>4. OrdersPrinted'
    BY <2>1, <2>3 DEF ExtractInv, OrdersPrinted
  <2>5. QED
    BY <2>1, <2>2, <2>3, <2>4 DEF ExtractInv
<1>3. QED
  BY <1>1, <1>2, ReadDumpHolds, SkipHolds, PrintHolds DEF ExtractNext

(* The inductive invariant holds throughout: it does at the start, and      *)
(* every step keeps it.  (processing.go, main)                             *)
THEOREM ExtractInvariantHolds == ExtractSpec => []ExtractInv
  BY ExtractInitHolds, ExtractStepHolds, PTL DEF ExtractSpec

(* The lines gone through are the first of the dump, none of them too long.*)
LEMMA ReadLinesAreTheDump ==
    ASSUME ExtractInv
    PROVE  /\ \A k \in 1..line : k \in DOMAIN dump /\ theData[k] = dump[k] /\ ~TooLong(dump, k)
           /\ DOMAIN table = 1..Len(table)
<1>1. /\ Len(theData) <= Len(dump) /\ Len(theData) \in Nat /\ DOMAIN dump = 1..Len(dump)
      /\ \A k \in 1..Len(theData) : theData[k] = dump[k] /\ ~TooLong(dump, k)
  BY ScannedLines DEF ExtractInv
<1>2. QED
  BY <1>1 DEF ExtractInv

(* The variables keep their types, and what has been scanned is the first  *)
(* part of the dump.  (processing.go, main and readLines)                  *)
THEOREM ExtractTypeCorrect == ExtractSpec => []ExtractTypeOK
<1>1. ExtractInv => ExtractTypeOK
  <2> SUFFICES ASSUME ExtractInv PROVE ExtractTypeOK
    OBVIOUS
  <2>1. dump \in Seq(Range(dump)) /\ theData = ReadLines(dump)
    BY DEF ExtractInv
  <2>2. /\ theData \in Seq(Range(dump)) /\ Len(theData) <= Len(dump)
        /\ \A k \in 1..Len(theData) : theData[k] = dump[k]
    BY <2>1, ScannedLines
  <2>3. IsPrefix(theData, dump)
    <3>1. Len(theData) \in Nat /\ Len(dump) \in Nat /\ theData \in Seq(Range(dump))
      BY <2>1, <2>2
    <3>2. SubSeq(theData, 1, Len(theData)) = SubSeq(dump, 1, Len(theData))
      BY <2>1, <2>2, <3>1
    <3>3. QED
      BY <2>2, <3>2 DEF IsPrefix
  <2>4. QED
    BY <2>3 DEF ExtractInv, OrdersPrinted, ExtractTypeOK
<1>2. QED
  BY <1>1, ExtractInvariantHolds, PTL

(* What processing prints are the orders of the dump before a line too     *)
(* long, once each and in order, each with the last symbol the table gave  *)
(* for it, for any dumps and tables.  (processing.go, main, readLines and  *)
(* lookupSymbols)                                                          *)
THEOREM OrdersAreExtracted == ExtractSpec => []ExtractedOrders
<1>1. ExtractInv => ExtractedOrders
  <2> SUFFICES ASSUME ExtractInv PROVE ExtractedOrders
    OBVIOUS
  <2> DEFINE reached == {k \in 1..line : \A j \in 1..k : dump[j].kind # "too long"}
             rowsFor == {k \in DOMAIN table :
                           /\ table[k].kind = "symbol"
                           /\ table[k].security = dump[LastPrinted.line].security
                           /\ \A j \in 1..k : table[j].kind # "too long"}
  <2>1. line \in Nat
    BY ScannedLines DEF ExtractInv
  <2>2. reached = 1..line
    <3>1. ASSUME NEW k \in 1..line PROVE \A j \in 1..k : dump[j].kind # "too long"
      <4>1. \A j \in 1..k : j \in 1..line
        BY <2>1
      <4>2. QED
        BY <4>1, ReadLinesAreTheDump DEF TooLong
    <3>2. QED
      BY <3>1
  <2>3. {k \in reached : dump[k].kind = "order"} = {k \in 1..line : theData[k].kind = "order"}
    BY <2>2, ReadLinesAreTheDump
  <2>4. ASSUME printed # <<>>, updates = 0
        PROVE  IF rowsFor = {} THEN LastPrinted.symbol = ""
               ELSE \E k \in rowsFor : (\A j \in rowsFor : j <= k) /\ LastPrinted.symbol = table[k].symbol
    <3> DEFINE security == dump[LastPrinted.line].security
    <3>1. LastPrinted.line \in 1..line
      <4>1. Len(printed) \in DOMAIN printed
        BY <2>4 DEF ExtractInv, OrdersPrinted
      <4>2. QED
        BY <4>1 DEF ExtractInv, OrdersPrinted, LastPrinted
    <3>2. IsSymbol(table, security, LastPrinted.symbol)
      BY <2>4, <3>1, ReadLinesAreTheDump DEF ExtractInv, OrdersPrinted
    <3>3. table \in Seq(Range(table)) /\ Len(table) \in Nat /\ DOMAIN table = 1..Len(table)
      BY DEF ExtractInv
    <3>4. /\ Len(ReadLines(table)) \in Nat /\ Len(ReadLines(table)) <= Len(table)
          /\ \A k \in 1..Len(ReadLines(table)) : ReadLines(table)[k] = table[k] /\ ~TooLong(table, k)
          /\ Len(ReadLines(table)) < Len(table) => TooLong(table, Len(ReadLines(table)) + 1)
      BY <3>3, ScannedLines
    <3>5. rowsFor = RowsFor(table, security)
      <4>1. ASSUME NEW k \in rowsFor PROVE k \in RowsFor(table, security)
        <5>1. /\ k \in 1..Len(table) /\ \A j \in 1..k : ~TooLong(table, j)
              /\ table[k].kind = "symbol" /\ table[k].security = security
          BY <3>3 DEF TooLong
        <5> HIDE DEF rowsFor, security
        <5>2. k <= Len(ReadLines(table))
          <6>1. ASSUME Len(ReadLines(table)) < k PROVE Len(ReadLines(table)) + 1 \in 1..k
            BY <3>4, <5>1, <6>1
          <6>2. Len(ReadLines(table)) < k => Len(ReadLines(table)) < Len(table)
            BY <3>3, <3>4, <5>1
          <6>3. QED
            BY <3>4, <5>1, <6>1, <6>2
        <5>3. k \in 1..Len(ReadLines(table))
          BY <3>4, <5>1, <5>2
        <5>4. ReadLines(table)[k] = table[k]
          BY <3>4, <5>3
        <5>5. QED
          BY <5>1, <5>3, <5>4 DEF RowsFor
      <4>2. ASSUME NEW k \in RowsFor(table, security) PROVE k \in rowsFor
        <5>1. k \in 1..Len(ReadLines(table)) /\ k \in DOMAIN table /\ ReadLines(table)[k] = table[k]
          BY <3>3, <3>4 DEF RowsFor
        <5>2. \A j \in 1..k : table[j].kind # "too long"
          <6>1. \A j \in 1..k : j \in 1..Len(ReadLines(table))
            BY <3>4, <5>1
          <6>2. QED
            BY <3>4, <6>1 DEF TooLong
        <5>3. QED
          BY <5>1, <5>2 DEF RowsFor
      <4>3. QED
        BY <4>1, <4>2
    <3> HIDE DEF rowsFor, security
    <3>6. \A k \in RowsFor(table, security) : ReadLines(table)[k] = table[k]
      BY <3>4 DEF RowsFor
    <3>7. QED
      BY <3>2, <3>5, <3>6 DEF IsSymbol
  <2> HIDE DEF reached, rowsFor
  <2>5. QED
    BY <2>3, <2>4 DEF ExtractedOrders, ExtractInv, OrdersPrinted, reached, rowsFor
<1>2. QED
  BY <1>1, ExtractInvariantHolds, PTL
-----------------------------------------------------------------------------
(* The streamer                                                            *)

(* The messages a reader keeps are those of the topic from the first one,  *)
(* each in its place.                                                      *)
Copied(c) == \A k \in 1..Len(streamContent[c]) : streamContent[c][k] = k

(* The first count messages are in the database of the backups.            *)
BackedUp(count) == \A n \in 1..count : stored["backup"][n] = n

(* A request has not read beyond the topic, and what it has read and has    *)
(* still to write are messages of it.                                      *)
ReadInv(c) ==
    /\ outerCnt[c] <= topic /\ had[c] <= topic
    /\ at[c] \in {"idle", "open"} => outerCnt[c] = 0 /\ streamContent[c] = <<>>
    /\ at[c] = "idle" => what[c] = "load"
    /\ at[c] = "open" => what[c] = "backup"
    /\ at[c] = "rollout" => what[c] = "refresh"
    /\ at[c] \in {"read", "connect", "write"} => what[c] \in Databases /\ Copied(c)
    /\ at[c] = "read" => Len(streamContent[c]) = outerCnt[c]
    /\ at[c] \in {"connect", "write"} => left[c] \subseteq 1..Len(streamContent[c])

(* A backup writes every message there was, and has when the portal polls. *)
BackupInv(c) ==
    /\ at[c] \in {"connect", "write"} /\ what[c] = "backup" =>
          /\ Len(streamContent[c]) >= had[c]
          /\ mishaps = 0 =>
                \A n \in 1..Len(streamContent[c]) : n \notin left[c] => stored["backup"][n] = n
    /\ at[c] \in {"poll", "on"} /\ what[c] = "backup" /\ mishaps = 0 => BackedUp(had[c])

StreamInv ==
    /\ StreamTypeOK /\ mishaps \in Nat /\ restarts \in Nat
    /\ streamContent \in [Callers -> Seq(Numbers)] /\ left \in [Callers -> SUBSET Numbers]
    /\ mishaps = 0 => astray = {}
    /\ \A c \in Callers : ReadInv(c) /\ BackupInv(c)

LEMMA StreamInitHolds == StreamInit => StreamInv
<1> SUFFICES ASSUME StreamInit PROVE StreamInv
  OBVIOUS
<1>1. MaxTopic \in Nat /\ MaxMishaps \in Nat
  BY StreamerAssumption
<1>2. StreamTypeOK
  BY <1>1 DEF StreamInit, StreamTypeOK, Numbers, Databases
<1>3. streamContent \in [Callers -> Seq(Numbers)] /\ left \in [Callers -> SUBSET Numbers]
  BY DEF StreamInit
<1>4. QED
  BY <1>1, <1>2, <1>3 DEF StreamInit, StreamInv, ReadInv, BackupInv

(* The numbers a request works with.                                       *)
LEMMA StreamTypes ==
    ASSUME StreamInv, NEW c \in Callers
    PROVE  /\ MaxTopic \in Nat /\ MaxMishaps \in Nat /\ mishaps \in Nat /\ restarts \in Nat
           /\ topic \in Nat /\ topic <= MaxTopic
           /\ outerCnt[c] \in Nat /\ had[c] \in Nat /\ start[c] \in Nat /\ stop[c] \in Nat
           /\ streamContent[c] \in Seq(Numbers) /\ Len(streamContent[c]) \in Nat
           /\ left[c] \subseteq Numbers
           /\ at[c] \in {"idle", "open", "read", "connect", "write", "rollout", "poll", "on", "gone"}
           /\ what[c] \in {"load", "backup", "refresh"}
           /\ astray \subseteq Callers /\ (mishaps = 0 => astray = {})
           /\ ReadInv(c) /\ BackupInv(c)
<1>1. /\ StreamTypeOK /\ mishaps \in Nat /\ restarts \in Nat /\ MaxTopic \in Nat /\ MaxMishaps \in Nat
      /\ mishaps = 0 => astray = {}
      /\ ReadInv(c) /\ BackupInv(c)
  BY StreamerAssumption DEF StreamInv
<1>2. streamContent[c] \in Seq(Numbers) /\ left[c] \subseteq Numbers
  BY <1>1 DEF StreamTypeOK
<1>3. Len(streamContent[c]) \in Nat
  BY <1>2
<1>4. QED
  BY <1>1, <1>2, <1>3 DEF StreamTypeOK, Databases

(* What the others do not take from a request: the topic grows, what is in *)
(* the backup stays or is written again, and mishaps are not forgotten.    *)
LEMMA RequestKept ==
    ASSUME StreamInv, NEW d \in Callers,
           UNCHANGED <<what[d], start[d], stop[d], had[d], outerCnt[d], streamContent[d], left[d]>>,
           at'[d] \in {at[d], "gone"} \/ (at[d] = "poll" /\ at'[d] = "on"),
           topic' \in Nat, topic <= topic', mishaps' \in {mishaps, mishaps + 1},
           \A n \in Numbers : stored["backup"][n] = n => stored'["backup"][n] = n
    PROVE  ReadInv(d)' /\ BackupInv(d)'
<1>1. ReadInv(d)'
  BY StreamTypes DEF ReadInv, Copied
<1>2. mishaps' = 0 => mishaps = 0
  BY StreamTypes
<1>3. ASSUME at[d] \in {"connect", "write"}, NEW n \in 1..Len(streamContent[d]) PROVE n \in Numbers
  <2>1. streamContent[d][n] \in Numbers
    BY StreamTypes
  <2>2. streamContent[d][n] = n
    BY <1>3, StreamTypes DEF ReadInv, Copied
  <2>3. QED
    BY <2>1, <2>2
<1>4. \A n \in 1..had[d] : n \in Numbers
  BY StreamTypes DEF ReadInv, Numbers
<1>5. BackedUp(had[d]) => BackedUp(had[d])'
  BY <1>4 DEF BackedUp
<1>6. /\ streamContent'[d] = streamContent[d] /\ left'[d] = left[d] /\ had'[d] = had[d]
      /\ what'[d] = what[d] /\ BackupInv(d)
  BY StreamTypes
<1>7. ASSUME at'[d] \in {"connect", "write"}, what'[d] = "backup"
      PROVE  /\ Len(streamContent[d]) >= had[d]
             /\ mishaps' = 0 =>
                   (\A n \in 1..Len(streamContent[d]) : n \notin left[d] => stored'["backup"][n] = n)
  <2>1. at[d] \in {"connect", "write"} /\ what[d] = "backup"
    BY <1>6, <1>7
  <2>2. ASSUME mishaps' = 0, NEW n \in 1..Len(streamContent[d]), n \notin left[d]
        PROVE  stored'["backup"][n] = n
    BY <1>2, <1>3, <1>6, <2>1, <2>2 DEF BackupInv
  <2>3. Len(streamContent[d]) >= had[d]
    BY <1>6, <2>1 DEF BackupInv
  <2>4. QED
    BY <2>2, <2>3
<1>8. ASSUME at'[d] \in {"poll", "on"}, what'[d] = "backup", mishaps' = 0
      PROVE  BackedUp(had[d])'
  <2>1. at[d] \in {"poll", "on"} /\ what[d] = "backup" /\ mishaps = 0
    BY <1>2, <1>6, <1>8
  <2>2. QED
    BY <1>5, <1>6, <2>1 DEF BackupInv
<1>9. BackupInv(d)'
  BY <1>6, <1>7, <1>8 DEF BackupInv
<1>10. QED
  BY <1>1, <1>9

(* A step of one request: the others keep theirs.                          *)
LEMMA StepOfOne ==
    ASSUME StreamInv, NEW c \in Callers,
           StreamTypeOK', streamContent' \in [Callers -> Seq(Numbers)], left' \in [Callers -> SUBSET Numbers],
           \A d \in Callers \ {c} :
              /\ at'[d] = at[d] /\ what'[d] = what[d] /\ start'[d] = start[d] /\ stop'[d] = stop[d]
              /\ had'[d] = had[d] /\ outerCnt'[d] = outerCnt[d]
              /\ streamContent'[d] = streamContent[d] /\ left'[d] = left[d],
           topic' = topic, mishaps' \in {mishaps, mishaps + 1}, restarts' = restarts,
           mishaps' = 0 => astray' = {},
           \A n \in Numbers : stored["backup"][n] = n => stored'["backup"][n] = n,
           ReadInv(c)', BackupInv(c)'
    PROVE  StreamInv'
<1>1. mishaps' \in Nat /\ restarts' \in Nat /\ topic' \in Nat /\ topic <= topic'
  BY StreamTypes
<1>2. ASSUME NEW d \in Callers PROVE ReadInv(d)' /\ BackupInv(d)'
  <2>1. CASE d = c
    BY <2>1
  <2>2. CASE d # c
    BY <1>1, <2>2, RequestKept
  <2>3. QED
    BY <2>1, <2>2
<1>3. QED
  BY <1>1, <1>2 DEF StreamInv

(* The topic grows.                                                        *)
LEMMA PublishKeeps == ASSUME StreamInv, Publish PROVE StreamInv'
<1>1. /\ StreamTypeOK /\ topic' = topic + 1 /\ topic < MaxTopic /\ MaxTopic \in Nat
      /\ streamContent \in [Callers -> Seq(Numbers)] /\ left \in [Callers -> SUBSET Numbers]
  BY StreamerAssumption DEF StreamInv, Publish
<1>2. UNCHANGED <<statuses, stored, at, request, reading, bounds>>
  BY DEF Publish
<1>3. topic' \in 0..MaxTopic /\ topic' \in Nat /\ topic <= topic'
  BY <1>1 DEF StreamTypeOK
<1>4. StreamTypeOK' /\ streamContent' \in [Callers -> Seq(Numbers)] /\ left' \in [Callers -> SUBSET Numbers]
  BY <1>1, <1>2, <1>3 DEF StreamTypeOK, statuses, request, reading, bounds
<1>5. /\ mishaps' = mishaps /\ restarts' = restarts /\ mishaps \in Nat /\ restarts \in Nat
      /\ mishaps' = 0 => astray' = {}
  BY <1>2 DEF bounds, reading, StreamInv
<1>6. ASSUME NEW d \in Callers PROVE ReadInv(d)' /\ BackupInv(d)'
  BY <1>2, <1>3, <1>5, RequestKept DEF request, reading
<1>7. QED
  BY <1>4, <1>5, <1>6 DEF StreamInv

LEMMA AskLoadKeeps == ASSUME StreamInv, NEW c \in Callers, AskLoad(c) PROVE StreamInv'
<1>1. /\ StreamTypeOK /\ MaxTopic \in Nat
      /\ streamContent \in [Callers -> Seq(Numbers)] /\ left \in [Callers -> SUBSET Numbers]
  BY StreamerAssumption DEF StreamInv
<1>2. PICK from, to \in 0..MaxTopic :
        start' = [start EXCEPT ![c] = from] /\ stop' = [stop EXCEPT ![c] = to]
  BY DEF AskLoad
<1>3. /\ at[c] = "idle" /\ loadStatus' = "reloading"
      /\ at' = [at EXCEPT ![c] = "read"]
      /\ UNCHANGED <<topic, backupStatus, stored, what, had, outerCnt, streamContent, left, astray,
                     mishaps, restarts>>
  BY DEF AskLoad, reading, bounds
<1>4. StreamTypeOK' /\ streamContent' \in [Callers -> Seq(Numbers)] /\ left' \in [Callers -> SUBSET Numbers]
  BY <1>1, <1>2, <1>3 DEF StreamTypeOK
<1>5. ReadInv(c)'
  BY <1>1, <1>2, <1>3, StreamTypes DEF StreamTypeOK, ReadInv, Copied, Databases
<1>6. BackupInv(c)'
  BY <1>1, <1>3 DEF StreamTypeOK, BackupInv
<1>7. ASSUME NEW d \in Callers \ {c}
      PROVE  /\ at'[d] = at[d] /\ what'[d] = what[d] /\ start'[d] = start[d] /\ stop'[d] = stop[d]
             /\ had'[d] = had[d] /\ outerCnt'[d] = outerCnt[d]
             /\ streamContent'[d] = streamContent[d] /\ left'[d] = left[d]
  BY <1>1, <1>2, <1>3 DEF StreamTypeOK
<1>8. QED
  BY <1>3, <1>4, <1>5, <1>6, <1>7, StepOfOne, StreamTypes

LEMMA AskBackupKeeps == ASSUME StreamInv, NEW c \in Callers, AskBackup(c) PROVE StreamInv'
<1>1. /\ StreamTypeOK /\ MaxTopic \in Nat
      /\ streamContent \in [Callers -> Seq(Numbers)] /\ left \in [Callers -> SUBSET Numbers]
  BY StreamerAssumption DEF StreamInv
<1>2. /\ at[c] = "idle" /\ what' = [what EXCEPT ![c] = "backup"] /\ backupStatus' = "pending"
      /\ had' = [had EXCEPT ![c] = topic] /\ at' = [at EXCEPT ![c] = "open"]
      /\ UNCHANGED <<topic, loadStatus, stored, start, stop, outerCnt, streamContent, left, astray,
                     mishaps, restarts>>
  BY DEF AskBackup, reading, bounds
<1>3. StreamTypeOK' /\ streamContent' \in [Callers -> Seq(Numbers)] /\ left' \in [Callers -> SUBSET Numbers]
  BY <1>1, <1>2 DEF StreamTypeOK, Databases
<1>4. ReadInv(c)' /\ BackupInv(c)'
  BY <1>1, <1>2, StreamTypes DEF StreamTypeOK, ReadInv, BackupInv
<1>5. ASSUME NEW d \in Callers \ {c}
      PROVE  /\ at'[d] = at[d] /\ what'[d] = what[d] /\ start'[d] = start[d] /\ stop'[d] = stop[d]
             /\ had'[d] = had[d] /\ outerCnt'[d] = outerCnt[d]
             /\ streamContent'[d] = streamContent[d] /\ left'[d] = left[d]
  BY <1>1, <1>2 DEF StreamTypeOK
<1>6. QED
  BY <1>2, <1>3, <1>4, <1>5, StepOfOne, StreamTypes

LEMMA OpenReaderKeeps == ASSUME StreamInv, NEW c \in Callers, OpenReader(c) PROVE StreamInv'
<1>1. /\ StreamTypeOK /\ MaxTopic \in Nat
      /\ streamContent \in [Callers -> Seq(Numbers)] /\ left \in [Callers -> SUBSET Numbers]
  BY StreamerAssumption DEF StreamInv
<1>2. /\ at[c] = "open" /\ backupStatus' = "working" /\ at' = [at EXCEPT ![c] = "read"]
      /\ UNCHANGED <<topic, loadStatus, stored, what, start, stop, had, outerCnt, streamContent, left,
                     astray, mishaps, restarts>>
  BY DEF OpenReader, request, reading, bounds
<1>3. StreamTypeOK' /\ streamContent' \in [Callers -> Seq(Numbers)] /\ left' \in [Callers -> SUBSET Numbers]
  BY <1>1, <1>2 DEF StreamTypeOK
<1>4. ReadInv(c)' /\ BackupInv(c)'
  BY <1>1, <1>2, StreamTypes DEF StreamTypeOK, ReadInv, BackupInv, Copied, Databases
<1>5. ASSUME NEW d \in Callers \ {c}
      PROVE  /\ at'[d] = at[d] /\ what'[d] = what[d] /\ start'[d] = start[d] /\ stop'[d] = stop[d]
             /\ had'[d] = had[d] /\ outerCnt'[d] = outerCnt[d]
             /\ streamContent'[d] = streamContent[d] /\ left'[d] = left[d]
  BY <1>1, <1>2 DEF StreamTypeOK
<1>6. QED
  BY <1>2, <1>3, <1>4, <1>5, StepOfOne, StreamTypes

LEMMA AskRefreshKeeps == ASSUME StreamInv, NEW c \in Callers, AskRefresh(c) PROVE StreamInv'
<1>1. /\ StreamTypeOK /\ MaxTopic \in Nat
      /\ streamContent \in [Callers -> Seq(Numbers)] /\ left \in [Callers -> SUBSET Numbers]
  BY StreamerAssumption DEF StreamInv
<1>2. /\ at[c] = "idle" /\ what' = [what EXCEPT ![c] = "refresh"] /\ loadStatus' = "refreshing"
      /\ at' = [at EXCEPT ![c] = "rollout"]
      /\ UNCHANGED <<topic, backupStatus, stored, start, stop, had, outerCnt, streamContent, left,
                     astray, mishaps, restarts>>
  BY DEF AskRefresh, reading, bounds
<1>3. StreamTypeOK' /\ streamContent' \in [Callers -> Seq(Numbers)] /\ left' \in [Callers -> SUBSET Numbers]
  BY <1>1, <1>2 DEF StreamTypeOK
<1>4. ReadInv(c)' /\ BackupInv(c)'
  BY <1>1, <1>2, StreamTypes DEF StreamTypeOK, ReadInv, BackupInv
<1>5. ASSUME NEW d \in Callers \ {c}
      PROVE  /\ at'[d] = at[d] /\ what'[d] = what[d] /\ start'[d] = start[d] /\ stop'[d] = stop[d]
             /\ had'[d] = had[d] /\ outerCnt'[d] = outerCnt[d]
             /\ streamContent'[d] = streamContent[d] /\ left'[d] = left[d]
  BY <1>1, <1>2 DEF StreamTypeOK
<1>6. QED
  BY <1>2, <1>3, <1>4, <1>5, StepOfOne, StreamTypes

LEMMA EndRefreshKeeps == ASSUME StreamInv, NEW c \in Callers, EndRefresh(c) PROVE StreamInv'
<1>1. /\ StreamTypeOK /\ MaxTopic \in Nat /\ MaxMishaps \in Nat /\ mishaps \in Nat /\ restarts \in Nat
      /\ streamContent \in [Callers -> Seq(Numbers)] /\ left \in [Callers -> SUBSET Numbers]
  BY StreamerAssumption DEF StreamInv
<1>2. /\ at[c] = "rollout" /\ at' = [at EXCEPT ![c] = "on"]
      /\ UNCHANGED <<topic, backupStatus, stored, what, start, stop, had, outerCnt, streamContent, left,
                     astray, restarts>>
      /\ loadStatus' \in {"reloaded", loadStatus}
      /\ mishaps' \in {mishaps, mishaps + 1}
      /\ mishaps' = mishaps \/ mishaps + restarts < MaxMishaps
  BY DEF EndRefresh, CommandFails, request, reading
<1>3. mishaps' + restarts' \in 0..MaxMishaps
  <2>1. mishaps + restarts \in 0..MaxMishaps
    BY <1>1 DEF StreamTypeOK
  <2>2. restarts' = restarts
    BY <1>2
  <2>3. CASE mishaps' = mishaps
    BY <2>1, <2>2, <2>3
  <2>4. CASE mishaps' # mishaps
    <3>1. mishaps' = mishaps + 1 /\ mishaps + restarts < MaxMishaps
      BY <1>2, <2>4
    <3>2. QED
      BY <1>1, <2>2, <3>1
  <2>5. QED
    BY <2>3, <2>4
<1>4. StreamTypeOK' /\ streamContent' \in [Callers -> Seq(Numbers)] /\ left' \in [Callers -> SUBSET Numbers]
  BY <1>1, <1>2, <1>3 DEF StreamTypeOK
<1>5. what[c] # "backup"
  BY <1>2, StreamTypes DEF ReadInv
<1>6. ReadInv(c)' /\ BackupInv(c)'
  BY <1>1, <1>2, <1>5, StreamTypes DEF StreamTypeOK, ReadInv, BackupInv
<1>7. ASSUME NEW d \in Callers \ {c}
      PROVE  /\ at'[d] = at[d] /\ what'[d] = what[d] /\ start'[d] = start[d] /\ stop'[d] = stop[d]
             /\ had'[d] = had[d] /\ outerCnt'[d] = outerCnt[d]
             /\ streamContent'[d] = streamContent[d] /\ left'[d] = left[d]
  BY <1>1, <1>2 DEF StreamTypeOK
<1>8. QED
  BY <1>2, <1>4, <1>6, <1>7, StepOfOne, StreamTypes

(* A message is kept under its place.                                      *)
LEMMA KeepKeeps == ASSUME StreamInv, NEW c \in Callers, Keep(c) PROVE StreamInv'
<1>1. /\ StreamTypeOK /\ MaxTopic \in Nat
      /\ streamContent \in [Callers -> Seq(Numbers)] /\ left \in [Callers -> SUBSET Numbers]
  BY StreamerAssumption DEF StreamInv
<1> DEFINE n == outerCnt[c] + 1
<1>2. /\ at[c] = "read" /\ outerCnt[c] < topic
      /\ what[c] = "load" => Streams(c, n)
      /\ outerCnt' = [outerCnt EXCEPT ![c] = n]
      /\ streamContent' = [streamContent EXCEPT ![c] = Append(@, n)]
      /\ UNCHANGED <<topic, loadStatus, backupStatus, stored, at, what, start, stop, had, left, astray,
                     mishaps, restarts>>
  BY DEF Keep, request, statuses, bounds
<1>3. n \in Numbers /\ n \in 0..MaxTopic /\ n \in Nat
  BY <1>1, <1>2, StreamTypes DEF Numbers
<1>4. /\ streamContent'[c] = Append(streamContent[c], n) /\ outerCnt'[c] = n
      /\ Len(streamContent[c]) = outerCnt[c] /\ Copied(c) /\ what[c] \in Databases
  BY <1>1, <1>2, StreamTypes DEF StreamTypeOK, ReadInv
<1>5. streamContent'[c] \in Seq(Numbers) /\ Len(streamContent'[c]) = n
  BY <1>3, <1>4, StreamTypes
<1>6. streamContent' \in [Callers -> Seq(Numbers)] /\ left' \in [Callers -> SUBSET Numbers]
  BY <1>1, <1>2, <1>4, <1>5
<1>7. StreamTypeOK'
  <2>1. \A d \in Callers : streamContent'[d] \in Seq(Numbers) /\ left'[d] \subseteq Numbers
    BY <1>6
  <2>2. outerCnt' \in [Callers -> 0..MaxTopic]
    BY <1>1, <1>2, <1>3 DEF StreamTypeOK
  <2>3. QED
    BY <1>1, <1>2, <2>1, <2>2 DEF StreamTypeOK
<1>8. \A k \in 1..n : streamContent'[c][k] = k
  <2>1. \A k \in 1..outerCnt[c] : Append(streamContent[c], n)[k] = streamContent[c][k]
    BY <1>3, <1>4, StreamTypes
  <2>2. Append(streamContent[c], n)[n] = n
    BY <1>3, <1>4, StreamTypes
  <2>3. QED
    BY <1>3, <1>4, <2>1, <2>2, StreamTypes DEF Copied
<1>10. ReadInv(c)'
  <2>1. outerCnt'[c] <= topic' /\ had'[c] <= topic'
    BY <1>2, <1>4, StreamTypes DEF ReadInv
  <2>2. Copied(c)'
    BY <1>5, <1>8 DEF Copied
  <2>3. QED
    BY <1>2, <1>4, <1>5, <2>1, <2>2 DEF ReadInv
<1>11. BackupInv(c)'
  BY <1>2 DEF BackupInv
<1>12. ASSUME NEW d \in Callers \ {c}
      PROVE  /\ at'[d] = at[d] /\ what'[d] = what[d] /\ start'[d] = start[d] /\ stop'[d] = stop[d]
             /\ had'[d] = had[d] /\ outerCnt'[d] = outerCnt[d]
             /\ streamContent'[d] = streamContent[d] /\ left'[d] = left[d]
  BY <1>1, <1>2 DEF StreamTypeOK
<1> HIDE DEF n
<1>13. QED
  BY <1>2, <1>6, <1>7, <1>10, <1>11, <1>12, StepOfOne, StreamTypes

(* A backup ends after the last message, and has then all there were.      *)
LEMMA EndReadingKeeps == ASSUME StreamInv, NEW c \in Callers, EndReading(c) PROVE StreamInv'
<1>1. /\ StreamTypeOK /\ MaxTopic \in Nat
      /\ streamContent \in [Callers -> Seq(Numbers)] /\ left \in [Callers -> SUBSET Numbers]
  BY StreamerAssumption DEF StreamInv
<1>2. /\ at[c] = "read" /\ at' = [at EXCEPT ![c] = "connect"]
      /\ left' = [left EXCEPT ![c] = 1..Len(streamContent[c])]
      /\ backupStatus' \in {"done", backupStatus}
      /\ UNCHANGED <<topic, loadStatus, stored, what, start, stop, had, streamContent, astray, mishaps, restarts>>
  BY DEF EndReading, AfterReading, request, bounds
<1>3. \/ outerCnt[c] = topic /\ outerCnt' = outerCnt
      \/ /\ outerCnt[c] < topic /\ what[c] = "load" /\ ~Streams(c, outerCnt[c] + 1)
         /\ outerCnt' = [outerCnt EXCEPT ![c] = outerCnt[c] + 1]
  BY DEF EndReading
<1>4. /\ Len(streamContent[c]) = outerCnt[c] /\ Copied(c) /\ what[c] \in Databases /\ had[c] <= topic
      /\ outerCnt[c] <= topic
  BY <1>2, StreamTypes DEF ReadInv
<1>5. left'[c] = 1..Len(streamContent[c]) /\ at'[c] = "connect"
  BY <1>1, <1>2 DEF StreamTypeOK
<1>6. 1..Len(streamContent[c]) \subseteq Numbers
  BY <1>4, StreamTypes DEF Numbers
<1>7. streamContent' \in [Callers -> Seq(Numbers)] /\ left' \in [Callers -> SUBSET Numbers]
  BY <1>1, <1>2, <1>6
<1>8. outerCnt' \in [Callers -> 0..MaxTopic] /\ outerCnt'[c] <= topic
  <2>1. outerCnt \in [Callers -> 0..MaxTopic]
    BY <1>1 DEF StreamTypeOK
  <2>2. CASE outerCnt' = outerCnt
    BY <1>4, <2>1, <2>2
  <2>3. CASE outerCnt[c] < topic /\ outerCnt' = [outerCnt EXCEPT ![c] = outerCnt[c] + 1]
    <3>1. outerCnt[c] + 1 \in 0..MaxTopic /\ outerCnt[c] + 1 <= topic
      BY <2>3, StreamTypes
    <3>2. QED
      BY <2>1, <2>3, <3>1
  <2>4. QED
    BY <1>3, <2>2, <2>3
<1>9. StreamTypeOK'
  <2>1. \A d \in Callers : streamContent'[d] \in Seq(Numbers) /\ left'[d] \subseteq Numbers
    BY <1>7
  <2>2. backupStatus' \in {"pending", "working", "done"} /\ at' \in [Callers -> {"idle", "open", "read", "connect", "write", "rollout", "poll", "on", "gone"}]
    BY <1>1, <1>2 DEF StreamTypeOK
  <2>3. QED
    BY <1>1, <1>2, <1>8, <2>1, <2>2 DEF StreamTypeOK
<1>11. ReadInv(c)'
  <2>1. Copied(c)'
    BY <1>2, <1>4 DEF Copied
  <2>2. QED
    BY <1>2, <1>4, <1>5, <1>8, <2>1 DEF ReadInv
<1>12. BackupInv(c)'
  <2>1. ASSUME what[c] = "backup" PROVE Len(streamContent[c]) >= had[c]
    BY <1>3, <1>4, <2>1, StreamTypes
  <2>2. QED
    BY <1>2, <1>5, <2>1 DEF BackupInv
<1>13. ASSUME NEW d \in Callers \ {c}
      PROVE  /\ at'[d] = at[d] /\ what'[d] = what[d] /\ start'[d] = start[d] /\ stop'[d] = stop[d]
             /\ had'[d] = had[d] /\ outerCnt'[d] = outerCnt[d]
             /\ streamContent'[d] = streamContent[d] /\ left'[d] = left[d]
  BY <1>1, <1>2, <1>3 DEF StreamTypeOK
<1>14. QED
  BY <1>2, <1>7, <1>9, <1>11, <1>12, <1>13, StepOfOne, StreamTypes

(* What a request has read is kept while it connects; it writes to another *)
(* database only if a command has failed.                                  *)
LEMMA OpenStoreKeeps == ASSUME StreamInv, NEW c \in Callers, OpenStore(c) PROVE StreamInv'
<1>1. /\ StreamTypeOK /\ MaxMishaps \in Nat /\ mishaps \in Nat /\ restarts \in Nat
      /\ streamContent \in [Callers -> Seq(Numbers)] /\ left \in [Callers -> SUBSET Numbers]
  BY StreamerAssumption DEF StreamInv
<1>2. /\ at[c] = "connect" /\ at' = [at EXCEPT ![c] = "write"]
      /\ \/ UNCHANGED <<astray, mishaps>>
         \/ mishaps + restarts < MaxMishaps /\ mishaps' = mishaps + 1 /\ astray' = astray \cup {c}
      /\ UNCHANGED <<topic, loadStatus, backupStatus, stored, what, start, stop, had, outerCnt,
                     streamContent, left, restarts>>
  BY DEF OpenStore, CommandFails, statuses, request
<1>3. /\ mishaps' + restarts' \in 0..MaxMishaps /\ mishaps' \in {mishaps, mishaps + 1}
      /\ astray' \subseteq Callers
      /\ mishaps' = 0 => mishaps = 0 /\ astray' = {}
  <2>1. mishaps + restarts \in 0..MaxMishaps /\ astray \subseteq Callers /\ (mishaps = 0 => astray = {})
    BY <1>1, StreamTypes DEF StreamTypeOK
  <2>2. CASE UNCHANGED <<astray, mishaps>>
    BY <1>2, <2>1, <2>2
  <2>3. CASE mishaps + restarts < MaxMishaps /\ mishaps' = mishaps + 1 /\ astray' = astray \cup {c}
    <3>1. mishaps' + restarts' \in 0..MaxMishaps /\ mishaps' # 0
      BY <1>1, <1>2, <2>3
    <3>2. QED
      BY <2>1, <2>3, <3>1
  <2>4. QED
    BY <1>2, <2>2, <2>3
<1>4. StreamTypeOK' /\ streamContent' \in [Callers -> Seq(Numbers)] /\ left' \in [Callers -> SUBSET Numbers]
  BY <1>1, <1>2, <1>3 DEF StreamTypeOK
<1>5. ReadInv(c)'
  BY <1>1, <1>2, StreamTypes DEF StreamTypeOK, ReadInv, Copied
<1>6. BackupInv(c)'
  BY <1>1, <1>2, <1>3, StreamTypes DEF StreamTypeOK, BackupInv
<1>7. ASSUME NEW d \in Callers \ {c}
      PROVE  /\ at'[d] = at[d] /\ what'[d] = what[d] /\ start'[d] = start[d] /\ stop'[d] = stop[d]
             /\ had'[d] = had[d] /\ outerCnt'[d] = outerCnt[d]
             /\ streamContent'[d] = streamContent[d] /\ left'[d] = left[d]
  BY <1>1, <1>2 DEF StreamTypeOK
<1>8. QED
  BY <1>2, <1>3, <1>4, <1>5, <1>6, <1>7, StepOfOne

(* A panic only sends a request away.                                      *)
LEMMA PanicKeeps == ASSUME StreamInv, NEW c \in Callers, HandlerPanics(c) PROVE StreamInv'
<1>1. /\ StreamTypeOK /\ MaxMishaps \in Nat /\ mishaps \in Nat /\ restarts \in Nat
      /\ streamContent \in [Callers -> Seq(Numbers)] /\ left \in [Callers -> SUBSET Numbers]
  BY StreamerAssumption DEF StreamInv
<1>2. /\ at' = [at EXCEPT ![c] = "gone"] /\ mishaps + restarts < MaxMishaps /\ mishaps' = mishaps + 1
      /\ UNCHANGED <<topic, loadStatus, backupStatus, stored, what, start, stop, had, outerCnt,
                     streamContent, left, astray, restarts>>
  BY DEF HandlerPanics, CommandFails, statuses, request, reading
<1>3. mishaps' + restarts' \in 0..MaxMishaps /\ mishaps' # 0 /\ at'[c] = "gone"
  BY <1>1, <1>2 DEF StreamTypeOK
<1>4. StreamTypeOK' /\ streamContent' \in [Callers -> Seq(Numbers)] /\ left' \in [Callers -> SUBSET Numbers]
  BY <1>1, <1>2, <1>3 DEF StreamTypeOK
<1>5. topic' \in Nat /\ topic <= topic'
  BY <1>2, StreamTypes
<1>6. ReadInv(c)' /\ BackupInv(c)'
  BY <1>2, <1>3, <1>5, RequestKept
<1>7. ASSUME NEW d \in Callers \ {c}
      PROVE  /\ at'[d] = at[d] /\ what'[d] = what[d] /\ start'[d] = start[d] /\ stop'[d] = stop[d]
             /\ had'[d] = had[d] /\ outerCnt'[d] = outerCnt[d]
             /\ streamContent'[d] = streamContent[d] /\ left'[d] = left[d]
  BY <1>1, <1>2 DEF StreamTypeOK
<1>8. QED
  BY <1>2, <1>3, <1>4, <1>6, <1>7, StepOfOne

(* An order is written under its own number.                               *)
LEMMA WriteOrderKeeps == ASSUME StreamInv, NEW c \in Callers, WriteOrder(c) PROVE StreamInv'
<1>1. /\ StreamTypeOK /\ MaxTopic \in Nat /\ MaxMishaps \in Nat /\ mishaps \in Nat /\ restarts \in Nat
      /\ streamContent \in [Callers -> Seq(Numbers)] /\ left \in [Callers -> SUBSET Numbers]
  BY StreamerAssumption DEF StreamInv
<1>2. PICK n \in left[c] :
        /\ left' = [left EXCEPT ![c] = @ \ {n}]
        /\ \/ stored' = [stored EXCEPT ![what[c]][n] = streamContent[c][n]] /\ UNCHANGED mishaps
           \/ c \in astray /\ UNCHANGED <<stored, mishaps>>
           \/ mishaps + restarts < MaxMishaps /\ mishaps' = mishaps + 1 /\ UNCHANGED stored
  BY DEF WriteOrder, CommandFails
<1>3. /\ at[c] = "write" /\ loadStatus' = "working"
      /\ UNCHANGED <<topic, backupStatus, at, what, start, stop, had, outerCnt, streamContent, astray,
                     restarts>>
  BY DEF WriteOrder, request
<1>4. /\ left[c] \subseteq 1..Len(streamContent[c]) /\ Copied(c) /\ what[c] \in Databases
      /\ left[c] \subseteq Numbers
  BY <1>3, StreamTypes DEF ReadInv
<1>5. n \in Numbers /\ streamContent[c][n] = n /\ n \in 0..MaxTopic
  BY <1>1, <1>2, <1>4 DEF Copied, Numbers
<1>6. left'[c] = left[c] \ {n} /\ left' \in [Callers -> SUBSET Numbers]
  BY <1>1, <1>2
<1>7. stored \in [Databases -> [Numbers -> 0..MaxTopic]]
  BY <1>1 DEF StreamTypeOK
<1>8. /\ stored' \in [Databases -> [Numbers -> 0..MaxTopic]]
      /\ \A m \in Numbers : stored["backup"][m] = m => stored'["backup"][m] = m
      /\ mishaps' \in {mishaps, mishaps + 1} /\ mishaps' + restarts \in 0..MaxMishaps
      /\ mishaps' = 0 => mishaps = 0 /\ (what[c] = "backup" => stored'["backup"][n] = n)
  <2>1. CASE stored' = [stored EXCEPT ![what[c]][n] = streamContent[c][n]] /\ UNCHANGED mishaps
    <3>1. stored' = [stored EXCEPT ![what[c]][n] = n]
      BY <1>5, <2>1
    <3>2. stored' \in [Databases -> [Numbers -> 0..MaxTopic]]
      BY <1>4, <1>5, <1>7, <3>1
    <3>3. "backup" \in Databases
      BY DEF Databases
    <3>4. what[c] = "backup" => stored'["backup"] = [stored["backup"] EXCEPT ![n] = n]
      BY <1>7, <3>1, <3>3
    <3>5. what[c] # "backup" => stored'["backup"] = stored["backup"]
      BY <1>7, <3>1, <3>3
    <3>6. stored["backup"] \in [Numbers -> 0..MaxTopic]
      BY <1>7, <3>3
    <3>7. /\ \A m \in Numbers : stored["backup"][m] = m => stored'["backup"][m] = m
          /\ what[c] = "backup" => stored'["backup"][n] = n
      BY <1>5, <3>4, <3>5, <3>6
    <3>8. mishaps' = mishaps /\ mishaps + restarts \in 0..MaxMishaps
      BY <1>1, <2>1 DEF StreamTypeOK
    <3>9. QED
      BY <3>2, <3>7, <3>8
  <2>2. CASE mishaps + restarts < MaxMishaps /\ mishaps' = mishaps + 1 /\ UNCHANGED stored
    <3>1. mishaps' # 0 /\ mishaps' + restarts \in 0..MaxMishaps
      BY <1>1, <2>2
    <3>2. QED
      BY <1>7, <2>2, <3>1
  <2>3. CASE c \in astray /\ UNCHANGED <<stored, mishaps>>
    <3>1. mishaps # 0
      BY <2>3, StreamTypes
    <3>2. mishaps + restarts \in 0..MaxMishaps
      BY <1>1 DEF StreamTypeOK
    <3>3. QED
      BY <1>7, <2>3, <3>1, <3>2
  <2>4. QED
    BY <1>2, <2>1, <2>2, <2>3
<1>9. StreamTypeOK' /\ streamContent' \in [Callers -> Seq(Numbers)]
  <2>1. \A d \in Callers : streamContent'[d] \in Seq(Numbers) /\ left'[d] \subseteq Numbers
    BY <1>1, <1>3, <1>6
  <2>2. mishaps' + restarts' \in 0..MaxMishaps
    BY <1>3, <1>8
  <2>3. QED
    BY <1>1, <1>3, <1>8, <2>1, <2>2 DEF StreamTypeOK
<1>10. ReadInv(c)'
  <2>1. Copied(c)'
    BY <1>3, <1>4 DEF Copied
  <2>2. left'[c] \subseteq 1..Len(streamContent'[c])
    BY <1>3, <1>4, <1>6
  <2>3. ReadInv(c)
    BY StreamTypes
  <2>4. QED
    BY <1>3, <2>1, <2>2, <2>3 DEF ReadInv
<1>11. BackupInv(c)'
  <2>1. BackupInv(c)
    BY StreamTypes
  <2>2. ASSUME what[c] = "backup", mishaps' = 0,
               NEW m \in 1..Len(streamContent[c]), m \notin left'[c]
        PROVE  stored'["backup"][m] = m
    <3>1. CASE m = n
      BY <1>8, <2>2, <3>1
    <3>2. CASE m # n
      <4>1. m \notin left[c]
        BY <1>6, <2>2, <3>2
      <4>2. stored["backup"][m] = m
        BY <1>3, <1>8, <2>1, <2>2, <4>1 DEF BackupInv
      <4>3. streamContent[c][m] \in Numbers
        BY StreamTypes
      <4>4. m \in Numbers
        BY <1>4, <4>3 DEF Copied
      <4>5. QED
        BY <1>8, <4>2, <4>4
    <3>3. QED
      BY <3>1, <3>2
  <2>3. QED
    BY <1>3, <2>1, <2>2 DEF BackupInv
<1>12. ASSUME NEW d \in Callers \ {c}
       PROVE  /\ at'[d] = at[d] /\ what'[d] = what[d] /\ start'[d] = start[d] /\ stop'[d] = stop[d]
              /\ had'[d] = had[d] /\ outerCnt'[d] = outerCnt[d]
              /\ streamContent'[d] = streamContent[d] /\ left'[d] = left[d]
  BY <1>1, <1>2, <1>3
<1>13. mishaps' = 0 => astray' = {}
  BY <1>3, <1>8, StreamTypes
<1>14. QED
  BY <1>3, <1>6, <1>8, <1>9, <1>10, <1>11, <1>12, <1>13, StepOfOne

(* Nothing is left when the portal gets its answer.                        *)
LEMMA EndWritingKeeps == ASSUME StreamInv, NEW c \in Callers, EndWriting(c) PROVE StreamInv'
<1>1. /\ StreamTypeOK /\ MaxTopic \in Nat /\ mishaps \in Nat
      /\ streamContent \in [Callers -> Seq(Numbers)] /\ left \in [Callers -> SUBSET Numbers]
  BY StreamerAssumption DEF StreamInv
<1>2. /\ at[c] = "write" /\ left[c] = {} /\ at' = [at EXCEPT ![c] = "poll"]
      /\ loadStatus' \in {"reloaded", loadStatus}
      /\ start' = [start EXCEPT ![c] = 0] /\ stop' = [stop EXCEPT ![c] = 0]
      /\ outerCnt' = [outerCnt EXCEPT ![c] = 0]
      /\ streamContent' = [streamContent EXCEPT ![c] = <<>>]
      /\ UNCHANGED <<topic, backupStatus, stored, what, had, left, astray, mishaps, restarts>>
  BY DEF EndWriting, StatusOfEnd, bounds
<1>3. <<>> \in Seq(Numbers) /\ 0 \in 0..MaxTopic
  BY <1>1
<1>4. streamContent' \in [Callers -> Seq(Numbers)] /\ left' \in [Callers -> SUBSET Numbers]
  BY <1>1, <1>2, <1>3
<1>5. StreamTypeOK'
  <2>1. \A d \in Callers : streamContent'[d] \in Seq(Numbers) /\ left'[d] \subseteq Numbers
    BY <1>4
  <2>2. QED
    BY <1>1, <1>2, <1>3, <2>1 DEF StreamTypeOK
<1>6. ReadInv(c)'
  BY <1>1, <1>2, StreamTypes DEF StreamTypeOK, ReadInv
<1>7. BackupInv(c)'
  <2>1. ASSUME what[c] = "backup", mishaps = 0, NEW m \in 1..had[c] PROVE stored["backup"][m] = m
    <3>1. m \in 1..Len(streamContent[c]) /\ m \notin left[c]
      BY <1>2, <2>1, StreamTypes DEF BackupInv
    <3>2. QED
      BY <1>2, <2>1, <3>1, StreamTypes DEF BackupInv
  <2>2. at'[c] = "poll"
    BY <1>1, <1>2 DEF StreamTypeOK
  <2>3. QED
    BY <1>2, <2>1, <2>2 DEF BackupInv, BackedUp
<1>8. ASSUME NEW d \in Callers \ {c}
      PROVE  /\ at'[d] = at[d] /\ what'[d] = what[d] /\ start'[d] = start[d] /\ stop'[d] = stop[d]
             /\ had'[d] = had[d] /\ outerCnt'[d] = outerCnt[d]
             /\ streamContent'[d] = streamContent[d] /\ left'[d] = left[d]
  BY <1>1, <1>2 DEF StreamTypeOK
<1>9. QED
  BY <1>2, <1>4, <1>5, <1>6, <1>7, <1>8, StepOfOne, StreamTypes

LEMMA PollKeeps == ASSUME StreamInv, NEW c \in Callers, Poll(c) PROVE StreamInv'
<1>1. /\ StreamTypeOK
      /\ streamContent \in [Callers -> Seq(Numbers)] /\ left \in [Callers -> SUBSET Numbers]
  BY DEF StreamInv
<1>2. /\ at[c] = "poll" /\ at' = [at EXCEPT ![c] = "on"]
      /\ UNCHANGED <<topic, loadStatus, backupStatus, stored, what, start, stop, had, outerCnt,
                     streamContent, left, astray, mishaps, restarts>>
  BY DEF Poll, statuses, request, reading, bounds
<1>3. StreamTypeOK' /\ streamContent' \in [Callers -> Seq(Numbers)] /\ left' \in [Callers -> SUBSET Numbers]
  BY <1>1, <1>2 DEF StreamTypeOK
<1>4. topic' \in Nat /\ topic <= topic' /\ at'[c] = "on"
  BY <1>1, <1>2, StreamTypes DEF StreamTypeOK
<1>5. ReadInv(c)' /\ BackupInv(c)'
  BY <1>2, <1>4, RequestKept
<1>6. ASSUME NEW d \in Callers \ {c}
      PROVE  /\ at'[d] = at[d] /\ what'[d] = what[d] /\ start'[d] = start[d] /\ stop'[d] = stop[d]
             /\ had'[d] = had[d] /\ outerCnt'[d] = outerCnt[d]
             /\ streamContent'[d] = streamContent[d] /\ left'[d] = left[d]
  BY <1>1, <1>2 DEF StreamTypeOK
<1>7. QED
  BY <1>2, <1>3, <1>5, <1>6, StepOfOne, StreamTypes

(* A restart only sends requests away.                                     *)
LEMMA RestartKeeps == ASSUME StreamInv, Restart PROVE StreamInv'
<1>1. /\ StreamTypeOK /\ MaxMishaps \in Nat /\ mishaps \in Nat /\ restarts \in Nat
      /\ streamContent \in [Callers -> Seq(Numbers)] /\ left \in [Callers -> SUBSET Numbers]
  BY StreamerAssumption DEF StreamInv
<1>2. /\ mishaps + restarts < MaxMishaps /\ restarts' = restarts + 1
      /\ loadStatus' = "pending" /\ backupStatus' = "pending"
      /\ UNCHANGED <<topic, stored, what, start, stop, had, outerCnt, streamContent, left, astray, mishaps>>
  BY DEF Restart, request, reading
<1>3. PICK unanswered \in SUBSET {c \in Callers : at[c] = "poll"} :
        at' = [c \in Callers |->
                 IF at[c] \in {"open", "read", "connect", "write", "rollout"} \/ c \in unanswered THEN "gone" ELSE at[c]]
  BY DEF Restart
<1>4. \A d \in Callers : at'[d] \in {at[d], "gone"}
  BY <1>3
<1>5. mishaps' + restarts' \in 0..MaxMishaps /\ restarts' \in Nat /\ mishaps' \in Nat
  BY <1>1, <1>2
<1>6. at' \in [Callers -> {"idle", "open", "read", "connect", "write", "rollout", "poll", "on", "gone"}]
  BY <1>1, <1>3 DEF StreamTypeOK
<1>7. StreamTypeOK' /\ streamContent' \in [Callers -> Seq(Numbers)] /\ left' \in [Callers -> SUBSET Numbers]
  BY <1>1, <1>2, <1>5, <1>6 DEF StreamTypeOK
<1>8. ASSUME NEW d \in Callers PROVE ReadInv(d)' /\ BackupInv(d)'
  BY <1>2, <1>4, StreamTypes, RequestKept
<1>9. mishaps' = 0 => astray' = {}
  BY <1>2 DEF StreamInv
<1>10. QED
  BY <1>5, <1>7, <1>8, <1>9 DEF StreamInv

LEMMA StreamInvariantHolds == StreamSpec => []StreamInv
<1>1. StreamInv /\ [StreamNext]_streamVars => StreamInv'
  <2> SUFFICES ASSUME StreamInv, [StreamNext]_streamVars PROVE StreamInv'
    OBVIOUS
  <2>1. CASE Publish
    BY <2>1, PublishKeeps
  <2>2. CASE \E c \in Callers : AskLoad(c) \/ AskBackup(c) \/ AskRefresh(c)
    BY <2>2, AskLoadKeeps, AskBackupKeeps, AskRefreshKeeps
  <2>3. CASE \E c \in Callers : Serve(c) \/ Poll(c)
    <3>1. PICK c \in Callers : Serve(c) \/ Poll(c)
      BY <2>3
    <3>2. QED
      BY <3>1, OpenReaderKeeps, EndRefreshKeeps, KeepKeeps, EndReadingKeeps, OpenStoreKeeps,
         PanicKeeps, WriteOrderKeeps, EndWritingKeeps, PollKeeps DEF Serve
  <2>4. CASE Restart
    BY <2>4, RestartKeeps
  <2>5. CASE UNCHANGED streamVars
    BY <2>5 DEF streamVars, statuses, request, reading, bounds, StreamInv, StreamTypeOK, ReadInv,
                BackupInv, BackedUp, Copied
  <2>6. QED
    BY <2>1, <2>2, <2>3, <2>4, <2>5 DEF StreamNext
<1>2. QED
  BY StreamInitHolds, <1>1, PTL DEF StreamSpec

(* The streamer's variables keep their types, the count of messages read   *)
(* never passes the topic (streamer.go, streamSequence and backupStream).  *)
THEOREM StreamTypeCorrect == StreamSpec => []StreamTypeOK
<1>1. StreamInv => StreamTypeOK
  BY DEF StreamInv
<1>2. QED
  BY <1>1, StreamInvariantHolds, PTL

(* When the portal goes on after a backup and no command has failed, every *)
(* message the topic had when it asked is in the database, whichever of    *)
(* the backups set the status (backupHandler, backupOrderQueue).           *)
THEOREM BackupsAreComplete == StreamSpec => []BackupIsComplete
<1>1. StreamInv => BackupIsComplete
  <2>1. ASSUME StreamInv, NEW c \in Callers, at[c] = "on", what[c] = "backup", mishaps = 0
        PROVE  BackedUp(had[c])
    BY <2>1 DEF StreamInv, BackupInv
  <2>2. QED
    BY <2>1 DEF BackupIsComplete, BackedUp
<1>2. QED
  BY <1>1, StreamInvariantHolds, PTL

(* While the service runs, nobody polls for a status that no request will  *)
(* set any more: the safety half of StreamPollingEnds.                     *)
BackupStatusComes ==
    (restarts = 0 /\ \E c \in Callers : what[c] = "backup" /\ at[c] \in {"connect", "write", "poll"}) =>
        \/ backupStatus = "done"
        \/ \E d \in Callers : what[d] = "backup" /\ at[d] \in {"open", "read"}

LoadStatusComes ==
    (/\ restarts = 0 /\ \A d \in Callers : what[d] = "load" /\ at[d] # "gone"
     /\ \E c \in Callers : at[c] = "poll") =>
        \/ loadStatus = "reloaded"
        \/ \E d \in Callers : at[d] \in {"read", "connect", "write"}

LEMMA BackupStatusStep ==
    ASSUME StreamInv, BackupStatusComes, [StreamNext]_streamVars PROVE BackupStatusComes'
<1>1. /\ at \in [Callers -> {"idle", "open", "read", "connect", "write", "rollout", "poll", "on", "gone"}]
      /\ what \in [Callers -> Databases \cup {"refresh"}]
      /\ \A c \in Callers : ReadInv(c)
  BY DEF StreamInv, StreamTypeOK
<1>2. CASE UNCHANGED <<backupStatus, at, what, restarts>>
  BY <1>2 DEF BackupStatusComes
<1>3. CASE UNCHANGED streamVars \/ Publish \/ \E c \in Callers : Keep(c)
  BY <1>2, <1>3 DEF streamVars, Publish, Keep, statuses, request, bounds
<1>4. ASSUME NEW c \in Callers, AskLoad(c) \/ AskRefresh(c) PROVE BackupStatusComes'
  <2>1. /\ at[c] = "idle" /\ what[c] = "load" /\ what'[c] \in {"load", "refresh"}
        /\ \A d \in Callers \ {c} : at'[d] = at[d] /\ what'[d] = what[d]
        /\ UNCHANGED <<backupStatus, restarts>>
    BY <1>1, <1>4 DEF AskLoad, AskRefresh, ReadInv, bounds
  <2>2. QED
    BY <2>1 DEF BackupStatusComes
<1>5. ASSUME NEW c \in Callers, AskBackup(c) \/ OpenReader(c) PROVE BackupStatusComes'
  BY <1>1, <1>5 DEF AskBackup, OpenReader, ReadInv, request, BackupStatusComes
<1>6. ASSUME NEW c \in Callers, EndRefresh(c) \/ Poll(c) PROVE BackupStatusComes'
  <2>1. /\ at[c] \in {"rollout", "poll"} /\ at'[c] = "on"
        /\ \A d \in Callers \ {c} : at'[d] = at[d]
        /\ UNCHANGED <<backupStatus, restarts, what>>
    BY <1>1, <1>6 DEF EndRefresh, Poll, statuses, request, bounds
  <2>2. QED
    BY <2>1 DEF BackupStatusComes
<1>7. ASSUME NEW c \in Callers, EndReading(c) PROVE BackupStatusComes'
  <2>1. /\ at[c] = "read" /\ at'[c] = "connect" /\ \A d \in Callers \ {c} : at'[d] = at[d]
        /\ backupStatus' = IF what[c] = "backup" THEN "done" ELSE backupStatus
        /\ UNCHANGED <<restarts, what>>
    BY <1>1, <1>7 DEF EndReading, AfterReading, request, bounds
  <2>2. QED
    BY <2>1 DEF BackupStatusComes
<1>8. ASSUME NEW c \in Callers, WriteOrder(c) \/ EndWriting(c) PROVE BackupStatusComes'
  <2>1. /\ at[c] = "write" /\ at'[c] \in {"write", "poll"} /\ \A d \in Callers \ {c} : at'[d] = at[d]
        /\ UNCHANGED <<backupStatus, restarts, what>>
    BY <1>1, <1>8 DEF WriteOrder, EndWriting, request, bounds
  <2>2. QED
    BY <2>1 DEF BackupStatusComes
<1>9. ASSUME NEW c \in Callers, OpenStore(c) \/ HandlerPanics(c) PROVE BackupStatusComes'
  <2>1. /\ at[c] = "connect" /\ at'[c] \in {"write", "gone"} /\ \A d \in Callers \ {c} : at'[d] = at[d]
        /\ UNCHANGED <<backupStatus, restarts, what>>
    BY <1>1, <1>9 DEF OpenStore, HandlerPanics, statuses, request
  <2>2. QED
    BY <2>1 DEF BackupStatusComes
<1>10. CASE Restart
  <2>1. restarts' # 0
    BY <1>10 DEF Restart, StreamInv
  <2>2. QED
    BY <2>1 DEF BackupStatusComes
<1>11. QED
  BY <1>3, <1>4, <1>5, <1>6, <1>7, <1>8, <1>9, <1>10 DEF StreamNext, Serve

LEMMA LoadStatusStep ==
    ASSUME StreamInv, LoadStatusComes, [StreamNext]_streamVars PROVE LoadStatusComes'
<1>1. /\ at \in [Callers -> {"idle", "open", "read", "connect", "write", "rollout", "poll", "on", "gone"}]
      /\ what \in [Callers -> Databases \cup {"refresh"}]
      /\ \A c \in Callers : ReadInv(c)
  BY DEF StreamInv, StreamTypeOK
<1>2. CASE UNCHANGED <<loadStatus, at, what, restarts>>
  BY <1>2 DEF LoadStatusComes
<1>3. CASE UNCHANGED streamVars \/ Publish \/ \E c \in Callers : Keep(c)
  BY <1>2, <1>3 DEF streamVars, Publish, Keep, statuses, request, bounds
<1>4. ASSUME NEW c \in Callers, AskBackup(c) \/ AskRefresh(c) PROVE LoadStatusComes'
  BY <1>1, <1>4 DEF AskBackup, AskRefresh, LoadStatusComes
<1>5. ASSUME NEW c \in Callers, OpenReader(c) \/ EndRefresh(c) PROVE LoadStatusComes'
  BY <1>1, <1>5 DEF OpenReader, EndRefresh, ReadInv, request, LoadStatusComes
<1>6. ASSUME NEW c \in Callers, AskLoad(c) \/ EndReading(c) \/ OpenStore(c) \/ WriteOrder(c)
      PROVE  LoadStatusComes'
  <2>1. at'[c] \in {"read", "connect", "write"}
    BY <1>1, <1>6 DEF AskLoad, EndReading, AfterReading, OpenStore, WriteOrder
  <2>2. QED
    BY <2>1 DEF LoadStatusComes
<1>7. ASSUME NEW c \in Callers, EndWriting(c) PROVE LoadStatusComes'
  BY <1>7 DEF EndWriting, StatusOfEnd, LoadStatusComes
<1>8. ASSUME NEW c \in Callers, Poll(c) PROVE LoadStatusComes'
  <2>1. /\ at[c] = "poll" /\ at'[c] = "on" /\ \A d \in Callers \ {c} : at'[d] = at[d]
        /\ UNCHANGED <<loadStatus, restarts, what>>
    BY <1>1, <1>8 DEF Poll, statuses, request, bounds
  <2>2. QED
    BY <2>1 DEF LoadStatusComes
<1>9. ASSUME NEW c \in Callers, HandlerPanics(c) PROVE LoadStatusComes'
  BY <1>1, <1>9 DEF HandlerPanics, LoadStatusComes
<1>10. CASE Restart
  <2>1. restarts' # 0
    BY <1>10 DEF Restart, StreamInv
  <2>2. QED
    BY <2>1 DEF LoadStatusComes
<1>11. QED
  BY <1>3, <1>4, <1>5, <1>6, <1>7, <1>8, <1>9, <1>10 DEF StreamNext, Serve

(* However loads and backups run into each other, nobody polls for a       *)
(* status that nothing will set any more, unless the service was restarted *)
(* or, for a load, a backup or a refresh has been at it or another load    *)
(* panicked.                                                               *)
(* (backupHandler and theThing of streamer.go)                             *)
THEOREM TheStatusComes == StreamSpec => [](BackupStatusComes /\ LoadStatusComes)
<1>1. StreamInit => BackupStatusComes /\ LoadStatusComes
  BY DEF StreamInit, BackupStatusComes, LoadStatusComes
<1>2. QED
  BY <1>1, BackupStatusStep, LoadStatusStep, StreamInvariantHolds, PTL DEF StreamSpec
-----------------------------------------------------------------------------
(* The bulk load                                                           *)

(* Every worker's list is as long as any other's: what divide_and_conquer  *)
(* leaves over is handed to nobody.                                        *)
EvenShares == \A v, w \in Loaders : Len(share[v]) = Len(share[w])

(* The orders a worker has read, written or not.                           *)
Loads(w) == msgCount[w] + Cardinality(DOMAIN allData[w])

(* Nothing failed, and every order listed was there to be read.            *)
NoTrouble == faults = 0 /\ AllStaged

BulkTypes ==
    /\ bulk \in {"off", "run", "spin", "dead"}
    /\ pool \in Nat /\ pool <= NumPods
    /\ queued \in Nat /\ faults \in Nat
    /\ staging \subseteq Staged /\ IsFiniteSet(recorded)
    /\ share \in [Loaders -> Seq(Keys)]
    /\ step \in [Loaders -> {"idle", "read", "write", "clear", "push", "purge"}]
    /\ readTo \in [Loaders -> Nat] /\ msgCount \in [Loaders -> Nat]
    /\ allData = [w \in Loaders |-> allData[w]]
    /\ toPurge = [w \in Loaders |-> toPurge[w]] /\ \A w \in Loaders : IsFiniteSet(toPurge[w])
    /\ entry \in [Pods -> Seq(1..Longest)]
    /\ toPush \in [Loaders -> [Pods -> Seq(1..Longest)]]
    /\ DOMAIN orderOf \subseteq 0..(Longest - 1)

(* A worker has no more orders than it has come by in its list, all of     *)
(* them when nothing is wrong, and pushes no more numbers than orders.     *)
LoaderInv(w) ==
    /\ readTo[w] <= Len(share[w])
    /\ DOMAIN allData[w] \subseteq 0..(readTo[w] - 1)
    /\ Loads(w) <= readTo[w]
    /\ step[w] = "clear" => pool # 0 /\ DOMAIN allData[w] = {}
    /\ step[w] # "push" => toPush[w] = Nothing
    /\ NoTrouble => /\ step[w] = "read" => Loads(w) = readTo[w]
                    /\ step[w] \in {"write", "clear"} => Loads(w) = Len(share[w])

BulkBegins ==
    bulk = "off" =>
        /\ \A w \in Loaders : step[w] = "idle" /\ readTo[w] = 0 /\ DOMAIN allData[w] = {} /\ msgCount[w] = 0
        /\ entry = Nothing /\ DOMAIN orderOf = {}

(* The numbers in the table, and those a worker has still to push.         *)
InTable == {n \in 1..Longest : \E p \in Pods : \E k \in 1..Len(entry[p]) : entry[p][k] = n}
Pushing(w) == {n \in 1..Longest : \E p \in Pods : \E k \in 1..Len(toPush[w][p]) : toPush[w][p][k] = n}
AlmostAll(numbers) ==
    /\ Cardinality((1..Longest) \ numbers) < pool
    /\ Longest <= pool => 1..Longest \subseteq numbers

(* While nobody is to delete an entry any more, the table and what one     *)
(* worker has yet to push make an allocation.                              *)
Unsettled == bulk = "off" \/ queued > 0 \/ \E w \in Loaders : step[w] \in {"read", "write", "clear"}
TableInv ==
    (bulk = "run" /\ NoTrouble /\ ~Unsettled) => \E w \in Loaders : AlmostAll(InTable \cup Pushing(w))

BulkInv == BulkTypes /\ EvenShares /\ (\A w \in Loaders : LoaderInv(w)) /\ BulkBegins /\ TableInv
-----------------------------------------------------------------------------
(* The longest list is as long as every other.                             *)
LEMMA LongestList ==
    ASSUME share \in [Loaders -> Seq(Keys)], EvenShares
    PROVE  /\ Longest \in Nat
           /\ \A w \in Loaders : Len(share[w]) = Longest
<1>1. 1 \in Loaders
  BY BulkAssumption DEF Loaders
<1> DEFINE lengths == {Len(share[w]) : w \in Loaders}
           IsLongest(n) == \A w \in Loaders : Len(share[w]) <= n
<1>2. \A w \in Loaders : Len(share[w]) \in Nat
  OBVIOUS
<1>3. Len(share[1]) \in lengths /\ IsLongest(Len(share[1]))
  BY <1>1, <1>2 DEF EvenShares
<1>4. \E n \in lengths : IsLongest(n)
  BY <1>3
<1>5. Longest = CHOOSE n \in lengths : IsLongest(n)
  BY DEF Longest
<1>6. Longest \in lengths
  <2> HIDE DEF lengths, IsLongest
  <2>1. QED
    BY <1>4, <1>5
<1>7. PICK w \in Loaders : Longest = Len(share[w])
  BY <1>6
<1>8. QED
  BY <1>2, <1>7 DEF EvenShares

(* divide_and_conquer gives every worker len/numWorkers orders.            *)
LEMMA LoadIsEven ==
    ASSUME NEW found \in Seq(Keys), NEW w \in Loaders
    PROVE  /\ LoaderSize(found, NumLoaders) \in Nat
           /\ Chunk(found, LoaderSize(found, NumLoaders), w - 1) \in Seq(Keys)
           /\ Len(Chunk(found, LoaderSize(found, NumLoaders), w - 1)) = LoaderSize(found, NumLoaders)
<1> DEFINE size == LoaderSize(found, NumLoaders)
<1>1. /\ NumLoaders \in Nat \ {0} /\ w \in Nat /\ w - 1 \in Nat /\ w <= NumLoaders
      /\ Len(found) \in Nat
  BY BulkAssumption DEF Loaders
<1>2. size \in Nat /\ Len(found) = NumLoaders * size + (Len(found) % NumLoaders)
      /\ Len(found) % NumLoaders \in Nat
  <2> DEFINE L == Len(found)
  <2>1. /\ L \div NumLoaders \in Nat /\ L % NumLoaders \in 0..(NumLoaders - 1)
        /\ L = NumLoaders * (L \div NumLoaders) + (L % NumLoaders)
    <3> HIDE DEF L
    <3>1. L \in Nat /\ NumLoaders \in Nat \ {0}
      BY <1>1 DEF L
    <3>2. QED
      BY <3>1, DivMod
  <2>2. L % NumLoaders \in Nat
    BY <1>1, <2>1
  <2>3. size = L \div NumLoaders
    BY DEF LoaderSize
  <2>4. QED
    BY <2>1, <2>2, <2>3
<1>3. w * size <= NumLoaders * size
  BY <1>1, <1>2, ProductMonotone
<1>4. w * size <= Len(found)
  <2>1. w * size \in Nat /\ NumLoaders * size \in Nat
    BY <1>1, <1>2, SMT
  <2> DEFINE a == w * size
             b == NumLoaders * size
  <2>2. a \in Nat /\ b \in Nat /\ a <= b /\ Len(found) = b + (Len(found) % NumLoaders)
    BY <1>2, <1>3, <2>1
  <2> HIDE DEF a, b, size
  <2>3. a <= Len(found)
    BY <1>1, <1>2, <2>2
  <2>4. QED
    BY <2>3 DEF a
<1>5. (w - 1) + 1 = w
  BY <1>1
<1> HIDE DEF size
<1>6. /\ Chunk(found, size, w - 1) \in Seq(Keys)
      /\ Len(Chunk(found, size, w - 1)) =
           IF ((w - 1) + 1) * size <= Len(found) THEN size
           ELSE IF (w - 1) * size <= Len(found) THEN Len(found) - (w - 1) * size ELSE 0
  BY <1>1, <1>2, ChunkProperties
<1>7. QED
  BY <1>2, <1>4, <1>5, <1>6 DEF size

(* What a worker hands out of a shuffle is all the numbers, but for fewer  *)
(* than there are pods.                                                    *)
Given(numbers, n, s) ==
    {x \in 1..s : \E p \in 1..n : \E k \in 1..Len(AssignWorkload(numbers, n)[p]) :
                      AssignWorkload(numbers, n)[p][k] = x}

LEMMA ShuffleHandedOut ==
    ASSUME NEW s \in Nat, NEW numbers \in Shuffles(s), NEW n \in Nat \ {0}
    PROVE  /\ Cardinality((1..s) \ Given(numbers, n, s)) < n
           /\ s <= n => 1..s \subseteq Given(numbers, n, s)
<1> DEFINE split == AssignWorkload(numbers, n)
           given == Given(numbers, n, s)
<1>1. numbers \in [1..s -> 1..s] /\ \A j, k \in 1..s : j # k => numbers[j] # numbers[k]
  BY DEF Shuffles
<1>2. numbers \in Seq(1..s) /\ Len(numbers) = s
  BY <1>1
<1>3. PICK m \in 0..s :
        /\ \A place \in 1..m : \E w \in 1..n : \E k \in 1..Len(split[w]) : split[w][k] = numbers[place]
        /\ s - m < n
        /\ s <= n => m = s
  BY <1>2, AssignmentDropsARemainder
<1>4. \A x \in 1..s : \E place \in 1..s : numbers[place] = x
  <2>1. IsFiniteSet(1..s) /\ numbers \in Injection(1..s, 1..s)
    <3>1. IsFiniteSet(1..s)
      BY FS_Interval
    <3>2. DOMAIN numbers = 1..s
      BY <1>1
    <3>3. \A j, k \in 1..s : numbers[j] = numbers[k] => j = k
      BY <1>1
    <3>4. QED
      BY <1>1, <3>1, <3>2, <3>3 DEF Injection, IsInjective
  <2>2. numbers \in Surjection(1..s, 1..s)
    BY <2>1, FS_Injection
  <2>3. QED
    BY <2>2 DEF Surjection
<1>5. \A place \in 1..m : numbers[place] \in given
  <2>1. ASSUME NEW place \in 1..m PROVE numbers[place] \in given
    <3>1. place \in 1..s /\ numbers[place] \in 1..s
      BY <1>1, <1>3
    <3>2. QED
      BY <1>3, <3>1 DEF Given
  <2>2. QED
    BY <2>1
<1>6. s <= n => 1..s \subseteq given
  <2>1. ASSUME s <= n, NEW x \in 1..s PROVE x \in given
    <3>1. PICK place \in 1..s : numbers[place] = x
      BY <1>4
    <3>2. QED
      BY <1>3, <1>5, <2>1, <3>1
  <2>2. QED
    BY <2>1
<1> DEFINE rest == (m + 1)..s
           left_out == {numbers[place] : place \in rest}
<1>7. rest \subseteq 1..s /\ IsFiniteSet(rest) /\ Cardinality(rest) = s - m
  <2>1. m \in Nat /\ m <= s
    BY <1>3
  <2>2. IsFiniteSet(rest) /\ Cardinality(rest) = IF m + 1 > s THEN 0 ELSE s - (m + 1) + 1
    BY <2>1, FS_Interval
  <2>3. QED
    BY <2>1, <2>2
<1>8. IsFiniteSet(left_out) /\ Cardinality(left_out) <= s - m
  <2> DEFINE g == [place \in rest |-> numbers[place]]
  <2>1. g \in Surjection(rest, left_out)
    BY DEF Surjection
  <2> HIDE DEF g, left_out, rest
  <2>2. QED
    BY <1>7, <2>1, FS_Surjection
<1>9. (1..s) \ given \subseteq left_out
  <2>1. ASSUME NEW x \in 1..s, x \notin given PROVE x \in left_out
    <3>1. PICK place \in 1..s : numbers[place] = x
      BY <1>4
    <3>2. place \notin 1..m
      BY <1>5, <2>1, <3>1
    <3>3. place \in rest
      BY <1>3, <3>1, <3>2
    <3>4. QED
      BY <3>1, <3>3
  <2>2. QED
    BY <2>1
<1>10. Cardinality((1..s) \ given) < n
  <2> DEFINE missing == (1..s) \ given
  <2>1. missing \in SUBSET left_out
    BY <1>9
  <2> HIDE DEF missing, left_out, given
  <2>2. IsFiniteSet(missing) /\ Cardinality(missing) <= Cardinality(left_out)
    BY <1>8, <2>1, FS_Subset
  <2>3. Cardinality(missing) \in Nat /\ Cardinality(left_out) \in Nat
    BY <1>8, <2>2, FS_CardinalityType
  <2>4. Cardinality(missing) < n
    BY <1>3, <1>8, <2>2, <2>3
  <2>5. QED
    BY <2>4 DEF missing
<1>11. QED
  BY <1>6, <1>10

(* The numbers a worker works with.                                        *)
LEMMA LoadTypes ==
    ASSUME BulkInv, NEW w \in Loaders
    PROVE  /\ Longest \in Nat /\ share[w] \in Seq(Keys) /\ Len(share[w]) = Longest
           /\ readTo[w] \in Nat /\ readTo[w] <= Longest /\ msgCount[w] \in Nat
           /\ IsFiniteSet(DOMAIN allData[w]) /\ Cardinality(DOMAIN allData[w]) \in Nat
           /\ faults \in Nat /\ pool \in Nat /\ queued \in Nat
           /\ LoaderInv(w)
<1>1. /\ BulkTypes /\ EvenShares /\ LoaderInv(w)
  BY DEF BulkInv
<1>2. Longest \in Nat /\ Len(share[w]) = Longest
  BY <1>1, LongestList DEF BulkTypes
<1>3. readTo[w] \in Nat /\ msgCount[w] \in Nat /\ share[w] \in Seq(Keys)
  BY <1>1 DEF BulkTypes
<1>4. IsFiniteSet(0..(readTo[w] - 1)) /\ DOMAIN allData[w] \in SUBSET (0..(readTo[w] - 1))
  <2>1. readTo[w] - 1 \in Int
    BY <1>3
  <2>2. QED
    BY <1>1, <2>1, FS_Interval DEF LoaderInv
<1>5. IsFiniteSet(DOMAIN allData[w])
  BY <1>4, FS_Subset
<1>6. Cardinality(DOMAIN allData[w]) \in Nat
  BY <1>5, FS_CardinalityType
<1>7. readTo[w] <= Longest
  BY <1>1, <1>2 DEF LoaderInv
<1>8. QED
  BY <1>1, <1>2, <1>3, <1>5, <1>6, <1>7 DEF BulkTypes

(* The lists stay, so their length does.                                   *)
LEMMA SameLists == ASSUME share' = share PROVE Longest' = Longest /\ EvenShares' = EvenShares
BY DEF Longest, EvenShares

(* What has gone wrong is not undone.                                      *)
LEMMA TroubleStays ==
    ASSUME BulkInv, share' = share, staging' \subseteq staging, faults' \in Nat, faults <= faults', NoTrouble'
    PROVE  NoTrouble /\ faults' = 0 /\ faults = 0
<1>1. faults \in Nat /\ staging \subseteq Staged
  BY DEF BulkInv, BulkTypes
<1>2. faults' = 0 /\ staging' = Staged
  BY DEF NoTrouble, AllStaged
<1>3. faults = 0 /\ staging = Staged
  BY <1>1, <1>2
<1>4. \A w \in Loaders : \A k \in 1..Len(share[w]) : share[w][k] \in Staged
  BY DEF NoTrouble, AllStaged
<1>5. QED
  BY <1>2, <1>3, <1>4 DEF NoTrouble, AllStaged

(* A step of one worker: the others keep what they have.                   *)
LEMMA StepOfLoader ==
    ASSUME BulkInv, NEW w \in Loaders, bulk = "run", bulk' \in {"run", "dead"}, BulkTypes',
           share' = share, pool' = pool, staging' \subseteq staging, faults <= faults',
           \A v \in Loaders \ {w} :
              /\ step'[v] = step[v] /\ readTo'[v] = readTo[v] /\ msgCount'[v] = msgCount[v]
              /\ allData'[v] = allData[v] /\ toPush'[v] = toPush[v],
           LoaderInv(w)', TableInv'
    PROVE  BulkInv'
<1>1. faults' \in Nat
  BY DEF BulkTypes
<1>2. NoTrouble' => NoTrouble
  BY <1>1, TroubleStays
<1>3. ASSUME NEW v \in Loaders, v # w PROVE LoaderInv(v)'
  <2>1. LoaderInv(v)
    BY DEF BulkInv
  <2>2. Loads(v)' = Loads(v)
    BY <1>3 DEF Loads
  <2>3. QED
    BY <1>2, <1>3, <2>1, <2>2 DEF LoaderInv
<1>4. EvenShares'
  BY SameLists DEF BulkInv
<1>5. BulkBegins'
  BY DEF BulkBegins
<1>6. QED
  BY <1>3, <1>4, <1>5 DEF BulkInv

(* Somebody is still to delete entries.                                    *)
LEMMA StillUnsettled ==
    ASSUME NEW w \in Loaders, step'[w] \in {"read", "write", "clear"}
    PROVE  TableInv'
BY DEF TableInv, Unsettled

LEMMA MoreIsAlmostAll ==
    ASSUME NEW S, NEW T, S \subseteq T, Longest \in Nat, pool \in Nat, AlmostAll(S)
    PROVE  AlmostAll(T)
<1> DEFINE without == (1..Longest) \ S
           still == (1..Longest) \ T
<1>1. IsFiniteSet(1..Longest) /\ without \in SUBSET (1..Longest) /\ still \in SUBSET without
  BY FS_Interval
<1>2. IsFiniteSet(without)
  <2> HIDE DEF without
  <2>1. QED
    BY <1>1, FS_Subset
<1>3. /\ IsFiniteSet(still) /\ Cardinality(still) <= Cardinality(without)
      /\ Cardinality(still) \in Nat /\ Cardinality(without) \in Nat
  <2> HIDE DEF without, still
  <2>1. IsFiniteSet(still) /\ Cardinality(still) <= Cardinality(without)
    BY <1>1, <1>2, FS_Subset
  <2>2. QED
    BY <1>2, <2>1, FS_CardinalityType
<1>4. Cardinality(still) < pool
  <2>1. Cardinality(without) < pool
    BY DEF AlmostAll
  <2> HIDE DEF without, still
  <2>2. QED
    BY <1>3, <2>1
<1>5. QED
  BY <1>4 DEF AlmostAll

(* Nobody deletes, and what is pushed comes into the table.                *)
LEMMA TableKept ==
    ASSUME BulkInv, share' = share, pool' = pool, staging' \subseteq staging,
           faults' \in Nat, faults <= faults', bulk = "run", Unsettled => Unsettled',
           NEW w \in Loaders,
           NoTrouble' => (\A v \in Loaders : (InTable \cup Pushing(v)) \subseteq (InTable \cup Pushing(v))')
    PROVE  TableInv'
<1> SUFFICES ASSUME NoTrouble', ~Unsettled'
             PROVE  \E v \in Loaders : AlmostAll(InTable \cup Pushing(v))'
  BY DEF TableInv
<1>1. NoTrouble /\ ~Unsettled
  BY TroubleStays
<1>2. PICK v \in Loaders : AlmostAll(InTable \cup Pushing(v))
  BY <1>1 DEF BulkInv, TableInv
<1>3. Longest \in Nat /\ pool \in Nat /\ Longest' = Longest
  BY LoadTypes, SameLists
<1> DEFINE before == InTable \cup Pushing(v)
           after == (InTable \cup Pushing(v))'
<1>4. before \subseteq after /\ AlmostAll(before)
  BY <1>2
<1>5. AlmostAll(after)
  <2> HIDE DEF before, after
  <2>1. QED
    BY <1>3, <1>4, MoreIsAlmostAll
<1>6. AlmostAll(InTable \cup Pushing(v))'
  <2>1. Cardinality((1..Longest) \ after) < pool /\ (Longest <= pool => 1..Longest \subseteq after)
    BY <1>5 DEF AlmostAll
  <2>2. Cardinality((1..Longest') \ after) < pool' /\ (Longest' <= pool' => 1..Longest' \subseteq after)
    BY <1>3, <2>1
  <2>3. QED
    BY <2>2 DEF AlmostAll
<1>7. QED
  BY <1>6

LEMMA NoneLoaded == DOMAIN NoOrders = {} /\ Cardinality({}) = 0
BY FS_EmptySet DEF NoOrders

LEMMA TakeLoadKeeps == ASSUME BulkInv, NEW w \in Loaders, bulk = "run", TakeLoad(w) PROVE BulkInv'
<1>1. /\ step[w] = "idle" /\ queued > 0 /\ queued' = queued - 1
      /\ step' = [step EXCEPT ![w] = "read"] /\ readTo' = [readTo EXCEPT ![w] = 0]
      /\ allData' = [allData EXCEPT ![w] = NoOrders] /\ msgCount' = [msgCount EXCEPT ![w] = 0]
      /\ UNCHANGED <<bulk, pool, share, staging, orderOf, entry, toPush, toPurge, recorded, faults>>
  BY DEF TakeLoad, redisData
<1>2. BulkTypes /\ Longest' = Longest
  BY <1>1, SameLists DEF BulkInv
<1>3. queued' \in Nat
  BY <1>1, LoadTypes
<1>4. BulkTypes'
  BY <1>1, <1>2, <1>3 DEF BulkTypes
<1>5. /\ step'[w] = "read" /\ readTo'[w] = 0 /\ msgCount'[w] = 0 /\ DOMAIN allData'[w] = {}
      /\ toPush'[w] = toPush[w]
  BY <1>1, <1>2, NoneLoaded DEF BulkTypes
<1>6. toPush[w] = Nothing
  BY <1>1, LoadTypes DEF LoaderInv
<1>7. Loads(w)' = 0
  BY <1>5, NoneLoaded DEF Loads
<1>8. LoaderInv(w)'
  <2>1. 0 <= Len(share'[w])
    BY <1>1, LoadTypes
  <2>2. QED
    BY <1>5, <1>6, <1>7, <2>1 DEF LoaderInv
<1>9. TableInv'
  BY <1>5, StillUnsettled
<1>10. ASSUME NEW v \in Loaders \ {w}
       PROVE  /\ step'[v] = step[v] /\ readTo'[v] = readTo[v] /\ msgCount'[v] = msgCount[v]
              /\ allData'[v] = allData[v] /\ toPush'[v] = toPush[v]
  BY <1>1, <1>2 DEF BulkTypes
<1>11. faults <= faults' /\ staging' \subseteq staging
  BY <1>1, LoadTypes
<1>12. QED
  BY <1>1, <1>4, <1>8, <1>9, <1>10, <1>11, StepOfLoader

LEMMA ReadStagedKeeps == ASSUME BulkInv, NEW w \in Loaders, bulk = "run", ReadStaged(w) PROVE BulkInv'
<1> DEFINE key == share[w][readTo[w] + 1]
<1>1. /\ step[w] = "read" /\ readTo[w] < Len(share[w])
      /\ readTo' = [readTo EXCEPT ![w] = @ + 1]
      /\ UNCHANGED <<bulk, pool, share, queued, staging, orderOf, entry, step, msgCount, toPush, toPurge>>
  BY DEF ReadStaged, lists, redisData
<1>2. \/ /\ key \in staging /\ allData' = [allData EXCEPT ![w] = Set(@, readTo[w], key)]
         /\ recorded' = recorded \cup {key} /\ faults' = faults
      \/ key \notin staging /\ allData' = allData /\ recorded' = recorded /\ faults' = faults
      \/ faults' = faults + 1 /\ allData' = allData /\ recorded' = recorded
  BY DEF ReadStaged, PlaceOf
<1>3. BulkTypes /\ Longest' = Longest
  BY <1>1, SameLists DEF BulkInv
<1>4. faults' \in Nat /\ faults <= faults'
  BY <1>2, LoadTypes
<1>5. /\ step'[w] = "read" /\ readTo'[w] = readTo[w] + 1 /\ msgCount'[w] = msgCount[w]
      /\ toPush'[w] = toPush[w] /\ readTo'[w] <= Len(share'[w])
  BY <1>1, <1>3, LoadTypes DEF BulkTypes
<1>6. IsFiniteSet(recorded')
  <2>1. IsFiniteSet(recorded)
    BY <1>3 DEF BulkTypes
  <2> HIDE DEF key
  <2>2. IsFiniteSet(recorded \cup {key})
    BY <2>1, FS_AddElement
  <2>3. QED
    BY <1>2, <2>1, <2>2
<1>7. allData' = [v \in Loaders |-> allData'[v]]
  BY <1>2, <1>3 DEF BulkTypes
<1>8. readTo' \in [Loaders -> Nat]
  BY <1>1, <1>3, LoadTypes DEF BulkTypes
<1>9. BulkTypes'
  BY <1>1, <1>3, <1>4, <1>6, <1>7, <1>8 DEF BulkTypes
<1>10. DOMAIN allData[w] \subseteq 0..(readTo[w] - 1) /\ Loads(w) <= readTo[w] /\ Loads(w) \in Nat
  BY LoadTypes DEF LoaderInv, Loads
<1>11. /\ DOMAIN allData'[w] \subseteq 0..(readTo'[w] - 1)
       /\ Loads(w)' <= readTo'[w]
       /\ NoTrouble' => Loads(w)' = readTo'[w]
  <2>1. CASE key \in staging /\ allData' = [allData EXCEPT ![w] = Set(@, readTo[w], key)] /\ faults' = faults
    <3>1. DOMAIN allData'[w] = DOMAIN allData[w] \cup {readTo[w]}
      BY <1>3, <2>1 DEF BulkTypes, Set
    <3>2. readTo[w] \notin DOMAIN allData[w]
      BY <1>10, LoadTypes
    <3>3. Cardinality(DOMAIN allData'[w]) = Cardinality(DOMAIN allData[w]) + 1
      BY <3>1, <3>2, LoadTypes, FS_AddElement
    <3>4. Loads(w)' = Loads(w) + 1
      <4>1. msgCount[w] \in Nat /\ Cardinality(DOMAIN allData[w]) \in Nat
        BY LoadTypes
      <4>2. QED
        BY <1>5, <3>3, <4>1 DEF Loads
    <3>5. NoTrouble' => Loads(w) = readTo[w]
      BY <1>1, <1>4, LoadTypes, TroubleStays DEF LoaderInv
    <3>6. DOMAIN allData'[w] \subseteq 0..(readTo'[w] - 1)
      BY <1>5, <1>10, <3>1, LoadTypes
    <3>7. QED
      BY <1>5, <1>10, <3>4, <3>5, <3>6, LoadTypes
  <2>2. CASE allData' = allData /\ (key \notin staging \/ faults' = faults + 1)
    <3>1. Loads(w)' = Loads(w)
      BY <1>5, <2>2 DEF Loads
    <3>2. ~NoTrouble'
      <4> SUFFICES ASSUME NoTrouble' PROVE FALSE
        OBVIOUS
      <4>2. NoTrouble /\ faults' = 0 /\ faults = 0
        BY <1>1, <1>4, TroubleStays
      <4>3. key \notin staging
        BY <2>2, <4>2
      <4>4. readTo[w] + 1 \in 1..Len(share[w])
        BY <1>1, LoadTypes
      <4>5. key \in Staged /\ staging = Staged
        BY <4>2, <4>4 DEF NoTrouble, AllStaged
      <4>6. QED
        BY <4>3, <4>5
    <3>3. DOMAIN allData'[w] \subseteq 0..(readTo'[w] - 1)
      BY <1>5, <1>10, <2>2, LoadTypes
    <3>4. QED
      BY <1>5, <1>10, <3>1, <3>2, <3>3, LoadTypes
  <2>3. QED
    BY <1>2, <2>1, <2>2
<1>12. LoaderInv(w)'
  <2>1. toPush[w] = Nothing
    BY <1>1, LoadTypes DEF LoaderInv
  <2>2. QED
    BY <1>5, <1>11, <2>1 DEF LoaderInv
<1>13. TableInv'
  BY <1>5, StillUnsettled
<1>14. ASSUME NEW v \in Loaders \ {w}
       PROVE  /\ step'[v] = step[v] /\ readTo'[v] = readTo[v] /\ msgCount'[v] = msgCount[v]
              /\ allData'[v] = allData[v] /\ toPush'[v] = toPush[v]
  BY <1>1, <1>2, <1>3 DEF BulkTypes
<1>15. QED
  BY <1>1, <1>4, <1>9, <1>12, <1>13, <1>14, StepOfLoader

LEMMA EndReadKeeps == ASSUME BulkInv, NEW w \in Loaders, bulk = "run", EndRead(w) PROVE BulkInv'
<1>1. /\ step[w] = "read" /\ readTo[w] = Len(share[w]) /\ step' = [step EXCEPT ![w] = "write"]
      /\ UNCHANGED <<bulk, pool, share, queued, staging, orderOf, entry, readTo, allData, msgCount,
                     toPush, toPurge, recorded, faults>>
  BY DEF EndRead, lists, redisData
<1>2. BulkTypes /\ Longest' = Longest
  BY <1>1, SameLists DEF BulkInv
<1>3. BulkTypes'
  BY <1>1, <1>2 DEF BulkTypes
<1>4. step'[w] = "write" /\ Loads(w)' = Loads(w) /\ LoaderInv(w) /\ faults <= faults'
  BY <1>1, <1>2, LoadTypes DEF BulkTypes, Loads
<1>5. NoTrouble' => NoTrouble
  BY <1>1 DEF NoTrouble, AllStaged
<1>6. LoaderInv(w)'
  BY <1>1, <1>4, <1>5 DEF LoaderInv
<1>7. TableInv'
  BY <1>4, StillUnsettled
<1>8. ASSUME NEW v \in Loaders \ {w} PROVE step'[v] = step[v]
  BY <1>1, <1>2 DEF BulkTypes
<1>9. QED
  BY <1>1, <1>3, <1>4, <1>6, <1>7, <1>8, StepOfLoader

LEMMA WriteLoadedKeeps == ASSUME BulkInv, NEW w \in Loaders, bulk = "run", WriteLoaded(w) PROVE BulkInv'
<1>1. /\ step[w] = "write"
      /\ UNCHANGED <<bulk, pool, share, queued, staging, entry, step, readTo, toPush, toPurge, recorded>>
  BY DEF WriteLoaded, lists
<1>2. PICK n \in DOMAIN allData[w] :
        /\ allData' = [allData EXCEPT ![w] = Without(@, n)]
        /\ \/ /\ orderOf' = Set(orderOf, n, allData[w][n])
              /\ msgCount' = [msgCount EXCEPT ![w] = @ + 1] /\ faults' = faults
           \/ faults' = faults + 1 /\ orderOf' = orderOf /\ msgCount' = msgCount
  BY DEF WriteLoaded
<1>3. BulkTypes /\ Longest' = Longest
  BY <1>1, SameLists DEF BulkInv
<1>4. faults' \in Nat /\ faults <= faults'
  BY <1>2, LoadTypes
<1>5. n \in 0..(Longest - 1) /\ DOMAIN allData[w] \subseteq 0..(readTo[w] - 1) /\ Loads(w) \in Nat
  BY LoadTypes DEF LoaderInv, Loads
<1>6. DOMAIN orderOf' \subseteq 0..(Longest - 1)
  BY <1>2, <1>3, <1>5 DEF BulkTypes, Set
<1>7. msgCount' \in [Loaders -> Nat]
  BY <1>2, <1>3, LoadTypes DEF BulkTypes
<1>8. allData' = [v \in Loaders |-> allData'[v]]
  BY <1>2, <1>3 DEF BulkTypes
<1>9. BulkTypes'
  BY <1>1, <1>3, <1>4, <1>6, <1>7, <1>8 DEF BulkTypes
<1>10. /\ DOMAIN allData'[w] = DOMAIN allData[w] \ {n}
       /\ Cardinality(DOMAIN allData'[w]) = Cardinality(DOMAIN allData[w]) - 1
  <2>1. DOMAIN allData'[w] = DOMAIN allData[w] \ {n}
    BY <1>2, <1>3 DEF BulkTypes, Without
  <2>2. IsFiniteSet(DOMAIN allData[w]) /\ n \in DOMAIN allData[w]
    BY <1>2, LoadTypes
  <2>3. QED
    BY <2>1, <2>2, FS_RemoveElement
<1>11. /\ Loads(w)' <= Loads(w)
       /\ NoTrouble' => Loads(w)' = Loads(w)
  <2>0. msgCount[w] \in Nat /\ Cardinality(DOMAIN allData[w]) \in Nat
    BY LoadTypes
  <2>1. CASE msgCount' = [msgCount EXCEPT ![w] = @ + 1]
    <3>1. msgCount'[w] = msgCount[w] + 1
      BY <1>3, <2>1 DEF BulkTypes
    <3>2. QED
      BY <1>10, <2>0, <3>1 DEF Loads
  <2>2. CASE faults' = faults + 1 /\ msgCount' = msgCount
    <3>1. ~NoTrouble'
      BY <2>2, LoadTypes DEF NoTrouble
    <3>2. msgCount'[w] = msgCount[w]
      BY <2>2
    <3>3. QED
      BY <1>10, <2>0, <3>1, <3>2 DEF Loads
  <2>3. QED
    BY <1>2, <2>1, <2>2
<1>12. NoTrouble' => NoTrouble
  BY <1>1, <1>4, TroubleStays
<1>13. LoaderInv(w)'
  <2>1. LoaderInv(w) /\ readTo[w] \in Nat /\ Loads(w)' \in Nat
    <3>1. msgCount'[w] \in Nat
      BY <1>7
    <3>2. IsFiniteSet(DOMAIN allData'[w])
      BY <1>10, LoadTypes, FS_RemoveElement
    <3>3. Cardinality(DOMAIN allData'[w]) \in Nat
      BY <3>2, FS_CardinalityType
    <3>4. Loads(w)' \in Nat
      BY <3>1, <3>3 DEF Loads
    <3>5. QED
      BY <3>4, LoadTypes
  <2>2. Loads(w)' <= readTo[w]
    BY <1>5, <1>11, <2>1 DEF LoaderInv
  <2>3. DOMAIN allData'[w] \subseteq 0..(readTo[w] - 1)
    BY <1>5, <1>10
  <2>4. QED
    BY <1>1, <1>11, <1>12, <2>1, <2>2, <2>3 DEF LoaderInv
<1>14. TableInv'
  BY <1>1, StillUnsettled
<1>15. ASSUME NEW v \in Loaders \ {w} PROVE msgCount'[v] = msgCount[v] /\ allData'[v] = allData[v]
  BY <1>2, <1>3 DEF BulkTypes
<1>16. QED
  BY <1>1, <1>4, <1>9, <1>13, <1>14, <1>15, StepOfLoader

LEMMA ListPodsKeeps == ASSUME BulkInv, NEW w \in Loaders, bulk = "run", ListPods(w) PROVE BulkInv'
<1>1. /\ step[w] = "write" /\ DOMAIN allData[w] = {} /\ pool > 0 /\ step' = [step EXCEPT ![w] = "clear"]
      /\ UNCHANGED <<bulk, pool, share, queued, staging, orderOf, entry, readTo, allData, msgCount,
                     toPush, toPurge, recorded, faults>>
  BY DEF ListPods, lists, redisData
<1>2. BulkTypes /\ Longest' = Longest
  BY <1>1, SameLists DEF BulkInv
<1>3. BulkTypes'
  BY <1>1, <1>2 DEF BulkTypes
<1>4. /\ step'[w] = "clear" /\ Loads(w)' = Loads(w) /\ LoaderInv(w) /\ faults <= faults' /\ pool # 0
  <2>1. step'[w] = "clear"
    BY <1>1, <1>2 DEF BulkTypes
  <2>2. Loads(w)' = Loads(w)
    BY <1>1 DEF Loads
  <2>3. QED
    BY <1>1, <2>1, <2>2, LoadTypes
<1>5. NoTrouble' => NoTrouble
  BY <1>1 DEF NoTrouble, AllStaged
<1>6. LoaderInv(w)'
  BY <1>1, <1>4, <1>5 DEF LoaderInv
<1>7. TableInv'
  BY <1>4, StillUnsettled
<1>8. ASSUME NEW v \in Loaders \ {w} PROVE step'[v] = step[v]
  BY <1>1, <1>2 DEF BulkTypes
<1>9. QED
  BY <1>1, <1>3, <1>4, <1>6, <1>7, <1>8, StepOfLoader

LEMMA ClearEntryKeeps == ASSUME BulkInv, NEW w \in Loaders, bulk = "run", ClearEntry(w) PROVE BulkInv'
<1>1. /\ step[w] = "clear"
      /\ UNCHANGED <<bulk, pool, share, queued, staging, orderOf, step, readTo, allData, msgCount,
                     toPush, toPurge, recorded>>
  BY DEF ClearEntry, lists
<1>2. PICK p \in toClear[w] : \/ entry' = [entry EXCEPT ![p] = <<>>] /\ faults' = faults
                              \/ faults' = faults + 1 /\ entry' = entry
  BY DEF ClearEntry
<1>3. BulkTypes /\ Longest' = Longest
  BY <1>1, SameLists DEF BulkInv
<1>4. faults' \in Nat /\ faults <= faults'
  BY <1>2, LoadTypes
<1>5. entry' \in [Pods -> Seq(1..Longest)]
  <2>1. <<>> \in Seq(1..Longest)
    OBVIOUS
  <2>2. QED
    BY <1>2, <1>3, <2>1 DEF BulkTypes
<1>6. BulkTypes'
  BY <1>1, <1>3, <1>4, <1>5 DEF BulkTypes
<1>7. NoTrouble' => NoTrouble
  BY <1>1, <1>4, TroubleStays
<1>8. LoaderInv(w)'
  <2>1. LoaderInv(w) /\ Loads(w)' = Loads(w)
    BY <1>1, LoadTypes DEF Loads
  <2>2. QED
    BY <1>1, <1>7, <2>1 DEF LoaderInv
<1>9. TableInv'
  BY <1>1, StillUnsettled
<1>10. QED
  BY <1>1, <1>4, <1>6, <1>8, <1>9, StepOfLoader

(* What LPUSH does to the two lists.                                       *)
LEMMA HeadMoves ==
    ASSUME NEW S, NEW from \in Seq(S), from # <<>>, NEW to \in Seq(S)
    PROVE  /\ Head(from) \in S /\ Head(from) = from[1]
           /\ Len(from) \in Nat /\ Len(from) # 0
           /\ Tail(from) \in Seq(S) /\ Len(Tail(from)) = Len(from) - 1
           /\ \A k \in 1..(Len(from) - 1) : Tail(from)[k] = from[k + 1]
           /\ <<Head(from)>> \o to \in Seq(S) /\ Len(<<Head(from)>> \o to) = Len(to) + 1
           /\ (<<Head(from)>> \o to)[1] = Head(from)
           /\ \A k \in 1..Len(to) : (<<Head(from)>> \o to)[k + 1] = to[k]
<1>1. /\ Head(from) \in S /\ Tail(from) \in Seq(S) /\ Len(Tail(from)) = Len(from) - 1
      /\ \A k \in 1..Len(Tail(from)) : Tail(from)[k] = from[k + 1]
  BY HeadTailProperties
<1>2. Len(from) \in Nat /\ Len(from) # 0 /\ Head(from) = from[1]
  OBVIOUS
<1> DEFINE h == Head(from)
           one == <<h>>
<1>3. one \in Seq(S) /\ Len(one) = 1 /\ one[1] = h
  BY <1>1
<1>4. Len(to) \in Nat
  OBVIOUS
<1>5. /\ one \o to \in Seq(S) /\ Len(one \o to) = 1 + Len(to)
      /\ \A k \in 1..(1 + Len(to)) : (one \o to)[k] = IF k <= 1 THEN one[k] ELSE to[k - 1]
  <2> HIDE DEF one, h
  <2>1. /\ one \o to \in Seq(S) /\ Len(one \o to) = Len(one) + Len(to)
        /\ \A k \in 1..(Len(one) + Len(to)) :
              (one \o to)[k] = IF k <= Len(one) THEN one[k] ELSE to[k - Len(one)]
    BY <1>3, ConcatProperties
  <2>2. QED
    BY <1>3, <2>1
<1>6. /\ Len(one \o to) = Len(to) + 1 /\ (one \o to)[1] = h
      /\ \A k \in 1..Len(to) : (one \o to)[k + 1] = to[k]
  <2> HIDE DEF one, h
  <2>1. QED
    BY <1>3, <1>4, <1>5
<1>7. QED
  BY <1>1, <1>2, <1>5, <1>6

LEMMA WiderSeq ==
    ASSUME NEW a \in Nat, NEW b \in Nat, a <= b, NEW s \in Seq(1..a)
    PROVE  s \in Seq(1..b)
<1>1. \A k \in 1..Len(s) : s[k] \in 1..b
  OBVIOUS
<1>2. s = [k \in 1..Len(s) |-> s[k]] /\ Len(s) \in Nat
  OBVIOUS
<1>3. QED
  BY <1>1, <1>2

(* The allocation of a worker to which nothing happened is complete.       *)
LEMMA AssignNumbersKeeps == ASSUME BulkInv, NEW w \in Loaders, bulk = "run", AssignNumbers(w) PROVE BulkInv'
<1>1. /\ step[w] = "clear" /\ step' = [step EXCEPT ![w] = "push"]
      /\ UNCHANGED <<bulk, pool, share, queued, staging, orderOf, entry, readTo, allData, msgCount,
                     toPurge, recorded, faults>>
  BY DEF AssignNumbers, lists, redisData
<1> DEFINE c == msgCount[w]
<1>2. PICK numbers \in Shuffles(c) :
        toPush' = [toPush EXCEPT ![w] =
                     [p \in Pods |-> IF p \in 1..pool THEN AssignWorkload(numbers, pool)[p] ELSE <<>>]]
  BY DEF AssignNumbers
<1> DEFINE split == AssignWorkload(numbers, pool)
           handed == [p \in Pods |-> IF p \in 1..pool THEN split[p] ELSE <<>>]
<1>3. BulkTypes /\ Longest' = Longest /\ LoaderInv(w) /\ faults <= faults'
  BY <1>1, SameLists, LoadTypes DEF BulkInv
<1>4. pool \in Nat \ {0} /\ DOMAIN allData[w] = {} /\ Loads(w) <= readTo[w]
  BY <1>1, <1>3, LoadTypes DEF LoaderInv
<1>5. c \in Nat /\ c <= Longest /\ Loads(w) = c
  <2>1. c \in Nat
    BY LoadTypes
  <2>2. Loads(w) = c
    BY <1>4, <2>1, NoneLoaded DEF Loads
  <2>3. QED
    BY <1>4, <2>1, <2>2, LoadTypes
<1>6. split \in [1..pool -> Seq(1..c)]
  <2>1. numbers \in Seq(1..c)
    BY <1>5 DEF Shuffles
  <2> HIDE DEF c
  <2>2. QED
    BY <1>4, <2>1, AssignType
<1>7. handed \in [Pods -> Seq(1..Longest)]
  <2>1. ASSUME NEW p \in 1..pool PROVE split[p] \in Seq(1..Longest)
    <3>1. split[p] \in Seq(1..c)
      BY <1>6
    <3> HIDE DEF c, split
    <3>2. QED
      BY <1>5, <3>1, LoadTypes, WiderSeq
  <2>2. <<>> \in Seq(1..Longest)
    OBVIOUS
  <2> HIDE DEF split
  <2>3. QED
    BY <2>1, <2>2
<1>8. toPush' \in [Loaders -> [Pods -> Seq(1..Longest)]] /\ toPush'[w] = handed
  <2> HIDE DEF handed
  <2>1. toPush' = [toPush EXCEPT ![w] = handed]
    BY <1>2 DEF handed
  <2>2. QED
    BY <1>3, <1>7, <2>1 DEF BulkTypes
<1>9. step' \in [Loaders -> {"idle", "read", "write", "clear", "push", "purge"}] /\ step'[w] = "push"
  BY <1>1, <1>3 DEF BulkTypes
<1>10. BulkTypes'
  BY <1>1, <1>3, <1>8, <1>9 DEF BulkTypes
<1>11. LoaderInv(w)'
  <2>1. Loads(w)' = Loads(w)
    BY <1>1 DEF Loads
  <2>2. QED
    BY <1>1, <1>3, <1>9, <2>1 DEF LoaderInv
<1>12. TableInv'
  <2> SUFFICES ASSUME NoTrouble' PROVE AlmostAll(InTable \cup Pushing(w))'
    BY DEF TableInv
  <2>1. c = Longest
    <3>1. NoTrouble
      BY <1>1 DEF NoTrouble, AllStaged
    <3>2. QED
      BY <1>1, <1>3, <1>5, <3>1, LoadTypes DEF LoaderInv
  <2> DEFINE given == Given(numbers, pool, c)
             after == (InTable \cup Pushing(w))'
  <2>2. Cardinality((1..c) \ given) < pool /\ (c <= pool => 1..c \subseteq given)
    <3> HIDE DEF c
    <3>1. QED
      BY <1>4, <1>5, ShuffleHandedOut
  <2>3. AlmostAll(given)
    <3> HIDE DEF given, c
    <3>1. QED
      BY <2>1, <2>2 DEF AlmostAll
  <2>4. given \subseteq after
    <3>1. ASSUME NEW x \in 1..c, NEW p \in 1..pool, NEW k \in 1..Len(split[p]), split[p][k] = x
          PROVE  x \in Pushing(w)'
      <4>1. p \in Pods
        BY <1>3, <1>4, BulkAssumption DEF BulkTypes, Pods
      <4>2. toPush'[w][p] = split[p]
        BY <1>8, <3>1, <4>1
      <4>3. x \in 1..Longest'
        BY <1>3, <2>1
      <4> HIDE DEF split, handed, c
      <4>4. QED
        BY <3>1, <4>1, <4>2, <4>3 DEF Pushing
    <3>2. QED
      BY <3>1 DEF Given
  <2>5. AlmostAll(after)
    <3> HIDE DEF given, after, split, c
    <3>1. QED
      BY <1>4, <2>3, <2>4, LoadTypes, MoreIsAlmostAll
  <2>6. Cardinality((1..Longest) \ after) < pool /\ (Longest <= pool => 1..Longest \subseteq after)
    BY <2>5 DEF AlmostAll
  <2>7. Cardinality((1..Longest') \ after) < pool' /\ (Longest' <= pool' => 1..Longest' \subseteq after)
    BY <1>1, <1>3, <2>6
  <2>8. QED
    BY <2>7 DEF AlmostAll
<1>13. ASSUME NEW v \in Loaders \ {w} PROVE step'[v] = step[v] /\ toPush'[v] = toPush[v]
  <2> HIDE DEF handed
  <2>1. toPush' = [toPush EXCEPT ![w] = handed]
    BY <1>2 DEF handed
  <2>2. QED
    BY <1>1, <1>3, <2>1 DEF BulkTypes
<1> HIDE DEF c, split, handed
<1>14. QED
  BY <1>1, <1>3, <1>10, <1>11, <1>12, <1>13, StepOfLoader

(* A number leaves what is to be pushed for the table.                     *)
LEMMA PushNumberKeeps == ASSUME BulkInv, NEW w \in Loaders, bulk = "run", PushNumber(w) PROVE BulkInv'
<1>1. /\ step[w] = "push"
      /\ UNCHANGED <<bulk, pool, share, queued, staging, orderOf, step, readTo, allData, msgCount,
                     toPurge, recorded>>
  BY DEF PushNumber, lists
<1>2. PICK p \in Pods :
        /\ toPush[w][p] # <<>>
        /\ toPush' = [toPush EXCEPT ![w][p] = Tail(@)]
        /\ \/ entry' = [entry EXCEPT ![p] = <<Head(toPush[w][p])>> \o @] /\ faults' = faults
           \/ faults' = faults + 1 /\ entry' = entry
  BY DEF PushNumber
<1> DEFINE mine == toPush[w][p]
           h == Head(mine)
<1>3. BulkTypes /\ Longest' = Longest /\ LoaderInv(w)
  BY <1>1, SameLists, LoadTypes DEF BulkInv
<1>4. faults' \in Nat /\ faults <= faults'
  BY <1>2, LoadTypes
<1>5. mine \in Seq(1..Longest) /\ entry[p] \in Seq(1..Longest) /\ toPush[w] \in [Pods -> Seq(1..Longest)]
  BY <1>3 DEF BulkTypes
<1>6. mine # <<>>
  BY <1>2
<1>7. /\ h \in 1..Longest /\ h = mine[1] /\ Len(mine) \in Nat /\ Len(mine) # 0
      /\ Tail(mine) \in Seq(1..Longest) /\ Len(Tail(mine)) = Len(mine) - 1
      /\ \A k \in 1..(Len(mine) - 1) : Tail(mine)[k] = mine[k + 1]
      /\ <<h>> \o entry[p] \in Seq(1..Longest) /\ Len(<<h>> \o entry[p]) = Len(entry[p]) + 1
      /\ (<<h>> \o entry[p])[1] = h
      /\ \A k \in 1..Len(entry[p]) : (<<h>> \o entry[p])[k + 1] = entry[p][k]
  <2> DEFINE S == 1..Longest
             to == entry[p]
  <2>1. mine \in Seq(S) /\ to \in Seq(S)
    BY <1>5
  <2> HIDE DEF mine, S, to
  <2>2. /\ h \in S /\ h = mine[1] /\ Len(mine) \in Nat /\ Len(mine) # 0
        /\ Tail(mine) \in Seq(S) /\ Len(Tail(mine)) = Len(mine) - 1
        /\ \A k \in 1..(Len(mine) - 1) : Tail(mine)[k] = mine[k + 1]
        /\ <<h>> \o to \in Seq(S) /\ Len(<<h>> \o to) = Len(to) + 1
        /\ (<<h>> \o to)[1] = h
        /\ \A k \in 1..Len(to) : (<<h>> \o to)[k + 1] = to[k]
    BY <1>6, <2>1, HeadMoves
  <2>3. QED
    BY <2>2 DEF S, to
<1>8. /\ toPush' \in [Loaders -> [Pods -> Seq(1..Longest)]]
      /\ toPush'[w][p] = Tail(mine)
      /\ \A q \in Pods \ {p} : toPush'[w][q] = toPush[w][q]
      /\ \A v \in Loaders \ {w} : toPush'[v] = toPush[v]
  <2>1. toPush' = [toPush EXCEPT ![w] = [toPush[w] EXCEPT ![p] = Tail(mine)]]
    BY <1>2
  <2>2. [toPush[w] EXCEPT ![p] = Tail(mine)] \in [Pods -> Seq(1..Longest)]
    BY <1>5, <1>7
  <2> HIDE DEF mine
  <2>3. toPush' \in [Loaders -> [Pods -> Seq(1..Longest)]]
    BY <1>3, <2>1, <2>2 DEF BulkTypes
  <2>4. /\ toPush'[w] = [toPush[w] EXCEPT ![p] = Tail(mine)]
        /\ \A v \in Loaders \ {w} : toPush'[v] = toPush[v]
    BY <1>3, <2>1 DEF BulkTypes
  <2>5. QED
    BY <1>5, <2>3, <2>4
<1>9. entry' \in [Pods -> Seq(1..Longest)]
  <2>1. CASE entry' = [entry EXCEPT ![p] = <<h>> \o entry[p]]
    <3> HIDE DEF h
    <3>1. QED
      BY <1>3, <1>7, <2>1 DEF BulkTypes
  <2>2. CASE entry' = entry
    BY <1>3, <2>2 DEF BulkTypes
  <2>3. QED
    BY <1>2, <2>1, <2>2
<1>10. BulkTypes'
  BY <1>1, <1>3, <1>4, <1>8, <1>9 DEF BulkTypes
<1>11. NoTrouble' => NoTrouble
  BY <1>1, <1>4, TroubleStays
<1>12. LoaderInv(w)'
  <2>1. Loads(w)' = Loads(w)
    BY <1>1 DEF Loads
  <2>2. QED
    BY <1>1, <1>3, <1>11, <2>1 DEF LoaderInv
<1>13. ASSUME NoTrouble', NEW v \in Loaders
       PROVE  (InTable \cup Pushing(v)) \subseteq (InTable \cup Pushing(v))'
  <2>1. entry' = [entry EXCEPT ![p] = <<h>> \o entry[p]]
    <3>1. faults' = faults
      BY <1>1, <1>4, <1>13, TroubleStays
    <3>2. faults' # faults + 1
      BY <1>4, <3>1, LoadTypes
    <3>3. QED
      BY <1>2, <3>2
  <2>2. /\ entry'[p] = <<h>> \o entry[p]
        /\ \A q \in Pods \ {p} : entry'[q] = entry[q]
    <3> HIDE DEF h
    <3>1. QED
      BY <1>3, <2>1 DEF BulkTypes
  <2>3. Len(entry[p]) \in Nat
    BY <1>5
  <2>4. h \in InTable'
    <3>1. 1 \in 1..Len(entry'[p]) /\ entry'[p][1] = h
      BY <1>7, <2>2, <2>3
    <3> HIDE DEF h
    <3>2. QED
      BY <1>3, <1>7, <3>1 DEF InTable
  <2>5. ASSUME NEW x \in InTable PROVE x \in InTable'
    <3>0. PICK q \in Pods : \E k \in 1..Len(entry[q]) : entry[q][k] = x
      BY <2>5 DEF InTable
    <3>1. PICK k \in 1..Len(entry[q]) : entry[q][k] = x
      BY <3>0
    <3>2. x \in 1..Longest'
      BY <1>3, <2>5 DEF InTable
    <3>3. CASE q = p
      <4>1. k + 1 \in 1..Len(entry'[p]) /\ entry'[p][k + 1] = x
        BY <1>7, <2>2, <2>3, <3>1, <3>3
      <4>2. QED
        BY <3>2, <4>1 DEF InTable
    <3>4. CASE q # p
      BY <2>2, <3>1, <3>2, <3>4 DEF InTable
    <3>5. QED
      BY <3>3, <3>4
  <2>6. ASSUME NEW x \in Pushing(v) PROVE x \in (InTable \cup Pushing(v))'
    <3>0. PICK q \in Pods : \E k \in 1..Len(toPush[v][q]) : toPush[v][q][k] = x
      BY <2>6 DEF Pushing
    <3>1. PICK k \in 1..Len(toPush[v][q]) : toPush[v][q][k] = x
      BY <3>0
    <3>2. x \in 1..Longest'
      BY <1>3, <2>6 DEF Pushing
    <3>3. CASE v = w /\ q = p
      <4>1. CASE k = 1
        BY <1>7, <2>4, <3>1, <3>3, <4>1
      <4>2. CASE k # 1
        <5>1. k - 1 \in 1..(Len(mine) - 1) /\ (k - 1) + 1 = k
          BY <1>7, <3>1, <3>3, <4>2
        <5>2. Tail(mine)[k - 1] = x /\ k - 1 \in 1..Len(Tail(mine))
          BY <1>7, <3>1, <3>3, <5>1
        <5>3. toPush'[v][p][k - 1] = x /\ k - 1 \in 1..Len(toPush'[v][p])
          BY <1>8, <3>3, <5>2
        <5>4. QED
          BY <3>2, <5>3 DEF Pushing
      <4>3. QED
        BY <4>1, <4>2
    <3>4. CASE v # w \/ q # p
      <4>1. toPush'[v][q] = toPush[v][q]
        BY <1>8, <3>4
      <4>2. QED
        BY <3>1, <3>2, <4>1 DEF Pushing
    <3>5. QED
      BY <3>3, <3>4
  <2>7. QED
    BY <2>5, <2>6
<1>14. Unsettled => Unsettled'
  BY <1>1 DEF Unsettled
<1>15. TableInv'
  BY <1>1, <1>4, <1>13, <1>14, TableKept
<1>16. QED
  BY <1>1, <1>4, <1>8, <1>10, <1>12, <1>15, StepOfLoader

(* A step that leaves the table, the lists and what is to be pushed.       *)
LEMMA SameTable ==
    ASSUME share' = share, entry' = entry, toPush' = toPush, NEW v \in Loaders
    PROVE  (InTable \cup Pushing(v)) \subseteq (InTable \cup Pushing(v))'
<1>1. Longest' = Longest
  BY SameLists
<1>2. QED
  BY <1>1 DEF InTable, Pushing

LEMMA EndPushKeeps == ASSUME BulkInv, NEW w \in Loaders, bulk = "run", EndPush(w) PROVE BulkInv'
<1>1. /\ step[w] = "push" /\ toPush[w] = Nothing
      /\ UNCHANGED <<bulk, pool, share, queued, staging, orderOf, entry, readTo, allData, msgCount,
                     toPush, recorded, faults>>
  BY DEF EndPush, lists, redisData
<1>2. \/ step' = [step EXCEPT ![w] = "purge"] /\ toPurge' = [toPurge EXCEPT ![w] = recorded]
      \/ step' = [step EXCEPT ![w] = "idle"] /\ toPurge' = toPurge
  BY DEF EndPush
<1>3. BulkTypes /\ Longest' = Longest /\ LoaderInv(w) /\ faults <= faults' /\ faults' \in Nat
  BY <1>1, SameLists, LoadTypes DEF BulkInv
<1>4. /\ step' \in [Loaders -> {"idle", "read", "write", "clear", "push", "purge"}]
      /\ step'[w] \in {"idle", "purge"}
      /\ \A v \in Loaders \ {w} : step'[v] = step[v]
  BY <1>2, <1>3 DEF BulkTypes
<1>5. toPurge' = [v \in Loaders |-> toPurge'[v]] /\ \A v \in Loaders : IsFiniteSet(toPurge'[v])
  BY <1>2, <1>3 DEF BulkTypes
<1>6. BulkTypes'
  BY <1>1, <1>3, <1>4, <1>5 DEF BulkTypes
<1>7. LoaderInv(w)'
  <2>1. Loads(w)' = Loads(w)
    BY <1>1 DEF Loads
  <2>2. QED
    BY <1>1, <1>3, <1>4, <2>1 DEF LoaderInv
<1>8. Unsettled => Unsettled'
  BY <1>1, <1>4 DEF Unsettled
<1>9. TableInv'
  BY <1>1, <1>3, <1>8, SameTable, TableKept
<1>10. QED
  BY <1>1, <1>3, <1>4, <1>6, <1>7, <1>9, StepOfLoader

LEMMA PurgeStagedKeeps == ASSUME BulkInv, NEW w \in Loaders, bulk = "run", PurgeStaged(w) PROVE BulkInv'
<1>1. /\ staging' \subseteq staging
      /\ UNCHANGED <<bulk, pool, share, queued, orderOf, entry, step, readTo, allData, msgCount,
                     toPush, toPurge, recorded, faults>>
  BY DEF PurgeStaged, lists, worker
<1>2. BulkTypes /\ Longest' = Longest /\ LoaderInv(w) /\ faults <= faults' /\ faults' \in Nat
  BY <1>1, SameLists, LoadTypes DEF BulkInv
<1>3. staging' \subseteq Staged
  BY <1>1, <1>2 DEF BulkTypes
<1>4. BulkTypes'
  BY <1>1, <1>2, <1>3 DEF BulkTypes
<1>5. NoTrouble' => NoTrouble
  BY <1>1, <1>2, TroubleStays
<1>6. LoaderInv(w)'
  <2>1. Loads(w)' = Loads(w)
    BY <1>1 DEF Loads
  <2>2. QED
    BY <1>1, <1>2, <1>5, <2>1 DEF LoaderInv
<1>7. Unsettled => Unsettled'
  BY <1>1 DEF Unsettled
<1>8. TableInv'
  BY <1>1, <1>2, <1>7, SameTable, TableKept
<1>9. QED
  BY <1>1, <1>2, <1>4, <1>6, <1>8, StepOfLoader

LEMMA EndPurgeKeeps == ASSUME BulkInv, NEW w \in Loaders, bulk = "run", EndPurge(w) PROVE BulkInv'
<1> DEFINE spared == Cardinality(toPurge[w] \cap staging)
<1>1. /\ step[w] = "purge" /\ faults' = faults + spared
      /\ step' = [step EXCEPT ![w] = "idle"] /\ toPurge' = [toPurge EXCEPT ![w] = {}]
      /\ UNCHANGED <<bulk, pool, share, queued, staging, orderOf, entry, readTo, allData, msgCount,
                     toPush, recorded>>
  BY DEF EndPurge, lists, redisData
<1>2. BulkTypes /\ Longest' = Longest /\ LoaderInv(w) /\ faults \in Nat
  BY <1>1, SameLists, LoadTypes DEF BulkInv
<1>3. spared \in Nat
  <2>1. IsFiniteSet(toPurge[w])
    BY <1>2 DEF BulkTypes
  <2>2. IsFiniteSet(toPurge[w] \cap staging)
    BY <2>1, FS_Intersection
  <2>3. QED
    BY <2>2, FS_CardinalityType
<1> HIDE DEF spared
<1>4. faults' \in Nat /\ faults <= faults'
  BY <1>1, <1>2, <1>3
<1>5. toPurge' = [v \in Loaders |-> toPurge'[v]] /\ \A v \in Loaders : IsFiniteSet(toPurge'[v])
  BY <1>1, <1>2, FS_EmptySet DEF BulkTypes
<1>6. /\ step' \in [Loaders -> {"idle", "read", "write", "clear", "push", "purge"}] /\ step'[w] = "idle"
      /\ \A v \in Loaders \ {w} : step'[v] = step[v]
  BY <1>1, <1>2 DEF BulkTypes
<1>7. BulkTypes'
  BY <1>1, <1>2, <1>4, <1>5, <1>6 DEF BulkTypes
<1>8. LoaderInv(w)'
  <2>1. Loads(w)' = Loads(w)
    BY <1>1 DEF Loads
  <2>2. QED
    BY <1>1, <1>2, <1>6, <2>1 DEF LoaderInv
<1>9. Unsettled => Unsettled'
  BY <1>1, <1>6 DEF Unsettled
<1>10. TableInv'
  BY <1>1, <1>4, <1>9, SameTable, TableKept
<1>11. QED
  BY <1>1, <1>4, <1>6, <1>7, <1>8, <1>10, StepOfLoader

(* The process ends, with everything as it is.                             *)
LEMMA DeathKeeps ==
    ASSUME BulkInv, NEW w \in Loaders, bulk = "run", Die(w) \/ MapFault(w)
    PROVE  BulkInv'
<1>1. /\ bulk' = "dead"
      /\ UNCHANGED <<pool, share, queued, staging, orderOf, entry, step, readTo, allData, msgCount,
                     toPush, toPurge, recorded>>
      /\ faults' \in {faults, faults + 1}
  BY DEF Die, MapFault, lists, redisData, worker
<1>2. BulkTypes /\ Longest' = Longest /\ LoaderInv(w) /\ faults <= faults' /\ faults' \in Nat
  BY <1>1, SameLists, LoadTypes DEF BulkInv
<1>3. BulkTypes'
  BY <1>1, <1>2 DEF BulkTypes
<1>4. NoTrouble' => NoTrouble
  BY <1>1, <1>2, TroubleStays
<1>5. LoaderInv(w)'
  <2>1. Loads(w)' = Loads(w)
    BY <1>1 DEF Loads
  <2>2. QED
    BY <1>1, <1>2, <1>4, <2>1 DEF LoaderInv
<1>6. TableInv'
  BY <1>1 DEF TableInv
<1>7. QED
  BY <1>1, <1>2, <1>3, <1>5, <1>6, StepOfLoader

(* Nothing has been done when the orders are divided.                      *)
LEMMA BulkOrderLoadKeeps == ASSUME BulkInv, BulkOrderLoad PROVE BulkInv'
<1>1. /\ bulk = "off" /\ pool' \in 0..NumPods
      /\ UNCHANGED <<staging, orderOf, entry, step, readTo, allData, msgCount, toPush, toPurge,
                     recorded, faults>>
  BY DEF BulkOrderLoad, redisData, worker
<1>2. PICK found \in StagedLists :
        \/ bulk' = "spin" /\ share' = share /\ queued' = queued
        \/ /\ bulk' = "run" /\ queued' = NumLoads
           /\ share' = IdAllocator(found, LoaderSize(found, NumLoaders), NumLoaders)
  BY DEF BulkOrderLoad
<1>3. BulkTypes /\ BulkBegins /\ EvenShares
  BY DEF BulkInv
<1>4. found \in Seq(Keys) /\ NumLoads \in Nat \ {0} /\ NumLoaders \in Nat \ {0} /\ NumPods \in Nat
  BY BulkAssumption
<1>5. /\ entry = Nothing /\ DOMAIN orderOf = {}
      /\ \A w \in Loaders :
            /\ step[w] = "idle" /\ readTo[w] = 0 /\ DOMAIN allData[w] = {} /\ msgCount[w] = 0
            /\ toPush[w] = Nothing
  <2>1. ASSUME NEW w \in Loaders PROVE step[w] = "idle" /\ toPush[w] = Nothing
    <3>1. step[w] = "idle"
      BY <1>1, <1>3 DEF BulkBegins
    <3>2. QED
      BY <3>1, LoadTypes DEF LoaderInv
  <2>2. QED
    BY <1>1, <1>3, <2>1 DEF BulkBegins
<1>6. /\ share' \in [Loaders -> Seq(Keys)] /\ EvenShares' /\ queued' \in Nat
      /\ \A w \in Loaders : Len(share'[w]) \in Nat
  <2>1. CASE bulk' = "spin" /\ share' = share /\ queued' = queued
    <3>1. EvenShares'
      BY <1>3, <2>1, SameLists
    <3>2. QED
      BY <1>3, <2>1, <3>1 DEF BulkTypes
  <2>2. CASE /\ queued' = NumLoads
             /\ share' = IdAllocator(found, LoaderSize(found, NumLoaders), NumLoaders)
    <3> DEFINE size == LoaderSize(found, NumLoaders)
    <3>1. share' = [w \in Loaders |-> Chunk(found, size, w - 1)]
      BY <2>2 DEF IdAllocator, Loaders
    <3>2. \A w \in Loaders : size \in Nat /\ Chunk(found, size, w - 1) \in Seq(Keys)
                             /\ Len(Chunk(found, size, w - 1)) = size
      BY <1>4, LoadIsEven
    <3> HIDE DEF size
    <3>3. /\ share' \in [Loaders -> Seq(Keys)]
          /\ \A w \in Loaders : Len(share'[w]) = size /\ size \in Nat
      BY <3>1, <3>2
    <3>4. EvenShares'
      BY <3>3 DEF EvenShares
    <3>5. QED
      BY <1>4, <2>2, <3>3, <3>4
  <2>3. QED
    BY <1>2, <2>1, <2>2
<1>7. BulkTypes'
  <2>1. Nothing \in [Pods -> Seq(1..Longest')]
    BY DEF Nothing
  <2>2. entry' \in [Pods -> Seq(1..Longest')]
    BY <1>1, <1>5, <2>1
  <2>3. toPush = [w \in Loaders |-> Nothing]
    BY <1>3, <1>5 DEF BulkTypes
  <2>4. toPush' \in [Loaders -> [Pods -> Seq(1..Longest')]]
    BY <1>1, <2>1, <2>3
  <2>5. DOMAIN orderOf' \subseteq 0..(Longest' - 1)
    BY <1>1, <1>5
  <2>6. pool' \in Nat /\ pool' <= NumPods /\ bulk' \in {"off", "run", "spin", "dead"}
    BY <1>1, <1>2, <1>4
  <2>7. QED
    BY <1>1, <1>3, <1>6, <2>2, <2>4, <2>5, <2>6 DEF BulkTypes
<1>8. ASSUME NEW w \in Loaders PROVE LoaderInv(w)'
  <2>1. Loads(w)' = 0
    <3>1. Loads(w) = 0
      <4>1. msgCount[w] = 0 /\ DOMAIN allData[w] = {}
        BY <1>5
      <4>2. Cardinality(DOMAIN allData[w]) = 0
        BY <4>1, NoneLoaded
      <4>3. QED
        BY <4>1, <4>2 DEF Loads
    <3>2. Loads(w)' = Loads(w)
      BY <1>1 DEF Loads
    <3>3. QED
      BY <3>1, <3>2
  <2>2. 0 <= Len(share'[w])
    BY <1>6
  <2>3. QED
    BY <1>1, <1>5, <2>1, <2>2 DEF LoaderInv
<1>9. BulkBegins'
  BY <1>2 DEF BulkBegins
<1>10. TableInv'
  <2>1. bulk' = "run" => queued' > 0
    BY <1>2, <1>4
  <2>2. QED
    BY <2>1 DEF TableInv, Unsettled
<1>11. QED
  BY <1>6, <1>7, <1>8, <1>9, <1>10 DEF BulkInv

LEMMA BulkInitHolds == BulkInit => BulkInv
<1> SUFFICES ASSUME BulkInit PROVE BulkInv
  OBVIOUS
<1>1. share = [w \in Loaders |-> <<>>] /\ \A w \in Loaders : Len(share[w]) = 0
  BY DEF BulkInit
<1>2. share \in [Loaders -> Seq(Keys)] /\ EvenShares
  BY <1>1 DEF EvenShares
<1>3. Longest = 0
  <2>1. 1 \in Loaders
    BY BulkAssumption DEF Loaders
  <2>2. QED
    BY <1>1, <1>2, <2>1, LongestList
<1>4. Nothing \in [Pods -> Seq(1..Longest)]
  BY DEF Nothing
<1>5. allData = [w \in Loaders |-> allData[w]] /\ \A w \in Loaders : DOMAIN allData[w] = {}
  BY NoneLoaded DEF BulkInit
<1>6. /\ toPurge = [w \in Loaders |-> toPurge[w]] /\ \A w \in Loaders : IsFiniteSet(toPurge[w])
      /\ IsFiniteSet(recorded)
  BY FS_EmptySet DEF BulkInit
<1>7. DOMAIN orderOf = {}
  BY NoneLoaded DEF BulkInit
<1>8. NumPods \in Nat
  BY BulkAssumption
<1>9. BulkTypes
  BY <1>2, <1>4, <1>5, <1>6, <1>7, <1>8 DEF BulkInit, BulkTypes
<1>10. ASSUME NEW w \in Loaders PROVE LoaderInv(w)
  <2>1. Loads(w) = 0
    BY <1>5, NoneLoaded DEF BulkInit, Loads
  <2>2. QED
    BY <1>1, <1>5, <2>1 DEF BulkInit, LoaderInv
<1>11. BulkBegins
  BY <1>5, <1>7 DEF BulkInit, BulkBegins
<1>12. TableInv
  BY DEF BulkInit, TableInv
<1>13. QED
  BY <1>2, <1>9, <1>10, <1>11, <1>12 DEF BulkInv

LEMMA BulkInvariantHolds == BulkSpec => []BulkInv
<1>1. BulkInv /\ [BulkNext]_bulkVars => BulkInv'
  <2> SUFFICES ASSUME BulkInv, [BulkNext]_bulkVars PROVE BulkInv'
    OBVIOUS
  <2>1. CASE BulkOrderLoad
    BY <2>1, BulkOrderLoadKeeps
  <2>2. CASE \E w \in Loaders : LoaderStep(w)
    <3>1. PICK w \in Loaders : LoaderStep(w)
      BY <2>2
    <3>2. QED
      BY <3>1, TakeLoadKeeps, ReadStagedKeeps, EndReadKeeps, WriteLoadedKeeps, ListPodsKeeps,
         ClearEntryKeeps, AssignNumbersKeeps, PushNumberKeeps, EndPushKeeps, PurgeStagedKeeps,
         EndPurgeKeeps, DeathKeeps DEF LoaderStep
  <2>3. CASE UNCHANGED bulkVars
    <3>1. UNCHANGED <<bulk, pool, share, queued, staging, orderOf, entry, step, readTo, allData, msgCount,
                      toClear, toPush, toPurge, recorded, faults>>
      BY <2>3 DEF bulkVars, lists, redisData, worker
    <3>2. Longest' = Longest /\ EvenShares' = EvenShares
      BY <3>1, SameLists
    <3>3. BulkTypes' /\ BulkBegins'
      BY <3>1, <3>2 DEF BulkInv, BulkTypes, BulkBegins
    <3>4. \A w \in Loaders : LoaderInv(w)'
      BY <3>1 DEF BulkInv, LoaderInv, Loads, NoTrouble, AllStaged
    <3>5. TableInv'
      <4>1. CASE bulk = "run"
        <5>1. 1 \in Loaders
          BY BulkAssumption DEF Loaders
        <5>2. faults' \in Nat /\ faults <= faults' /\ staging' \subseteq staging
          BY <3>1, <5>1, LoadTypes
        <5>3. Unsettled => Unsettled'
          BY <3>1 DEF Unsettled
        <5>4. QED
          BY <3>1, <4>1, <5>1, <5>2, <5>3, SameTable, TableKept
      <4>2. CASE bulk # "run"
        BY <3>1, <4>2 DEF TableInv
      <4>3. QED
        BY <4>1, <4>2
    <3>6. QED
      BY <3>2, <3>3, <3>4, <3>5 DEF BulkInv
  <2>4. QED
    BY <2>1, <2>2, <2>3 DEF BulkNext
<1>2. QED
  BY BulkInitHolds, <1>1, PTL DEF BulkSpec

(* When every load is done, nothing failed and every listed order was      *)
(* there, the table has all the numbers of a worker but those nobody was   *)
(* to have (delete_stale_allocation_data, assign_message_workload_workers).*)
THEOREM AnAllocationIsLeft == BulkSpec => []AllocationSurvives
<1>1. BulkInv => AllocationSurvives
  <2> DEFINE numbers == UNION {{entry[p][k] : k \in 1..Len(entry[p])} : p \in Pods}
  <2> SUFFICES ASSUME BulkInv, Loaded, faults = 0, AllStaged
               PROVE  /\ Cardinality((1..Longest) \ numbers) < pool
                      /\ Longest <= pool => 1..Longest \subseteq numbers
    BY DEF AllocationSurvives
  <2>1. bulk = "run" /\ NoTrouble /\ ~Unsettled
    BY DEF Loaded, NoTrouble, Unsettled
  <2>2. PICK w \in Loaders : AlmostAll(InTable \cup Pushing(w))
    BY <2>1 DEF BulkInv, TableInv
  <2>3. toPush[w] = Nothing /\ Longest \in Nat /\ pool \in Nat
    BY LoadTypes DEF Loaded, LoaderInv
  <2>4. Pushing(w) = {}
    BY <2>3 DEF Pushing, Nothing
  <2>5. InTable \cup Pushing(w) \subseteq numbers
    BY <2>4 DEF InTable
  <2>6. AlmostAll(numbers)
    <3> HIDE DEF numbers
    <3>1. QED
      BY <2>2, <2>3, <2>5, MoreIsAlmostAll
  <2>7. QED
    <3> HIDE DEF numbers
    <3>1. QED
      BY <2>6 DEF AlmostAll
<1>2. QED
  BY <1>1, BulkInvariantHolds, PTL
-----------------------------------------------------------------------------
(* The orders that pass through the workers are staged ones, and no list is*)
(* longer than there are keys, for KEYS names a key once.                  *)
BulkBounds ==
    /\ Longest <= Cardinality(Keys)
    /\ queued <= NumLoads /\ faults <= MaxFaults
    /\ recorded \subseteq Staged /\ \A w \in Loaders : toPurge[w] \subseteq recorded
    /\ toClear \in [Loaders -> SUBSET Pods]
    /\ \A w \in Loaders : \A n \in DOMAIN allData[w] : allData[w][n] \in Staged
    /\ \A n \in DOMAIN orderOf : orderOf[n] \in Staged

LEMMA SeqOfMore ==
    ASSUME NEW S, NEW T, S \subseteq T, NEW s \in Seq(S)
    PROVE  s \in Seq(T)
<1>1. Len(s) \in Nat /\ s = [k \in 1..Len(s) |-> s[k]] /\ \A k \in 1..Len(s) : s[k] \in T
  OBVIOUS
<1>2. QED
  BY <1>1

LEMMA ListsAreShort ==
    ASSUME NEW found \in StagedLists
    PROVE  Len(found) \in Nat /\ Cardinality(Keys) \in Nat /\ Len(found) <= Cardinality(Keys)
<1>1. IsFiniteSet(Keys) /\ found \in Seq(Keys) /\ \A j, k \in DOMAIN found : j # k => found[j] # found[k]
  BY BulkAssumption
<1>2. Len(found) \in Nat /\ DOMAIN found = 1..Len(found) /\ found \in [1..Len(found) -> Keys]
  BY <1>1
<1>3. found \in Injection(1..Len(found), Keys)
  BY <1>1, <1>2 DEF Injection, IsInjective
<1>4. Cardinality(1..Len(found)) = Len(found)
  BY <1>2, FS_Interval
<1>5. Cardinality(1..Len(found)) <= Cardinality(Keys)
  BY <1>1, <1>3, FS_Injection
<1>6. Cardinality(Keys) \in Nat
  BY <1>1, FS_CardinalityType
<1>7. QED
  BY <1>2, <1>4, <1>5, <1>6

LEMMA QuotientIsSmaller ==
    ASSUME NEW l \in Nat, NEW n \in Nat \ {0}
    PROVE  l \div n <= l
<1>1. l \div n \in Nat /\ l = n * (l \div n) + (l % n) /\ l % n \in 0..(n - 1)
  BY DivMod
<1>2. 1 * (l \div n) <= n * (l \div n)
  BY <1>1, ProductMonotone
<1> DEFINE q == l \div n
           r == l % n
           a == n * q
<1>3. q \in Nat /\ r \in Nat /\ a \in Nat /\ l = a + r
  BY <1>1, SMT
<1>4. q <= a
  BY <1>1, <1>2
<1> HIDE DEF q, r, a
<1>5. q <= l
  BY <1>3, <1>4
<1>6. QED
  BY <1>5 DEF q

LEMMA BulkInitBounds == BulkInit => BulkBounds
<1> SUFFICES ASSUME BulkInit PROVE BulkBounds
  OBVIOUS
<1>1. share = [w \in Loaders |-> <<>>] /\ EvenShares
  BY DEF BulkInit, EvenShares
<1>2. 1 \in Loaders /\ share \in [Loaders -> Seq(Keys)] /\ Len(share[1]) = 0
  BY <1>1, BulkAssumption DEF Loaders
<1>3. Longest = 0
  BY <1>1, <1>2, LongestList
<1>4. Cardinality(Keys) \in Nat /\ NumLoads \in Nat /\ MaxFaults \in Nat
  BY BulkAssumption, FS_CardinalityType
<1>5. QED
  BY <1>3, <1>4, NoneLoaded DEF BulkInit, BulkBounds

LEMMA BulkOrderLoadBounds == ASSUME BulkInv, BulkBounds, BulkOrderLoad PROVE BulkBounds'
<1>1. UNCHANGED <<orderOf, allData, toClear, toPurge, recorded, faults>>
  BY DEF BulkOrderLoad, redisData, worker
<1>2. PICK found \in StagedLists :
        \/ UNCHANGED <<share, queued>>
        \/ /\ share' = IdAllocator(found, LoaderSize(found, NumLoaders), NumLoaders)
           /\ queued' = NumLoads
  BY DEF BulkOrderLoad
<1>3. CASE UNCHANGED <<share, queued>>
  <2>1. Longest' = Longest
    BY <1>3, SameLists
  <2>2. QED
    BY <1>1, <1>3, <2>1 DEF BulkBounds
<1>4. CASE share' = IdAllocator(found, LoaderSize(found, NumLoaders), NumLoaders) /\ queued' = NumLoads
  <2> DEFINE size == LoaderSize(found, NumLoaders)
  <2>1. found \in Seq(Keys) /\ NumLoads \in Nat /\ NumLoaders \in Nat \ {0}
    BY BulkAssumption
  <2>2. size = Len(found) \div NumLoaders
    BY DEF LoaderSize
  <2>3. size \in Nat /\ size <= Cardinality(Keys)
    <3>1. Len(found) \in Nat /\ Cardinality(Keys) \in Nat /\ Len(found) <= Cardinality(Keys)
      BY ListsAreShort
    <3>2. Len(found) \div NumLoaders <= Len(found) /\ Len(found) \div NumLoaders \in Nat
      BY <2>1, <3>1, QuotientIsSmaller, DivMod
    <3> HIDE DEF size
    <3>3. QED
      BY <2>2, <3>1, <3>2
  <2>4. share' = [w \in Loaders |-> Chunk(found, size, w - 1)]
    BY <1>4 DEF IdAllocator, Loaders
  <2>5. \A w \in Loaders : Chunk(found, size, w - 1) \in Seq(Keys) /\ Len(Chunk(found, size, w - 1)) = size
    BY <2>1, LoadIsEven
  <2> HIDE DEF size
  <2>6. share' \in [Loaders -> Seq(Keys)] /\ EvenShares' /\ \A w \in Loaders : Len(share'[w]) = size
    BY <2>4, <2>5 DEF EvenShares
  <2>7. 1 \in Loaders
    BY BulkAssumption DEF Loaders
  <2>8. {Len(share'[w]) : w \in Loaders} = {size} /\ \A w \in Loaders : Len(share'[w]) <= size
    BY <2>3, <2>6, <2>7
  <2>9. Longest' = size
    BY <2>8 DEF Longest
  <2>10. QED
    BY <1>1, <1>4, <2>1, <2>3, <2>9 DEF BulkBounds
<1>5. QED
  BY <1>2, <1>3, <1>4

LEMMA LoaderBounds ==
    ASSUME BulkInv, BulkBounds, NEW w \in Loaders, LoaderStep(w)
    PROVE  BulkBounds'
<1>1. BulkTypes /\ faults \in Nat /\ MaxFaults \in Nat /\ queued \in Nat /\ NumLoads \in Nat /\ NumPods \in Nat
  BY BulkAssumption DEF BulkInv, BulkTypes
<1>2. allData = [v \in Loaders |-> allData[v]] /\ toPurge = [v \in Loaders |-> toPurge[v]]
  BY <1>1 DEF BulkTypes
<1>3. CASE TakeLoad(w)
  <2>1. UNCHANGED <<share, orderOf, toClear, toPurge, recorded, faults>>
        /\ queued' <= queued /\ queued' \in Int /\ allData' = [allData EXCEPT ![w] = NoOrders]
    BY <1>1, <1>3 DEF TakeLoad, redisData
  <2>2. \A v \in Loaders : \A n \in DOMAIN allData'[v] : allData'[v][n] \in Staged
    BY <1>2, <2>1, NoneLoaded DEF BulkBounds
  <2>3. Longest' = Longest /\ queued' <= NumLoads
    BY <1>1, <2>1, SameLists DEF BulkBounds
  <2>4. QED
    BY <2>1, <2>2, <2>3 DEF BulkBounds
<1>4. CASE ReadStaged(w)
  <2> DEFINE key == share[w][readTo[w] + 1]
  <2>1. UNCHANGED <<share, queued, orderOf, toClear, toPurge>>
    BY <1>4 DEF ReadStaged, lists, redisData
  <2>2. \/ key \in staging /\ allData' = [allData EXCEPT ![w] = Set(@, PlaceOf(w), key)]
           /\ recorded' = recorded \cup {key} /\ faults' = faults
        \/ UNCHANGED <<allData, recorded>> /\ faults' \in {faults, faults + 1} /\ (faults' # faults => faults < MaxFaults)
    BY <1>4 DEF ReadStaged
  <2>3. Longest' = Longest /\ faults' <= MaxFaults
    BY <1>1, <2>1, <2>2, SameLists DEF BulkBounds
  <2>4. CASE UNCHANGED <<allData, recorded>>
    BY <2>1, <2>3, <2>4 DEF BulkBounds
  <2>5. CASE key \in staging /\ allData' = [allData EXCEPT ![w] = Set(@, PlaceOf(w), key)] /\ recorded' = recorded \cup {key}
    <3> HIDE DEF key
    <3>1. key \in Staged
      BY <1>1, <2>5 DEF BulkTypes
    <3>2. \A n \in DOMAIN Set(allData[w], PlaceOf(w), key) : Set(allData[w], PlaceOf(w), key)[n] \in Staged
      BY <3>1 DEF Set, BulkBounds
    <3>3. \A v \in Loaders : \A n \in DOMAIN allData'[v] : allData'[v][n] \in Staged
      BY <1>2, <2>5, <3>2 DEF BulkBounds
    <3>4. recorded' \subseteq Staged /\ \A v \in Loaders : toPurge'[v] \subseteq recorded'
      BY <2>1, <2>5, <3>1 DEF BulkBounds
    <3>5. QED
      BY <2>1, <2>3, <3>3, <3>4 DEF BulkBounds
  <2>6. QED
    BY <2>2, <2>4, <2>5
<1>5. CASE WriteLoaded(w)
  <2>1. UNCHANGED <<share, queued, toClear, toPurge, recorded>>
    BY <1>5 DEF WriteLoaded, lists
  <2>2. PICK n \in DOMAIN allData[w] :
          /\ allData' = [allData EXCEPT ![w] = Without(@, n)]
          /\ \/ orderOf' = Set(orderOf, n, allData[w][n]) /\ faults' = faults
             \/ faults < MaxFaults /\ faults' = faults + 1 /\ orderOf' = orderOf
    BY <1>5 DEF WriteLoaded
  <2>3. Longest' = Longest /\ faults' <= MaxFaults
    BY <1>1, <2>1, <2>2, SameLists DEF BulkBounds
  <2>4. \A v \in Loaders : \A k \in DOMAIN allData'[v] : allData'[v][k] \in Staged
    BY <1>2, <2>2 DEF Without, BulkBounds
  <2>5. \A k \in DOMAIN orderOf' : orderOf'[k] \in Staged
    BY <2>2 DEF Set, BulkBounds
  <2>6. QED
    BY <2>1, <2>3, <2>4, <2>5 DEF BulkBounds
<1>6. CASE ListPods(w) \/ ClearEntry(w)
  <2>1. UNCHANGED <<share, queued, orderOf, allData, toPurge, recorded>>
    BY <1>6 DEF ListPods, ClearEntry, lists, redisData
  <2>2. /\ \/ toClear' = [toClear EXCEPT ![w] = 1..pool]
           \/ \E p \in toClear[w] : toClear' = [toClear EXCEPT ![w] = @ \ {p}]
        /\ faults' \in {faults, faults + 1} /\ (faults' # faults => faults < MaxFaults)
    BY <1>6 DEF ListPods, ClearEntry
  <2>3. 1..pool \subseteq Pods
    BY <1>1 DEF BulkTypes, Pods
  <2>4. toClear' \in [Loaders -> SUBSET Pods]
    BY <2>2, <2>3 DEF BulkBounds
  <2>5. Longest' = Longest /\ faults' <= MaxFaults
    BY <1>1, <2>1, <2>2, SameLists DEF BulkBounds
  <2>6. QED
    BY <2>1, <2>4, <2>5 DEF BulkBounds
<1>7. CASE EndRead(w) \/ AssignNumbers(w) \/ PushNumber(w) \/ PurgeStaged(w) \/ Die(w) \/ MapFault(w)
  <2>1. UNCHANGED <<share, queued, orderOf, allData, toClear, toPurge, recorded>>
    BY <1>7 DEF EndRead, AssignNumbers, PushNumber, PurgeStaged, Die, MapFault, lists, redisData, worker
  <2>2. faults' \in {faults, faults + 1} /\ (faults' # faults => faults < MaxFaults)
    BY <1>7 DEF EndRead, AssignNumbers, PushNumber, PurgeStaged, Die, MapFault
  <2>3. Longest' = Longest /\ faults' <= MaxFaults
    BY <1>1, <2>1, <2>2, SameLists DEF BulkBounds
  <2>4. QED
    BY <2>1, <2>3 DEF BulkBounds
<1>8. CASE EndPush(w)
  <2>1. UNCHANGED <<share, queued, orderOf, allData, toClear, recorded, faults>>
    BY <1>8 DEF EndPush, lists, redisData
  <2>2. toPurge' = toPurge \/ toPurge' = [toPurge EXCEPT ![w] = recorded]
    BY <1>8 DEF EndPush
  <2>3. \A v \in Loaders : toPurge'[v] \subseteq recorded'
    BY <1>2, <2>1, <2>2 DEF BulkBounds
  <2>4. Longest' = Longest
    BY <2>1, SameLists
  <2>5. QED
    BY <2>1, <2>3, <2>4 DEF BulkBounds
<1>9. CASE EndPurge(w)
  <2>1. /\ UNCHANGED <<share, queued, orderOf, allData, toClear, recorded>> /\ faults' <= MaxFaults
        /\ toPurge' = [toPurge EXCEPT ![w] = {}]
    BY <1>9 DEF EndPurge, lists, redisData
  <2>2. \A v \in Loaders : toPurge'[v] \subseteq recorded'
    BY <1>2, <2>1 DEF BulkBounds
  <2>3. Longest' = Longest
    BY <2>1, SameLists
  <2>4. QED
    BY <2>1, <2>2, <2>3 DEF BulkBounds
<1>10. QED
  BY <1>3, <1>4, <1>5, <1>6, <1>7, <1>8, <1>9 DEF LoaderStep

LEMMA BulkBoundsHold == BulkSpec => []BulkBounds
<1>1. BulkInv /\ BulkBounds /\ [BulkNext]_bulkVars => BulkBounds'
  <2>1. ASSUME BulkBounds, UNCHANGED bulkVars PROVE BulkBounds'
    <3>1. UNCHANGED <<share, queued, faults, recorded, toPurge, toClear, allData, orderOf>>
      BY <2>1 DEF bulkVars, lists, redisData, worker
    <3>2. Longest' = Longest
      BY <3>1, SameLists
    <3>3. QED
      BY <2>1, <3>1, <3>2 DEF BulkBounds
  <2>2. QED
    BY <2>1, BulkOrderLoadBounds, LoaderBounds DEF BulkNext
<1>2. QED
  BY <1>1, BulkInitBounds, BulkInvariantHolds, PTL DEF BulkSpec

(* The variables keep their types: nothing counts further than there are   *)
(* keys, and nothing is written but what was staged. (loader.go,           *)
(* bulkOrderLoad)                                                          *)
THEOREM BulkTypeCorrect == BulkSpec => []BulkTypeOK
<1>1. BulkInv /\ BulkBounds => BulkTypeOK
  <2> SUFFICES ASSUME BulkInv, BulkBounds PROVE BulkTypeOK
    OBVIOUS
  <2>1. BulkTypes /\ EvenShares /\ \A w \in Loaders : LoaderInv(w)
    BY DEF BulkInv
  <2>2. Cardinality(Keys) \in Nat /\ MaxFaults \in Nat /\ NumPods \in Nat /\ NumLoads \in Nat
    BY BulkAssumption, FS_CardinalityType
  <2>3. Longest \in Nat /\ Longest <= Cardinality(Keys) /\ \A w \in Loaders : Len(share[w]) = Longest
    BY <2>1, LongestList DEF BulkTypes, BulkBounds
  <2>4. 1..Longest \subseteq Places /\ 0..(Longest - 1) \subseteq Places /\ 0..Longest \subseteq Places
    BY <2>2, <2>3 DEF Places
  <2>5. ASSUME NEW w \in Loaders
        PROVE  readTo[w] \in Places /\ msgCount[w] \in Places /\ DOMAIN allData[w] \subseteq Places
    <3>1. readTo[w] \in Nat /\ msgCount[w] \in Nat /\ readTo[w] <= Longest
      <4>1. readTo[w] <= Len(share[w])
        BY <2>1 DEF LoaderInv
      <4>2. Len(share[w]) = Longest
        BY <2>3
      <4>3. readTo[w] \in Nat /\ msgCount[w] \in Nat
        BY <2>1 DEF BulkTypes
      <4>4. QED
        BY <4>1, <4>2, <4>3
    <3>2. DOMAIN allData[w] \subseteq 0..(readTo[w] - 1) /\ msgCount[w] + Cardinality(DOMAIN allData[w]) <= readTo[w]
      <4>1. LoaderInv(w)
        BY <2>1
      <4>2. QED
        BY <4>1 DEF LoaderInv, Loads
    <3>3. IsFiniteSet(0..(readTo[w] - 1))
      <4>1. 0 \in Int /\ readTo[w] - 1 \in Int
        BY <3>1
      <4>2. QED
        BY <4>1, FS_Interval
    <3>4. IsFiniteSet(DOMAIN allData[w])
      BY <3>2, <3>3, FS_Subset
    <3>5. Cardinality(DOMAIN allData[w]) \in Nat
      BY <3>4, FS_CardinalityType
    <3>6. msgCount[w] <= readTo[w]
      BY <3>1, <3>2, <3>5
    <3>7. 0..(readTo[w] - 1) \subseteq 0..Longest
      BY <2>3, <3>1
    <3>8. QED
      BY <2>3, <2>4, <3>1, <3>2, <3>6, <3>7
  <2>6. entry \in [Pods -> Seq(Places)] /\ toPush \in [Loaders -> [Pods -> Seq(Places)]]
    <3> DEFINE S == 1..Longest
    <3>1. entry \in [Pods -> Seq(S)] /\ toPush \in [Loaders -> [Pods -> Seq(S)]]
      BY <2>1 DEF BulkTypes
    <3>2. S \subseteq Places
      BY <2>4
    <3> HIDE DEF S
    <3>3. \A s \in Seq(S) : s \in Seq(Places)
      BY <3>2, SeqOfMore
    <3>4. QED
      BY <3>1, <3>3
  <2>7. readTo \in [Loaders -> Places] /\ msgCount \in [Loaders -> Places]
    BY <2>1, <2>5 DEF BulkTypes
  <2>8. DOMAIN orderOf \subseteq Places
    BY <2>1, <2>4 DEF BulkTypes
  <2>9. pool \in 0..NumPods /\ queued \in 0..NumLoads /\ faults \in 0..MaxFaults
    BY <2>1, <2>2 DEF BulkTypes, BulkBounds
  <2>10. QED
    BY <2>1, <2>5, <2>6, <2>7, <2>8, <2>9 DEF BulkTypes, BulkBounds, BulkTypeOK
<1>2. QED
  BY <1>1, BulkInvariantHolds, BulkBoundsHold, PTL
-----------------------------------------------------------------------------
(* The classifier                                                          *)

(* The sum over a set takes out one member after another: Summed(S) is the  *)
(* function that MapThenSumSet is defined by.                              *)
Choice(s) == CHOOSE x \in s : TRUE
TakenOut(g, s) == IF s = {} THEN 0 ELSE BinOf(Choice(s)) + g[s \ {Choice(s)}]
Summed(S) == CHOOSE g : g = [s \in SUBSET S |-> IF s = {} THEN 0 ELSE BinOf(Choice(s)) + g[s \ {Choice(s)}]]

LEMMA SumIsSummed == ASSUME NEW S PROVE MapThenSumSet(BinOf, S) = Summed(S)[S]
  BY DEF MapThenSumSet, MapThenFoldSet, Summed, Choice

LEMMA ChoiceTaken ==
    ASSUME NEW s, IsFiniteSet(s), s # {}
    PROVE  /\ Choice(s) \in s /\ IsFiniteSet(s \ {Choice(s)})
           /\ Cardinality(s) \in Nat /\ Cardinality(s) # 0
           /\ Cardinality(s \ {Choice(s)}) = Cardinality(s) - 1
<1>1. Choice(s) \in s
  BY DEF Choice
<1>2. Cardinality(s) \in Nat /\ Cardinality(s) # 0
  BY FS_CardinalityType, FS_EmptySet
<1>3. QED
  BY <1>1, <1>2, FS_RemoveElement

(* There is such a function: one that is right for smaller sets is made    *)
(* right for the next.                                                     *)
RightUpTo(S, g, n) ==
    \A s \in SUBSET S : Cardinality(s) <= n => g[s] = TakenOut(g, s)

LEMMA NextSize ==
    ASSUME NEW S, IsFiniteSet(S), NEW n \in Nat, NEW g, RightUpTo(S, g, n)
    PROVE  \E h : h = [s \in SUBSET S |-> h[s]] /\ RightUpTo(S, h, n + 1)
<1> DEFINE h == [s \in SUBSET S |-> IF Cardinality(s) <= n THEN g[s] ELSE TakenOut(g, s)]
<1>1. h = [s \in SUBSET S |-> h[s]]
  OBVIOUS
<1>2. ASSUME NEW s \in SUBSET S, Cardinality(s) <= n + 1 PROVE h[s] = TakenOut(h, s)
  <2>1. h[s] = TakenOut(g, s)
    BY DEF RightUpTo
  <2>2. ASSUME s # {} PROVE h[s \ {Choice(s)}] = g[s \ {Choice(s)}]
    <3>1. IsFiniteSet(s)
      BY FS_Subset
    <3>2. Cardinality(s \ {Choice(s)}) = Cardinality(s) - 1 /\ Cardinality(s) \in Nat
      BY <2>2, <3>1, ChoiceTaken
    <3>3. Cardinality(s \ {Choice(s)}) <= n
      BY <1>2, <3>2
    <3>4. s \ {Choice(s)} \in SUBSET S
      OBVIOUS
    <3>5. QED
      BY <3>3, <3>4
  <2> HIDE DEF h
  <2>3. TakenOut(h, s) = TakenOut(g, s)
    BY <2>2 DEF TakenOut
  <2>4. QED
    BY <2>1, <2>3
<1> HIDE DEF h
<1>3. RightUpTo(S, h, n + 1)
  BY <1>2 DEF RightUpTo
<1>4. QED
  BY <1>1, <1>3

LEMMA SummedExists ==
    ASSUME NEW S, IsFiniteSet(S)
    PROVE  \E g : g = [s \in SUBSET S |-> IF s = {} THEN 0 ELSE BinOf(Choice(s)) + g[s \ {Choice(s)}]]
<1> DEFINE missed == {n \in Nat : ~ \E g : g = [s \in SUBSET S |-> g[s]] /\ RightUpTo(S, g, n)}
<1>1. missed = {}
  <2>1. SUFFICES ASSUME missed # {} PROVE FALSE
    OBVIOUS
  <2>2. Min(missed) \in missed /\ \A y \in missed : Min(missed) <= y
    <3>1. missed \subseteq Nat
      OBVIOUS
    <3> HIDE DEF missed
    <3>2. QED
      BY <2>1, <3>1, SmallestOf
  <2>3. PICK m \in Nat : m \in missed /\ \A y \in missed : m <= y
    BY <2>2
  <2>4. CASE m = 0
    <3> DEFINE g == [s \in SUBSET S |-> 0]
    <3>1. g = [s \in SUBSET S |-> g[s]]
      OBVIOUS
    <3>2. ASSUME NEW s \in SUBSET S, Cardinality(s) <= 0 PROVE s = {}
      <4>1. IsFiniteSet(s)
        BY FS_Subset
      <4>2. Cardinality(s) \in Nat
        BY <4>1, FS_CardinalityType
      <4>3. QED
        BY <3>2, <4>1, <4>2, FS_EmptySet
    <3>3. RightUpTo(S, g, 0)
      BY <3>2 DEF RightUpTo, TakenOut
    <3> HIDE DEF g
    <3>4. QED
      BY <2>3, <2>4, <3>1, <3>3
  <2>5. CASE m # 0
    <3>1. m - 1 \in Nat /\ (m - 1) + 1 = m /\ m - 1 \notin missed
      <4> HIDE DEF missed
      <4>1. QED
        BY <2>3, <2>5
    <3>2. PICK g : RightUpTo(S, g, m - 1)
      BY <3>1
    <3>3. \E h : h = [s \in SUBSET S |-> h[s]] /\ RightUpTo(S, h, (m - 1) + 1)
      BY <3>1, <3>2, NextSize
    <3>4. QED
      BY <2>3, <3>1, <3>3
  <2>6. QED
    BY <2>4, <2>5
<1>2. Cardinality(S) \in Nat
  BY FS_CardinalityType
<1>3. PICK g : g = [s \in SUBSET S |-> g[s]] /\ RightUpTo(S, g, Cardinality(S))
  BY <1>1, <1>2
<1>4. \A s \in SUBSET S : g[s] = TakenOut(g, s)
  BY <1>3, FS_Subset DEF RightUpTo
<1>5. g = [s \in SUBSET S |-> TakenOut(g, s)]
  BY <1>3, <1>4
<1>6. QED
  BY <1>5 DEF TakenOut

LEMMA SummedTakesOut ==
    ASSUME NEW S, IsFiniteSet(S), NEW s \in SUBSET S
    PROVE  Summed(S)[s] = TakenOut(Summed(S), s)
<1>1. Summed(S) = [t \in SUBSET S |-> IF t = {} THEN 0 ELSE BinOf(Choice(t)) + Summed(S)[t \ {Choice(t)}]]
  BY SummedExists DEF Summed
<1>2. QED
  BY <1>1 DEF TakenOut

LEMMA TwoApart ==
    ASSUME NEW S, IsFiniteSet(S), NEW T, IsFiniteSet(T), S \cap T = {}
    PROVE  Cardinality(S \cup T) = Cardinality(S) + Cardinality(T)
<1>1. Cardinality(S) \in Nat /\ Cardinality(T) \in Nat
  BY FS_CardinalityType
<1>2. Cardinality(S \cap T) = 0
  BY FS_EmptySet
<1>3. Cardinality(S \cup T) = Cardinality(S) + Cardinality(T) - Cardinality(S \cap T)
  BY FS_Union
<1>4. QED
  BY <1>1, <1>2, <1>3

(* If each bin holds as many as there are members of D with that value, the*)
(* bins together hold as many as D has members.                            *)
LEMMA BinsAddUp ==
    ASSUME NEW S, IsFiniteSet(S), NEW D, IsFiniteSet(D), NEW f \in [D -> S],
           \A s \in S : BinOf(s) = Cardinality({d \in D : f[d] = s})
    PROVE  Summed(S)[S] = Cardinality(D)
<1> DEFINE Having(t) == {d \in D : f[d] \in t}
           wrong == {k \in Nat : \E t \in SUBSET S : Cardinality(t) = k /\ Summed(S)[t] # Cardinality(Having(t))}
<1>1. wrong = {}
  <2>1. SUFFICES ASSUME wrong # {} PROVE FALSE
    OBVIOUS
  <2>2. Min(wrong) \in wrong /\ \A y \in wrong : Min(wrong) <= y
    <3>1. wrong \subseteq Nat
      OBVIOUS
    <3> HIDE DEF wrong
    <3>2. QED
      BY <2>1, <3>1, SmallestOf
  <2>3. PICK m \in Nat : m \in wrong /\ \A y \in wrong : m <= y
    BY <2>2
  <2>4. PICK t \in SUBSET S : Cardinality(t) = m /\ Summed(S)[t] # Cardinality(Having(t))
    BY <2>3
  <2>5. CASE t = {}
    <3>1. Having(t) = {}
      BY <2>5
    <3>2. Summed(S)[t] = 0
      BY <2>5, SummedTakesOut DEF TakenOut
    <3>3. QED
      BY <2>4, <3>1, <3>2, FS_EmptySet
  <2>6. CASE t # {}
    <3> DEFINE c == Choice(t)
               rest == t \ {c}
               one == {d \in D : f[d] = c}
    <3>1. IsFiniteSet(t)
      BY FS_Subset
    <3>2. c \in t /\ Cardinality(t) \in Nat /\ Cardinality(t) # 0 /\ Cardinality(rest) = Cardinality(t) - 1
      BY <2>6, <3>1, ChoiceTaken
    <3>3. m - 1 \in Nat /\ m - 1 \notin wrong
      <4> HIDE DEF wrong
      <4>1. QED
        BY <2>3, <2>4, <3>2
    <3>4. Summed(S)[rest] = Cardinality(Having(rest))
      BY <2>4, <3>2, <3>3
    <3>5. Summed(S)[t] = BinOf(c) + Summed(S)[rest]
      BY <2>6, SummedTakesOut DEF TakenOut
    <3>6. BinOf(c) = Cardinality(one)
      BY <3>2
    <3>7. Having(t) = one \cup Having(rest) /\ one \cap Having(rest) = {}
      BY <3>2
    <3>8. IsFiniteSet(one) /\ IsFiniteSet(Having(rest))
      BY FS_Subset
    <3> HIDE DEF c, rest, one, Having
    <3>9. Cardinality(Having(t)) = Cardinality(one) + Cardinality(Having(rest))
      BY <3>7, <3>8, TwoApart
    <3>10. QED
      BY <2>4, <3>4, <3>5, <3>6, <3>9
  <2>7. QED
    BY <2>5, <2>6
<1>2. Cardinality(S) \in Nat
  BY FS_CardinalityType
<1>3. Summed(S)[S] = Cardinality(Having(S))
  BY <1>1, <1>2
<1>4. Having(S) = D
  OBVIOUS
<1>5. QED
  BY <1>3, <1>4
-----------------------------------------------------------------------------
(* The classifier: what each reading has to do with the directory as it is,*)
(* or as it was when the sizes were counted.                               *)
OfSize(list, s) == {n \in DOMAIN list : list[n] = s}
CountedFrom(list) ==
    /\ bins = [s \in {list[n] : n \in DOMAIN list} |-> Cardinality(OfSize(list, s))]
    /\ "total" \notin unread => Within(total, Cardinality(DOMAIN list), edits)
    /\ "list" \notin unread => Within(BlankFiles, Cardinality(OfSize(list, 0)), edits)

StillNear ==
    /\ report \in {"list", "sizes"} /\ "total" \notin unread =>
          Within(total, Cardinality(DOMAIN dir), edits)
    /\ report = "sizes" /\ "list" \notin unread =>
          Within(BlankFiles, Cardinality(OfSize(ReadDir, 0)), edits)
    /\ report \in {"blank", "hash", "done", "fatal"} /\ "sizes" \notin unread =>
          \E list \in Partial(Names, AllSizes) : CountedFrom(list)
    /\ report \in {"hash", "done", "fatal"} => empty = BlankFiles

(* In a directory left alone, the readings that did not fail agree; a list *)
(* that could not be read is empty.                                        *)
LeftAlone ==
    /\ report = "total" => edits = 0 /\ DOMAIN md5map = {} /\ unread = {}
    /\ report = "list" => "list" \notin unread
    /\ "list" \in unread => DOMAIN files = {}
    /\ (report # "total" /\ edits = 0) =>
          /\ "total" \notin unread => total = Cardinality(DOMAIN dir)
          /\ report # "list" /\ "list" \notin unread => files = ReadDir
          /\ \A n \in DOMAIN md5map : n \in DOMAIN dir /\ md5map[n] = dir[n] /\ dir[n] \notin Unreadable

ClassInv ==
    /\ ClassTypeOK
    /\ StillNear
    /\ LeftAlone
    /\ report = "done" => DOMAIN md5map = DOMAIN files /\ dups = FilesWithACopy

LEMMA InPartial ==
    ASSUME NEW S, NEW T, NEW f
    PROVE  f \in Partial(S, T) <=> /\ DOMAIN f \subseteq S /\ f = [x \in DOMAIN f |-> f[x]]
                                   /\ \A x \in DOMAIN f : f[x] \in T
<1>1. ASSUME f \in Partial(S, T)
      PROVE  DOMAIN f \subseteq S /\ f = [x \in DOMAIN f |-> f[x]] /\ \A x \in DOMAIN f : f[x] \in T
  <2>1. PICK D \in SUBSET S : f \in [D -> T]
    BY <1>1 DEF Partial
  <2>2. QED
    BY <2>1
<1>2. ASSUME DOMAIN f \subseteq S, f = [x \in DOMAIN f |-> f[x]], \A x \in DOMAIN f : f[x] \in T
      PROVE  f \in Partial(S, T)
  <2>1. f \in [DOMAIN f -> T] /\ DOMAIN f \in SUBSET S
    BY <1>2
  <2>2. QED
    BY <2>1 DEF Partial
<1>3. QED
  BY <1>1, <1>2

(* What a reading that failed returns.                                     *)
LEMMA NothingRead == ASSUME NEW S, NEW T PROVE [n \in {} |-> 0] \in Partial(S, T)
<1> DEFINE f == [n \in {} |-> 0]
<1>1. DOMAIN f \subseteq S /\ f = [x \in DOMAIN f |-> f[x]] /\ \A x \in DOMAIN f : f[x] \in T
  OBVIOUS
<1> HIDE DEF f
<1>2. f \in Partial(S, T)
  BY <1>1, InPartial
<1>3. QED
  BY <1>2 DEF f

(* Lists of files are finite.                                              *)
LEMMA FewFiles ==
    ASSUME NEW T, NEW list \in Partial(Names, T)
    PROVE  /\ IsFiniteSet(DOMAIN list) /\ Cardinality(DOMAIN list) \in Nat
           /\ \A S \in SUBSET DOMAIN list :
                 IsFiniteSet(S) /\ Cardinality(S) \in 0..Cardinality(Names)
<1>1. ASSUME NEW S, S \subseteq Names PROVE IsFiniteSet(S) /\ Cardinality(S) \in 0..Cardinality(Names)
  <2>1. IsFiniteSet(Names)
    BY FilesAssumption
  <2>2. IsFiniteSet(S) /\ Cardinality(S) <= Cardinality(Names)
    BY <1>1, <2>1, FS_Subset
  <2>3. Cardinality(S) \in Nat /\ Cardinality(Names) \in Nat
    BY <2>1, <2>2, FS_CardinalityType
  <2>4. QED
    BY <2>2, <2>3
<1>2. DOMAIN list \subseteq Names
  BY InPartial
<1>3. QED
  BY <1>1, <1>2

(* What is counted with Number.                                            *)
LEMMA CountedByNumber ==
    /\ BlankFiles = Cardinality(OfSize(files, 0))
    /\ CountedBySize = [s \in {ReadDir[n] : n \in DOMAIN ReadDir} |-> Cardinality(OfSize(ReadDir, s))]
    /\ \A n : Copies(n) = Cardinality({m \in DOMAIN md5map : md5map[m] = md5map[n]})
<1>1. BlankFiles = Cardinality(OfSize(files, 0))
  BY DEF BlankFiles, Number, OfSize
<1>2. Sizes = {ReadDir[n] : n \in DOMAIN ReadDir}
  BY DEF Sizes, ReadDir
<1>3. CountedBySize = [s \in Sizes |-> Cardinality(OfSize(ReadDir, s))]
  BY DEF CountedBySize, Number, OfSize
<1>4. \A n : Copies(n) = Cardinality({m \in DOMAIN md5map : md5map[m] = md5map[n]})
  BY DEF Copies, Number
<1>5. QED
  BY <1>1, <1>2, <1>3, <1>4

(* A file more or less is one off.                                         *)
LEMMA OneOff ==
    ASSUME NEW A, IsFiniteSet(A), NEW B, IsFiniteSet(B), NEW n, A \ {n} = B \ {n}
    PROVE  Within(Cardinality(A), Cardinality(B), 1)
<1>1. ASSUME NEW S, IsFiniteSet(S), NEW T, IsFiniteSet(T), S \ {n} = T \ {n}
      PROVE  Cardinality(S) <= Cardinality(T) + 1
  <2>1. S \subseteq T \cup {n}
    BY <1>1
  <2>2. IsFiniteSet(T \cup {n}) /\ Cardinality(T \cup {n}) = IF n \in T THEN Cardinality(T) ELSE Cardinality(T) + 1
    BY <1>1, FS_AddElement
  <2>3. Cardinality(S) <= Cardinality(T \cup {n})
    BY <2>1, <2>2, FS_Subset
  <2>4. Cardinality(T) \in Nat /\ Cardinality(S) \in Nat
    BY <1>1, FS_CardinalityType
  <2>5. QED
    BY <2>2, <2>3, <2>4
<1>2. Cardinality(A) <= Cardinality(B) + 1
  BY <1>1
<1>3. Cardinality(B) <= Cardinality(A) + 1
  BY <1>1
<1>4. QED
  BY <1>2, <1>3 DEF Within

LEMMA ClassTypes ==
    ASSUME ClassInv
    PROVE  /\ total \in Nat /\ empty \in Nat /\ dups \in Nat /\ edits \in Nat /\ edits <= MaxEdits
           /\ dir \in Partial(Names, Contents) /\ files \in Partial(Names, AllSizes)
           /\ md5map \in Partial(Names, Contents) /\ MaxEdits \in Nat
  BY FilesAssumption DEF ClassInv, ClassTypeOK

LEMMA ReadDirTyped ==
    ASSUME dir \in Partial(Names, Contents)
    PROVE  ReadDir \in Partial(Names, AllSizes) /\ DOMAIN ReadDir = DOMAIN dir
<1>1. DOMAIN dir \subseteq Names /\ \A n \in DOMAIN dir : dir[n] \in Contents
  BY InPartial
<1>2. DOMAIN ReadDir = DOMAIN dir /\ \A n \in DOMAIN ReadDir : ReadDir[n] = SizeOf[dir[n]]
  BY DEF ReadDir
<1>3. ReadDir = [n \in DOMAIN ReadDir |-> ReadDir[n]]
  BY DEF ReadDir
<1>4. \A n \in DOMAIN ReadDir : ReadDir[n] \in AllSizes
  BY <1>1, <1>2 DEF AllSizes
<1>5. QED
  BY <1>1, <1>2, <1>3, <1>4, InPartial
-----------------------------------------------------------------------------
LEMMA ClassInitHolds == ClassInit => ClassInv
<1> SUFFICES ASSUME ClassInit PROVE ClassInv
  OBVIOUS
<1>1. DOMAIN dir = {} /\ DOMAIN files = {} /\ DOMAIN bins = {} /\ DOMAIN md5map = {}
  BY DEF ClassInit
<1>2. ClassTypeOK
  BY NothingRead, FilesAssumption DEF ClassInit, ClassTypeOK
<1>3. QED
  BY <1>1, <1>2 DEF ClassInit, ClassInv, StillNear, LeftAlone

LEMMA CountFilesKeeps == ASSUME ClassInv, CountFiles PROVE ClassInv'
<1>1. /\ report = "total" /\ report' = "list" /\ dir' \in Partial(Names, Contents)
      /\ UNCHANGED <<files, bins, empty, md5map, dups, edits>>
  BY DEF CountFiles, Reads, ReadFails
<1>2. \/ unread' = unread /\ total' = Cardinality(DOMAIN dir')
      \/ unread' = unread \cup {"total"} /\ total' = 0
  BY DEF CountFiles, Reads, ReadFails
<1>3. Cardinality(DOMAIN dir') \in Nat
  BY <1>1, FewFiles
<1>4. ClassTypeOK'
  <2>1. total' \in Nat
    BY <1>2, <1>3
  <2>2. unread' \subseteq {"total", "list", "sizes"}
    BY <1>2 DEF ClassInv, ClassTypeOK
  <2>3. QED
    BY <1>1, <2>1, <2>2 DEF ClassInv, ClassTypeOK
<1>5. edits' = 0 /\ DOMAIN md5map' = {} /\ unread = {}
  BY <1>1 DEF ClassInv, LeftAlone
<1>6. "total" \notin unread' => total' = Cardinality(DOMAIN dir')
  BY <1>2
<1>7. StillNear'
  BY <1>1, <1>3, <1>5, <1>6 DEF StillNear, Within
<1>8. LeftAlone'
  BY <1>1, <1>2, <1>5, <1>6 DEF LeftAlone
<1>9. QED
  BY <1>1, <1>4, <1>7, <1>8 DEF ClassInv

LEMMA ListFilesKeeps == ASSUME ClassInv, ListFiles PROVE ClassInv'
<1>1. /\ report = "list" /\ report' = "sizes"
      /\ UNCHANGED <<dir, total, bins, empty, md5map, dups, edits>>
      /\ \/ unread' = unread /\ files' = ReadDir
         \/ unread' = unread \cup {"list"} /\ files' = [n \in {} |-> 0]
  BY DEF ListFiles, Reads, ReadFails
<1>2. ReadDir' = ReadDir
  BY <1>1 DEF ReadDir
<1>3. "list" \notin unread /\ ("list" \notin unread' => files' = ReadDir) /\ ("list" \in unread' => DOMAIN files' = {})
  BY <1>1 DEF ClassInv, LeftAlone
<1>4. ClassTypeOK'
  <2>1. files' \in Partial(Names, AllSizes)
    BY <1>1, ClassTypes, ReadDirTyped, NothingRead
  <2>2. unread' \subseteq {"total", "list", "sizes"}
    BY <1>1 DEF ClassInv, ClassTypeOK
  <2>3. QED
    BY <1>1, <2>1, <2>2 DEF ClassInv, ClassTypeOK
<1>5. StillNear'
  <2>1. ASSUME "list" \notin unread' PROVE BlankFiles' = Cardinality(OfSize(ReadDir, 0))
    BY <1>3, <2>1 DEF BlankFiles, Number, OfSize
  <2>2. Cardinality(OfSize(ReadDir, 0)) \in Nat
    <3>1. OfSize(ReadDir, 0) \subseteq DOMAIN ReadDir
      BY DEF OfSize
    <3>2. QED
      BY <3>1, ClassTypes, ReadDirTyped, FewFiles
  <2>3. "list" \notin unread' => Within(BlankFiles', Cardinality(OfSize(ReadDir, 0)), edits)
    BY <2>1, <2>2, ClassTypes DEF Within
  <2>4. "total" \notin unread' => Within(total, Cardinality(DOMAIN dir), edits)
    BY <1>1 DEF ClassInv, StillNear
  <2>5. QED
    BY <1>1, <1>2, <2>3, <2>4 DEF StillNear
<1>6. LeftAlone'
  BY <1>1, <1>2, <1>3 DEF ClassInv, LeftAlone
<1>7. QED
  BY <1>1, <1>4, <1>5, <1>6 DEF ClassInv

LEMMA GetFileSizesKeeps == ASSUME ClassInv, GetFileSizes PROVE ClassInv'
<1>1. /\ report = "sizes" /\ report' = "blank"
      /\ UNCHANGED <<dir, total, files, empty, md5map, dups, edits>>
      /\ \/ unread' = unread /\ bins' = CountedBySize
         \/ unread' = unread \cup {"sizes"} /\ bins' = [s \in {} |-> 0]
  BY DEF GetFileSizes, Reads, ReadFails
<1>2. ReadDir \in Partial(Names, AllSizes) /\ DOMAIN ReadDir = DOMAIN dir
  BY ClassTypes, ReadDirTyped
<1>3. CountedBySize = [s \in {ReadDir[n] : n \in DOMAIN ReadDir} |-> Cardinality(OfSize(ReadDir, s))]
  BY CountedByNumber
<1>4. CountedBySize \in Partial(AllSizes, 1..Cardinality(Names))
  <2> DEFINE counted == CountedBySize
  <2>1. \A n \in DOMAIN ReadDir : ReadDir[n] \in AllSizes
    BY <1>2, InPartial
  <2>2. DOMAIN counted \subseteq AllSizes /\ counted = [s \in DOMAIN counted |-> counted[s]]
    BY <1>3, <2>1
  <2>3. ASSUME NEW s \in DOMAIN counted PROVE counted[s] \in 1..Cardinality(Names)
    <3>1. counted[s] = Cardinality(OfSize(ReadDir, s)) /\ \E n \in DOMAIN ReadDir : ReadDir[n] = s
      BY <1>3, <2>3
    <3>2. OfSize(ReadDir, s) \subseteq DOMAIN ReadDir /\ OfSize(ReadDir, s) # {}
      BY <3>1 DEF OfSize
    <3>3. IsFiniteSet(OfSize(ReadDir, s)) /\ Cardinality(OfSize(ReadDir, s)) \in 0..Cardinality(Names)
      BY <1>2, <3>2, FewFiles
    <3>4. Cardinality(OfSize(ReadDir, s)) # 0
      BY <3>2, <3>3, FS_EmptySet
    <3>5. QED
      BY <3>1, <3>3, <3>4
  <2> HIDE DEF counted
  <2>4. counted \in Partial(AllSizes, 1..Cardinality(Names))
    BY <2>2, <2>3, InPartial
  <2>5. QED
    BY <2>4 DEF counted
<1>5. ClassTypeOK'
  <2>1. bins' \in Partial(AllSizes, 1..Cardinality(Names))
    BY <1>1, <1>4, NothingRead
  <2>2. unread' \subseteq {"total", "list", "sizes"}
    BY <1>1 DEF ClassInv, ClassTypeOK
  <2>3. QED
    BY <1>1, <2>1, <2>2 DEF ClassInv, ClassTypeOK
<1>6. StillNear'
  <2>1. BlankFiles' = BlankFiles
    BY <1>1 DEF BlankFiles, Number
  <2>2. ASSUME "sizes" \notin unread' PROVE CountedFrom(ReadDir)'
    <3>1. unread' = unread /\ bins' = CountedBySize
      BY <1>1, <2>2
    <3>2. /\ "total" \notin unread => Within(total, Cardinality(DOMAIN ReadDir), edits)
          /\ "list" \notin unread => Within(BlankFiles, Cardinality(OfSize(ReadDir, 0)), edits)
      BY <1>1, <1>2 DEF ClassInv, StillNear
    <3>3. ReadDir' = ReadDir
      BY <1>1 DEF ReadDir
    <3>4. QED
      BY <1>1, <1>3, <2>1, <3>1, <3>2, <3>3 DEF CountedFrom, OfSize
  <2>3. ReadDir' \in Partial(Names, AllSizes)
    BY <1>1, <1>2 DEF ReadDir
  <2>4. QED
    BY <1>1, <2>2, <2>3 DEF StillNear
<1>7. LeftAlone'
  BY <1>1 DEF ClassInv, LeftAlone, ReadDir
<1>8. QED
  BY <1>1, <1>5, <1>6, <1>7 DEF ClassInv

LEMMA CheckEmptyKeeps == ASSUME ClassInv, CheckEmptyFiles PROVE ClassInv'
<1>1. /\ report = "blank" /\ report' = "hash" /\ empty' = BlankFiles
      /\ UNCHANGED <<dir, total, files, bins, md5map, dups, edits, unread>>
  BY DEF CheckEmptyFiles
<1>2. BlankFiles' = BlankFiles
  BY <1>1 DEF BlankFiles, Number
<1>3. BlankFiles \in Nat
  <2>1. OfSize(files, 0) \subseteq DOMAIN files
    BY DEF OfSize
  <2>2. QED
    BY <2>1, ClassTypes, FewFiles, CountedByNumber
<1>4. ClassTypeOK'
  BY <1>1, <1>3 DEF ClassInv, ClassTypeOK
<1>5. StillNear'
  BY <1>1, <1>2 DEF ClassInv, StillNear, CountedFrom
<1>6. LeftAlone'
  BY <1>1 DEF ClassInv, LeftAlone, ReadDir
<1>7. QED
  BY <1>1, <1>4, <1>5, <1>6 DEF ClassInv

LEMMA HashFileKeeps == ASSUME ClassInv, HashFile PROVE ClassInv'
<1>1. /\ report = "hash" /\ UNCHANGED <<dir, total, files, bins, empty, dups, edits, unread>>
  BY DEF HashFile
<1>2. PICK n \in DOMAIN files \ DOMAIN md5map :
        IF n \in DOMAIN dir /\ dir[n] \notin Unreadable
        THEN /\ md5map' = [m \in DOMAIN md5map \cup {n} |-> IF m = n THEN dir[n] ELSE md5map[m]]
             /\ UNCHANGED report
        ELSE report' = "fatal" /\ UNCHANGED md5map
  BY DEF HashFile
<1>3. report' \in {"hash", "fatal"}
  BY <1>1, <1>2
<1>4. StillNear'
  BY <1>1, <1>3 DEF ClassInv, StillNear, CountedFrom, BlankFiles, Number
<1>5. CASE UNCHANGED md5map
  <2>1. ClassTypeOK' /\ LeftAlone'
    BY <1>1, <1>3, <1>5 DEF ClassInv, ClassTypeOK, LeftAlone, ReadDir
  <2>2. QED
    BY <1>3, <1>4, <2>1 DEF ClassInv
<1>6. CASE /\ n \in DOMAIN dir /\ dir[n] \notin Unreadable
           /\ md5map' = [m \in DOMAIN md5map \cup {n} |-> IF m = n THEN dir[n] ELSE md5map[m]]
  <2>1. md5map' \in Partial(Names, Contents)
    <3>1. /\ DOMAIN md5map \subseteq Names /\ \A m \in DOMAIN md5map : md5map[m] \in Contents
          /\ DOMAIN dir \subseteq Names /\ \A m \in DOMAIN dir : dir[m] \in Contents
      BY ClassTypes, InPartial
    <3>2. /\ DOMAIN md5map' \subseteq Names /\ md5map' = [m \in DOMAIN md5map' |-> md5map'[m]]
          /\ \A m \in DOMAIN md5map' : md5map'[m] \in Contents
      BY <1>6, <3>1
    <3>3. QED
      BY <3>2, InPartial
  <2>2. ClassTypeOK'
    BY <1>1, <1>3, <2>1 DEF ClassInv, ClassTypeOK
  <2>3. LeftAlone'
    <3>1. ASSUME edits' = 0
          PROVE  /\ "total" \notin unread' => total' = Cardinality(DOMAIN dir')
                 /\ "list" \notin unread' => files' = ReadDir'
                 /\ \A m \in DOMAIN md5map' : m \in DOMAIN dir' /\ md5map'[m] = dir'[m] /\ dir'[m] \notin Unreadable
      <4>1. /\ "total" \notin unread => total = Cardinality(DOMAIN dir)
            /\ "list" \notin unread => files = ReadDir
            /\ \A m \in DOMAIN md5map : m \in DOMAIN dir /\ md5map[m] = dir[m] /\ dir[m] \notin Unreadable
        BY <1>1, <3>1 DEF ClassInv, LeftAlone
      <4>2. \A m \in DOMAIN md5map' : m \in DOMAIN dir /\ md5map'[m] = dir[m] /\ dir[m] \notin Unreadable
        BY <1>6, <4>1
      <4>3. QED
        BY <1>1, <4>1, <4>2 DEF ReadDir
    <3>2. "list" \in unread' => DOMAIN files' = {}
      BY <1>1 DEF ClassInv, LeftAlone
    <3>3. QED
      BY <1>3, <3>1, <3>2 DEF LeftAlone
  <2>4. QED
    BY <1>3, <1>4, <2>2, <2>3 DEF ClassInv
<1>7. QED
  BY <1>2, <1>5, <1>6

LEMMA CheckDuplicatesKeeps == ASSUME ClassInv, CheckDuplicates PROVE ClassInv'
<1>1. /\ report = "hash" /\ report' = "done" /\ DOMAIN md5map = DOMAIN files
      /\ dups' = FilesWithACopy
      /\ UNCHANGED <<dir, total, files, bins, empty, md5map, edits, unread>>
  BY DEF CheckDuplicates
<1>2. FilesWithACopy' = FilesWithACopy
  BY <1>1 DEF FilesWithACopy, Copies, Number
<1>3. FilesWithACopy \in Nat
  <2>1. {n \in DOMAIN md5map : Copies(n) > 1} \subseteq DOMAIN md5map
    OBVIOUS
  <2>2. QED
    BY <2>1, ClassTypes, FewFiles DEF FilesWithACopy
<1>4. ClassTypeOK'
  BY <1>1, <1>3 DEF ClassInv, ClassTypeOK
<1>5. StillNear'
  BY <1>1 DEF ClassInv, StillNear, CountedFrom, BlankFiles, Number
<1>6. LeftAlone'
  BY <1>1 DEF ClassInv, LeftAlone, ReadDir
<1>7. QED
  BY <1>1, <1>2, <1>4, <1>5, <1>6 DEF ClassInv

(* An edit puts each number one further off at most.                       *)
LEMMA OneFurtherOff ==
    ASSUME NEW a \in Nat, NEW b \in Nat, NEW c \in Nat, NEW d \in Nat,
           Within(a, b, d), Within(b, c, 1)
    PROVE  Within(a, c, d + 1)
  BY DEF Within

LEMMA EditKeeps == ASSUME ClassInv, Edit PROVE ClassInv'
<1>1. /\ report \notin {"total", "done", "fatal"} /\ edits < MaxEdits /\ edits' = edits + 1
      /\ UNCHANGED <<report, total, files, bins, empty, md5map, dups, unread>>
  BY DEF Edit
<1>2. PICK n \in Names :
        \/ n \in DOMAIN dir /\ dir' = [m \in DOMAIN dir \ {n} |-> dir[m]]
        \/ \E c \in Contents \ Unreadable : dir' = [m \in DOMAIN dir \cup {n} |-> IF m = n THEN c ELSE dir[m]]
  BY DEF Edit
<1>3. DOMAIN dir \subseteq Names /\ \A m \in DOMAIN dir : dir[m] \in Contents
  BY ClassTypes, InPartial
<1>4. /\ DOMAIN dir' \subseteq Names /\ dir' = [m \in DOMAIN dir' |-> dir'[m]]
      /\ \A m \in DOMAIN dir' : dir'[m] \in Contents
      /\ DOMAIN dir' \ {n} = DOMAIN dir \ {n}
      /\ \A m \in DOMAIN dir \ {n} : dir'[m] = dir[m]
  <2>1. CASE n \in DOMAIN dir /\ dir' = [m \in DOMAIN dir \ {n} |-> dir[m]]
    BY <1>3, <2>1
  <2>2. CASE \E c \in Contents \ Unreadable : dir' = [m \in DOMAIN dir \cup {n} |-> IF m = n THEN c ELSE dir[m]]
    BY <1>3, <2>2
  <2>3. QED
    BY <1>2, <2>1, <2>2
<1>5. dir' \in Partial(Names, Contents)
  BY <1>4, InPartial
<1>6. edits' \in 1..MaxEdits /\ edits \in Nat
  BY <1>1, ClassTypes
<1>7. ClassTypeOK'
  BY <1>1, <1>5, <1>6 DEF ClassInv, ClassTypeOK
<1>8. ReadDir' \in Partial(Names, AllSizes) /\ DOMAIN ReadDir' = DOMAIN dir'
  <2>1. /\ DOMAIN ReadDir' = DOMAIN dir' /\ ReadDir' = [m \in DOMAIN ReadDir' |-> ReadDir'[m]]
        /\ \A m \in DOMAIN ReadDir' : ReadDir'[m] = SizeOf[dir'[m]]
    BY DEF ReadDir
  <2>2. \A m \in DOMAIN ReadDir' : ReadDir'[m] \in AllSizes
    BY <1>4, <2>1 DEF AllSizes
  <2>3. QED
    BY <1>4, <2>1, <2>2, InPartial
<1>9. ReadDir \in Partial(Names, AllSizes) /\ DOMAIN ReadDir = DOMAIN dir
  BY ClassTypes, ReadDirTyped
<1>10. OfSize(ReadDir, 0)' \ {n} = OfSize(ReadDir, 0) \ {n}
  BY <1>4 DEF OfSize, ReadDir
<1>11. /\ IsFiniteSet(DOMAIN dir) /\ IsFiniteSet(DOMAIN dir')
       /\ Cardinality(DOMAIN dir) \in Nat /\ Cardinality(DOMAIN dir') \in Nat
  BY <1>5, ClassTypes, FewFiles
<1>12. /\ IsFiniteSet(OfSize(ReadDir, 0)) /\ IsFiniteSet(OfSize(ReadDir, 0)')
       /\ Cardinality(OfSize(ReadDir, 0)) \in Nat /\ Cardinality(OfSize(ReadDir, 0)') \in Nat
  <2>1. OfSize(ReadDir, 0) \subseteq DOMAIN dir /\ OfSize(ReadDir, 0)' \subseteq DOMAIN dir'
    BY <1>8, <1>9 DEF OfSize
  <2>2. /\ IsFiniteSet(OfSize(ReadDir, 0)) /\ IsFiniteSet(OfSize(ReadDir, 0)')
    BY <1>11, <2>1, FS_Subset
  <2>3. QED
    BY <2>2, FS_CardinalityType
<1>13. BlankFiles' = BlankFiles /\ BlankFiles \in Nat
  <2>1. OfSize(files, 0) \subseteq DOMAIN files
    BY DEF OfSize
  <2>2. BlankFiles \in Nat
    BY <2>1, ClassTypes, FewFiles, CountedByNumber
  <2>3. QED
    BY <1>1, <2>2 DEF BlankFiles, Number
<1>14. StillNear'
  <2>1. ASSUME report \in {"list", "sizes"}, "total" \notin unread
        PROVE  Within(total', Cardinality(DOMAIN dir'), edits')
    <3>1. Within(total, Cardinality(DOMAIN dir), edits)
      BY <2>1 DEF ClassInv, StillNear
    <3>2. Within(Cardinality(DOMAIN dir), Cardinality(DOMAIN dir'), 1)
      BY <1>4, <1>11, OneOff
    <3>3. Within(total, Cardinality(DOMAIN dir'), edits + 1)
      BY <1>6, <1>11, <3>1, <3>2, ClassTypes, OneFurtherOff
    <3>4. QED
      BY <1>1, <3>3
  <2>2. ASSUME report = "sizes", "list" \notin unread
        PROVE  Within(BlankFiles', Cardinality(OfSize(ReadDir, 0)'), edits')
    <3>1. Within(BlankFiles, Cardinality(OfSize(ReadDir, 0)), edits)
      BY <2>2 DEF ClassInv, StillNear
    <3>2. Within(Cardinality(OfSize(ReadDir, 0)), Cardinality(OfSize(ReadDir, 0)'), 1)
      BY <1>10, <1>12, OneOff
    <3>3. Within(BlankFiles, Cardinality(OfSize(ReadDir, 0)'), edits + 1)
      BY <1>6, <1>12, <1>13, <3>1, <3>2, OneFurtherOff
    <3>4. QED
      BY <1>1, <1>13, <3>3
  <2>3. ASSUME report \in {"blank", "hash", "done", "fatal"}, "sizes" \notin unread
        PROVE  \E list \in Partial(Names, AllSizes) : CountedFrom(list)'
    <3>1. PICK list \in Partial(Names, AllSizes) : CountedFrom(list)
      BY <2>3 DEF ClassInv, StillNear
    <3>2. Cardinality(DOMAIN list) \in Nat /\ Cardinality(OfSize(list, 0)) \in Nat
      <4>1. OfSize(list, 0) \subseteq DOMAIN list
        BY DEF OfSize
      <4>2. QED
        BY <4>1, FewFiles
    <3>3. CountedFrom(list)'
      <4>1. /\ "total" \notin unread => Within(total, Cardinality(DOMAIN list), edits)
            /\ "list" \notin unread => Within(BlankFiles, Cardinality(OfSize(list, 0)), edits)
        BY <3>1 DEF CountedFrom
      <4>2. /\ "total" \notin unread => Within(total, Cardinality(DOMAIN list), edits + 1)
            /\ "list" \notin unread => Within(BlankFiles, Cardinality(OfSize(list, 0)), edits + 1)
        BY <1>6, <1>13, <3>2, <4>1, ClassTypes DEF Within
      <4>3. QED
        BY <1>1, <1>13, <3>1, <4>2 DEF CountedFrom
    <3>4. QED
      BY <3>3
  <2>4. report \in {"hash", "done", "fatal"} => empty' = BlankFiles'
    BY <1>1, <1>13 DEF ClassInv, StillNear
  <2>5. QED
    BY <1>1, <2>1, <2>2, <2>3, <2>4 DEF StillNear
<1>15. LeftAlone'
  BY <1>1, <1>6 DEF ClassInv, LeftAlone
<1>16. QED
  BY <1>1, <1>7, <1>14, <1>15 DEF ClassInv

LEMMA ClassInvariantHolds == ClassSpec => []ClassInv
<1>1. ClassInv /\ [ClassNext]_classVars => ClassInv'
  <2>1. ASSUME ClassInv, UNCHANGED classVars PROVE ClassInv'
    BY <2>1 DEF classVars, ClassInv, ClassTypeOK, StillNear, LeftAlone, CountedFrom, BlankFiles, Number, ReadDir,
                FilesWithACopy, Copies
  <2>2. QED
    BY <2>1, CountFilesKeeps, ListFilesKeeps, GetFileSizesKeeps, CheckEmptyKeeps, HashFileKeeps,
       CheckDuplicatesKeeps, EditKeeps DEF ClassNext
<1>2. QED
  BY <1>1, ClassInitHolds, PTL DEF ClassSpec

(* The variables keep their types: what is counted is finite, and no bin   *)
(* is empty. (classifier.go, main)                                         *)
THEOREM ClassTypeCorrect == ClassSpec => []ClassTypeOK
<1>1. ClassInv => ClassTypeOK
  BY DEF ClassInv
<1>2. QED
  BY <1>1, ClassInvariantHolds, PTL
-----------------------------------------------------------------------------
(* The bins add up to the files of the list they were counted from.        *)
LEMMA BinsNearTotal ==
    ASSUME ClassInv, NEW list \in Partial(Names, AllSizes), CountedFrom(list)
    PROVE  /\ "total" \notin unread => Within(total, MapThenSumSet(BinOf, DOMAIN bins), edits)
           /\ "list" \notin unread => Within(BlankFiles, BinOf(0), edits)
<1> DEFINE D == DOMAIN list
           S == {list[n] : n \in D}
           f == [n \in D |-> list[n]]
<1>1. bins = [s \in S |-> Cardinality(OfSize(list, s))] /\ DOMAIN bins = S
  BY DEF CountedFrom
<1>2. IsFiniteSet(D)
  BY FewFiles
<1>3. f \in Surjection(D, S)
  BY DEF Surjection
<1>4. IsFiniteSet(S)
  BY <1>2, <1>3, FS_Surjection
<1>5. f \in [D -> S]
  OBVIOUS
<1>6. ASSUME NEW s \in S PROVE BinOf(s) = Cardinality({n \in D : f[n] = s})
  <2>1. BinOf(s) = Cardinality(OfSize(list, s))
    BY <1>1 DEF BinOf
  <2>2. OfSize(list, s) = {n \in D : f[n] = s}
    BY DEF OfSize
  <2>3. QED
    BY <2>1, <2>2
<1>7. BinOf(0) = Cardinality(OfSize(list, 0))
  <2>1. CASE 0 \in S
    BY <1>1, <2>1 DEF BinOf
  <2>2. CASE 0 \notin S
    <3>1. OfSize(list, 0) = {}
      BY <2>2 DEF OfSize
    <3>2. QED
      BY <1>1, <2>2, <3>1, FS_EmptySet DEF BinOf
  <2>3. QED
    BY <2>1, <2>2
<1>8. \A s \in S : BinOf(s) = Cardinality({n \in D : f[n] = s})
  BY <1>6
<1> HIDE DEF D, S, f
<1>9. Summed(S)[S] = Cardinality(D)
  BY <1>2, <1>4, <1>5, <1>8, BinsAddUp
<1>a. MapThenSumSet(BinOf, S) = Cardinality(D)
  BY <1>9, SumIsSummed
<1>10. QED
  BY <1>1, <1>7, <1>a DEF CountedFrom, D

LEMMA HasAnother ==
    ASSUME NEW S, IsFiniteSet(S), NEW x \in S
    PROVE  Cardinality(S) > 1 <=> \E y \in S : y # x
<1>1. IsFiniteSet(S \ {x}) /\ Cardinality(S \ {x}) = Cardinality(S) - 1
  BY FS_RemoveElement
<1>2. Cardinality(S) \in Nat /\ Cardinality(S \ {x}) \in Nat
  BY <1>1, FS_CardinalityType
<1>3. Cardinality(S \ {x}) = 0 <=> S \ {x} = {}
  BY <1>1, FS_EmptySet
<1>4. QED
  BY <1>1, <1>2, <1>3

(* A file has a copy when another of the same content was hashed.          *)
Duplicates == {n \in DOMAIN md5map : Copies(n) > 1}

LEMMA CopiesAre ==
    ASSUME ClassInv, NEW n \in DOMAIN md5map
    PROVE  Copies(n) > 1 <=> \E m \in DOMAIN md5map : m # n /\ md5map[m] = md5map[n]
<1> DEFINE S == {m \in DOMAIN md5map : md5map[m] = md5map[n]}
<1>1. Copies(n) = Cardinality(S)
  BY CountedByNumber
<1>2. IsFiniteSet(S) /\ n \in S
  BY ClassTypes, FewFiles
<1>3. (\E m \in S : m # n) <=> \E m \in DOMAIN md5map : m # n /\ md5map[m] = md5map[n]
  OBVIOUS
<1> HIDE DEF S
<1>4. QED
  BY <1>1, <1>2, <1>3, HasAnother

LEMMA NeverOne == ASSUME ClassInv PROVE IsFiniteSet(Duplicates) /\ Cardinality(Duplicates) # 1
<1>1. Duplicates \subseteq DOMAIN md5map
  BY DEF Duplicates
<1>2. IsFiniteSet(Duplicates)
  BY <1>1, ClassTypes, FewFiles
<1>3. ASSUME NEW n, Duplicates = {n} PROVE FALSE
  <2>1. n \in DOMAIN md5map /\ Copies(n) > 1
    BY <1>3 DEF Duplicates
  <2>2. PICK m \in DOMAIN md5map : m # n /\ md5map[m] = md5map[n]
    BY <2>1, CopiesAre
  <2>3. Copies(m) > 1
    BY <2>1, <2>2, CopiesAre
  <2>4. m \in Duplicates
    BY <2>2, <2>3 DEF Duplicates
  <2>5. QED
    BY <1>3, <2>2, <2>4
<1>4. QED
  BY <1>2, <1>3, FS_Singleton

(* In a directory left alone, what is not a duplicate is held once.        *)
LEMMA OthersHeldOnce ==
    ASSUME ClassInv, report = "done", edits = 0, unread \cap {"total", "list"} = {}
    PROVE  total - dups = Cardinality({c \in Contents : Cardinality({n \in DOMAIN dir : dir[n] = c}) = 1})
<1> DEFINE D == DOMAIN dir
           single == D \ Duplicates
           once == {c \in Contents : Cardinality({n \in D : dir[n] = c}) = 1}
           f == [n \in single |-> dir[n]]
<1>1. /\ total = Cardinality(D) /\ files = ReadDir
      /\ \A n \in DOMAIN md5map : n \in D /\ md5map[n] = dir[n]
      /\ DOMAIN md5map = DOMAIN files /\ dups = FilesWithACopy
  BY DEF ClassInv, LeftAlone
<1>2. DOMAIN md5map = D /\ \A n \in D : md5map[n] = dir[n] /\ dir[n] \in Contents
  <2>1. dir \in Partial(Names, Contents)
    BY ClassTypes
  <2>2. DOMAIN ReadDir = D
    BY <2>1, ReadDirTyped
  <2>3. \A n \in D : dir[n] \in Contents
    BY <2>1, InPartial
  <2>4. QED
    BY <1>1, <2>2, <2>3
<1>3. IsFiniteSet(D) /\ Duplicates \subseteq D /\ dups = Cardinality(Duplicates)
  BY <1>1, <1>2, ClassTypes, FewFiles DEF Duplicates, FilesWithACopy
<1>4. Cardinality(single) = total - dups /\ IsFiniteSet(single)
  <2>1. IsFiniteSet(Duplicates) /\ IsFiniteSet(single)
    BY <1>3, FS_Subset
  <2>2. single \cup Duplicates = D /\ single \cap Duplicates = {}
    BY <1>3
  <2> HIDE DEF single
  <2>3. Cardinality(D) = Cardinality(single) + Cardinality(Duplicates)
    BY <2>1, <2>2, TwoApart
  <2>4. Cardinality(single) \in Nat /\ Cardinality(Duplicates) \in Nat
    BY <2>1, FS_CardinalityType
  <2>5. QED
    BY <1>1, <1>3, <2>1, <2>3, <2>4
<1>5. \A n \in D : n \in single <=> \A m \in D : dir[m] = dir[n] => m = n
  <2> TAKE n \in D
  <2>1. n \in Duplicates <=> \E m \in DOMAIN md5map : m # n /\ md5map[m] = md5map[n]
    BY <1>2, CopiesAre DEF Duplicates
  <2>2. QED
    BY <1>2, <2>1
<1>6. \A c \in Contents : c \in once <=> \E n \in D : {m \in D : dir[m] = c} = {n}
  <2> TAKE c \in Contents
  <2> DEFINE S == {m \in D : dir[m] = c}
  <2>1. IsFiniteSet(S)
    BY <1>3, FS_Subset
  <2>2. Cardinality(S) = 1 <=> \E n : S = {n}
    <3> HIDE DEF S
    <3>1. QED
      BY <2>1, FS_Singleton
  <2>3. \A n : S = {n} => n \in D
    OBVIOUS
  <2>4. QED
    BY <2>2, <2>3
<1>7. f \in Surjection(single, once)
  <2>1. ASSUME NEW n \in single PROVE dir[n] \in once
    <3>1. {m \in D : dir[m] = dir[n]} = {n}
      BY <1>5
    <3>2. QED
      BY <1>2, <1>6, <3>1
  <2>2. ASSUME NEW c \in once PROVE \E n \in single : f[n] = c
    <3>1. PICK n \in D : {m \in D : dir[m] = c} = {n}
      BY <1>6, <2>2
    <3>2. dir[n] = c /\ \A m \in D : dir[m] = c => m = n
      BY <3>1
    <3>3. n \in single
      BY <1>5, <3>2
    <3>4. QED
      BY <3>2, <3>3
  <2>3. f \in [single -> once]
    BY <2>1
  <2>4. QED
    BY <2>2, <2>3 DEF Surjection
<1>8. f \in Injection(single, once)
  <2>1. f \in [single -> once]
    BY <1>7 DEF Surjection
  <2>2. \A m, n \in single : f[m] = f[n] => m = n
    BY <1>5
  <2> HIDE DEF f, single, once
  <2>3. QED
    BY <2>1, <2>2 DEF Injection, IsInjective
<1> HIDE DEF f, single, once
<1>9. Cardinality(once) = Cardinality(single)
  BY <1>4, <1>7, <1>8, FS_Surjection
<1>10. QED
  BY <1>4, <1>9 DEF once

(* ... and two blank files are copies of each other.                       *)
LEMMA BlanksAreCopies ==
    ASSUME ClassInv, report = "done", edits = 0, empty > 1
    PROVE  empty <= dups
<1> DEFINE blanks == OfSize(files, 0)
<1>a. "list" \notin unread
  <2> SUFFICES ASSUME "list" \in unread PROVE FALSE
    OBVIOUS
  <2>1. DOMAIN files = {} /\ empty = BlankFiles
    BY DEF ClassInv, LeftAlone, StillNear
  <2>2. OfSize(files, 0) = {}
    BY <2>1 DEF OfSize
  <2>3. BlankFiles = Cardinality(OfSize(files, 0))
    BY CountedByNumber
  <2>4. Cardinality({}) = 0
    BY FS_EmptySet
  <2>5. empty = 0
    BY <2>1, <2>2, <2>3, <2>4
  <2>6. QED
    BY <2>5
<1>1. /\ files = ReadDir /\ DOMAIN md5map = DOMAIN files /\ dups = Cardinality(Duplicates)
      /\ \A n \in DOMAIN md5map : n \in DOMAIN dir /\ md5map[n] = dir[n] /\ dir[n] \notin Unreadable
  BY <1>a DEF ClassInv, LeftAlone, FilesWithACopy, Duplicates
<1>2. empty = Cardinality(blanks)
  BY CountedByNumber DEF ClassInv, StillNear
<1>3. blanks \subseteq DOMAIN md5map /\ \A n \in blanks : md5map[n] \in Contents \ Unreadable /\ SizeOf[md5map[n]] = 0
  <2>1. \A n \in DOMAIN md5map : md5map[n] \in Contents
    BY ClassTypes, InPartial
  <2>2. \A n \in DOMAIN dir : ReadDir[n] = SizeOf[dir[n]]
    BY DEF ReadDir
  <2>3. QED
    BY <1>1, <2>1, <2>2 DEF OfSize
<1>4. \A m, n \in blanks : md5map[m] = md5map[n]
  BY <1>3, BlankAssumption
<1>5. IsFiniteSet(blanks)
  BY <1>1, <1>3, ClassTypes, FewFiles
<1> HIDE DEF blanks
<1>6. blanks \subseteq Duplicates
  <2>1. ASSUME NEW n \in blanks PROVE n \in Duplicates
    <3>1. PICK m \in blanks : m # n
      BY <1>2, <1>5, HasAnother
    <3>2. Copies(n) > 1
      BY <1>3, <1>4, <3>1, CopiesAre
    <3>3. QED
      BY <1>3, <3>2 DEF Duplicates
  <2>2. QED
    BY <2>1
<1>7. QED
  BY <1>1, <1>2, <1>6, NeverOne, FS_Subset

(* The report adds up, as far as its readings did not fail: the bins to    *)
(* the total and to the blank files but for as many files as were touched  *)
(* meanwhile, duplicates at least in twos, and, in a directory left alone, *)
(* total and duplicates to the contents that are held once.                *)
(* (classifier.go, main)                                                   *)
THEOREM TheReportAddsUp == ClassSpec => []ReportAddsUp
<1>1. ClassInv => ReportAddsUp
  <2> SUFFICES ASSUME ClassInv PROVE ReportAddsUp
    OBVIOUS
  <2>1. ASSUME report \in {"hash", "done", "fatal"}, "sizes" \notin unread
        PROVE  /\ "total" \notin unread => Within(total, MapThenSumSet(BinOf, DOMAIN bins), edits)
               /\ "list" \notin unread => Within(empty, BinOf(0), edits)
    <3>1. empty = BlankFiles /\ \E list \in Partial(Names, AllSizes) : CountedFrom(list)
      BY <2>1 DEF ClassInv, StillNear
    <3>2. QED
      BY <3>1, BinsNearTotal
  <2>2. report = "done" => dups # 1
    BY NeverOne DEF ClassInv, FilesWithACopy, Duplicates
  <2>3. QED
    BY <2>1, <2>2, OthersHeldOnce, BlanksAreCopies DEF ReportAddsUp
<1>2. QED
  BY <1>1, ClassInvariantHolds, PTL
-----------------------------------------------------------------------------
(* All together                                                            *)

(* What runs is one of the parts, as it is on its own: no step of another  *)
(* program is felt by it.                                                  *)
THEOREM EachPartIsItself ==
    Spec => ReaderSpec /\ SeqSpec /\ ClassSpec /\ ExtractSpec /\ StreamSpec /\ BulkSpec
<1>1. Init => ReaderInit /\ SeqInit /\ ClassInit /\ ExtractInit /\ StreamInit /\ BulkInit
  BY DEF Init
<1>2. ASSUME [Next]_<<program, parts>>
      PROVE  /\ [ReaderNext]_readerVars /\ [SeqNext]_seqVars /\ [ClassNext]_classVars
             /\ [ExtractNext]_extractVars /\ [StreamNext]_streamVars /\ [BulkNext]_bulkVars
  <2>1. CASE UNCHANGED parts
    BY <2>1 DEF parts
  <2>2. CASE Choose
    BY <2>1, <2>2 DEF Choose
  <2>3. QED
    BY <1>2, <2>1, <2>2 DEF Next
<1>3. QED
  BY <1>1, <1>2, PTL DEF Spec, ReaderSpec, SeqSpec, ClassSpec, ExtractSpec, StreamSpec, BulkSpec

(* Whichever is run by hand, its variables keep their types and those of   *)
(* the others stay as they were. (the mains of src/tools and src/analysis, *)
(* streamer.go, and bulkOrderLoad of loader.go)                            *)
THEOREM PartsTypeCorrect == Spec => []PartsTypeOK
<1>1. ReaderTypeOK /\ SeqTypeOK /\ ClassTypeOK /\ ExtractTypeOK /\ StreamTypeOK /\ BulkTypeOK => PartsTypeOK
  BY DEF PartsTypeOK
<1>2. QED
  BY <1>1, EachPartIsItself, TypeCorrect, SeqTypeCorrect, ClassTypeCorrect, ExtractTypeCorrect,
     StreamTypeCorrect, BulkTypeCorrect, PTL

(* Whichever is run by hand, what is shown of it by itself holds: what it  *)
(* reports, writes or leaves agrees with what was there. (the mains of     *)
(* src/tools and src/analysis, streamer.go, and bulkOrderLoad of loader.go)*)
THEOREM ThePartsAreSafe ==
    Spec => [](/\ OnlyARemainderIsLeftOut /\ FaultNeedsATaskLeft
               /\ BreaksAreListed /\ TotalTelescopes
               /\ ReportAddsUp
               /\ ExtractedOrders
               /\ BackupIsComplete
               /\ AllocationSurvives)
BY EachPartIsItself, TheRemainderIsLeftOut, TheFaultNeedsATaskLeft, TheBreaksAreListed,
   TheTotalTelescopes, TheReportAddsUp, OrdersAreExtracted, BackupsAreComplete,
   AnAllocationIsLeft, PTL
=============================================================================
