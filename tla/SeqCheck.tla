------------------------------ MODULE SeqCheck ------------------------------
(***************************************************************************)
(* src/analysis/seqCheck.go: looks for breaks in a log of sequence numbers.*)
(* Each line is compared with the one before, the first with itself; at a  *)
(* break the numbers from the line before up to the new line are printed   *)
(* and the break is added to a total.  A line that is no number counts as  *)
(* 0 (the error of Atoi is dropped), so that the numbers may go down.      *)
(***************************************************************************)
EXTENDS Integers, Sequences, FiniteSets

CONSTANT Logs  \* what sequence.log may hold, as Atoi reads it

ASSUME LogsAssumption == Logs \subseteq Seq(Int)

VARIABLES
    scan,         \* "start" | "loop" | "done" | "fatal" | "panic"
    lines,        \* the log
    i,            \* lines gone through
    seq,          \* the number of the last of them
    missingCount, \* the total
    missingIds    \* the numbers printed

seqVars == <<scan, lines, i, seq, missingCount, missingIds>>

SeqTypeOK ==
    /\ scan \in {"start", "loop", "done", "fatal", "panic"}
    /\ lines \in Seq(Int)
    /\ i \in 0..Len(lines)
    /\ seq \in Int
    /\ missingCount \in Int
    /\ missingIds \subseteq Int
    /\ \A id \in missingIds : \E m, n \in 1..i : lines[m] <= id /\ id < lines[n]
-----------------------------------------------------------------------------
(* The variant before a definition is a slip that a property must catch.   *)

(* seq - last - 1 + missingCount                                           *)
WholeBreak(last, next) == missingCount + (next - last)
Total(last, next) == missingCount + (next - last - 1)

(* for item := last; item < seq; item++                                    *)
OneShort(last, next) == last..(next - 2)
BeforeToo(last, next) == (last - 1)..(next - 1)
Listed(last, next) == last..(next - 1)
-----------------------------------------------------------------------------
SeqInit ==
    /\ scan = "start"
    /\ lines = <<>>
    /\ i = 0
    /\ seq = 0
    /\ missingCount = 0
    /\ missingIds = {}

(* readLines; a log that cannot be read is fatal, and lines[0] of an empty *)
(* one panics.                                                             *)
ReadLog ==
    /\ scan = "start"
    /\ \/ scan' = "fatal" /\ UNCHANGED <<lines, seq>>
       \/ /\ lines' \in Logs
          /\ \/ lines' = <<>> /\ scan' = "panic" /\ UNCHANGED seq
             \/ lines' # <<>> /\ scan' = "loop" /\ seq' = lines'[1]
    /\ UNCHANGED <<i, missingCount, missingIds>>

CheckLine ==
    /\ scan = "loop"
    /\ i < Len(lines)
    /\ i' = i + 1
    /\ seq' = lines[i + 1]
    /\ \/ lines[i + 1] = seq + 1 /\ UNCHANGED <<missingCount, missingIds>>
       \/ /\ lines[i + 1] # seq + 1
          /\ missingCount' = Total(seq, lines[i + 1])
          /\ missingIds' = missingIds \cup Listed(seq, lines[i + 1])
    /\ UNCHANGED <<scan, lines>>

PrintTotal ==
    /\ scan = "loop"
    /\ i = Len(lines)
    /\ scan' = "done"
    /\ UNCHANGED <<lines, i, seq, missingCount, missingIds>>

SeqNext == ReadLog \/ CheckLine \/ PrintTotal

SeqSpec == SeqInit /\ [][SeqNext]_seqVars
-----------------------------------------------------------------------------
Scanned == {lines[n] : n \in 1..i}
Rises == \A m, n \in 1..Len(lines) : m < n => lines[m] < lines[n]
Absent == {id \in lines[1]..lines[Len(lines)] : \A n \in 1..Len(lines) : lines[n] # id}

(* No number is overlooked: each one from the first line's up to a line's  *)
(* that has been gone through is in the log or printed, also where the     *)
(* numbers go down or a line is no number.  And in a log that rises, the   *)
(* only numbers printed that are not missing are those right before a      *)
(* break: the loop that prints starts at last, not last + 1 (line 60).     *)
BreaksAreListed ==
    /\ scan \in {"loop", "done"} =>
          \A n \in 1..i : \A id \in lines[1]..lines[n] : id \in Scanned \cup missingIds
    /\ (scan = "done" /\ Rises) =>
          \A id \in missingIds \ Absent : id \in Scanned /\ id + 1 \in Absent

(* The breaks add up: what the total says depends only on the first number,*)
(* the last number and how many lines lie between, whatever their order.   *)
TotalTelescopes ==
    scan \in {"loop", "done"} => missingCount = seq - lines[1] - i
=============================================================================
