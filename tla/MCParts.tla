------------------------------ MODULE MCParts ------------------------------
(***************************************************************************)
(* The parts that share no state with the others: the programs that are    *)
(* run by hand, the streamer and the portal's bulk load.  One of them is   *)
(* chosen first and runs; the others stay as they begin.                   *)
(***************************************************************************)
EXTENDS DebugReader, SeqCheck, Classifier, OrderExtract, Streamer, BulkLoad

VARIABLE program

MCListings == {[n \in 1..length |-> n] : length \in {0, 2, 3, 5}}

MCLogs == UNION {[1..n -> {0, 3, 4, 5, 6, 8}] : n \in 0..4}

MCSizeOf == [c \in Contents |-> CASE c = "blank" -> 0 [] c = "folder" -> 4 [] OTHER -> 1]

Row(security, symbol) == [kind |-> "symbol", security |-> security, symbol |-> symbol]
Line(kind) == [kind |-> kind]
MCDumps ==
    LET messages == {[kind |-> "order", security |-> s] : s \in {1, 2}}
                 \cup {Line("cut off"), Line("other"), Line("too long")}
    IN  UNION {[1..n -> messages] : n \in 1..3}
MCTables ==
    {<<Row(1, "BTC"), Row(1, "ETH")>>,
     <<Row(1, "BTC"), Line("request"), Row(2, "ETH")>>,
     <<Row(2, "BTC"), Line("too long"), Row(1, "ETH"), Row(2, "ETH")>>,
     <<Row(1, "BTC"), Line("no comma")>>}

MCStagedLists == {[n \in 1..length |-> n] : length \in {0, 1, 4}} \cup {<<1, 5>>}

parts == <<readerVars, seqVars, classVars, extractVars, streamVars, bulkVars>>

Init ==
    /\ program = "none"
    /\ ReaderInit /\ SeqInit /\ ClassInit /\ ExtractInit /\ StreamInit /\ BulkInit

Choose ==
    /\ program = "none"
    /\ program' \in {"redisDebugReader", "seqCheck", "classifier", "processing", "streamer", "bulkOrderLoad"}
    /\ UNCHANGED parts

Next ==
    \/ Choose
    \/ /\ program = "redisDebugReader"
       /\ ReaderNext
       /\ UNCHANGED <<program, seqVars, classVars, extractVars, streamVars, bulkVars>>
    \/ /\ program = "seqCheck"
       /\ SeqNext
       /\ UNCHANGED <<program, readerVars, classVars, extractVars, streamVars, bulkVars>>
    \/ /\ program = "classifier"
       /\ ClassNext
       /\ UNCHANGED <<program, readerVars, seqVars, extractVars, streamVars, bulkVars>>
    \/ /\ program = "processing"
       /\ ExtractNext
       /\ UNCHANGED <<program, readerVars, seqVars, classVars, streamVars, bulkVars>>
    \/ /\ program = "streamer"
       /\ StreamNext
       /\ UNCHANGED <<program, readerVars, seqVars, classVars, extractVars, bulkVars>>
    \/ /\ program = "bulkOrderLoad"
       /\ BulkNext
       /\ UNCHANGED <<program, readerVars, seqVars, classVars, extractVars, streamVars>>

Spec == Init /\ [][Next]_<<program, parts>> /\ ReaderFairness /\ StreamFairness

(* Every part keeps its types.                                             *)
PartsTypeOK == ReaderTypeOK /\ SeqTypeOK /\ ClassTypeOK /\ ExtractTypeOK /\ StreamTypeOK /\ BulkTypeOK
=============================================================================
