---------------------------- MODULE OrderExtract ----------------------------
(***************************************************************************)
(* src/tools/processing.go: picks the order requests out of a dump of the  *)
(* message stream and prints each with the symbol of its security, looked  *)
(* up in a table that is kept up to date by hand.  The dump is read once,  *)
(* the table again for each order.  Both are read by a scanner that stops  *)
(* at a line too long for it; the error is printed, and the program goes   *)
(* on with what was read.                                                  *)
(***************************************************************************)
EXTENDS Integers, Sequences, SequencesExt

CONSTANTS
    Dumps,     \* what in-msg.txt may hold
    Tables,    \* what securities.csv may hold; <<>> also if there is none
    MaxUpdates \* bound on the updates of the table between two orders

(* The lines of a dump: a request with an order for a security, one cut    *)
(* off before its fourth field, any other message (trade states among      *)
(* them), and a line too long, whatever is in it.  The rows of the table:  *)
(* a security and its symbol, a stray request, which is passed over, a row *)
(* without a comma (a blank one, say), and one too long.                   *)
DumpKinds == {"order", "cut off", "other", "too long"}
RowKinds == {"symbol", "request", "no comma", "too long"}

ASSUME ExtractAssumption ==
    /\ \A file \in Dumps \cup Tables : file \in Seq(Range(file))
    /\ \A file \in Dumps : \A k \in DOMAIN file : file[k].kind \in DumpKinds
    /\ \A file \in Tables : \A k \in DOMAIN file : file[k].kind \in RowKinds
    /\ MaxUpdates \in Nat

VARIABLES
    extract, \* "start" | "loop" | "done" | "panic"
    dump,    \* the file
    theData, \* its lines, as scanned
    line,    \* lines gone through
    table,   \* the rows of securities.csv, now
    printed, \* the orders printed: the number of the line, the symbol
    updates  \* updates of the table since the last order printed

extractVars == <<extract, dump, theData, line, table, printed, updates>>

ExtractTypeOK ==
    /\ extract \in {"start", "loop", "done", "panic"}
    /\ dump \in Dumps \cup {<<>>}
    /\ IsPrefix(theData, dump)
    /\ line \in 0..Len(theData)
    /\ table \in Tables \cup {<<>>}
    /\ Len(printed) <= line
    /\ updates \in 0..MaxUpdates
-----------------------------------------------------------------------------
(* The variant before a definition is a slip that a property must catch.   *)

(* readLines: the lines before the first that is too long                  *)
LongLinesSkipped(file) == SelectSeq(file, LAMBDA l : l.kind # "too long")
ReadLines(file) ==
    LET long == SelectInSeq(file, LAMBDA l : l.kind = "too long")
    IN  IF long = 0 THEN file ELSE SubSeq(file, 1, long - 1)

(* lookupSymbols indexes data[1] of every row but the requests             *)
Unsplittable == \E k \in DOMAIN ReadLines(table) : ReadLines(table)[k].kind = "no comma"

(* s[securityId] = symbol: a later row replaces an earlier one; "" if none *)
RowOf(security) == SelectLastInSeq(ReadLines(table), LAMBDA r : r.kind = "symbol" /\ r.security = security)
FirstRowOf(security) == SelectInSeq(ReadLines(table), LAMBDA r : r.kind = "symbol" /\ r.security = security)
FirstRowWins(security) == IF FirstRowOf(security) = 0 THEN "" ELSE ReadLines(table)[FirstRowOf(security)].symbol
LookupSymbol(security) == IF RowOf(security) = 0 THEN "" ELSE ReadLines(table)[RowOf(security)].symbol

(* NewOrderSingleRequest and not TradeState                                *)
IsRequest(message) == message.kind \in {"order", "cut off"}
-----------------------------------------------------------------------------
ExtractInit ==
    /\ extract = "start"
    /\ dump = <<>>
    /\ theData = <<>>
    /\ line = 0
    /\ table = <<>>
    /\ printed = <<>>
    /\ updates = 0

ReadDump ==
    /\ extract = "start"
    /\ dump' \in Dumps \cup {<<>>}
    /\ theData' = ReadLines(dump')
    /\ table' \in Tables \cup {<<>>}
    /\ extract' = "loop"
    /\ UNCHANGED <<line, printed, updates>>

Message == theData[line + 1]

SkipMessage ==
    /\ extract = "loop"
    /\ line < Len(theData)
    /\ ~IsRequest(Message)
    /\ line' = line + 1
    /\ UNCHANGED <<extract, dump, theData, table, printed, updates>>

(* parseOrderData and fillInTheBlanks.                                     *)
PrintOrder ==
    /\ extract = "loop"
    /\ line < Len(theData)
    /\ IsRequest(Message)
    /\ Message.kind # "cut off"
    /\ ~Unsplittable
    /\ printed' = Append(printed, [line |-> line + 1, symbol |-> LookupSymbol(Message.security)])
    /\ line' = line + 1
    /\ updates' = 0
    /\ UNCHANGED <<extract, dump, theData, table>>

(* dataString[3] or data[1] is out of range.                               *)
Panic ==
    /\ extract = "loop"
    /\ line < Len(theData)
    /\ IsRequest(Message)
    /\ Message.kind = "cut off" \/ Unsplittable
    /\ extract' = "panic"
    /\ UNCHANGED <<dump, theData, line, table, printed, updates>>

EndOfData ==
    /\ extract = "loop"
    /\ line = Len(theData)
    /\ extract' = "done"
    /\ UNCHANGED <<dump, theData, line, table, printed, updates>>

(* "the source .csv file needs to be updated periodically by hand"         *)
UpdateTable ==
    /\ extract = "loop"
    /\ updates < MaxUpdates
    /\ table' \in Tables \cup {<<>>}
    /\ updates' = updates + 1
    /\ UNCHANGED <<extract, dump, theData, line, printed>>

ExtractNext ==
    \/ ReadDump \/ SkipMessage \/ PrintOrder \/ Panic \/ EndOfData
    \/ UpdateTable

ExtractSpec == ExtractInit /\ [][ExtractNext]_extractVars
-----------------------------------------------------------------------------
LastPrinted == printed[Len(printed)]

(* What is printed, at any moment and however the program ends, is every   *)
(* order of the lines gone through, once each and in their order; of a     *)
(* dump with a line too long, nothing that comes after it.  The symbol is  *)
(* the last that the table, as it is at that order, gives for the security,*)
(* and none if it gives none before a row too long.                        *)
ExtractedOrders ==
    LET reached == {k \in 1..line : \A j \in 1..k : dump[j].kind # "too long"}
        rowsFor == {k \in DOMAIN table :
                       /\ table[k].kind = "symbol"
                       /\ table[k].security = dump[LastPrinted.line].security
                       /\ \A j \in 1..k : table[j].kind # "too long"}
    IN  /\ {printed[k].line : k \in DOMAIN printed} = {k \in reached : dump[k].kind = "order"}
        /\ \A j, k \in DOMAIN printed : j < k => printed[j].line < printed[k].line
        /\ (printed # <<>> /\ updates = 0) =>
              IF rowsFor = {} THEN LastPrinted.symbol = ""
              ELSE \E k \in rowsFor : (\A j \in rowsFor : j <= k) /\ LastPrinted.symbol = table[k].symbol
=============================================================================
