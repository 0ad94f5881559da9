----------------------------- MODULE OrderRelay -----------------------------
(***************************************************************************)
(* What a stage of the load engine that passes orders on promises: it      *)
(* delivers only orders it was asked for, never takes a delivery back, and *)
(* gives the request up ("settles" it) when every order of it has been     *)
(* delivered.  A relay looks at its request again whenever it starts, and  *)
(* the look may miss: a relay that has missed its request delivers nothing *)
(* and may settle the request all the same.  Nothing is promised about     *)
(* repeated deliveries.                                                    *)
(***************************************************************************)
EXTENDS Naturals

CONSTANT Orders

VARIABLES
    asked,      \* the orders of the request
    delivered,  \* how often each order was delivered
    settled,    \* has the request been given up
    blind       \* did the relay's last look at its request miss

vars == <<asked, delivered, settled, blind>>

Init ==
    /\ asked \in SUBSET Orders
    /\ delivered = [o \in Orders |-> 0]
    /\ settled = (asked = {})
    /\ blind = FALSE

Look ==
    /\ blind' \in BOOLEAN
    /\ UNCHANGED <<asked, delivered, settled>>

Deliver(o) ==
    /\ ~blind
    /\ o \in asked
    /\ delivered' = [delivered EXCEPT ![o] = @ + 1]
    /\ UNCHANGED <<asked, settled, blind>>

Settle ==
    /\ blind \/ \A o \in asked : delivered[o] > 0
    /\ settled' = TRUE
    /\ UNCHANGED <<asked, delivered, blind>>

Next == Look \/ (\E o \in Orders : Deliver(o)) \/ Settle

Spec == Init /\ [][Next]_vars
=============================================================================
