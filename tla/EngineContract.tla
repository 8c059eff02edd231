--------------------------- MODULE EngineContract ---------------------------
(***************************************************************************)
(* What the broker thread promises the order entry thread through the two  *)
(* queues between them, without prices, quantities or a book: which orders *)
(* are open, and which reports a request may produce before it is popped.  *)
(* MatchingEngine implements it; Exchange composes it with the order entry *)
(* thread.                                                                 *)
(***************************************************************************)
EXTENDS Integers, Sequences

CONSTANTS Ids, Clients, NoClient, QueueCapacity

VARIABLES
    from_client,    \* requests, each with msg_type, id and client
    to_client,      \* reports, each with msg_type, id, client and flags
    phase,          \* how far the front of from_client has come
    open,           \* orders taken and not yet reported as closed
    clientOf        \* the client an order was entered by

contractVars == <<from_client, to_client, phase, open, clientOf>>

Phases == {"idle", "matching", "owesFill", "owesLastFill", "rejecting", "done"}

Current == Head(from_client)

Emit(type, id, client, flags) ==
    /\ Len(to_client) < QueueCapacity
    /\ to_client' = Append(to_client, [msg_type |-> type, id |-> id, client |-> client, flags |-> flags])

Waiting(types) == phase = "idle" /\ from_client # <<>> /\ Current.msg_type \in types

TakeNewOrder ==
    /\ Waiting({"NEW_ORDER"})
    /\ phase' = "matching"
    /\ open' = open \cup {Current.id}
    /\ clientOf' = [clientOf EXCEPT ![Current.id] = Current.client]
    /\ UNCHANGED <<from_client, to_client>>

TakeChange ==
    /\ Waiting({"DELETE_ORDER", "MODIFY_ORDER"})
    /\ phase' = IF Current.id \in open THEN "matching" ELSE "rejecting"
    /\ UNCHANGED <<from_client, to_client, open, clientOf>>

\* A reject from the order entry thread comes straight back.
PassReject ==
    /\ Waiting({"REJECT"})
    /\ Emit("REJECT", Current.id, Current.client, "NONE")
    /\ phase' = "done"
    /\ UNCHANGED <<from_client, open, clientOf>>

\* A trade is two fills: the resting order's first.  When that one is partial, the
\* incoming order is filled.
FillPassive(id, flags) ==
    /\ phase = "matching" /\ Current.msg_type \in {"NEW_ORDER", "MODIFY_ORDER"}
    /\ Current.id \in open
    /\ id \in open \ {Current.id}
    /\ Emit("FILL", id, clientOf[id], flags)
    /\ open' = IF flags = "CLOSED" THEN open \ {id} ELSE open
    /\ phase' = IF flags = "CLOSED" THEN "owesFill" ELSE "owesLastFill"
    /\ UNCHANGED <<from_client, clientOf>>

FillActive(flags) ==
    /\ phase = "owesFill" \/ (phase = "owesLastFill" /\ flags = "CLOSED")
    /\ Emit("FILL", Current.id, Current.client, flags)
    /\ open' = IF flags = "CLOSED" THEN open \ {Current.id} ELSE open
    /\ phase' = "matching"
    /\ UNCHANGED <<from_client, clientOf>>

\* The order was entered or modified; when it was filled on the way, the acknowledgement
\* of a new order follows its last fill.
Acknowledge ==
    /\ phase = "matching"
    /\ \/ Current.msg_type = "NEW_ORDER"
       \/ Current.msg_type = "MODIFY_ORDER" /\ Current.id \in open
    /\ Emit("ACK", Current.id, Current.client, "NONE")
    /\ phase' = "done"
    /\ UNCHANGED <<from_client, open, clientOf>>

\* A delete, the remainder of an immediate-or-cancel order, or a modified order with
\* nothing left: that one is closed a second time when a fill has closed it.
Close ==
    /\ phase = "matching"
    /\ Current.msg_type = "MODIFY_ORDER" \/ Current.id \in open
    /\ Emit("CLOSE", Current.id, Current.client, "NONE")
    /\ open' = open \ {Current.id}
    /\ phase' = "done"
    /\ UNCHANGED <<from_client, clientOf>>

\* An immediate-or-cancel order that was filled is not acknowledged.
FinishSilently ==
    /\ phase = "matching"
    /\ Current.msg_type = "NEW_ORDER" /\ Current.id \notin open
    /\ phase' = "done"
    /\ UNCHANGED <<from_client, to_client, open, clientOf>>

Reject ==
    /\ phase = "rejecting"
    /\ Emit("REJECT", Current.id, Current.client, "NONE")
    /\ phase' = "done"
    /\ UNCHANGED <<from_client, open, clientOf>>

Pop ==
    /\ phase = "done"
    /\ from_client' = Tail(from_client)
    /\ phase' = "idle"
    /\ UNCHANGED <<to_client, open, clientOf>>

EngineStep ==
    \/ TakeNewOrder \/ TakeChange \/ PassReject
    \/ \E id \in open, flags \in {"PARTIAL_FILL", "CLOSED"} : FillPassive(id, flags)
    \/ \E flags \in {"PARTIAL_FILL", "CLOSED"} : FillActive(flags)
    \/ Acknowledge \/ Close \/ FinishSilently \/ Reject
    \/ Pop

\* The other ends of the queues.
Enqueued ==
    /\ Len(from_client) < QueueCapacity
    /\ Len(from_client') = Len(from_client) + 1
    /\ SubSeq(from_client', 1, Len(from_client)) = from_client
    /\ UNCHANGED <<to_client, phase, open, clientOf>>
Drained ==
    /\ to_client # <<>> /\ to_client' = Tail(to_client)
    /\ UNCHANGED <<from_client, phase, open, clientOf>>

ContractInit ==
    /\ from_client = <<>> /\ to_client = <<>>
    /\ phase = "idle"
    /\ open = {}
    /\ clientOf = [id \in Ids |-> NoClient]

ContractSpec == ContractInit /\ [][EngineStep \/ Enqueued \/ Drained]_contractVars
=============================================================================
