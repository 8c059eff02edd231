--------------------------- MODULE ExchangeProofs ---------------------------
(***************************************************************************)
(* The exchange process, for any sockets, clients and order ids and for    *)
(* queues of any capacity.                                                 *)
(*                                                                         *)
(* A request is in one pipe from the handler that made it to the broker:   *)
(* the queue from_client and behind it the outbox of the running handler.  *)
(* The invariant follows an order through it.  Until the broker has closed *)
(* it, the order is in both order maps under the session it was entered    *)
(* on, or its cancel is behind it in the pipe.                             *)
(***************************************************************************)
EXTENDS Exchange, FiniteSetTheorems, SequenceTheorems, TLAPS

-----------------------------------------------------------------------------
(* Types. *)

Requests ==
    {p \in [msg_type : {"NEW_ORDER", "DELETE_ORDER", "MODIFY_ORDER", "REJECT"},
            id : Ids \cup OrderIds, client : Clients] : p.msg_type # "REJECT" => p.id \in Ids}
Reports ==
    {r \in [msg_type : {"ACK", "CLOSE", "REJECT", "FILL"}, id : Ids \cup OrderIds,
            client : Clients, flags : {"NONE", "PARTIAL_FILL", "CLOSED"}] :
        r.msg_type # "REJECT" => r.id \in Ids}
Entries == [client : Clients, order_id : OrderIds]

QueuesOK ==
    /\ from_client \in Seq(Requests) /\ Len(from_client) <= QueueCapacity
    /\ to_client \in Seq(Reports) /\ Len(to_client) <= QueueCapacity
    /\ outbox \in Seq(Requests)

SessionLayerOK ==
    /\ sock_to_session_info \in [Sockets -> Clients \cup {NoClient}]
    /\ client_to_sock_fd \in [Clients -> Sockets \cup {NoSocket}]
    /\ client_to_open_orders \in [Clients -> [OrderIds -> 0..MaxOrders]]
    /\ exch_to_client_orders \in [Ids -> Entries \cup {NoEntry}]
    /\ conn \subseteq Sockets
    /\ pc \in {"poll", "reading", "process", "pop"}
    /\ fd \in Sockets \cup {NoSocket} /\ (pc = "reading" => fd \in Sockets)
    /\ pc = "pop" => to_client # <<>>
    /\ clock \in 0..MaxOrders
    /\ entered \in [Ids -> Sockets \cup {NoSocket}] /\ ended \subseteq Ids

BrokerOK ==
    /\ phase \in Engine!Phases /\ open \subseteq Ids
    /\ clientOf \in [Ids -> Clients \cup {NoClient}]
    /\ \A id \in open : clientOf[id] # NoClient
    /\ phase # "idle" => from_client # <<>>
    /\ phase = "matching" => Head(from_client).msg_type # "REJECT"
    /\ phase \in {"owesFill", "owesLastFill"} => Head(from_client).msg_type \in {"NEW_ORDER", "MODIFY_ORDER"}

TypeInv == QueuesOK /\ SessionLayerOK /\ BrokerOK

-----------------------------------------------------------------------------
(* Sessions. *)

\* Only the socket that is being read may have a session and be closed.
SessionsOpen ==
    \A s \in Sockets : sock_to_session_info[s] # NoClient => s \in conn \/ (pc = "reading" /\ s = fd)

SessionInv == SessionsAgree /\ SessionsOpen

-----------------------------------------------------------------------------
(* Orders. *)

Pipe == from_client \o outbox
Taken(i) == i = 1 /\ phase # "idle"
IsNew(i) == Pipe[i].msg_type = "NEW_ORDER"
IsDelete(i) == Pipe[i].msg_type = "DELETE_ORDER"

\* What is in the pipe: each order is entered once, before its cancels, and unknown to
\* the broker until it is taken.
PipeOK ==
    /\ \A i \in DOMAIN Pipe : Pipe[i].msg_type # "REJECT" => Pipe[i].id <= clock
    /\ \A i, j \in DOMAIN Pipe :
          IsNew(i) /\ Pipe[i].id = Pipe[j].id =>
             /\ IsNew(j) => i = j
             /\ IsDelete(j) => i < j
    /\ \A i \in DOMAIN Pipe :
          IsNew(i) => clientOf[Pipe[i].id] = IF Taken(i) THEN Pipe[i].client ELSE NoClient

Reported(id) == \E i \in DOMAIN to_client : to_client[i].id = id /\ Closes(to_client[i])
Deleting(id) == \E i \in DOMAIN Pipe : IsDelete(i) /\ Pipe[i].id = id

\* What the broker has reported closed stays closed; a cancel is answered when the order
\* is not open any more.
ClosedOK ==
    /\ \A id \in Ids : clientOf[id] # NoClient => id <= clock
    /\ \A id \in Ids : Reported(id) => clientOf[id] # NoClient /\ id \notin open
    /\ phase \in {"matching", "owesFill", "owesLastFill"} => clientOf[Head(from_client).id] # NoClient
    /\ phase \in {"rejecting", "done"} /\ Head(from_client).msg_type = "DELETE_ORDER" =>
          Head(from_client).id \notin open

\* The order maps agree with each other and with the broker.
MapsOK ==
    /\ \A c \in Clients, oid \in OrderIds :
          client_to_open_orders[c][oid] # 0 =>
             exch_to_client_orders[client_to_open_orders[c][oid]] = Entry(c, oid)
    /\ \A id \in Ids : exch_to_client_orders[id] # NoEntry => id <= clock
    /\ \A id, other \in Ids :
          exch_to_client_orders[id] = exch_to_client_orders[other] /\ exch_to_client_orders[id] # NoEntry
             => id = other
    /\ \A id \in Ids : Tracked(id) => id \in open \/ clientOf[id] = NoClient \/ Reported(id)
    /\ pc = "pop" /\ Closes(Head(to_client)) => exch_to_client_orders[Head(to_client).id] = NoEntry

\* The order can trade, now or when the broker takes it.
Alive(id, c) ==
    \/ id \in open /\ clientOf[id] = c
    \/ \E i \in DOMAIN Pipe : IsNew(i) /\ ~Taken(i) /\ Pipe[i].id = id /\ Pipe[i].client = c

\* The session of client c is responsible for the order: it was entered on the session's
\* socket, or on the one being read, which a handler has closed.
Mine(id, c) ==
    /\ Tracked(id) /\ exch_to_client_orders[id].client = c
    /\ \/ entered[id] # NoSocket /\ sock_to_session_info[entered[id]] = c
       \/ id \in ended /\ pc = "reading" /\ fd \notin conn /\ sock_to_session_info[fd] = c

OrdersOK ==
    /\ \A id \in Ids : entered[id] # NoSocket \/ id \in ended => id <= clock
    /\ \A id \in ended : entered[id] = NoSocket
    /\ \A id \in Ids, c \in Clients : Alive(id, c) => Deleting(id) \/ Mine(id, c)

OrderInv == PipeOK /\ ClosedOK /\ MapsOK /\ OrdersOK

-----------------------------------------------------------------------------
(* Lemmas about the operators. *)

\* A listing of a finite set has every element of it, and no others.
LEMMA ListingLists ==
    ASSUME NEW S, IsFiniteSet(S), NEW listing \in Seqs!SetToSeqs(S)
    PROVE  listing \in Seq(S) /\ \A x \in S : \E i \in DOMAIN listing : listing[i] = x
  <1> DEFINE n == Cardinality(S)
  <1>1. n \in Nat
    BY FS_CardinalityType
  <1>2. listing \in [1..n -> S] /\ \A i, j \in 1..n : i # j => listing[i] # listing[j]
    <2>1. Seqs!Cardinality(S) = Cardinality(S)
      BY DEF Seqs!Cardinality, Cardinality
    <2>2. QED
      BY <2>1 DEF Seqs!SetToSeqs
  <1>3. listing \in Injection(1..n, S)
    BY <1>2 DEF Injection, IsInjective
  <1>4. Cardinality(1..n) = n
    BY <1>1, FS_Interval
  <1>5. listing \in Surjection(1..n, S)
    BY <1>3, <1>4, FS_Injection
  <1>6. listing \in Seq(S)
    BY <1>1, <1>2
  <1>7. QED
    BY <1>2, <1>5, <1>6 DEF Surjection

\* The requests o cancel the open orders of one client, given by order id.
Cancels(openOrders, o) ==
    /\ o \in Seq(Requests)
    /\ \A i \in DOMAIN o : /\ o[i].msg_type = "DELETE_ORDER"
                           /\ \E oid \in OrderIds : o[i].id = openOrders[oid] /\ openOrders[oid] # 0
    /\ \A oid \in OrderIds : openOrders[oid] # 0 => \E i \in DOMAIN o : o[i].id = openOrders[oid]

\* cancel_all_client_orders cancels all of them.
LEMMA CancelAllCancels ==
    ASSUME NEW c \in Clients, client_to_open_orders[c] \in [OrderIds -> 0..MaxOrders], CancelAll(c)
    PROVE  Cancels(client_to_open_orders[c], outbox')
  <1> DEFINE S == {client_to_open_orders[c][oid] : oid \in OrderIds} \ {0}
  <1>1. S \subseteq Ids /\ MaxOrders \in Nat
    BY HandlerAssumption DEF Ids
  <1>2. IsFiniteSet(S)
    <2>1. IsFiniteSet(Ids)
      BY <1>1, FS_Interval DEF Ids
    <2>2. QED
      BY <1>1, <2>1, FS_Subset
  <1>3. PICK listing \in Seqs!SetToSeqs(S) :
          outbox' = [i \in DOMAIN listing |-> PayloadOf("DELETE_ORDER", listing[i], c)]
    BY DEF CancelAll
  <1>4. listing \in Seq(S) /\ \A x \in S : \E i \in DOMAIN listing : listing[i] = x
    <2> HIDE DEF S
    <2>1. QED
      BY <1>2, <1>3, ListingLists
  <1>5. ASSUME NEW i \in DOMAIN listing
        PROVE  /\ listing[i] \in S
               /\ PayloadOf("DELETE_ORDER", listing[i], c) \in Requests
    BY <1>1, <1>4 DEF PayloadOf, Requests
  <1>6. outbox' \in Seq(Requests) /\ DOMAIN outbox' = DOMAIN listing
    BY <1>3, <1>4, <1>5
  <1>7. \A i \in DOMAIN listing : outbox'[i].msg_type = "DELETE_ORDER" /\ outbox'[i].id = listing[i]
    BY <1>3 DEF PayloadOf
  <1>8. ASSUME NEW i \in DOMAIN listing
        PROVE  \E oid \in OrderIds : /\ outbox'[i].id = client_to_open_orders[c][oid]
                                    /\ client_to_open_orders[c][oid] # 0
    BY <1>5, <1>7
  <1>9. ASSUME NEW oid \in OrderIds, client_to_open_orders[c][oid] # 0
        PROVE  \E i \in DOMAIN listing : outbox'[i].id = client_to_open_orders[c][oid]
    <2>1. client_to_open_orders[c][oid] \in S
      BY <1>9
    <2> HIDE DEF S
    <2>2. QED
      BY <1>4, <1>7, <2>1
  <1>10. QED
    BY <1>6, <1>7, <1>8, <1>9 DEF Cancels

\* An entry of the order map is not the mark of absence.
LEMMA EntryIsNot ==
    ASSUME NEW e \in Entries \cup {NoEntry}
    PROVE  e # NoEntry <=> e \in Entries
  BY HandlerAssumption DEF Entries, NoEntry

\* The entry of a client's order.
LEMMA EntryFields ==
    ASSUME NEW c, NEW oid
    PROVE  /\ Entry(c, oid).client = c /\ Entry(c, oid).order_id = oid
           /\ c \in Clients /\ oid \in OrderIds => Entry(c, oid) \in Entries /\ Entry(c, oid) # NoEntry
  BY HandlerAssumption DEF Entry, Entries, NoEntry

\* A handler that ends the session on s has its open orders cancelled.
LEMMA SocketClosed ==
    ASSUME SessionLayerOK, NEW s \in Sockets, OnSocketClosed(s)
    PROVE  LET c == sock_to_session_info[s] IN
           /\ outbox' \in Seq(Requests)
           /\ OpenOrdersAfter(s) \in [Clients -> [OrderIds -> 0..MaxOrders]]
           /\ sock_to_session_info' = [sock_to_session_info EXCEPT ![s] = NoClient]
           /\ c = NoClient => /\ outbox' = <<>> /\ OpenOrdersAfter(s) = client_to_open_orders
                              /\ client_to_sock_fd' = client_to_sock_fd
           /\ c # NoClient => /\ c \in Clients
                              /\ Cancels(client_to_open_orders[c], outbox')
                              /\ OpenOrdersAfter(s) = OpenOrdersWithout(c)
                              /\ client_to_sock_fd' = [client_to_sock_fd EXCEPT ![c] = NoSocket]
  <1> DEFINE c == sock_to_session_info[s]
  <1>1. CASE c = NoClient
    BY <1>1 DEF SessionLayerOK, OnSocketClosed, OpenOrdersAfter, sessions
  <1>2. CASE c # NoClient
    <2>1. c \in Clients /\ client_to_open_orders[c] \in [OrderIds -> 0..MaxOrders]
      BY <1>2 DEF SessionLayerOK
    <2>2. Cancels(client_to_open_orders[c], outbox')
      BY <1>2, <2>1, CancelAllCancels DEF OnSocketClosed
    <2>3. OpenOrdersAfter(s) \in [Clients -> [OrderIds -> 0..MaxOrders]]
      BY <1>2, <2>1, HandlerAssumption DEF OpenOrdersAfter, OpenOrdersWithout, NoOpenOrders, SessionLayerOK
    <2>4. QED
      BY <1>2, <2>1, <2>2, <2>3 DEF OnSocketClosed, OpenOrdersAfter, Cancels
  <1>3. QED
    BY <1>1, <1>2

\* Closing sockets keeps the types of what it changes.
LEMMA CloseTypes ==
    ASSUME SessionLayerOK, NEW S \in SUBSET Sockets, CloseSockets(S)
    PROVE  /\ conn' \subseteq Sockets
           /\ entered' \in [Ids -> Sockets \cup {NoSocket}] /\ ended' \subseteq Ids
  BY DEF SessionLayerOK, CloseSockets

-----------------------------------------------------------------------------
(* Types. *)

\* A report is appended when there is room.
LEMMA EmitTypes ==
    ASSUME QueuesOK, NEW type \in {"ACK", "CLOSE", "REJECT", "FILL"}, NEW id \in Ids \cup OrderIds,
           type # "REJECT" => id \in Ids, NEW c \in Clients,
           NEW flags \in {"NONE", "PARTIAL_FILL", "CLOSED"}, Engine!Emit(type, id, c, flags)
    PROVE  to_client' \in Seq(Reports) /\ Len(to_client') <= QueueCapacity /\ to_client' # <<>>
  <1> DEFINE r == [msg_type |-> type, id |-> id, client |-> c, flags |-> flags]
  <1>1. r \in Reports
    BY DEF Reports
  <1>2. to_client \in Seq(Reports) /\ Len(to_client) \in Nat /\ QueueCapacity \in Nat
    BY HandlerAssumption DEF QueuesOK
  <1>3. Len(to_client) < QueueCapacity /\ to_client' = Append(to_client, r)
    BY DEF Engine!Emit
  <1> HIDE DEF r
  <1>4. QED
    BY <1>1, <1>2, <1>3

\* The front of the queue is a request.
LEMMA FrontTypes ==
    ASSUME QueuesOK, from_client # <<>>
    PROVE  LET p == Head(from_client) IN
           /\ p \in Requests /\ p.client \in Clients /\ p.id \in Ids \cup OrderIds
           /\ p.msg_type \in {"NEW_ORDER", "DELETE_ORDER", "MODIFY_ORDER", "REJECT"}
           /\ p.msg_type # "REJECT" => p.id \in Ids
           /\ Tail(from_client) \in Seq(Requests) /\ Len(Tail(from_client)) <= QueueCapacity
  <1>1. from_client \in Seq(Requests) /\ Head(from_client) \in Requests
    BY DEF QueuesOK
  <1>2. Tail(from_client) \in Seq(Requests) /\ Len(Tail(from_client)) <= QueueCapacity
    BY <1>1, HandlerAssumption DEF QueuesOK
  <1>3. QED
    BY <1>1, <1>2 DEF Requests

\* The broker thread keeps the types.
LEMMA BrokerTypes == ASSUME TypeInv, BrokerThread PROVE TypeInv'
  <1> USE DEF TypeInv
  <1>1. /\ UNCHANGED <<sock_to_session_info, client_to_sock_fd, client_to_open_orders>>
        /\ UNCHANGED <<exch_to_client_orders, outbox, conn, pc, fd, clock, entered, ended>>
    BY DEF BrokerThread, sessions, orderMaps, history
  <1>2. Engine!EngineStep
    BY DEF BrokerThread
  <1> DEFINE p == Head(from_client)
  <1>3. ASSUME from_client # <<>>
        PROVE  /\ p.client \in Clients /\ p.id \in Ids \cup OrderIds
               /\ p.msg_type \in {"NEW_ORDER", "DELETE_ORDER", "MODIFY_ORDER", "REJECT"}
               /\ p.msg_type # "REJECT" => p.id \in Ids
               /\ Tail(from_client) \in Seq(Requests) /\ Len(Tail(from_client)) <= QueueCapacity
    BY <1>3, FrontTypes
  <1>4. phase \in Engine!Phases /\ open \subseteq Ids /\ clientOf \in [Ids -> Clients \cup {NoClient}]
    BY DEF BrokerOK
  <1> HIDE DEF p
  <1>5. CASE Engine!TakeNewOrder
    <2>1. /\ from_client # <<>> /\ p.msg_type = "NEW_ORDER" /\ phase' = "matching"
          /\ open' = open \cup {p.id} /\ clientOf' = [clientOf EXCEPT ![p.id] = p.client]
          /\ UNCHANGED <<from_client, to_client>>
      BY <1>5 DEF Engine!TakeNewOrder, Engine!Waiting, Engine!Current, p
    <2>2. BrokerOK'
      BY <1>3, <1>4, <2>1, HandlerAssumption DEF BrokerOK, Engine!Phases, p
    <2>3. QED
      BY <1>1, <2>1, <2>2 DEF QueuesOK, SessionLayerOK
  <1>6. CASE Engine!TakeChange
    <2>1. /\ from_client # <<>> /\ p.msg_type \in {"DELETE_ORDER", "MODIFY_ORDER"}
          /\ phase' \in {"matching", "rejecting"} /\ UNCHANGED <<from_client, to_client, open, clientOf>>
      BY <1>6 DEF Engine!TakeChange, Engine!Waiting, Engine!Current, p
    <2>2. BrokerOK'
      BY <1>4, <2>1 DEF BrokerOK, Engine!Phases, p
    <2>3. QED
      BY <1>1, <2>1, <2>2 DEF QueuesOK, SessionLayerOK
  <1>7. CASE Engine!PassReject
    <2>1. /\ from_client # <<>> /\ Engine!Emit("REJECT", p.id, p.client, "NONE")
          /\ phase' = "done" /\ UNCHANGED <<from_client, open, clientOf>>
      BY <1>7 DEF Engine!PassReject, Engine!Waiting, Engine!Current, p
    <2>2. to_client' \in Seq(Reports) /\ Len(to_client') <= QueueCapacity /\ to_client' # <<>>
      BY <1>3, <2>1, EmitTypes
    <2>3. QED
      BY <1>1, <1>4, <2>1, <2>2 DEF QueuesOK, SessionLayerOK, BrokerOK, Engine!Phases
  <1>8. ASSUME NEW id \in open, NEW flags \in {"PARTIAL_FILL", "CLOSED"}, Engine!FillPassive(id, flags)
        PROVE  TypeInv'
    <2>1. /\ phase = "matching" /\ p.msg_type \in {"NEW_ORDER", "MODIFY_ORDER"}
          /\ Engine!Emit("FILL", id, clientOf[id], flags)
          /\ open' \subseteq open /\ phase' \in {"owesFill", "owesLastFill"}
          /\ UNCHANGED <<from_client, clientOf>>
      BY <1>8 DEF Engine!FillPassive, Engine!Current, p
    <2>2. id \in Ids /\ clientOf[id] \in Clients
      BY <1>4 DEF BrokerOK
    <2>3. to_client' \in Seq(Reports) /\ Len(to_client') <= QueueCapacity /\ to_client' # <<>>
      BY <2>1, <2>2, EmitTypes
    <2>4. QED
      BY <1>1, <1>4, <2>1, <2>3 DEF QueuesOK, SessionLayerOK, BrokerOK, Engine!Phases, p
  <1>9. ASSUME NEW flags \in {"PARTIAL_FILL", "CLOSED"}, Engine!FillActive(flags) PROVE TypeInv'
    <2>1. /\ phase \in {"owesFill", "owesLastFill"}
          /\ Engine!Emit("FILL", p.id, p.client, flags)
          /\ open' \subseteq open /\ phase' = "matching" /\ UNCHANGED <<from_client, clientOf>>
      BY <1>9 DEF Engine!FillActive, Engine!Current, p
    <2>2. from_client # <<>> /\ p.msg_type \in {"NEW_ORDER", "MODIFY_ORDER"}
      BY <2>1 DEF BrokerOK, p
    <2>3. to_client' \in Seq(Reports) /\ Len(to_client') <= QueueCapacity /\ to_client' # <<>>
      BY <1>3, <2>1, <2>2, EmitTypes
    <2>4. QED
      BY <1>1, <1>4, <2>1, <2>2, <2>3 DEF QueuesOK, SessionLayerOK, BrokerOK, Engine!Phases, p
  <1>10. CASE Engine!Acknowledge
    <2>1. /\ phase = "matching" /\ Engine!Emit("ACK", p.id, p.client, "NONE")
          /\ phase' = "done" /\ UNCHANGED <<from_client, open, clientOf>>
      BY <1>10 DEF Engine!Acknowledge, Engine!Current, p
    <2>2. from_client # <<>> /\ p.msg_type # "REJECT"
      BY <2>1 DEF BrokerOK, p
    <2>3. to_client' \in Seq(Reports) /\ Len(to_client') <= QueueCapacity /\ to_client' # <<>>
      BY <1>3, <2>1, <2>2, EmitTypes
    <2>4. QED
      BY <1>1, <1>4, <2>1, <2>2, <2>3 DEF QueuesOK, SessionLayerOK, BrokerOK, Engine!Phases
  <1>11. CASE Engine!Close
    <2>1. /\ phase = "matching" /\ Engine!Emit("CLOSE", p.id, p.client, "NONE")
          /\ open' \subseteq open /\ phase' = "done" /\ UNCHANGED <<from_client, clientOf>>
      BY <1>11 DEF Engine!Close, Engine!Current, p
    <2>2. from_client # <<>> /\ p.msg_type # "REJECT"
      BY <2>1 DEF BrokerOK, p
    <2>3. to_client' \in Seq(Reports) /\ Len(to_client') <= QueueCapacity /\ to_client' # <<>>
      BY <1>3, <2>1, <2>2, EmitTypes
    <2>4. QED
      BY <1>1, <1>4, <2>1, <2>2, <2>3 DEF QueuesOK, SessionLayerOK, BrokerOK, Engine!Phases
  <1>12. CASE Engine!FinishSilently
    BY <1>1, <1>4, <1>12 DEF Engine!FinishSilently, QueuesOK, SessionLayerOK, BrokerOK, Engine!Phases
  <1>13. CASE Engine!Reject
    <2>1. /\ phase = "rejecting" /\ Engine!Emit("REJECT", p.id, p.client, "NONE")
          /\ phase' = "done" /\ UNCHANGED <<from_client, open, clientOf>>
      BY <1>13 DEF Engine!Reject, Engine!Current, p
    <2>2. from_client # <<>>
      BY <2>1 DEF BrokerOK
    <2>3. to_client' \in Seq(Reports) /\ Len(to_client') <= QueueCapacity /\ to_client' # <<>>
      BY <1>3, <2>1, <2>2, EmitTypes
    <2>4. QED
      BY <1>1, <1>4, <2>1, <2>2, <2>3 DEF QueuesOK, SessionLayerOK, BrokerOK, Engine!Phases
  <1>14. CASE Engine!Pop
    <2>1. /\ phase = "done" /\ from_client' = Tail(from_client) /\ phase' = "idle"
          /\ UNCHANGED <<to_client, open, clientOf>>
      BY <1>14 DEF Engine!Pop
    <2>2. from_client # <<>>
      BY <2>1 DEF BrokerOK
    <2>3. QED
      BY <1>1, <1>3, <1>4, <2>1, <2>2 DEF QueuesOK, SessionLayerOK, BrokerOK, Engine!Phases
  <1>15. QED
    BY <1>2, <1>5, <1>6, <1>7, <1>8, <1>9, <1>10, <1>11, <1>12, <1>13, <1>14 DEF Engine!EngineStep

\* What a handler changes has its type.
Handled ==
    /\ outbox' \in Seq(Requests)
    /\ sock_to_session_info' \in [Sockets -> Clients \cup {NoClient}]
    /\ client_to_sock_fd' \in [Clients -> Sockets \cup {NoSocket}]
    /\ client_to_open_orders' \in [Clients -> [OrderIds -> 0..MaxOrders]]
    /\ exch_to_client_orders' \in [Ids -> Entries \cup {NoEntry}]
    /\ conn' \subseteq Sockets
    /\ clock' \in 0..MaxOrders
    /\ entered' \in [Ids -> Sockets \cup {NoSocket}] /\ ended' \subseteq Ids

\* A step that changes none of it is well typed.
LEMMA NothingHandled ==
    ASSUME TypeInv, UNCHANGED <<sessions, orderMaps, outbox, conn, entered, ended, clock>>
    PROVE  Handled
  BY DEF TypeInv, QueuesOK, SessionLayerOK, Handled, sessions, orderMaps

\* Ending a session and closing its sockets keeps the types.
LEMMA DisconnectTypes ==
    ASSUME TypeInv, NEW s \in Sockets, NEW S \in SUBSET Sockets, OnSocketClosed(s), CloseSockets(S),
           client_to_open_orders' = OpenOrdersAfter(s), UNCHANGED <<exch_to_client_orders, clock>>
    PROVE  Handled
  <1>1. SessionLayerOK
    BY DEF TypeInv
  <1>2. /\ conn' \subseteq Sockets
        /\ entered' \in [Ids -> Sockets \cup {NoSocket}] /\ ended' \subseteq Ids
    BY <1>1, CloseTypes
  <1>3. /\ outbox' \in Seq(Requests)
        /\ client_to_open_orders' \in [Clients -> [OrderIds -> 0..MaxOrders]]
        /\ sock_to_session_info' \in [Sockets -> Clients \cup {NoClient}]
        /\ client_to_sock_fd' \in [Clients -> Sockets \cup {NoSocket}]
    BY <1>1, SocketClosed DEF SessionLayerOK
  <1>4. QED
    BY <1>1, <1>2, <1>3 DEF SessionLayerOK, Handled

\* on_login keeps the types, whatever its outcome.
LEMMA LoginTypes ==
    ASSUME TypeInv, Running("reading"), NEW c \in Clients, NEW valid \in BOOLEAN, OnLogin(c, valid)
    PROVE  Handled
  <1>1. SessionLayerOK /\ fd \in Sockets /\ outbox = <<>> /\ UNCHANGED <<exch_to_client_orders, clock>>
    BY DEF TypeInv, SessionLayerOK, Running, OnLogin
  <1> DEFINE other == client_to_sock_fd[c]
  <1>2. CASE LoginRefused
    <2>1. /\ conn' \subseteq Sockets
          /\ entered' \in [Ids -> Sockets \cup {NoSocket}] /\ ended' \subseteq Ids
      BY <1>1, <1>2, CloseTypes DEF LoginRefused
    <2>2. QED
      BY <1>1, <1>2, <2>1 DEF LoginRefused, TypeInv, QueuesOK, SessionLayerOK, Handled, sessions
  <1>3. CASE LoginAccepted(c)
    BY <1>1, <1>3 DEF LoginAccepted, TypeInv, QueuesOK, SessionLayerOK, Handled, sessions
  <1>4. CASE LoginUnanswered(c)
    <2>1. /\ conn' \subseteq Sockets
          /\ entered' \in [Ids -> Sockets \cup {NoSocket}] /\ ended' \subseteq Ids
      BY <1>1, <1>4, CloseTypes DEF LoginUnanswered
    <2>2. outbox' \in Seq(Requests)
      BY <1>1, <1>4, CancelAllCancels DEF LoginUnanswered, SessionLayerOK, Cancels
    <2>3. client_to_open_orders' \in [Clients -> [OrderIds -> 0..MaxOrders]]
      BY <1>1, <1>4, HandlerAssumption DEF LoginUnanswered, OpenOrdersWithout, NoOpenOrders, SessionLayerOK
    <2>4. sock_to_session_info' \in [Sockets -> Clients \cup {NoClient}]
      BY <1>1, <1>4 DEF LoginUnanswered, SessionLayerOK
    <2>5. QED
      BY <1>1, <1>4, <2>1, <2>2, <2>3, <2>4 DEF LoginUnanswered, SessionLayerOK, Handled
  <1>5. CASE other # NoSocket /\ LoginDuplicate(other)
    <2>1. other \in Sockets
      BY <1>1, <1>5 DEF SessionLayerOK
    <2>2. QED
      BY <1>1, <1>5, <2>1, DisconnectTypes DEF LoginDuplicate
  <1>6. CASE UNCHANGED <<sessions, client_to_open_orders, outbox, conn, entered, ended>>
    BY <1>1, <1>6, NothingHandled DEF orderMaps
  <1>7. QED
    BY <1>2, <1>3, <1>4, <1>5, <1>6 DEF OnLogin, Authenticated

\* A client's requests become requests to the broker.
LEMMA OneRequest ==
    ASSUME NEW type \in {"NEW_ORDER", "DELETE_ORDER", "MODIFY_ORDER", "REJECT"}, NEW c \in Clients,
           NEW id \in Ids \cup OrderIds, type # "REJECT" => id \in Ids
    PROVE  <<PayloadOf(type, id, c)>> \in Seq(Requests)
  BY DEF PayloadOf, Requests

\* send_order_reject keeps the types.
LEMMA RejectTypes ==
    ASSUME TypeInv, NEW c \in Clients, NEW oid \in OrderIds, SendOrderReject(c, oid),
           UNCHANGED <<sessions, conn, ended>>
    PROVE  Handled
  <1>1. outbox' \in Seq(Requests)
    BY OneRequest DEF SendOrderReject
  <1>2. QED
    BY <1>1 DEF SendOrderReject, TypeInv, SessionLayerOK, Handled, sessions, orderMaps

\* A delete or modify that is passed on keeps the types.
LEMMA ForwardTypes ==
    ASSUME TypeInv, NEW c \in Clients, NEW oid \in OrderIds, NEW type \in {"DELETE_ORDER", "MODIFY_ORDER"},
           client_to_open_orders[c][oid] # 0, Forward(type, c, oid), UNCHANGED <<sessions, conn, ended>>
    PROVE  Handled
  <1>1. client_to_open_orders[c][oid] \in Ids
    BY HandlerAssumption DEF TypeInv, SessionLayerOK, Ids
  <1>2. outbox' \in Seq(Requests)
    BY <1>1, OneRequest DEF Forward
  <1>3. QED
    BY <1>2 DEF Forward, TypeInv, SessionLayerOK, Handled, sessions, orderMaps

\* Entering an order keeps the types: the clock is its exchange id.
LEMMA EnterTypes ==
    ASSUME TypeInv, fd \in Sockets, NEW c \in Clients, NEW oid \in OrderIds, Enter(c, oid),
           UNCHANGED <<sessions, conn, ended>>
    PROVE  Handled
  <1>1. clock \in 0..MaxOrders /\ MaxOrders \in Nat /\ clock < MaxOrders
    BY HandlerAssumption DEF TypeInv, SessionLayerOK, Enter
  <1>2. clock + 1 \in Ids /\ clock + 1 \in 0..MaxOrders
    BY <1>1 DEF Ids
  <1>3. outbox' \in Seq(Requests)
    BY <1>2, OneRequest DEF Enter
  <1>4. Entry(c, oid) \in Entries
    BY EntryFields
  <1>5. client_to_open_orders' \in [Clients -> [OrderIds -> 0..MaxOrders]]
    BY <1>2 DEF Enter, TypeInv, SessionLayerOK
  <1>6. /\ exch_to_client_orders' \in [Ids -> Entries \cup {NoEntry}]
        /\ entered' \in [Ids -> Sockets \cup {NoSocket}]
    BY <1>2, <1>4 DEF Enter, TypeInv, SessionLayerOK
  <1>7. QED
    BY <1>2, <1>3, <1>5, <1>6 DEF Enter, TypeInv, SessionLayerOK, Handled, sessions

\* One message of a client keeps the types.
LEMMA MessageTypes == ASSUME TypeInv, Message PROVE Handled
  <1>1. Running("reading") /\ fd \in Sockets
    BY DEF Message, Running, TypeInv, SessionLayerOK
  <1>2. PICK c \in Clients :
          \/ \E valid \in BOOLEAN : OnLogin(c, valid)
          \/ \E oid \in OrderIds, sessionRight \in BOOLEAN :
                \/ \E accepted \in BOOLEAN : OnNewOrder(c, sessionRight, oid, accepted)
                \/ OnDeleteOrder(c, sessionRight, oid)
                \/ \E accepted \in BOOLEAN : OnModifyOrder(c, sessionRight, oid, accepted)
    BY DEF Message
  <1>3. CASE \E valid \in BOOLEAN : OnLogin(c, valid)
    BY <1>1, <1>3, LoginTypes
  <1>4. ASSUME NEW oid \in OrderIds, NEW sessionRight \in BOOLEAN, NEW accepted \in BOOLEAN,
               OnNewOrder(c, sessionRight, oid, accepted)
        PROVE  Handled
    BY <1>1, <1>4, EnterTypes, RejectTypes DEF OnNewOrder
  <1>5. ASSUME NEW oid \in OrderIds, NEW sessionRight \in BOOLEAN, OnDeleteOrder(c, sessionRight, oid)
        PROVE  Handled
    BY <1>5, ForwardTypes, RejectTypes DEF OnDeleteOrder
  <1>6. ASSUME NEW oid \in OrderIds, NEW sessionRight \in BOOLEAN, NEW accepted \in BOOLEAN,
               OnModifyOrder(c, sessionRight, oid, accepted)
        PROVE  Handled
    BY <1>6, ForwardTypes, RejectTypes DEF OnModifyOrder
  <1>7. QED
    BY <1>2, <1>3, <1>4, <1>5, <1>6

\* Writing to a client keeps the types, of the open orders it leaves too.
LEMMA WriteTypes ==
    ASSUME TypeInv, NEW c \in Clients, NEW fails \in BOOLEAN, outbox = <<>>, WriteToClient(c, fails)
    PROVE  /\ outbox' \in Seq(Requests)
           /\ sock_to_session_info' \in [Sockets -> Clients \cup {NoClient}]
           /\ client_to_sock_fd' \in [Clients -> Sockets \cup {NoSocket}]
           /\ OpenOrdersAfterWrite(c, fails) \in [Clients -> [OrderIds -> 0..MaxOrders]]
           /\ conn' \subseteq Sockets
           /\ entered' \in [Ids -> Sockets \cup {NoSocket}] /\ ended' \subseteq Ids
  <1> DEFINE s == client_to_sock_fd[c]
  <1>1. SessionLayerOK
    BY DEF TypeInv
  <1>2. CASE s # NoSocket /\ fails
    <2>1. s \in Sockets /\ OnSocketClosed(s) /\ CloseSockets({s})
      BY <1>1, <1>2 DEF SessionLayerOK, WriteToClient
    <2>2. /\ conn' \subseteq Sockets
          /\ entered' \in [Ids -> Sockets \cup {NoSocket}] /\ ended' \subseteq Ids
      BY <1>1, <2>1, CloseTypes
    <2>3. QED
      BY <1>1, <1>2, <2>1, <2>2, SocketClosed DEF SessionLayerOK, OpenOrdersAfterWrite
  <1>3. CASE ~fails
    BY <1>1, <1>3 DEF WriteToClient, OpenOrdersAfterWrite, TypeInv, QueuesOK, SessionLayerOK, sessions
  <1>4. QED
    BY <1>2, <1>3 DEF WriteToClient

\* Processing a report keeps the types.
LEMMA ProcessTypes == ASSUME TypeInv, Process PROVE Handled
  <1> DEFINE r == Head(to_client)
  <1>1. outbox = <<>> /\ to_client # <<>> /\ clock' = clock
    BY DEF Process, Running
  <1>2. r \in Reports /\ r.client \in Clients /\ (r.msg_type # "REJECT" => r.id \in Ids)
    <2>1. r \in Reports
      BY <1>1 DEF TypeInv, QueuesOK
    <2>2. QED
      BY <2>1 DEF Reports
  <1> HIDE DEF r
  <1>3. ASSUME NEW fails \in BOOLEAN, Reject(r, fails) PROVE Handled
    BY <1>1, <1>2, <1>3, WriteTypes DEF Reject, TypeInv, SessionLayerOK, Handled
  <1>4. ASSUME NEW fails \in BOOLEAN, AckFillOrClose(r, fails) PROVE Handled
    <2> DEFINE e == exch_to_client_orders[r.id]
    <2>1. r.id \in Ids /\ e \in Entries /\ e.client \in Clients /\ e.order_id \in OrderIds
      <3>1. r.id \in Ids /\ e # NoEntry /\ e \in Entries \cup {NoEntry}
        BY <1>2, <1>4 DEF AckFillOrClose, TypeInv, SessionLayerOK
      <3>2. QED
        BY <3>1 DEF Entries
    <2>2. WriteToClient(e.client, fails)
      BY <1>4 DEF AckFillOrClose
    <2>3. OpenOrdersAfterWrite(e.client, fails) \in [Clients -> [OrderIds -> 0..MaxOrders]]
      BY <1>1, <2>1, <2>2, WriteTypes
    <2>4. client_to_open_orders' \in [Clients -> [OrderIds -> 0..MaxOrders]]
      BY <1>4, <2>1, <2>3, HandlerAssumption DEF AckFillOrClose
    <2>5. exch_to_client_orders' \in [Ids -> Entries \cup {NoEntry}]
      BY <1>4, <2>1 DEF AckFillOrClose, TypeInv, SessionLayerOK
    <2>6. QED
      BY <1>1, <2>1, <2>2, <2>4, <2>5, WriteTypes DEF TypeInv, SessionLayerOK, Handled
  <1>5. CASE Unknown(r)
    BY <1>1, <1>5, NothingHandled DEF Unknown
  <1>6. QED
    BY <1>3, <1>4, <1>5 DEF Process, r

\* A handler's step keeps the types when it leaves the queues and the broker alone and
\* the thread goes on in a state of the right type.
LEMMA HandledTypes ==
    ASSUME TypeInv, Handled, UNCHANGED <<from_client, to_client, engineVars>>,
           pc' \in {"poll", "reading", "process", "pop"}, fd' \in Sockets \cup {NoSocket},
           pc' = "reading" => fd' \in Sockets, pc' = "pop" => to_client # <<>>
    PROVE  TypeInv'
  BY DEF TypeInv, QueuesOK, SessionLayerOK, BrokerOK, Handled, engineVars

\* The order entry thread and the clients keep the types.
LEMMA SessionLayerTypes == ASSUME TypeInv, OrderEntryThread \/ Clientele PROVE TypeInv'
  <1>1. UNCHANGED engineVars
    BY DEF OrderEntryThread, Clientele
  <1>2. pc \in {"poll", "reading", "process", "pop"} /\ fd \in Sockets \cup {NoSocket}
        /\ (pc = "reading" => fd \in Sockets) /\ conn \subseteq Sockets
    BY DEF TypeInv, SessionLayerOK
  <1>3. CASE Message
    BY <1>1, <1>2, <1>3, MessageTypes, HandledTypes DEF Message, Running
  <1>4. ASSUME NEW s \in Sockets, Accept(s) PROVE TypeInv'
    <2>1. Handled
      BY <1>2, <1>4 DEF Accept, TypeInv, QueuesOK, SessionLayerOK, Handled, sessions, orderMaps, history
    <2>2. QED
      BY <1>1, <1>2, <1>4, <2>1, HandledTypes DEF Accept, Running
  <1>5. ASSUME NEW s \in Sockets, Readable(s) PROVE TypeInv'
    BY <1>1, <1>2, <1>5, NothingHandled, HandledTypes DEF Readable, history
  <1>6. ASSUME NEW s \in Sockets, HangUp(s) PROVE TypeInv'
    BY <1>1, <1>2, <1>6, DisconnectTypes, HandledTypes DEF HangUp, Disconnect, Running
  <1>7. CASE PeerGone
    BY <1>1, <1>2, <1>7, DisconnectTypes, HandledTypes DEF PeerGone, Disconnect, Running
  <1>8. CASE EndRead
    <2>1. CASE fd \in conn
      BY <1>1, <1>2, <1>8, <2>1, NothingHandled, HandledTypes DEF EndRead
    <2>2. CASE fd \notin conn
      BY <1>1, <1>2, <1>8, <2>2, DisconnectTypes, HandledTypes DEF EndRead, Disconnect, Running
    <2>3. QED
      BY <2>1, <2>2
  <1>9. CASE EndPoll
    BY <1>1, <1>2, <1>9, NothingHandled, HandledTypes DEF EndPoll, history
  <1>10. CASE Emplace
    <2> DEFINE p == Head(outbox)
    <2>1. /\ from_client \in Seq(Requests) /\ Len(from_client) \in Nat /\ QueueCapacity \in Nat
          /\ p \in Requests /\ Tail(outbox) \in Seq(Requests)
      BY <1>10, HandlerAssumption DEF Emplace, TypeInv, QueuesOK
    <2>2. Len(from_client) < QueueCapacity /\ from_client' = Append(from_client, p) /\ outbox' = Tail(outbox)
      BY <1>10 DEF Emplace
    <2> HIDE DEF p
    <2>3. /\ from_client' \in Seq(Requests) /\ Len(from_client') <= QueueCapacity /\ from_client' # <<>>
          /\ from_client # <<>> => Head(from_client') = Head(from_client)
      BY <2>1, <2>2
    <2>4. QED
      BY <1>1, <1>10, <2>1, <2>2, <2>3
      DEF Emplace, TypeInv, QueuesOK, SessionLayerOK, BrokerOK, engineVars, sessions, orderMaps, history
  <1>11. CASE Process
    BY <1>1, <1>2, <1>11, ProcessTypes, HandledTypes DEF Process, Running
  <1>12. CASE PopReport
    <2>1. to_client' \in Seq(Reports) /\ Len(to_client') <= QueueCapacity
      BY <1>12, HandlerAssumption DEF PopReport, Running, TypeInv, QueuesOK, SessionLayerOK
    <2>2. QED
      BY <1>1, <1>12, <2>1
      DEF PopReport, TypeInv, QueuesOK, SessionLayerOK, BrokerOK, engineVars, sessions, orderMaps, history
  <1>13. CASE EndProcess
    BY <1>1, <1>2, <1>13, NothingHandled, HandledTypes DEF EndProcess, history
  <1>14. QED
    BY <1>3, <1>4, <1>5, <1>6, <1>7, <1>8, <1>9, <1>10, <1>11, <1>12, <1>13
    DEF OrderEntryThread, Clientele, ThreadStep, ClientStep

\* A step of the exchange process keeps the types, and so does a step of anything else.
LEMMA TypeInvStep == ASSUME TypeInv, [ExchangeNext]_exchangeVars PROVE TypeInv'
  <1>1. CASE ExchangeNext
    BY <1>1, BrokerTypes, SessionLayerTypes DEF ExchangeNext
  <1>2. CASE UNCHANGED exchangeVars
    BY <1>2 DEF exchangeVars, handlerVars, engineVars, sessions, orderMaps, history,
                TypeInv, QueuesOK, SessionLayerOK, BrokerOK
  <1>3. QED
    BY <1>1, <1>2

\* The exchange process starts well typed.
LEMMA TypeInvInit == ASSUME ExchangeInit PROVE TypeInv
  BY HandlerAssumption DEF ExchangeInit, HandlerInit, Engine!ContractInit, Engine!Phases, NoOpenOrders,
     TypeInv, QueuesOK, SessionLayerOK, BrokerOK

\* The exchange process is always well typed.
LEMMA TypeInvariant == ExchangeSpec => []TypeInv
  BY TypeInvInit, TypeInvStep, PTL DEF ExchangeSpec

\* Every variable keeps its type, whatever the clients do: both queues stay within their
\* capacity and every entry of the maps names a socket, a client and an order there is.
THEOREM ExchangeTypes == ExchangeSpec => []ExchangeTypeOK
  <1>1. TypeInv => ExchangeTypeOK
    BY DEF TypeInv, QueuesOK, SessionLayerOK, BrokerOK, ExchangeTypeOK, Entries
  <1>2. QED
    BY <1>1, TypeInvariant, PTL

-----------------------------------------------------------------------------
(* Sessions. *)

\* Every session is on a socket that is open, but for the one on s.
OpenBut(s) == \A t \in Sockets : sock_to_session_info[t] # NoClient => t \in conn \/ t = s

\* Sockets are closed, one of them with its session and the others without one.
LEMMA EndSession ==
    ASSUME TypeInv, SessionsAgree, NEW s \in Sockets, OpenBut(s), NEW S \in SUBSET Sockets, s \in S,
           \A t \in S : t = s \/ sock_to_session_info[t] = NoClient,
           OnSocketClosed(s), CloseSockets(S)
    PROVE  SessionsAgree' /\ \A t \in Sockets : sock_to_session_info'[t] # NoClient => t \in conn'
  <1> DEFINE c == sock_to_session_info[s]
  <1>1. SessionLayerOK
    BY DEF TypeInv
  <1>2. /\ sock_to_session_info' = [sock_to_session_info EXCEPT ![s] = NoClient]
        /\ c = NoClient => client_to_sock_fd' = client_to_sock_fd
        /\ c # NoClient => c \in Clients /\ client_to_sock_fd' = [client_to_sock_fd EXCEPT ![c] = NoSocket]
    BY <1>1, SocketClosed
  <1>3. /\ sock_to_session_info \in [Sockets -> Clients \cup {NoClient}]
        /\ client_to_sock_fd \in [Clients -> Sockets \cup {NoSocket}]
    BY <1>1 DEF SessionLayerOK
  <1>4. SessionsAgree'
    <2>1. SUFFICES ASSUME NEW d \in Clients, NEW t \in Sockets
                   PROVE  client_to_sock_fd'[d] = t <=> sock_to_session_info'[t] = d
      BY DEF SessionsAgree
    <2>2. client_to_sock_fd[d] = t <=> sock_to_session_info[t] = d
      BY DEF SessionsAgree
    <2>3. client_to_sock_fd[d] = s <=> sock_to_session_info[s] = d
      BY DEF SessionsAgree
    <2>4. QED
      BY <1>2, <1>3, <2>2, <2>3, HandlerAssumption
  <1>5. conn' = conn \ S
    BY DEF CloseSockets
  <1>6. QED
    BY <1>2, <1>3, <1>4, <1>5 DEF OpenBut

\* A login makes a session only for a client without one, on a socket without one.
LEMMA LoginSessions ==
    ASSUME TypeInv, SessionInv, ~LoginTwice, Running("reading"),
           NEW c \in Clients, NEW valid \in BOOLEAN, OnLogin(c, valid)
    PROVE  SessionsAgree' /\ \A t \in Sockets : sock_to_session_info'[t] # NoClient => t \in conn' \/ t = fd
  <1>1. /\ SessionLayerOK /\ fd \in Sockets /\ SessionsAgree /\ OpenBut(fd)
        /\ sock_to_session_info \in [Sockets -> Clients \cup {NoClient}]
        /\ client_to_sock_fd \in [Clients -> Sockets \cup {NoSocket}]
    BY DEF TypeInv, SessionLayerOK, Running, SessionInv, SessionsOpen, OpenBut
  <1> DEFINE other == client_to_sock_fd[c]
  <1>2. CASE LoginRefused
    <2>1. /\ UNCHANGED <<sock_to_session_info, client_to_sock_fd>> /\ conn' = conn \ {fd}
      BY <1>2 DEF LoginRefused, CloseSockets, sessions
    <2>2. QED
      BY <1>1, <2>1 DEF SessionsAgree, OpenBut
  <1>3. CASE valid /\ other = NoSocket /\ (LoginAccepted(c) \/ LoginUnanswered(c))
    <2>1. sock_to_session_info[fd] = NoClient
      BY <1>1, <1>3, HandlerAssumption DEF OnLogin, SessionsAgree
    <2>2. CASE LoginAccepted(c)
      <3>1. /\ sock_to_session_info' = [sock_to_session_info EXCEPT ![fd] = c]
            /\ client_to_sock_fd' = [client_to_sock_fd EXCEPT ![c] = fd] /\ conn' = conn
        BY <2>2 DEF LoginAccepted
      <3>2. \A t \in Sockets : sock_to_session_info[t] # c
        BY <1>1, <1>3, HandlerAssumption DEF SessionsAgree
      <3>3. \A d \in Clients : client_to_sock_fd[d] # fd
        BY <1>1, <2>1, HandlerAssumption DEF SessionsAgree
      <3>4. ASSUME NEW d \in Clients, NEW t \in Sockets
            PROVE  client_to_sock_fd'[d] = t <=> sock_to_session_info'[t] = d
        <4>1. client_to_sock_fd[d] = t <=> sock_to_session_info[t] = d
          BY <1>1 DEF SessionsAgree
        <4>2. QED
          BY <1>1, <3>1, <3>2, <3>3, <4>1
      <3>5. QED
        BY <1>1, <3>1, <3>4 DEF SessionsAgree, OpenBut
    <2>3. CASE LoginUnanswered(c)
      <3>1. /\ sock_to_session_info' = sock_to_session_info
            /\ client_to_sock_fd' = client_to_sock_fd /\ conn' = conn \ {fd}
        BY <1>1, <2>1, <2>3 DEF LoginUnanswered, CloseSockets
      <3>2. QED
        BY <1>1, <3>1 DEF SessionsAgree, OpenBut
    <2>4. QED
      BY <1>3, <2>2, <2>3
  <1>4. CASE valid /\ other # NoSocket /\ other # fd /\ LoginDuplicate(other)
    <2>1. other \in Sockets /\ sock_to_session_info[other] = c
      BY <1>1, <1>4 DEF SessionsAgree
    <2>2. sock_to_session_info[fd] = NoClient
      BY <1>1, <1>4, HandlerAssumption DEF OnLogin, SessionsAgree
    <2>3. OpenBut(other)
      BY <1>1, <2>2 DEF OpenBut
    <2>4. QED
      BY <1>1, <1>4, <2>1, <2>2, <2>3, EndSession DEF LoginDuplicate
  <1>5. CASE UNCHANGED <<sessions, client_to_open_orders, outbox, conn, entered, ended>>
    BY <1>1, <1>5 DEF sessions, SessionsAgree, OpenBut
  <1>6. QED
    BY <1>2, <1>3, <1>4, <1>5 DEF OnLogin, Authenticated

\* Every step of the session layer keeps the session tables in agreement.
LEMMA SessionStep ==
    ASSUME TypeInv, SessionInv, ~LoginTwice, [ExchangeNext]_exchangeVars
    PROVE  SessionInv'
  <1>1. /\ pc = "reading" => fd \in Sockets /\ OpenBut(fd)
        /\ pc # "reading" => \A t \in Sockets : OpenBut(t)
        /\ SessionsAgree
    BY DEF TypeInv, SessionLayerOK, SessionInv, SessionsOpen, OpenBut
  <1>2. CASE UNCHANGED <<sessions, conn>> /\ ((pc' = "reading" /\ fd' = fd) \/ pc # "reading")
    BY <1>2 DEF sessions, SessionInv, SessionsAgree, SessionsOpen
  <1>3. CASE Message
    <2>1. PICK c \in Clients :
            \/ \E valid \in BOOLEAN : OnLogin(c, valid)
            \/ UNCHANGED <<sessions, conn>>
      BY <1>3 DEF Message, OnNewOrder, OnDeleteOrder, OnModifyOrder
    <2>2. pc' = "reading" /\ fd' = fd /\ Running("reading")
      BY <1>3 DEF Message, Running
    <2>3. CASE \E valid \in BOOLEAN : OnLogin(c, valid)
      <3>1. SessionsAgree' /\ \A t \in Sockets : sock_to_session_info'[t] # NoClient => t \in conn' \/ t = fd
        BY <2>2, <2>3, LoginSessions
      <3>2. QED
        BY <2>2, <3>1 DEF SessionInv, SessionsOpen
    <2>4. QED
      BY <1>2, <2>1, <2>2, <2>3
  <1>4. ASSUME NEW s \in Sockets, OpenBut(s), OnSocketClosed(s), CloseSockets({s}) PROVE SessionInv'
    <2>1. SessionsAgree' /\ \A t \in Sockets : sock_to_session_info'[t] # NoClient => t \in conn'
      BY <1>1, <1>4, EndSession
    <2>2. QED
      BY <2>1 DEF SessionInv, SessionsOpen
  <1>5. ASSUME NEW s \in Sockets, Accept(s) PROVE SessionInv'
    BY <1>5 DEF Accept, Running, sessions, SessionInv, SessionsAgree, SessionsOpen
  <1>6. ASSUME NEW s \in Sockets, Readable(s) PROVE SessionInv'
    BY <1>2, <1>6 DEF Readable, Running
  <1>7. ASSUME NEW s \in Sockets, HangUp(s) PROVE SessionInv'
    BY <1>1, <1>4, <1>7 DEF HangUp, Running, Disconnect
  <1>8. CASE PeerGone
    BY <1>1, <1>4, <1>8 DEF PeerGone, Running, Disconnect
  <1>9. CASE EndRead
    <2>1. CASE fd \in conn
      BY <1>1, <1>9, <2>1 DEF EndRead, Running, sessions, SessionInv, SessionsAgree, SessionsOpen, OpenBut
    <2>2. CASE fd \notin conn
      BY <1>1, <1>4, <1>9, <2>2 DEF EndRead, Running, Disconnect
    <2>3. QED
      BY <2>1, <2>2
  <1>10. CASE Process
    <2>1. pc # "reading"
      BY <1>10 DEF Process, Running
    <2>2. ASSUME NEW c \in Clients, NEW fails \in BOOLEAN, WriteToClient(c, fails) PROVE SessionInv'
      <3>1. CASE client_to_sock_fd[c] # NoSocket /\ fails
        <4>1. client_to_sock_fd[c] \in Sockets
          BY <3>1 DEF TypeInv, SessionLayerOK
        <4>2. QED
          BY <1>1, <1>4, <2>1, <2>2, <3>1, <4>1 DEF WriteToClient
      <3>2. CASE ~fails
        BY <1>2, <2>1, <2>2, <3>2 DEF WriteToClient
      <3>3. QED
        BY <2>2, <3>1, <3>2 DEF WriteToClient
    <2> DEFINE r == Head(to_client)
    <2>3. r.client \in Clients /\ (r.msg_type # "REJECT" => r.id \in Ids)
      <3>1. r \in Reports
        BY <1>10 DEF Process, TypeInv, QueuesOK
      <3>2. QED
        BY <3>1 DEF Reports
    <2>4. ASSUME r.msg_type # "REJECT", exch_to_client_orders[r.id] # NoEntry
          PROVE  exch_to_client_orders[r.id].client \in Clients
      <3>1. exch_to_client_orders[r.id] \in Entries
        BY <2>3, <2>4 DEF TypeInv, SessionLayerOK
      <3>2. QED
        BY <3>1 DEF Entries
    <2> HIDE DEF r
    <2>5. ASSUME NEW fails \in BOOLEAN, Reject(r, fails) PROVE SessionInv'
      BY <2>2, <2>3, <2>5 DEF Reject
    <2>6. ASSUME NEW fails \in BOOLEAN, AckFillOrClose(r, fails) PROVE SessionInv'
      BY <2>2, <2>4, <2>6 DEF AckFillOrClose
    <2>7. CASE Unknown(r)
      BY <1>2, <2>1, <2>7 DEF Unknown
    <2>8. QED
      BY <1>10, <2>5, <2>6, <2>7 DEF Process, r
  <1>11. CASE EndPoll \/ Emplace \/ PopReport \/ EndProcess
    BY <1>2, <1>11 DEF EndPoll, Emplace, PopReport, EndProcess, Running
  <1>12. CASE BrokerThread
    BY <1>2, <1>12 DEF BrokerThread
  <1>13. CASE UNCHANGED exchangeVars
    BY <1>2, <1>13 DEF exchangeVars, handlerVars
  <1>14. QED
    BY <1>3, <1>5, <1>6, <1>7, <1>8, <1>9, <1>10, <1>11, <1>12, <1>13
    DEF ExchangeNext, OrderEntryThread, Clientele, ThreadStep, ClientStep

\* When no socket logs in as a second client, the session tables always agree.
LEMMA SessionInvariant == ASSUME ~LoginTwice PROVE ExchangeSpec => [](TypeInv /\ SessionInv)
  <1>1. ExchangeInit => SessionInv
    BY HandlerAssumption DEF ExchangeInit, HandlerInit, SessionInv, SessionsAgree, SessionsOpen
  <1>2. TypeInv /\ SessionInv /\ [ExchangeNext]_exchangeVars => SessionInv'
    BY SessionStep
  <1>3. QED
    BY <1>1, <1>2, TypeInvariant, PTL DEF ExchangeSpec

\* When no socket logs in as a second client, the client table and the session table
\* always describe the same logins.
THEOREM LoginsAgree == ASSUME ~LoginTwice PROVE ExchangeSpec => []SessionsAgree
  <1>1. TypeInv /\ SessionInv => SessionsAgree
    BY DEF SessionInv
  <1>2. QED
    BY <1>1, SessionInvariant, PTL

\* When no socket logs in as a second client, no session is left on a closed socket
\* between two events: the next connection never gets a session with its descriptor.
THEOREM SessionsConnected == ASSUME ~LoginTwice PROVE ExchangeSpec => []SessionsAreConnected
  <1>1. TypeInv /\ SessionInv => SessionsAreConnected
    BY DEF SessionInv, SessionsOpen, SessionsAreConnected
  <1>2. QED
    BY <1>1, SessionInvariant, PTL

-----------------------------------------------------------------------------
(* Orders: the pipe to the broker. *)

\* The pipe is a sequence of requests whose front is the front of from_client.
LEMMA PipeTypes ==
    ASSUME TypeInv
    PROVE  /\ Pipe \in Seq(Requests) /\ DOMAIN Pipe = 1..Len(Pipe) /\ Len(Pipe) \in Nat
           /\ \A i \in DOMAIN Pipe : /\ Pipe[i] \in Requests
                                     /\ Pipe[i].msg_type # "REJECT" => Pipe[i].id \in Ids
           /\ from_client # <<>> => 1 \in DOMAIN Pipe /\ Pipe[1] = Head(from_client)
  <1>1. from_client \in Seq(Requests) /\ outbox \in Seq(Requests)
    BY DEF TypeInv, QueuesOK
  <1>2. Pipe \in Seq(Requests) /\ (from_client # <<>> => 1 \in DOMAIN Pipe /\ Pipe[1] = Head(from_client))
    BY <1>1 DEF Pipe
  <1>3. \A p \in Requests : p.msg_type # "REJECT" => p.id \in Ids
    BY DEF Requests
  <1>4. QED
    BY <1>2, <1>3

\* A handler puts its requests behind the others.
LEMMA PipeAppends ==
    ASSUME TypeInv, outbox = <<>>, outbox' \in Seq(Requests), from_client' = from_client
    PROVE  /\ \A i \in DOMAIN Pipe : i \in DOMAIN Pipe' /\ Pipe'[i] = Pipe[i]
           /\ \A i \in DOMAIN Pipe' : i \in DOMAIN Pipe
                 \/ \E k \in DOMAIN outbox' : i = Len(Pipe) + k /\ Pipe'[i] = outbox'[k]
           /\ \A k \in DOMAIN outbox' : Len(Pipe) + k \in DOMAIN Pipe' /\ Pipe'[Len(Pipe) + k] = outbox'[k]
           /\ DOMAIN Pipe' \subseteq Nat \ {0}
  <1>1. from_client \in Seq(Requests)
    BY DEF TypeInv, QueuesOK
  <1>2. Pipe = from_client /\ Pipe' = from_client \o outbox'
    BY <1>1 DEF Pipe
  <1>3. /\ Len(Pipe) \in Nat /\ DOMAIN Pipe = 1..Len(Pipe) /\ DOMAIN outbox' = 1..Len(outbox')
        /\ Len(outbox') \in Nat /\ DOMAIN Pipe' = 1..(Len(Pipe) + Len(outbox'))
    BY <1>1, <1>2
  <1>4. \A i \in DOMAIN Pipe' : Pipe'[i] = IF i <= Len(Pipe) THEN Pipe[i] ELSE outbox'[i - Len(Pipe)]
    BY <1>1, <1>2
  <1>5. ASSUME NEW i \in DOMAIN Pipe', i \notin DOMAIN Pipe
        PROVE  \E k \in DOMAIN outbox' : i = Len(Pipe) + k /\ Pipe'[i] = outbox'[k]
    <2>1. i - Len(Pipe) \in DOMAIN outbox' /\ i = Len(Pipe) + (i - Len(Pipe)) /\ Pipe'[i] = outbox'[i - Len(Pipe)]
      BY <1>3, <1>4, <1>5
    <2>2. QED
      BY <2>1
  <1>6. ASSUME NEW k \in DOMAIN outbox'
        PROVE  Len(Pipe) + k \in DOMAIN Pipe' /\ Pipe'[Len(Pipe) + k] = outbox'[k]
    <2>1. Len(Pipe) + k \in DOMAIN Pipe' /\ ~(Len(Pipe) + k <= Len(Pipe)) /\ (Len(Pipe) + k) - Len(Pipe) = k
      BY <1>3
    <2>2. QED
      BY <1>4, <2>1
  <1>7. QED
    BY <1>3, <1>4, <1>5, <1>6

\* A handler that enters no order keeps the order of the pipe; no order comes to life by
\* it, and every cancel stays on its way.
LEMMA AppendOther ==
    ASSUME TypeInv, PipeOK, outbox = <<>>, outbox' \in Seq(Requests), clock' = clock,
           UNCHANGED <<from_client, engineVars>>,
           \A k \in DOMAIN outbox' : /\ outbox'[k].msg_type # "NEW_ORDER"
                                     /\ outbox'[k].msg_type # "REJECT" => outbox'[k].id <= clock
    PROVE  /\ PipeOK'
           /\ \A id \in Ids : Deleting(id) => Deleting(id)'
           /\ \A id \in Ids, c \in Clients : Alive(id, c)' => Alive(id, c)
           /\ \A k \in DOMAIN outbox', id \in Ids :
                 outbox'[k].msg_type = "DELETE_ORDER" /\ outbox'[k].id = id => Deleting(id)'
  <1>1. /\ \A i \in DOMAIN Pipe : i \in DOMAIN Pipe' /\ Pipe'[i] = Pipe[i]
        /\ \A i \in DOMAIN Pipe' : i \in DOMAIN Pipe
              \/ \E k \in DOMAIN outbox' : i = Len(Pipe) + k /\ Pipe'[i] = outbox'[k]
        /\ \A k \in DOMAIN outbox' : Len(Pipe) + k \in DOMAIN Pipe' /\ Pipe'[Len(Pipe) + k] = outbox'[k]
    BY PipeAppends
  <1>2. /\ DOMAIN Pipe = 1..Len(Pipe) /\ Len(Pipe) \in Nat
        /\ \A k \in DOMAIN outbox' : k \in Nat \ {0}
    BY PipeTypes
  <1>3. phase' = phase /\ open' = open /\ clientOf' = clientOf
    BY DEF engineVars
  <1>4. \A i \in DOMAIN Pipe' : Pipe'[i].msg_type = "NEW_ORDER" => i \in DOMAIN Pipe
    BY <1>1
  <1>5. PipeOK'
    <2>1. ASSUME NEW i \in DOMAIN Pipe', Pipe'[i].msg_type # "REJECT" PROVE Pipe'[i].id <= clock'
      BY <1>1, <2>1 DEF PipeOK
    <2>2. ASSUME NEW i \in DOMAIN Pipe', NEW j \in DOMAIN Pipe',
                 Pipe'[i].msg_type = "NEW_ORDER", Pipe'[i].id = Pipe'[j].id
          PROVE  /\ Pipe'[j].msg_type = "NEW_ORDER" => i = j
                 /\ Pipe'[j].msg_type = "DELETE_ORDER" => i < j
      <3>1. i \in DOMAIN Pipe /\ Pipe'[i] = Pipe[i]
        BY <1>1, <1>4, <2>2
      <3>2. CASE j \in DOMAIN Pipe
        <4>1. Pipe'[j] = Pipe[j]
          BY <1>1, <3>2
        <4>2. QED
          BY <2>2, <3>1, <3>2, <4>1 DEF PipeOK, IsNew, IsDelete
      <3>3. CASE j \notin DOMAIN Pipe
        <4>1. i < j /\ Pipe'[j].msg_type # "NEW_ORDER"
          BY <1>1, <1>2, <3>1, <3>3
        <4>2. QED
          BY <4>1
      <3>4. QED
        BY <3>2, <3>3
    <2>3. ASSUME NEW i \in DOMAIN Pipe', Pipe'[i].msg_type = "NEW_ORDER"
          PROVE  clientOf'[Pipe'[i].id] = IF i = 1 /\ phase' # "idle" THEN Pipe'[i].client ELSE NoClient
      <3>1. i \in DOMAIN Pipe /\ Pipe'[i] = Pipe[i]
        BY <1>1, <1>4, <2>3
      <3>2. QED
        BY <1>3, <2>3, <3>1 DEF PipeOK, IsNew, Taken
    <2>4. QED
      BY <2>1, <2>2, <2>3 DEF PipeOK, IsNew, IsDelete, Taken
  <1>6. ASSUME NEW id \in Ids, Deleting(id) PROVE Deleting(id)'
    BY <1>1, <1>6 DEF Deleting, IsDelete
  <1>7. ASSUME NEW id \in Ids, NEW c \in Clients, Alive(id, c)' PROVE Alive(id, c)
    BY <1>1, <1>3, <1>4, <1>7 DEF Alive, IsNew, Taken
  <1>8. ASSUME NEW k \in DOMAIN outbox', NEW id \in Ids,
               outbox'[k].msg_type = "DELETE_ORDER", outbox'[k].id = id
        PROVE  Deleting(id)'
    BY <1>1, <1>8 DEF Deleting, IsDelete
  <1>9. QED
    BY <1>5, <1>6, <1>7, <1>8

\* An order is entered under an id that was never used.
LEMMA AppendNew ==
    ASSUME TypeInv, PipeOK, ClosedOK, outbox = <<>>, UNCHANGED <<from_client, engineVars>>,
           NEW c \in Clients, clock < MaxOrders, clock' = clock + 1,
           outbox' = <<PayloadOf("NEW_ORDER", clock + 1, c)>>
    PROVE  /\ PipeOK'
           /\ \A id \in Ids : Deleting(id) => Deleting(id)'
           /\ \A id \in Ids, d \in Clients : Alive(id, d)' => Alive(id, d) \/ (id = clock + 1 /\ d = c)
  <1>0. clock \in Nat /\ clock + 1 \in Ids
    BY HandlerAssumption DEF TypeInv, SessionLayerOK, Ids
  <1> DEFINE p == PayloadOf("NEW_ORDER", clock + 1, c)
  <1>a. p.msg_type = "NEW_ORDER" /\ p.id = clock + 1 /\ p.client = c
    BY DEF PayloadOf
  <1>b. outbox' \in Seq(Requests) /\ outbox' = <<p>>
    BY <1>0, OneRequest
  <1> HIDE DEF p
  <1>c. DOMAIN outbox' = {1} /\ outbox'[1] = p
    BY <1>b
  <1> DEFINE n == Len(Pipe) + 1
  <1>1. /\ \A i \in DOMAIN Pipe : i \in DOMAIN Pipe' /\ Pipe'[i] = Pipe[i]
        /\ \A i \in DOMAIN Pipe' : i \in DOMAIN Pipe \/ (i = n /\ Pipe'[i] = p)
    BY <1>b, <1>c, PipeAppends
  <1>2. DOMAIN Pipe = 1..Len(Pipe) /\ Len(Pipe) \in Nat /\ (from_client # <<>> => 1 \in DOMAIN Pipe)
    BY PipeTypes
  <1>3. phase' = phase /\ open' = open /\ clientOf' = clientOf
    BY DEF engineVars
  <1>4. \A i \in DOMAIN Pipe : Pipe[i].msg_type # "REJECT" => Pipe[i].id \in Ids /\ Pipe[i].id <= clock
    BY PipeTypes DEF PipeOK
  <1>5. clientOf[clock + 1] = NoClient
    BY <1>0 DEF ClosedOK
  <1>6. phase # "idle" => n # 1
    BY <1>2 DEF TypeInv, BrokerOK
  <1> HIDE DEF n
  <1>7. PipeOK'
    <2>1. ASSUME NEW i \in DOMAIN Pipe', Pipe'[i].msg_type # "REJECT" PROVE Pipe'[i].id <= clock'
      <3>1. CASE i \in DOMAIN Pipe
        <4>1. Pipe[i].id \in Ids /\ Pipe[i].id <= clock
          BY <1>1, <1>4, <2>1, <3>1
        <4>2. QED
          BY <1>0, <1>1, <3>1, <4>1 DEF Ids
      <3>2. CASE i \notin DOMAIN Pipe
        BY <1>0, <1>1, <1>a, <3>2
      <3>3. QED
        BY <3>1, <3>2
    <2>2. ASSUME NEW i \in DOMAIN Pipe', NEW j \in DOMAIN Pipe',
                 Pipe'[i].msg_type = "NEW_ORDER", Pipe'[i].id = Pipe'[j].id
          PROVE  /\ Pipe'[j].msg_type = "NEW_ORDER" => i = j
                 /\ Pipe'[j].msg_type = "DELETE_ORDER" => i < j
      <3>1. CASE i \in DOMAIN Pipe /\ j \in DOMAIN Pipe
        <4>1. Pipe'[i] = Pipe[i] /\ Pipe'[j] = Pipe[j]
          BY <1>1, <3>1
        <4>2. QED
          BY <2>2, <3>1, <4>1 DEF PipeOK, IsNew, IsDelete
      <3>2. CASE i \in DOMAIN Pipe /\ j \notin DOMAIN Pipe
        <4>1. Pipe[i].id \in Ids /\ Pipe[i].id <= clock /\ Pipe[i].id = clock + 1
          BY <1>1, <1>4, <1>a, <2>2, <3>2
        <4>2. QED
          BY <1>0, <4>1 DEF Ids
      <3>3. CASE i \notin DOMAIN Pipe /\ j \in DOMAIN Pipe
        <4>1. Pipe[j].msg_type = Pipe'[j].msg_type /\ Pipe[j].id = clock + 1
          BY <1>1, <1>a, <2>2, <3>3
        <4>2. Pipe[j].msg_type = "REJECT"
          BY <1>0, <1>4, <3>3, <4>1
        <4>3. QED
          BY <4>1, <4>2
      <3>4. CASE i \notin DOMAIN Pipe /\ j \notin DOMAIN Pipe
        BY <1>1, <1>a, <3>4
      <3>5. QED
        BY <3>1, <3>2, <3>3, <3>4
    <2>3. ASSUME NEW i \in DOMAIN Pipe', Pipe'[i].msg_type = "NEW_ORDER"
          PROVE  clientOf'[Pipe'[i].id] = IF i = 1 /\ phase' # "idle" THEN Pipe'[i].client ELSE NoClient
      <3>1. CASE i \in DOMAIN Pipe
        BY <1>1, <1>3, <2>3, <3>1 DEF PipeOK, IsNew, Taken
      <3>2. CASE i \notin DOMAIN Pipe
        BY <1>1, <1>3, <1>5, <1>6, <1>a, <3>2
      <3>3. QED
        BY <3>1, <3>2
    <2>4. QED
      BY <2>1, <2>2, <2>3 DEF PipeOK, IsNew, IsDelete, Taken
  <1>8. ASSUME NEW id \in Ids, Deleting(id) PROVE Deleting(id)'
    BY <1>1, <1>8 DEF Deleting, IsDelete
  <1>9. ASSUME NEW id \in Ids, NEW d \in Clients, Alive(id, d)' PROVE Alive(id, d) \/ (id = clock + 1 /\ d = c)
    BY <1>1, <1>3, <1>a, <1>9 DEF Alive, IsNew, Taken
  <1>10. QED
    BY <1>7, <1>8, <1>9

-----------------------------------------------------------------------------
(* Orders: the handlers of the order entry thread. *)

\* What the broker has reported stays as it is while a handler runs.
LEMMA ClosedStays ==
    ASSUME TypeInv, ClosedOK, UNCHANGED <<from_client, to_client, engineVars>>, clock' \in {clock, clock + 1}
    PROVE  ClosedOK' /\ \A id \in Ids : Reported(id)' <=> Reported(id)
  <1>1. /\ UNCHANGED <<from_client, to_client, phase, open, clientOf>>
        /\ clock \in Nat /\ Ids \subseteq Nat
    BY HandlerAssumption DEF engineVars, TypeInv, SessionLayerOK, Ids
  <1>2. \A id \in Ids : Reported(id)' <=> Reported(id)
    BY <1>1 DEF Reported
  <1>3. \A id \in Ids : clientOf'[id] # NoClient => id <= clock'
    BY <1>1 DEF ClosedOK
  <1>4. QED
    BY <1>1, <1>2, <1>3 DEF ClosedOK

\* An order that can trade is not reported closed.
LEMMA AliveNotReported ==
    ASSUME TypeInv, PipeOK, ClosedOK, NEW id \in Ids, NEW c \in Clients, Alive(id, c)
    PROVE  ~Reported(id) /\ id <= clock
  <1>1. CASE id \in open
    BY <1>1 DEF ClosedOK, TypeInv, BrokerOK
  <1>2. CASE \E i \in DOMAIN Pipe : IsNew(i) /\ ~Taken(i) /\ Pipe[i].id = id
    <2>1. clientOf[id] = NoClient /\ id <= clock
      BY <1>2 DEF PipeOK, IsNew
    <2>2. QED
      BY <2>1 DEF ClosedOK
  <1>3. QED
    BY <1>1, <1>2 DEF Alive

\* The order maps when entries are removed from them.
LEMMA MapsShrink ==
    ASSUME TypeInv, TypeInv', MapsOK, \A id \in Ids : Reported(id)' <=> Reported(id),
           UNCHANGED <<to_client, open, clientOf, clock>>,
           \A id \in Ids : exch_to_client_orders'[id] \in {exch_to_client_orders[id], NoEntry},
           \A c \in Clients, oid \in OrderIds :
              \/ client_to_open_orders'[c][oid] = 0
              \/ LET id == client_to_open_orders[c][oid] IN
                 client_to_open_orders'[c][oid] = id /\ exch_to_client_orders'[id] = exch_to_client_orders[id],
           pc' = "pop" /\ Closes(Head(to_client)) => exch_to_client_orders'[Head(to_client).id] = NoEntry
    PROVE  MapsOK'
  <1>1. /\ \A c \in Clients, oid \in OrderIds :
              client_to_open_orders'[c][oid] # 0 =>
                 exch_to_client_orders'[client_to_open_orders'[c][oid]] = Entry(c, oid)
    BY DEF MapsOK
  <1>2. \A id \in Ids : exch_to_client_orders'[id] # NoEntry => id <= clock
    BY DEF MapsOK
  <1>3. \A id, other \in Ids :
           exch_to_client_orders'[id] = exch_to_client_orders'[other] /\ exch_to_client_orders'[id] # NoEntry
              => id = other
    <2>1. SUFFICES ASSUME NEW id \in Ids, NEW other \in Ids,
                          exch_to_client_orders'[id] = exch_to_client_orders'[other],
                          exch_to_client_orders'[id] # NoEntry
                   PROVE  id = other
      OBVIOUS
    <2>2. /\ exch_to_client_orders'[id] = exch_to_client_orders[id]
          /\ exch_to_client_orders'[other] = exch_to_client_orders[other]
      BY <2>1
    <2>3. QED
      BY <2>1, <2>2 DEF MapsOK
  <1>4. ASSUME NEW id \in Ids, Tracked(id)' PROVE id \in open \/ clientOf[id] = NoClient \/ Reported(id)
    <2> DEFINE e == exch_to_client_orders[id]
    <2>1. /\ exch_to_client_orders'[id] = e /\ e # NoEntry
          /\ client_to_open_orders'[e.client][e.order_id] = id
      BY <1>4 DEF Tracked
    <2>2. e \in Entries /\ e.client \in Clients /\ e.order_id \in OrderIds
      BY <2>1 DEF TypeInv, SessionLayerOK, Entries
    <2>3. id # 0
      BY DEF Ids
    <2>4. client_to_open_orders[e.client][e.order_id] = id
      BY <2>1, <2>2, <2>3
    <2>5. Tracked(id)
      BY <2>1, <2>4 DEF Tracked
    <2>6. QED
      BY <2>5 DEF MapsOK
  <1>5. QED
    BY <1>1, <1>2, <1>3, <1>4 DEF MapsOK

\* Closing sockets moves the orders entered on them to the ended ones.
LEMMA CloseHistory ==
    ASSUME TypeInv, OrdersOK, NEW S \in SUBSET Sockets, CloseSockets(S), clock' = clock
    PROVE  /\ \A id \in Ids : entered'[id] # NoSocket \/ id \in ended' => id <= clock'
           /\ \A id \in ended' : entered'[id] = NoSocket
           /\ \A id \in Ids : entered[id] \notin S => entered'[id] = entered[id]
           /\ ended \subseteq ended'
           /\ \A id \in Ids : entered[id] \in S => id \in ended'
  <1>1. NoSocket \notin S /\ ended \subseteq Ids
    BY HandlerAssumption DEF TypeInv, SessionLayerOK
  <1>2. QED
    BY <1>1 DEF CloseSockets, OrdersOK

\* The maps lose the orders in D, which the broker has closed.
Settled(D, openAfter) ==
    /\ \A id \in Ids : exch_to_client_orders'[id] = IF id \in D THEN NoEntry ELSE exch_to_client_orders[id]
    /\ \A c \in Clients, oid \in OrderIds :
          client_to_open_orders'[c][oid] = IF client_to_open_orders[c][oid] \in D THEN 0 ELSE openAfter[c][oid]

\* A handler that ends the session on s: what it cancels is in the pipe, and what is not
\* cancelled belongs to other sessions.
LEMMA EndSessionOrders ==
    ASSUME TypeInv, TypeInv', SessionInv, OrderInv, outbox = <<>>,
           UNCHANGED <<from_client, to_client, engineVars, clock>>,
           NEW s \in Sockets, NEW S \in SUBSET Sockets, s \in S, pc = "reading" => fd \in S,
           \A t \in S : t = s \/ sock_to_session_info[t] = NoClient,
           OnSocketClosed(s), CloseSockets(S),
           NEW D \in SUBSET Ids, \A id \in D : Reported(id), Settled(D, OpenOrdersAfter(s)),
           pc' = "pop" /\ Closes(Head(to_client)) => Head(to_client).id \in D
    PROVE  OrderInv'
  <1> USE DEF OrderInv
  <1> DEFINE c == sock_to_session_info[s]
             after == OpenOrdersAfter(s)
  <1>1. /\ SessionLayerOK /\ BrokerOK
        /\ sock_to_session_info \in [Sockets -> Clients \cup {NoClient}]
        /\ client_to_open_orders \in [Clients -> [OrderIds -> 0..MaxOrders]]
        /\ UNCHANGED <<to_client, open, clientOf, clock>>
        /\ outbox' \in Seq(Requests)
    BY DEF TypeInv, QueuesOK, SessionLayerOK, engineVars
  <1>2. /\ sock_to_session_info' = [sock_to_session_info EXCEPT ![s] = NoClient]
        /\ c = NoClient => outbox' = <<>> /\ after = client_to_open_orders
        /\ c # NoClient => /\ c \in Clients /\ Cancels(client_to_open_orders[c], outbox')
                           /\ after = OpenOrdersWithout(c)
    BY <1>1, SocketClosed
  <1>3. \A d \in Clients, oid \in OrderIds :
           after[d][oid] = IF d = c THEN 0 ELSE client_to_open_orders[d][oid]
    BY <1>1, <1>2, HandlerAssumption DEF OpenOrdersWithout, NoOpenOrders
  <1>4. \A k \in DOMAIN outbox' : /\ outbox'[k].msg_type = "DELETE_ORDER"
                                  /\ \E oid \in OrderIds : /\ outbox'[k].id = client_to_open_orders[c][oid]
                                                           /\ client_to_open_orders[c][oid] # 0
                                  /\ c \in Clients
    BY <1>2 DEF Cancels
  <1>5. \A d \in Clients, oid \in OrderIds : LET id == client_to_open_orders[d][oid] IN
           id # 0 => id \in Ids /\ id <= clock /\ exch_to_client_orders[id] = Entry(d, oid)
    <2>1. SUFFICES ASSUME NEW d \in Clients, NEW oid \in OrderIds, client_to_open_orders[d][oid] # 0
                   PROVE  LET id == client_to_open_orders[d][oid] IN
                          id \in Ids /\ id <= clock /\ exch_to_client_orders[id] = Entry(d, oid)
      OBVIOUS
    <2>2. client_to_open_orders[d][oid] \in Ids
      BY <1>1, <2>1, HandlerAssumption DEF Ids
    <2>3. exch_to_client_orders[client_to_open_orders[d][oid]] = Entry(d, oid) /\ Entry(d, oid) # NoEntry
      BY <2>1, EntryFields DEF MapsOK
    <2>4. QED
      BY <2>2, <2>3 DEF MapsOK
  <1>6. \A k \in DOMAIN outbox' : outbox'[k].msg_type = "DELETE_ORDER" /\ outbox'[k].id <= clock
    BY <1>4, <1>5
  <1>7. /\ PipeOK'
        /\ \A id \in Ids : Deleting(id) => Deleting(id)'
        /\ \A id \in Ids, d \in Clients : Alive(id, d)' => Alive(id, d)
        /\ \A k \in DOMAIN outbox', id \in Ids :
              outbox'[k].msg_type = "DELETE_ORDER" /\ outbox'[k].id = id => Deleting(id)'
    BY <1>1, <1>6, AppendOther
  <1>8. ClosedOK' /\ \A id \in Ids : Reported(id)' <=> Reported(id)
    BY ClosedStays
  <1>9. MapsOK'
    <2>1. \A id \in Ids : exch_to_client_orders'[id] \in {exch_to_client_orders[id], NoEntry}
      BY DEF Settled
    <2>2. ASSUME NEW d \in Clients, NEW oid \in OrderIds, client_to_open_orders'[d][oid] # 0
          PROVE  LET id == client_to_open_orders[d][oid] IN
                 client_to_open_orders'[d][oid] = id /\ exch_to_client_orders'[id] = exch_to_client_orders[id]
      <3>1. client_to_open_orders[d][oid] \notin D /\ client_to_open_orders'[d][oid] = client_to_open_orders[d][oid]
        BY <1>3, <2>2 DEF Settled
      <3>2. client_to_open_orders[d][oid] \in Ids
        BY <1>5, <2>2, <3>1
      <3>3. QED
        BY <3>1, <3>2 DEF Settled
    <2>3. pc' = "pop" /\ Closes(Head(to_client)) => exch_to_client_orders'[Head(to_client).id] = NoEntry
      BY DEF Settled
    <2>4. QED
      BY <1>1, <1>8, <2>1, <2>2, <2>3, MapsShrink
  <1>10. OrdersOK'
    <2>1. /\ \A id \in Ids : entered'[id] # NoSocket \/ id \in ended' => id <= clock'
          /\ \A id \in ended' : entered'[id] = NoSocket
          /\ \A id \in Ids : entered[id] \notin S => entered'[id] = entered[id]
      BY <1>1, CloseHistory
    <2>2. ASSUME NEW id \in Ids, NEW d \in Clients, Alive(id, d)' PROVE Deleting(id)' \/ Mine(id, d)'
      <3>1. Alive(id, d) /\ (Deleting(id) \/ Mine(id, d))
        BY <1>7, <2>2 DEF OrdersOK
      <3>2. id \notin D
        BY <3>1, AliveNotReported
      <3>3. CASE Deleting(id)
        BY <1>7, <3>3
      <3>4. CASE Mine(id, d)
        <4> DEFINE e == exch_to_client_orders[id]
        <4>1. /\ e # NoEntry /\ e.client = d /\ client_to_open_orders[d][e.order_id] = id
          BY <3>4 DEF Mine, Tracked
        <4>2. e.order_id \in OrderIds
          BY <1>1, <4>1 DEF SessionLayerOK, Entries
        <4>3. CASE d = c
          <5>1. \E k \in DOMAIN outbox' : outbox'[k].msg_type = "DELETE_ORDER" /\ outbox'[k].id = id
            <6>1. id # 0
              BY DEF Ids
            <6>2. c # NoClient
              BY <4>3, HandlerAssumption
            <6>3. Cancels(client_to_open_orders[c], outbox') /\ client_to_open_orders[c][e.order_id] = id
              BY <1>2, <4>1, <4>3, <6>2
            <6>4. QED
              BY <1>4, <4>2, <6>1, <6>3 DEF Cancels
          <5>2. QED
            BY <1>7, <5>1
        <4>4. CASE d # c
          <5>1. exch_to_client_orders'[id] = e /\ client_to_open_orders'[d][e.order_id] = id
            BY <1>3, <3>2, <4>1, <4>2, <4>4 DEF Settled
          <5>2. Tracked(id)' /\ exch_to_client_orders'[id].client = d
            BY <4>1, <5>1 DEF Tracked
          <5>3. \A t \in Sockets : sock_to_session_info[t] = d => t \notin S /\ sock_to_session_info'[t] = d
            BY <1>1, <1>2, <4>4, HandlerAssumption
          <5>4. entered[id] # NoSocket /\ sock_to_session_info[entered[id]] = d /\ entered[id] \in Sockets
            <6>1. entered[id] \in Sockets \cup {NoSocket} /\ (pc = "reading" => fd \in Sockets)
              BY <1>1 DEF SessionLayerOK
            <6>2. QED
              BY <3>4, <5>3, <6>1 DEF Mine
          <5>5. entered'[id] # NoSocket /\ sock_to_session_info'[entered'[id]] = d
            BY <2>1, <5>3, <5>4
          <5>6. QED
            BY <5>2, <5>5 DEF Mine
        <4>5. QED
          BY <4>3, <4>4
      <3>5. QED
        BY <3>1, <3>3, <3>4
    <2>3. QED
      BY <2>1, <2>2 DEF OrdersOK
  <1>11. QED
    BY <1>7, <1>8, <1>9, <1>10

\* The session layer's maps are left alone and the session stays with the orders.
LEMMA OrdersKept ==
    ASSUME TypeInv, TypeInv', OrderInv, outbox = <<>>, clock' = clock,
           UNCHANGED <<from_client, to_client, engineVars, orderMaps>>, pc' # "pop",
           \A k \in DOMAIN outbox' : /\ outbox'[k].msg_type # "NEW_ORDER"
                                     /\ outbox'[k].msg_type # "REJECT" => outbox'[k].id <= clock,
           \A id \in Ids : entered'[id] # NoSocket \/ id \in ended' => id <= clock,
           \A id \in ended' : entered'[id] = NoSocket,
           \A id \in Ids, c \in Clients : Alive(id, c) /\ Mine(id, c) => Mine(id, c)'
    PROVE  OrderInv'
  <1> USE DEF OrderInv
  <1>1. outbox' \in Seq(Requests) /\ UNCHANGED <<to_client, open, clientOf, clock>>
        /\ UNCHANGED <<client_to_open_orders, exch_to_client_orders>>
    BY DEF TypeInv, QueuesOK, engineVars, orderMaps
  <1>2. /\ PipeOK'
        /\ \A id \in Ids : Deleting(id) => Deleting(id)'
        /\ \A id \in Ids, d \in Clients : Alive(id, d)' => Alive(id, d)
    BY <1>1, AppendOther
  <1>3. ClosedOK' /\ \A id \in Ids : Reported(id)' <=> Reported(id)
    BY ClosedStays
  <1>4. MapsOK'
    BY <1>1, <1>3, MapsShrink
  <1>5. OrdersOK'
    BY <1>1, <1>2 DEF OrdersOK
  <1>6. QED
    BY <1>2, <1>3, <1>4, <1>5

\* Nothing is sent and nothing changes but where the thread is.
LEMMA Idle ==
    ASSUME TypeInv, TypeInv', OrderInv, outbox = <<>>,
           UNCHANGED <<from_client, to_client, sessions, orderMaps, outbox, history, engineVars>>, pc' # "pop",
           pc = "reading" /\ fd \notin conn => pc' = "reading" /\ fd' = fd /\ conn' = conn
    PROVE  OrderInv'
  <1>1. clock' = clock /\ entered' = entered /\ ended' = ended /\ sock_to_session_info' = sock_to_session_info
        /\ UNCHANGED <<client_to_open_orders, exch_to_client_orders>>
    BY DEF history, sessions, orderMaps
  <1>2. ASSUME NEW id \in Ids, NEW c \in Clients, Mine(id, c) PROVE Mine(id, c)'
    BY <1>1, <1>2 DEF Mine, Tracked
  <1>3. outbox' = <<>> /\ DOMAIN outbox' = {}
    OBVIOUS
  <1>4. QED
    BY <1>1, <1>2, <1>3, OrdersKept DEF OrderInv, OrdersOK

\* on_login: a login that is refused while the socket has a session leaves the orders to
\* the end of the read.
LEMMA LoginOrders ==
    ASSUME TypeInv, TypeInv', SessionInv, OrderInv, ~LoginTwice, Running("reading"),
           UNCHANGED <<from_client, to_client, engineVars, pc, fd>>,
           NEW c \in Clients, NEW valid \in BOOLEAN, OnLogin(c, valid)
    PROVE  OrderInv'
  <1>1. /\ SessionLayerOK /\ fd \in Sockets /\ SessionsAgree /\ outbox = <<>> /\ pc = "reading"
        /\ sock_to_session_info \in [Sockets -> Clients \cup {NoClient}]
        /\ client_to_sock_fd \in [Clients -> Sockets \cup {NoSocket}]
        /\ entered \in [Ids -> Sockets \cup {NoSocket}]
        /\ clock' = clock /\ exch_to_client_orders' = exch_to_client_orders
        /\ pc' = "reading" /\ fd' = fd
        /\ OrdersOK
    BY DEF TypeInv, SessionLayerOK, Running, SessionInv, OnLogin, OrderInv
  <1> DEFINE other == client_to_sock_fd[c]
  <1>2. CASE LoginRefused
    <2>1. /\ CloseSockets({fd}) /\ conn' = conn \ {fd} /\ sock_to_session_info' = sock_to_session_info
          /\ client_to_open_orders' = client_to_open_orders /\ outbox' = <<>>
      BY <1>1, <1>2 DEF LoginRefused, CloseSockets, sessions
    <2>2. /\ \A id \in Ids : entered'[id] # NoSocket \/ id \in ended' => id <= clock'
          /\ \A id \in ended' : entered'[id] = NoSocket
          /\ \A id \in Ids : entered[id] \notin {fd} => entered'[id] = entered[id]
          /\ ended \subseteq ended'
          /\ \A id \in Ids : entered[id] \in {fd} => id \in ended'
      BY <1>1, <2>1, CloseHistory
    <2>3. ASSUME NEW id \in Ids, NEW d \in Clients, Mine(id, d) PROVE Mine(id, d)'
      BY <1>1, <2>1, <2>2, <2>3 DEF Mine, Tracked
    <2>4. QED
      BY <1>1, <2>1, <2>2, <2>3, OrdersKept DEF orderMaps
  <1>3. CASE valid /\ other = NoSocket /\ LoginAccepted(c)
    <2>1. sock_to_session_info[fd] = NoClient
      BY <1>1, <1>3, HandlerAssumption DEF OnLogin, SessionsAgree
    <2>2. /\ fd \in conn /\ sock_to_session_info' = [sock_to_session_info EXCEPT ![fd] = c]
          /\ client_to_open_orders' = client_to_open_orders /\ outbox' = <<>>
          /\ entered' = entered /\ ended' = ended
      BY <1>1, <1>3 DEF LoginAccepted
    <2>3. ASSUME NEW id \in Ids, NEW d \in Clients, Mine(id, d) PROVE Mine(id, d)'
      <3>1. Tracked(id) /\ exch_to_client_orders[id].client = d
            /\ entered[id] # NoSocket /\ sock_to_session_info[entered[id]] = d
        BY <2>2, <2>3 DEF Mine
      <3>2. sock_to_session_info'[entered[id]] = d
        BY <1>1, <2>1, <2>2, <3>1, HandlerAssumption
      <3>3. Tracked(id)' /\ exch_to_client_orders'[id].client = d
        BY <1>1, <2>2, <3>1 DEF Tracked
      <3>4. QED
        BY <2>2, <3>1, <3>2, <3>3 DEF Mine
    <2>4. QED
      BY <1>1, <2>2, <2>3, OrdersKept DEF orderMaps, OrdersOK
  <1>4. CASE valid /\ other = NoSocket /\ LoginUnanswered(c)
    <2>1. sock_to_session_info[fd] = NoClient
      BY <1>1, <1>4, HandlerAssumption DEF OnLogin, SessionsAgree
    <2>2. /\ sock_to_session_info' = sock_to_session_info /\ CloseSockets({fd})
          /\ client_to_open_orders' = OpenOrdersWithout(c) /\ CancelAll(c)
      BY <1>1, <1>4, <2>1 DEF LoginUnanswered
    <2>3. client_to_open_orders \in [Clients -> [OrderIds -> 0..MaxOrders]]
      BY <1>1 DEF SessionLayerOK
    <2>4. Cancels(client_to_open_orders[c], outbox')
      BY <2>2, <2>3, CancelAllCancels
    <2>5. \A d \in Clients, oid \in OrderIds :
             client_to_open_orders'[d][oid] = IF d = c THEN 0 ELSE client_to_open_orders[d][oid]
      BY <2>2, <2>3 DEF OpenOrdersWithout, NoOpenOrders
    <2>6. \A d \in Clients, oid \in OrderIds : LET id == client_to_open_orders[d][oid] IN
             id # 0 => id \in Ids /\ id <= clock
      <3>1. SUFFICES ASSUME NEW d \in Clients, NEW oid \in OrderIds, client_to_open_orders[d][oid] # 0
                     PROVE  LET id == client_to_open_orders[d][oid] IN id \in Ids /\ id <= clock
        OBVIOUS
      <3>2. client_to_open_orders[d][oid] \in Ids
        BY <2>3, <3>1, HandlerAssumption DEF Ids
      <3>3. exch_to_client_orders[client_to_open_orders[d][oid]] = Entry(d, oid) /\ Entry(d, oid) # NoEntry
        BY <3>1, EntryFields DEF OrderInv, MapsOK
      <3>4. QED
        BY <3>2, <3>3 DEF OrderInv, MapsOK
    <2>7. \A k \in DOMAIN outbox' : outbox'[k].msg_type = "DELETE_ORDER" /\ outbox'[k].id <= clock
      BY <2>4, <2>6 DEF Cancels
    <2>8. outbox' \in Seq(Requests) /\ UNCHANGED <<to_client, open, clientOf, clock>>
      BY <1>1, <2>4 DEF Cancels, engineVars
    <2>9. /\ PipeOK'
          /\ \A id \in Ids : Deleting(id) => Deleting(id)'
          /\ \A id \in Ids, d \in Clients : Alive(id, d)' => Alive(id, d)
          /\ \A k \in DOMAIN outbox', id \in Ids :
                outbox'[k].msg_type = "DELETE_ORDER" /\ outbox'[k].id = id => Deleting(id)'
      BY <1>1, <2>7, <2>8, AppendOther DEF OrderInv
    <2>10. ClosedOK' /\ \A id \in Ids : Reported(id)' <=> Reported(id)
      BY <1>1, ClosedStays DEF OrderInv
    <2>11. MapsOK'
      BY <1>1, <2>5, <2>8, <2>10, MapsShrink DEF OrderInv
    <2>12. /\ \A id \in Ids : entered'[id] # NoSocket \/ id \in ended' => id <= clock'
           /\ \A id \in ended' : entered'[id] = NoSocket
           /\ \A id \in Ids : entered[id] \notin {fd} => entered'[id] = entered[id]
      BY <1>1, <2>2, CloseHistory
    <2>13. ASSUME NEW id \in Ids, NEW d \in Clients, Alive(id, d)' PROVE Deleting(id)' \/ Mine(id, d)'
      <3>1. Alive(id, d) /\ (Deleting(id) \/ Mine(id, d))
        BY <1>1, <2>9, <2>13 DEF OrdersOK
      <3>2. CASE Deleting(id)
        BY <2>9, <3>2
      <3>3. CASE Mine(id, d)
        <4> DEFINE e == exch_to_client_orders[id]
        <4>1. /\ e # NoEntry /\ e.client = d /\ client_to_open_orders[d][e.order_id] = id
          BY <3>3 DEF Mine, Tracked
        <4>2. e.order_id \in OrderIds /\ id # 0
          BY <1>1, <4>1 DEF SessionLayerOK, Entries, Ids
        <4>3. CASE d = c
          <5>1. \E k \in DOMAIN outbox' : outbox'[k].id = id
            BY <2>4, <4>1, <4>2, <4>3 DEF Cancels
          <5>2. QED
            BY <2>7, <2>9, <5>1
        <4>4. CASE d # c
          <5>1. Tracked(id)' /\ exch_to_client_orders'[id].client = d
            BY <1>1, <2>5, <4>1, <4>2, <4>4 DEF Tracked
          <5>2. entered[id] # NoSocket /\ sock_to_session_info[entered[id]] = d /\ entered[id] # fd
            BY <2>1, <3>3, HandlerAssumption DEF Mine
          <5>3. QED
            BY <2>2, <2>12, <5>1, <5>2 DEF Mine
        <4>5. QED
          BY <4>3, <4>4
      <3>4. QED
        BY <3>1, <3>2, <3>3
    <2>14. QED
      BY <2>9, <2>10, <2>11, <2>12, <2>13 DEF OrderInv, OrdersOK
  <1>5. CASE valid /\ other # NoSocket /\ other # fd /\ LoginDuplicate(other)
    <2>1. other \in Sockets /\ sock_to_session_info[other] = c
      BY <1>1, <1>5 DEF SessionsAgree
    <2>2. sock_to_session_info[fd] = NoClient
      BY <1>1, <1>5, HandlerAssumption DEF OnLogin, SessionsAgree
    <2>3. Settled({}, OpenOrdersAfter(other))
      BY <1>1, <1>5 DEF Settled, LoginDuplicate
    <2>4. QED
      BY <1>1, <1>5, <2>1, <2>2, <2>3, EndSessionOrders DEF LoginDuplicate
  <1>6. CASE UNCHANGED <<sessions, client_to_open_orders, outbox, conn, entered, ended>>
    BY <1>1, <1>6, Idle DEF orderMaps, history
  <1>7. QED
    BY <1>2, <1>3, <1>4, <1>5, <1>6 DEF OnLogin, Authenticated

\* A request that is rejected, or passed on for an order that is open.
LEMMA PassOnOrders ==
    ASSUME TypeInv, TypeInv', OrderInv, Running("reading"),
           UNCHANGED <<from_client, to_client, engineVars, pc, fd, sessions, conn, ended>>,
           NEW c \in Clients, NEW oid \in OrderIds,
           \/ SendOrderReject(c, oid)
           \/ /\ client_to_open_orders[c][oid] # 0
              /\ \E type \in {"DELETE_ORDER", "MODIFY_ORDER"} : Forward(type, c, oid)
    PROVE  OrderInv'
  <1>1. /\ outbox = <<>> /\ pc' = "reading" /\ fd' = fd /\ conn' = conn /\ UNCHANGED orderMaps
        /\ UNCHANGED <<clock, entered, ended, client_to_open_orders, exch_to_client_orders>>
        /\ sock_to_session_info' = sock_to_session_info
    BY DEF Running, SendOrderReject, Forward, orderMaps, sessions
  <1>2. PICK type \in {"DELETE_ORDER", "MODIFY_ORDER", "REJECT"}, id \in 0..MaxOrders \cup OrderIds :
          /\ outbox' = <<PayloadOf(type, id, c)>>
          /\ type # "REJECT" => id = client_to_open_orders[c][oid] /\ id # 0
    <2> DEFINE Goal == \E type \in {"DELETE_ORDER", "MODIFY_ORDER", "REJECT"}, id \in 0..MaxOrders \cup OrderIds :
                         /\ outbox' = <<PayloadOf(type, id, c)>>
                         /\ type # "REJECT" => id = client_to_open_orders[c][oid] /\ id # 0
    <2>1. CASE SendOrderReject(c, oid)
      <3>1. outbox' = <<PayloadOf("REJECT", oid, c)>>
        BY <2>1 DEF SendOrderReject
      <3>2. Goal
        BY <3>1
      <3>3. QED
        BY <3>2
    <2>2. ASSUME client_to_open_orders[c][oid] # 0, NEW t \in {"DELETE_ORDER", "MODIFY_ORDER"}, Forward(t, c, oid)
          PROVE  Goal
      <3>1. /\ outbox' = <<PayloadOf(t, client_to_open_orders[c][oid], c)>>
            /\ client_to_open_orders[c][oid] \in 0..MaxOrders
        BY <2>2 DEF Forward, TypeInv, SessionLayerOK
      <3>2. PICK i \in 0..MaxOrders \cup OrderIds : i = client_to_open_orders[c][oid]
        BY <3>1
      <3>3. QED
        BY <2>2, <3>1, <3>2
    <2> HIDE DEF Goal
    <2>3. CASE ~ SendOrderReject(c, oid)
      <3>1. client_to_open_orders[c][oid] # 0 /\ \E t \in {"DELETE_ORDER", "MODIFY_ORDER"} : Forward(t, c, oid)
        BY <2>3, Zenon
      <3>2. PICK t \in {"DELETE_ORDER", "MODIFY_ORDER"} : Forward(t, c, oid)
        BY <3>1, Zenon
      <3>3. Goal
        BY <2>2, <3>1, <3>2, Zenon
      <3>4. QED
        BY <3>3 DEF Goal
    <2>4. QED
      BY <2>1, <2>3, Zenon
  <1>3. type # "REJECT" => id <= clock
    <2>1. SUFFICES ASSUME type # "REJECT" PROVE id <= clock
      OBVIOUS
    <2>2. id \in Ids /\ exch_to_client_orders[id] = Entry(c, oid)
      BY <1>2, <2>1, HandlerAssumption DEF OrderInv, MapsOK, TypeInv, SessionLayerOK, Ids
    <2>3. QED
      BY <2>2, EntryFields DEF OrderInv, MapsOK
  <1>4. DOMAIN outbox' = {1} /\ outbox'[1].msg_type = type /\ outbox'[1].id = id
    BY <1>2 DEF PayloadOf
  <1>5. ASSUME NEW x \in Ids, NEW d \in Clients, Mine(x, d) PROVE Mine(x, d)'
    BY <1>1, <1>5 DEF Mine, Tracked
  <1>6. QED
    BY <1>1, <1>3, <1>4, <1>5, OrdersKept DEF OrderInv, OrdersOK

\* An order is entered: it is in both maps, under the session of the socket it came from.
LEMMA EnterOrders ==
    ASSUME TypeInv, TypeInv', OrderInv, Running("reading"),
           UNCHANGED <<from_client, to_client, engineVars, pc, fd, sessions, conn, ended>>,
           NEW c \in Clients, NEW oid \in OrderIds, sock_to_session_info[fd] = c,
           \A id \in Ids : exch_to_client_orders[id] # Entry(c, oid), Enter(c, oid)
    PROVE  OrderInv'
  <1> USE DEF OrderInv
  <1>1. /\ outbox = <<>> /\ pc' = "reading" /\ fd' = fd /\ conn' = conn /\ ended' = ended /\ fd \in Sockets
        /\ sock_to_session_info' = sock_to_session_info
        /\ UNCHANGED <<to_client, open, clientOf>>
    BY DEF Running, sessions, TypeInv, SessionLayerOK, engineVars
  <1>0. PICK n \in Nat : n = clock + 1
    BY HandlerAssumption DEF TypeInv, SessionLayerOK
  <1>2. /\ clock < MaxOrders /\ clock' = n
        /\ client_to_open_orders' = [client_to_open_orders EXCEPT ![c][oid] = n]
        /\ exch_to_client_orders' = [exch_to_client_orders EXCEPT ![n] = Entry(c, oid)]
        /\ outbox' = <<PayloadOf("NEW_ORDER", n, c)>>
        /\ entered' = [entered EXCEPT ![n] = fd]
    BY <1>0 DEF Enter
  <1>3. clock \in Nat /\ n \in Ids /\ n # 0 /\ Ids \subseteq Nat /\ \A id \in Ids : id <= clock => id # n /\ id <= n
    BY <1>0, <1>2, HandlerAssumption DEF TypeInv, SessionLayerOK, Ids
  <1>4. /\ client_to_open_orders \in [Clients -> [OrderIds -> 0..MaxOrders]]
        /\ exch_to_client_orders \in [Ids -> Entries \cup {NoEntry}]
        /\ entered \in [Ids -> Sockets \cup {NoSocket}] /\ ended \subseteq Ids
    BY DEF TypeInv, SessionLayerOK
  <1>5. /\ PipeOK'
        /\ \A id \in Ids : Deleting(id) => Deleting(id)'
        /\ \A id \in Ids, d \in Clients : Alive(id, d)' => Alive(id, d) \/ (id = n /\ d = c)
    BY <1>0, <1>1, <1>2, AppendNew
  <1>6. ClosedOK' /\ \A id \in Ids : Reported(id)' <=> Reported(id)
    BY <1>0, <1>2, ClosedStays
  <1>7. Entry(c, oid) # NoEntry /\ Entry(c, oid).client = c /\ Entry(c, oid).order_id = oid
    BY EntryFields
  <1>8. /\ exch_to_client_orders'[n] = Entry(c, oid)
        /\ \A id \in Ids \ {n} : exch_to_client_orders'[id] = exch_to_client_orders[id]
        /\ client_to_open_orders'[c][oid] = n
        /\ \A d \in Clients, o \in OrderIds :
              d # c \/ o # oid => client_to_open_orders'[d][o] = client_to_open_orders[d][o]
        /\ entered'[n] = fd
        /\ \A id \in Ids \ {n} : entered'[id] = entered[id]
    BY <1>2, <1>3, <1>4
  <1>9. exch_to_client_orders[n] = NoEntry
    BY <1>3 DEF MapsOK
  <1>10. ASSUME NEW id \in Ids, id # n
         PROVE  /\ Tracked(id)' <=> Tracked(id)
                /\ exch_to_client_orders'[id] = exch_to_client_orders[id]
    <2> DEFINE e == exch_to_client_orders[id]
    <2>1. CASE e = NoEntry
      BY <1>8, <1>10, <2>1 DEF Tracked
    <2>2. CASE e # NoEntry
      <3>1. e \in Entries /\ e # Entry(c, oid)
        BY <1>4, <2>2
      <3>2. e.client # c \/ e.order_id # oid
        BY <3>1 DEF Entries, Entry
      <3>3. e.client \in Clients /\ e.order_id \in OrderIds
        BY <3>1 DEF Entries
      <3>4. client_to_open_orders'[e.client][e.order_id] = client_to_open_orders[e.client][e.order_id]
        BY <1>8, <3>2, <3>3
      <3>5. QED
        BY <1>8, <1>10, <3>4 DEF Tracked
    <2>3. QED
      BY <2>1, <2>2
  <1>11. Tracked(n)'
    BY <1>7, <1>8 DEF Tracked
  <1>12. MapsOK'
    <2>1. ASSUME NEW d \in Clients, NEW o \in OrderIds, client_to_open_orders'[d][o] # 0
          PROVE  exch_to_client_orders'[client_to_open_orders'[d][o]] = Entry(d, o)
      <3>1. CASE d = c /\ o = oid
        BY <1>8, <3>1
      <3>2. CASE d # c \/ o # oid
        <4>1. client_to_open_orders'[d][o] = client_to_open_orders[d][o]
          BY <1>8, <3>2
        <4>2. /\ exch_to_client_orders[client_to_open_orders[d][o]] = Entry(d, o) /\ Entry(d, o) # NoEntry
              /\ client_to_open_orders[d][o] \in Ids
          BY <1>4, <2>1, <4>1, EntryFields, HandlerAssumption DEF MapsOK, Ids
        <4>3. QED
          BY <1>8, <1>9, <4>1, <4>2
      <3>3. QED
        BY <3>1, <3>2
    <2>2. \A id \in Ids : exch_to_client_orders'[id] # NoEntry => id <= clock'
      BY <1>2, <1>3, <1>8 DEF MapsOK
    <2>3. ASSUME NEW id \in Ids, NEW other \in Ids,
                 exch_to_client_orders'[id] = exch_to_client_orders'[other], exch_to_client_orders'[id] # NoEntry
          PROVE  id = other
      <3>1. CASE id # n /\ other # n
        BY <1>8, <2>3, <3>1 DEF MapsOK
      <3>2. CASE id = n \/ other = n
        BY <1>8, <2>3, <3>2
      <3>3. QED
        BY <3>1, <3>2
    <2>4. ASSUME NEW id \in Ids, Tracked(id)' PROVE id \in open' \/ clientOf'[id] = NoClient \/ Reported(id)'
      <3>1. CASE id = n
        BY <1>1, <1>3, <3>1 DEF ClosedOK
      <3>2. CASE id # n
        BY <1>1, <1>6, <1>10, <2>4, <3>2 DEF MapsOK
      <3>3. QED
        BY <3>1, <3>2
    <2>5. QED
      BY <1>1, <2>1, <2>2, <2>3, <2>4 DEF MapsOK
  <1>13. OrdersOK'
    <2>1. /\ \A id \in Ids : entered'[id] # NoSocket \/ id \in ended' => id <= clock'
          /\ \A id \in ended' : entered'[id] = NoSocket
      BY <1>1, <1>2, <1>3, <1>4, <1>8 DEF OrdersOK
    <2>2. ASSUME NEW id \in Ids, NEW d \in Clients, Alive(id, d)' PROVE Deleting(id)' \/ Mine(id, d)'
      <3>1. CASE id = n /\ d = c
        BY <1>1, <1>7, <1>8, <1>11, <3>1, HandlerAssumption DEF Mine
      <3>2. CASE Alive(id, d)
        <4>1. id # n
          BY <1>3, <3>2, AliveNotReported
        <4>2. CASE Deleting(id)
          BY <1>5, <4>2
        <4>3. CASE Mine(id, d)
          BY <1>1, <1>8, <1>10, <4>1, <4>3 DEF Mine
        <4>4. QED
          BY <3>2, <4>2, <4>3 DEF OrdersOK
      <3>3. QED
        BY <1>5, <2>2, <3>1, <3>2
    <2>3. QED
      BY <2>1, <2>2 DEF OrdersOK
  <1>14. QED
    BY <1>5, <1>6, <1>12, <1>13

\* One message of a client.
LEMMA MessageOrders ==
    ASSUME TypeInv, TypeInv', SessionInv, OrderInv, ~LoginTwice, ~ReuseUnclosed,
           Message, UNCHANGED engineVars
    PROVE  OrderInv'
  <1>1. Running("reading") /\ UNCHANGED <<from_client, to_client, engineVars, pc, fd>>
    BY DEF Message
  <1>2. PICK c \in Clients :
          \/ \E valid \in BOOLEAN : OnLogin(c, valid)
          \/ \E oid \in OrderIds, sessionRight \in BOOLEAN :
                \/ \E accepted \in BOOLEAN : OnNewOrder(c, sessionRight, oid, accepted)
                \/ OnDeleteOrder(c, sessionRight, oid)
                \/ \E accepted \in BOOLEAN : OnModifyOrder(c, sessionRight, oid, accepted)
    BY DEF Message
  <1>3. CASE \E valid \in BOOLEAN : OnLogin(c, valid)
    BY <1>1, <1>3, LoginOrders
  <1>4. ASSUME NEW oid \in OrderIds, NEW sessionRight \in BOOLEAN, NEW accepted \in BOOLEAN,
               OnNewOrder(c, sessionRight, oid, accepted)
        PROVE  OrderInv'
    BY <1>1, <1>4, EnterOrders, PassOnOrders DEF OnNewOrder, ValidateSession
  <1>5. ASSUME NEW oid \in OrderIds, NEW sessionRight \in BOOLEAN, OnDeleteOrder(c, sessionRight, oid)
        PROVE  OrderInv'
    BY <1>1, <1>5, PassOnOrders DEF OnDeleteOrder
  <1>6. ASSUME NEW oid \in OrderIds, NEW sessionRight \in BOOLEAN, NEW accepted \in BOOLEAN,
               OnModifyOrder(c, sessionRight, oid, accepted)
        PROVE  OrderInv'
    BY <1>1, <1>6, PassOnOrders DEF OnModifyOrder
  <1>7. QED
    BY <1>2, <1>3, <1>4, <1>5, <1>6

\* A report is processed and no session ends: the maps lose what the broker has closed.
LEMMA SettledOrders ==
    ASSUME TypeInv, TypeInv', OrderInv, Running("process"), pc' = "pop",
           UNCHANGED <<from_client, to_client, engineVars, clock, sessions, outbox, conn, entered, ended>>,
           NEW D \in SUBSET Ids, \A id \in D : Reported(id), Settled(D, client_to_open_orders),
           Closes(Head(to_client)) => exch_to_client_orders'[Head(to_client).id] = NoEntry
    PROVE  OrderInv'
  <1> USE DEF OrderInv
  <1>1. /\ outbox = <<>> /\ pc = "process" /\ outbox' = <<>> /\ outbox' \in Seq(Requests)
        /\ UNCHANGED <<to_client, open, clientOf, clock, sock_to_session_info>>
        /\ client_to_open_orders \in [Clients -> [OrderIds -> 0..MaxOrders]]
    BY DEF Running, engineVars, sessions, TypeInv, SessionLayerOK
  <1>2. /\ PipeOK'
        /\ \A id \in Ids : Deleting(id) => Deleting(id)'
        /\ \A id \in Ids, d \in Clients : Alive(id, d)' => Alive(id, d)
    BY <1>1, AppendOther
  <1>3. ClosedOK' /\ \A id \in Ids : Reported(id)' <=> Reported(id)
    BY ClosedStays
  <1>4. MapsOK'
    <2>1. \A id \in Ids : exch_to_client_orders'[id] \in {exch_to_client_orders[id], NoEntry}
      BY DEF Settled
    <2>2. ASSUME NEW d \in Clients, NEW oid \in OrderIds, client_to_open_orders'[d][oid] # 0
          PROVE  LET id == client_to_open_orders[d][oid] IN
                 client_to_open_orders'[d][oid] = id /\ exch_to_client_orders'[id] = exch_to_client_orders[id]
      <3>1. client_to_open_orders[d][oid] \notin D /\ client_to_open_orders'[d][oid] = client_to_open_orders[d][oid]
        BY <2>2 DEF Settled
      <3>2. client_to_open_orders[d][oid] \in Ids
        BY <1>1, <2>2, <3>1, HandlerAssumption DEF Ids
      <3>3. QED
        BY <3>1, <3>2 DEF Settled
    <2>3. QED
      BY <1>1, <1>3, <2>1, <2>2, MapsShrink
  <1>5. ASSUME NEW id \in Ids, NEW d \in Clients, Alive(id, d), Mine(id, d) PROVE Mine(id, d)'
    <2> DEFINE e == exch_to_client_orders[id]
    <2>1. id \notin D
      BY <1>5, AliveNotReported
    <2>2. /\ e # NoEntry /\ e.client = d /\ client_to_open_orders[d][e.order_id] = id
          /\ entered[id] # NoSocket /\ sock_to_session_info[entered[id]] = d
      BY <1>1, <1>5 DEF Mine, Tracked
    <2>3. e.order_id \in OrderIds
      BY <2>2 DEF TypeInv, SessionLayerOK, Entries
    <2>4. exch_to_client_orders'[id] = e /\ client_to_open_orders'[d][e.order_id] = id
      BY <2>1, <2>2, <2>3 DEF Settled
    <2>5. QED
      BY <1>1, <2>2, <2>4 DEF Mine, Tracked
  <1>6. OrdersOK'
    BY <1>1, <1>2, <1>5 DEF OrdersOK
  <1>7. QED
    BY <1>2, <1>3, <1>4, <1>6

\* process: a report that closes an order takes it out of both maps.
LEMMA ProcessOrders ==
    ASSUME TypeInv, TypeInv', SessionInv, OrderInv, Process, UNCHANGED engineVars
    PROVE  OrderInv'
  <1> DEFINE r == Head(to_client)
  <1>1. /\ Running("process") /\ pc' = "pop" /\ UNCHANGED <<from_client, to_client, engineVars, clock>>
        /\ to_client # <<>> /\ outbox = <<>> /\ pc # "reading"
    BY DEF Process, Running
  <1>2. /\ r.client \in Clients /\ (r.msg_type # "REJECT" => r.id \in Ids)
        /\ 1 \in DOMAIN to_client /\ to_client[1] = r
    <2>1. r \in Reports /\ 1 \in DOMAIN to_client /\ to_client[1] = r
      BY <1>1 DEF TypeInv, QueuesOK
    <2>2. QED
      BY <2>1 DEF Reports
  <1>3. Closes(r) => r.msg_type # "REJECT" /\ r.id \in Ids /\ Reported(r.id)
    BY <1>2 DEF Closes, Reported
  <1>4. /\ client_to_open_orders \in [Clients -> [OrderIds -> 0..MaxOrders]]
        /\ exch_to_client_orders \in [Ids -> Entries \cup {NoEntry}]
        /\ \A c \in Clients : client_to_sock_fd[c] \in Sockets \cup {NoSocket}
    BY DEF TypeInv, SessionLayerOK
  <1> HIDE DEF r
  \* What the write does, and the maps that follow it.
  <1>5. ASSUME NEW c \in Clients, NEW fails \in BOOLEAN, WriteToClient(c, fails),
               NEW D \in SUBSET Ids, \A id \in D : Reported(id), Settled(D, OpenOrdersAfterWrite(c, fails)),
               Closes(r) => r.id \in D
        PROVE  OrderInv'
    <2>1. CASE fails
      <3>1. client_to_sock_fd[c] \in Sockets /\ OnSocketClosed(client_to_sock_fd[c])
            /\ CloseSockets({client_to_sock_fd[c]}) /\ Settled(D, OpenOrdersAfter(client_to_sock_fd[c]))
        BY <1>4, <1>5, <2>1 DEF WriteToClient, OpenOrdersAfterWrite
      <3>2. QED
        BY <1>1, <1>5, <3>1, EndSessionOrders DEF r
    <2>2. CASE ~fails
      <3>1. UNCHANGED <<sessions, outbox, conn, entered, ended>> /\ Settled(D, client_to_open_orders)
        BY <1>5, <2>2 DEF WriteToClient, OpenOrdersAfterWrite
      <3>2. Closes(r) => exch_to_client_orders'[r.id] = NoEntry
        BY <1>3, <1>5 DEF Settled
      <3>3. QED
        BY <1>1, <1>5, <3>1, <3>2, SettledOrders DEF r
    <2>3. QED
      BY <2>1, <2>2
  <1>6. ASSUME NEW c \in Clients, NEW fails \in BOOLEAN, WriteToClient(c, fails)
        PROVE  OpenOrdersAfterWrite(c, fails) \in [Clients -> [OrderIds -> 0..MaxOrders]]
    BY <1>1, <1>6, WriteTypes
  <1>7. ASSUME NEW fails \in BOOLEAN, Reject(r, fails) PROVE OrderInv'
    <2>1. ~Closes(r) /\ WriteToClient(r.client, fails)
      BY <1>7 DEF Closes, Reject
    <2>2. Settled({}, OpenOrdersAfterWrite(r.client, fails))
      BY <1>4, <1>7 DEF Settled, Reject
    <2>3. QED
      BY <1>2, <1>5, <2>1, <2>2
  <1>8. CASE Unknown(r)
    <2>1. /\ UNCHANGED <<sessions, outbox, conn, entered, ended>> /\ exch_to_client_orders'[r.id] = NoEntry
          /\ Settled({}, client_to_open_orders)
      BY <1>8 DEF Unknown, Settled, orderMaps
    <2>2. QED
      BY <1>1, <2>1, SettledOrders DEF r
  <1>9. ASSUME NEW fails \in BOOLEAN, AckFillOrClose(r, fails) PROVE OrderInv'
    <2> DEFINE e == exch_to_client_orders[r.id]
               after == OpenOrdersAfterWrite(e.client, fails)
    <2>1. r.msg_type # "REJECT" /\ r.id \in Ids /\ e # NoEntry /\ WriteToClient(e.client, fails)
      BY <1>2, <1>9 DEF AckFillOrClose
    <2>2. e \in Entries
      BY <1>4, <2>1
    <2>3. e.client \in Clients /\ e.order_id \in OrderIds /\ e = Entry(e.client, e.order_id)
      BY <2>2 DEF Entries, Entry
    <2>4. CASE ~Closes(r)
      <3>1. Settled({}, after)
        BY <1>9, <2>4 DEF AckFillOrClose, Settled
      <3>2. QED
        BY <1>5, <2>1, <2>3, <2>4, <3>1
    <2>5. CASE Closes(r)
      <3>1. after \in [Clients -> [OrderIds -> 0..MaxOrders]]
        BY <1>6, <2>1, <2>3
      <3>2. /\ client_to_open_orders' = [after EXCEPT ![e.client][e.order_id] = 0]
            /\ exch_to_client_orders' = [exch_to_client_orders EXCEPT ![r.id] = NoEntry]
        BY <1>9, <2>5 DEF AckFillOrClose
      <3>3. ASSUME NEW d \in Clients, NEW oid \in OrderIds
            PROVE  client_to_open_orders'[d][oid] =
                      IF client_to_open_orders[d][oid] \in {r.id} THEN 0 ELSE after[d][oid]
        <4>1. CASE client_to_open_orders[d][oid] = r.id
          <5>1. e = Entry(d, oid)
            <6>1. r.id # 0
              BY <2>1 DEF Ids
            <6>2. QED
              BY <4>1, <6>1 DEF OrderInv, MapsOK
          <5>2. d = e.client /\ oid = e.order_id
            BY <5>1, EntryFields
          <5>3. QED
            BY <2>3, <3>1, <3>2, <4>1, <5>2
        <4>2. CASE client_to_open_orders[d][oid] # r.id /\ d = e.client /\ oid = e.order_id
          <5>1. client_to_open_orders[d][oid] = 0
            <6>1. SUFFICES ASSUME client_to_open_orders[d][oid] # 0 PROVE FALSE
              OBVIOUS
            <6>2. client_to_open_orders[d][oid] \in Ids
              BY <1>4, <6>1, HandlerAssumption DEF Ids
            <6>3. exch_to_client_orders[client_to_open_orders[d][oid]] = e
              BY <2>3, <4>2, <6>1 DEF OrderInv, MapsOK
            <6>4. QED
              BY <2>1, <4>2, <6>2, <6>3 DEF OrderInv, MapsOK
          <5>2. after[d][oid] = 0
            BY <1>4, <2>3, <4>2, <5>1 DEF OpenOrdersAfterWrite, OpenOrdersAfter, OpenOrdersWithout, NoOpenOrders
          <5>3. QED
            BY <2>3, <3>1, <3>2, <4>2, <5>2
        <4>3. CASE client_to_open_orders[d][oid] # r.id /\ ~(d = e.client /\ oid = e.order_id)
          BY <2>3, <3>1, <3>2, <4>3
        <4>4. QED
          BY <4>1, <4>2, <4>3
      <3>4. Settled({r.id}, after)
        BY <1>4, <2>1, <3>2, <3>3 DEF Settled
      <3>5. QED
        BY <1>3, <1>5, <2>1, <2>3, <2>5, <3>4
    <2>6. QED
      BY <2>4, <2>5
  <1>10. QED
    BY <1>7, <1>8, <1>9 DEF Process, r

\* A request moves on in the pipe.
LEMMA EmplaceOrders ==
    ASSUME TypeInv, TypeInv', OrderInv, Emplace, UNCHANGED engineVars
    PROVE  OrderInv'
  <1>1. /\ UNCHANGED <<to_client, sock_to_session_info, client_to_open_orders, exch_to_client_orders, conn>>
        /\ UNCHANGED <<pc, fd, clock, entered, ended, phase, open, clientOf>>
    BY DEF Emplace, sessions, orderMaps, history, engineVars
  <1>2. Pipe' = Pipe /\ (from_client # <<>> => Head(from_client') = Head(from_client))
    <2>1. from_client \in Seq(Requests) /\ outbox \in Seq(Requests) /\ outbox # <<>>
          /\ from_client' = Append(from_client, Head(outbox)) /\ outbox' = Tail(outbox)
      BY DEF TypeInv, QueuesOK, Emplace
    <2>2. Append(from_client, Head(outbox)) \o Tail(outbox) = from_client \o outbox
      BY <2>1
    <2>3. QED
      BY <2>1, <2>2 DEF Pipe
  <1>3. phase # "idle" => from_client # <<>>
    BY DEF TypeInv, BrokerOK
  <1>4. /\ \A id \in Ids : Reported(id)' <=> Reported(id)
        /\ \A id \in Ids : Deleting(id)' <=> Deleting(id)
        /\ \A id \in Ids, c \in Clients : Alive(id, c)' <=> Alive(id, c)
        /\ \A id \in Ids, c \in Clients : Mine(id, c)' <=> Mine(id, c)
        /\ \A id \in Ids : Tracked(id)' <=> Tracked(id)
    BY <1>1, <1>2 DEF Reported, Deleting, Alive, Mine, Tracked, IsNew, IsDelete, Taken
  <1>5. PipeOK'
    BY <1>1, <1>2 DEF OrderInv, PipeOK, IsNew, IsDelete, Taken
  <1>6. ClosedOK'
    BY <1>1, <1>2, <1>3, <1>4 DEF OrderInv, ClosedOK
  <1>7. MapsOK'
    BY <1>1, <1>4 DEF OrderInv, MapsOK
  <1>8. OrdersOK'
    <2>1. ended \subseteq Ids
      BY DEF TypeInv, SessionLayerOK
    <2>2. QED
      BY <1>1, <1>4, <2>1 DEF OrderInv, OrdersOK
  <1>9. QED
    BY <1>5, <1>6, <1>7, <1>8 DEF OrderInv

\* A report is popped: what it closed is in the maps no more.
LEMMA PopReportOrders ==
    ASSUME TypeInv, TypeInv', OrderInv, PopReport, UNCHANGED engineVars
    PROVE  OrderInv'
  <1>1. /\ UNCHANGED <<from_client, outbox, sock_to_session_info, client_to_open_orders, exch_to_client_orders, conn>>
        /\ UNCHANGED <<fd, clock, entered, ended, phase, open, clientOf>>
        /\ pc = "pop" /\ pc' = "process" /\ Pipe' = Pipe
    BY DEF PopReport, Running, sessions, orderMaps, history, engineVars, Pipe
  <1>2. /\ to_client \in Seq(Reports) /\ to_client # <<>> /\ to_client' = Tail(to_client)
    BY DEF TypeInv, QueuesOK, SessionLayerOK, PopReport, Running
  <1>3. /\ \A i \in DOMAIN to_client' : i + 1 \in DOMAIN to_client /\ to_client'[i] = to_client[i + 1]
        /\ \A i \in DOMAIN to_client : i = 1 \/ (i - 1 \in DOMAIN to_client' /\ to_client'[i - 1] = to_client[i])
        /\ to_client[1] = Head(to_client)
    BY <1>2
  <1>4. /\ \A id \in Ids : Reported(id)' => Reported(id)
        /\ \A id \in Ids : Reported(id) => Reported(id)' \/ (Closes(Head(to_client)) /\ Head(to_client).id = id)
    BY <1>3 DEF Reported
  <1>5. /\ \A id \in Ids : Deleting(id)' <=> Deleting(id)
        /\ \A id \in Ids, c \in Clients : Alive(id, c)' <=> Alive(id, c)
        /\ \A id \in Ids, c \in Clients : Mine(id, c) => Mine(id, c)'
        /\ \A id \in Ids : Tracked(id)' <=> Tracked(id)
    BY <1>1 DEF Deleting, Alive, Mine, Tracked, IsNew, IsDelete, Taken
  <1>6. PipeOK'
    BY <1>1 DEF OrderInv, PipeOK, IsNew, IsDelete, Taken
  <1>7. ClosedOK'
    BY <1>1, <1>4 DEF OrderInv, ClosedOK
  <1>8. MapsOK'
    <2>1. ASSUME NEW id \in Ids, Tracked(id)' PROVE id \in open' \/ clientOf'[id] = NoClient \/ Reported(id)'
      <3>1. Tracked(id) /\ exch_to_client_orders[id] # NoEntry
        BY <1>5, <2>1 DEF Tracked
      <3>2. ~(Closes(Head(to_client)) /\ Head(to_client).id = id)
        BY <1>1, <3>1 DEF OrderInv, MapsOK
      <3>3. QED
        BY <1>1, <1>4, <3>1, <3>2 DEF OrderInv, MapsOK
    <2>2. QED
      BY <1>1, <2>1 DEF OrderInv, MapsOK
  <1>9. OrdersOK'
    BY <1>1, <1>5 DEF OrderInv, OrdersOK
  <1>10. QED
    BY <1>6, <1>7, <1>8, <1>9 DEF OrderInv

\* Every step of the order entry thread and of the clients.
LEMMA SessionLayerOrders ==
    ASSUME TypeInv, TypeInv', SessionInv, OrderInv, ~LoginTwice, ~ReuseUnclosed,
           OrderEntryThread \/ Clientele
    PROVE  OrderInv'
  <1>1. UNCHANGED engineVars
    BY DEF OrderEntryThread, Clientele
  <1>2. CASE Message
    BY <1>1, <1>2, MessageOrders
  <1>3. ASSUME NEW s \in Sockets, Accept(s) PROVE OrderInv'
    BY <1>1, <1>3, Idle DEF Accept, Running
  <1>4. ASSUME NEW s \in Sockets, Readable(s) PROVE OrderInv'
    BY <1>1, <1>4, Idle DEF Readable, Running
  <1>5. ASSUME NEW s \in Sockets, Disconnect(s), outbox = <<>>, pc' # "pop", pc = "reading" => fd = s,
               UNCHANGED <<from_client, to_client, clock>>
        PROVE  OrderInv'
    <2>1. Settled({}, OpenOrdersAfter(s))
      BY <1>5 DEF Disconnect, Settled
    <2>2. QED
      BY <1>1, <1>5, <2>1, EndSessionOrders DEF Disconnect
  <1>6. ASSUME NEW s \in Sockets, HangUp(s) PROVE OrderInv'
    BY <1>5, <1>6 DEF HangUp, Running
  <1>7. pc = "reading" => fd \in Sockets
    BY DEF TypeInv, SessionLayerOK
  <1>8. CASE PeerGone
    BY <1>5, <1>7, <1>8 DEF PeerGone, Running
  <1>9. CASE EndRead
    <2>1. CASE fd \in conn
      BY <1>1, <1>9, <2>1, Idle DEF EndRead, Running, history
    <2>2. CASE fd \notin conn
      BY <1>5, <1>7, <1>9, <2>2 DEF EndRead, Running
    <2>3. QED
      BY <2>1, <2>2
  <1>10. CASE EndPoll \/ EndProcess
    BY <1>1, <1>10, Idle DEF EndPoll, EndProcess, Running
  <1>11. QED
    BY <1>1, <1>2, <1>3, <1>4, <1>6, <1>8, <1>9, <1>10, EmplaceOrders, ProcessOrders, PopReportOrders
    DEF OrderEntryThread, Clientele, ThreadStep, ClientStep

-----------------------------------------------------------------------------
(* Orders: the broker thread. *)

\* What the session layer keeps is the same.
SessionLayerSame ==
    /\ UNCHANGED <<outbox, sock_to_session_info, client_to_open_orders, exch_to_client_orders>>
    /\ UNCHANGED <<conn, pc, fd, clock, entered, ended>>

\* A report closes an order or does not; the reports before it stay.
LEMMA EmitReports ==
    ASSUME TypeInv, NEW type, NEW id, NEW c, NEW flags, Engine!Emit(type, id, c, flags)
    PROVE  /\ \A x \in Ids : Reported(x)' <=>
                 Reported(x) \/ (x = id /\ (type = "CLOSE" \/ (type = "FILL" /\ flags = "CLOSED")))
           /\ to_client # <<>> => Head(to_client') = Head(to_client)
  <1> DEFINE r == [msg_type |-> type, id |-> id, client |-> c, flags |-> flags]
             n == Len(to_client) + 1
  <1>1. to_client \in Seq(Reports) /\ to_client' = Append(to_client, r)
    BY DEF TypeInv, QueuesOK, Engine!Emit
  <1>2. Closes(r) <=> (type = "CLOSE" \/ (type = "FILL" /\ flags = "CLOSED"))
    BY DEF Closes
  <1>3. r.id = id
    OBVIOUS
  <1> HIDE DEF r
  <1>4. /\ DOMAIN to_client' = DOMAIN to_client \cup {n}
        /\ \A i \in DOMAIN to_client : to_client'[i] = to_client[i]
        /\ to_client'[n] = r
        /\ to_client # <<>> => Head(to_client') = Head(to_client)
    BY <1>1
  <1> HIDE DEF n
  <1>5. ASSUME NEW x \in Ids PROVE Reported(x)' <=> Reported(x) \/ (x = id /\ Closes(r))
    BY <1>3, <1>4 DEF Reported, Closes
  <1>6. QED
    BY <1>2, <1>4, <1>5

\* The broker works on the front of the queue: no order comes to life, and the ones it
\* takes off the book are reported closed.
LEMMA WorkOrders ==
    ASSUME TypeInv, TypeInv', OrderInv, SessionLayerSame, UNCHANGED <<from_client, clientOf>>,
           open' \subseteq open, phase' # "idle",
           phase = "idle" => Head(from_client).msg_type # "NEW_ORDER",
           to_client # <<>> => Head(to_client') = Head(to_client),
           \A id \in Ids : Reported(id) => Reported(id)',
           \A id \in Ids : Reported(id)' => Reported(id) \/ (id \notin open' /\ clientOf[id] # NoClient),
           \A id \in open : id \in open' \/ Reported(id)',
           phase' \in {"matching", "owesFill", "owesLastFill"} => clientOf[Head(from_client).id] # NoClient,
           phase' \in {"rejecting", "done"} /\ Head(from_client).msg_type = "DELETE_ORDER" =>
              Head(from_client).id \notin open'
    PROVE  OrderInv'
  <1>1. /\ UNCHANGED <<outbox, sock_to_session_info, client_to_open_orders, exch_to_client_orders>>
        /\ UNCHANGED <<conn, pc, fd, clock, entered, ended>> /\ Pipe' = Pipe
    BY DEF SessionLayerSame, Pipe
  <1>2. /\ from_client # <<>> /\ 1 \in DOMAIN Pipe /\ Pipe[1] = Head(from_client)
    BY PipeTypes DEF TypeInv, BrokerOK
  <1>3. \A i \in DOMAIN Pipe : IsNew(i) => (Taken(i)' <=> Taken(i))
    BY <1>2 DEF IsNew, Taken
  <1>4. /\ \A id \in Ids : Deleting(id)' <=> Deleting(id)
        /\ \A id \in Ids, c \in Clients : Mine(id, c)' <=> Mine(id, c)
        /\ \A id \in Ids : Tracked(id)' <=> Tracked(id)
    BY <1>1 DEF Deleting, Mine, Tracked, IsDelete
  <1>5. ASSUME NEW id \in Ids, NEW c \in Clients, Alive(id, c)' PROVE Alive(id, c)
    BY <1>1, <1>3, <1>5 DEF Alive, IsNew
  <1>6. PipeOK'
    BY <1>1, <1>3 DEF OrderInv, PipeOK, IsNew, IsDelete
  <1>7. ClosedOK'
    BY <1>1 DEF OrderInv, ClosedOK
  <1>8. MapsOK'
    <2>1. pc = "pop" => to_client # <<>>
      BY DEF TypeInv, SessionLayerOK
    <2>2. QED
      BY <1>1, <1>4, <2>1 DEF OrderInv, MapsOK
  <1>9. OrdersOK'
    BY <1>1, <1>4, <1>5 DEF OrderInv, OrdersOK
  <1>10. QED
    BY <1>6, <1>7, <1>8, <1>9 DEF OrderInv

\* The broker takes an order: it was on its way and is open now.
LEMMA TakeOrders ==
    ASSUME TypeInv, TypeInv', OrderInv, SessionLayerSame, Engine!TakeNewOrder
    PROVE  OrderInv'
  <1>1. /\ UNCHANGED <<outbox, sock_to_session_info, client_to_open_orders, exch_to_client_orders>>
        /\ UNCHANGED <<conn, pc, fd, clock, entered, ended, from_client, to_client>> /\ Pipe' = Pipe
    BY DEF SessionLayerSame, Pipe, Engine!TakeNewOrder
  <1>2. PICK p \in Requests : p = Head(from_client)
    BY FrontTypes DEF Engine!TakeNewOrder, Engine!Waiting, TypeInv
  <1>3. /\ from_client # <<>> /\ phase = "idle" /\ p.msg_type = "NEW_ORDER" /\ phase' = "matching"
        /\ open' = open \cup {p.id} /\ clientOf' = [clientOf EXCEPT ![p.id] = p.client]
    BY <1>2 DEF Engine!TakeNewOrder, Engine!Waiting, Engine!Current
  <1>4. /\ 1 \in DOMAIN Pipe /\ Pipe[1] = p /\ p.id \in Ids /\ p.client \in Clients /\ p.client # NoClient
    BY <1>2, <1>3, PipeTypes, FrontTypes, HandlerAssumption DEF TypeInv
  <1>5. /\ clientOf[p.id] = NoClient /\ ~Reported(p.id) /\ p.id <= clock
        /\ \A i \in DOMAIN Pipe : IsNew(i) /\ i # 1 => Pipe[i].id # p.id
    BY <1>3, <1>4 DEF OrderInv, PipeOK, ClosedOK, IsNew, Taken
  <1>6. /\ clientOf'[p.id] = p.client
        /\ \A id \in Ids \ {p.id} : clientOf'[id] = clientOf[id] /\ (id \in open' <=> id \in open)
    BY <1>3, <1>4 DEF TypeInv, BrokerOK
  <1>7. /\ \A id \in Ids : Deleting(id)' <=> Deleting(id)
        /\ \A id \in Ids, c \in Clients : Mine(id, c)' <=> Mine(id, c)
        /\ \A id \in Ids : Tracked(id)' <=> Tracked(id)
        /\ \A id \in Ids : Reported(id)' <=> Reported(id)
    BY <1>1 DEF Deleting, Mine, Tracked, IsDelete, Reported
  <1>8. ASSUME NEW id \in Ids, NEW c \in Clients, Alive(id, c)' PROVE Alive(id, c)
    <2>1. CASE id \in open' /\ clientOf'[id] = c
      <3>1. CASE id = p.id
        BY <1>3, <1>4, <1>6, <2>1, <3>1 DEF Alive, IsNew, Taken
      <3>2. CASE id # p.id
        BY <1>6, <2>1, <3>2 DEF Alive
      <3>3. QED
        BY <3>1, <3>2
    <2>2. CASE \E i \in DOMAIN Pipe' : IsNew(i)' /\ ~Taken(i)' /\ Pipe'[i].id = id /\ Pipe'[i].client = c
      BY <1>1, <1>3, <2>2 DEF Alive, IsNew, Taken
    <2>3. QED
      BY <1>8, <2>1, <2>2 DEF Alive
  <1>9. PipeOK'
    <2>1. ASSUME NEW i \in DOMAIN Pipe, IsNew(i)
          PROVE  clientOf'[Pipe[i].id] = IF i = 1 THEN Pipe[i].client ELSE NoClient
      <3>1. Pipe[i].id \in Ids
        BY <2>1, PipeTypes DEF IsNew
      <3>2. QED
        BY <1>3, <1>4, <1>5, <1>6, <2>1, <3>1 DEF OrderInv, PipeOK, Taken
    <2>2. QED
      BY <1>1, <1>3, <2>1 DEF OrderInv, PipeOK, IsNew, IsDelete, Taken
  <1>10. ClosedOK'
    <2>1. clientOf'[Head(from_client).id] # NoClient
      BY <1>2, <1>4, <1>6
    <2>2. \A id \in Ids : clientOf'[id] # NoClient => id <= clock
      BY <1>5, <1>6 DEF OrderInv, ClosedOK
    <2>3. \A id \in Ids : Reported(id) => clientOf'[id] # NoClient /\ id \notin open'
      BY <1>5, <1>6 DEF OrderInv, ClosedOK
    <2>4. QED
      BY <1>1, <1>3, <1>7, <2>1, <2>2, <2>3 DEF ClosedOK
  <1>11. MapsOK'
    <2>1. \A id \in Ids : Tracked(id) => id \in open' \/ clientOf'[id] = NoClient \/ Reported(id)
      BY <1>3, <1>6 DEF OrderInv, MapsOK
    <2>2. QED
      BY <1>1, <1>7, <2>1 DEF OrderInv, MapsOK
  <1>12. OrdersOK'
    BY <1>1, <1>7, <1>8 DEF OrderInv, OrdersOK
  <1>13. QED
    BY <1>9, <1>10, <1>11, <1>12 DEF OrderInv

\* The broker pops a request.  When it is a cancel, its order can trade no more: it was
\* entered before, and is not open.
LEMMA PopOrders ==
    ASSUME TypeInv, TypeInv', OrderInv, SessionLayerSame, Engine!Pop
    PROVE  OrderInv'
  <1>1. /\ UNCHANGED <<outbox, sock_to_session_info, client_to_open_orders, exch_to_client_orders>>
        /\ UNCHANGED <<conn, pc, fd, clock, entered, ended, to_client, open, clientOf>>
        /\ phase = "done" /\ phase' = "idle" /\ from_client' = Tail(from_client)
    BY DEF SessionLayerSame, Engine!Pop
  <1>2. from_client # <<>> /\ from_client \in Seq(Requests) /\ outbox \in Seq(Requests)
    BY <1>1 DEF TypeInv, BrokerOK, QueuesOK
  <1>3. /\ Pipe \in Seq(Requests) /\ Pipe # <<>> /\ Pipe' = Tail(Pipe) /\ Pipe[1] = Head(from_client)
    BY <1>1, <1>2 DEF Pipe
  <1>4. /\ DOMAIN Pipe \subseteq Nat \ {0} /\ DOMAIN Pipe' \subseteq Nat \ {0}
        /\ \A i \in DOMAIN Pipe' : i + 1 \in DOMAIN Pipe /\ Pipe'[i] = Pipe[i + 1]
        /\ \A i \in DOMAIN Pipe : i = 1 \/ (i - 1 \in DOMAIN Pipe' /\ Pipe'[i - 1] = Pipe[i])
        /\ 1 \in DOMAIN Pipe
    BY <1>3
  <1>5. /\ \A id \in Ids, c \in Clients : Mine(id, c)' <=> Mine(id, c)
        /\ \A id \in Ids : Tracked(id)' <=> Tracked(id)
        /\ \A id \in Ids : Reported(id)' <=> Reported(id)
    BY <1>1 DEF Mine, Tracked, Reported
  <1>6. ASSUME NEW i \in DOMAIN Pipe', Pipe'[i].msg_type = "NEW_ORDER"
        PROVE  /\ i + 1 \in DOMAIN Pipe /\ Pipe'[i] = Pipe[i + 1] /\ IsNew(i + 1) /\ ~Taken(i + 1)
    BY <1>4, <1>6 DEF IsNew, Taken
  <1>7. ASSUME NEW id \in Ids, NEW c \in Clients, Alive(id, c)' PROVE Alive(id, c)
    <2>1. CASE id \in open' /\ clientOf'[id] = c
      BY <1>1, <2>1 DEF Alive
    <2>2. CASE \E i \in DOMAIN Pipe' : Pipe'[i].msg_type = "NEW_ORDER" /\ Pipe'[i].id = id /\ Pipe'[i].client = c
      BY <1>6, <2>2 DEF Alive
    <2>3. QED
      BY <1>7, <2>1, <2>2 DEF Alive, IsNew
  <1>8. ASSUME NEW id \in Ids, NEW c \in Clients, Alive(id, c), Deleting(id) PROVE Deleting(id)'
    <2>1. PICK i \in DOMAIN Pipe : IsDelete(i) /\ Pipe[i].id = id
      BY <1>8 DEF Deleting
    <2>2. i # 1
      <3>1. SUFFICES ASSUME i = 1 PROVE FALSE
        OBVIOUS
      <3>2. id \notin open
        BY <1>1, <1>3, <2>1, <3>1 DEF OrderInv, ClosedOK, IsDelete
      <3>3. PICK j \in DOMAIN Pipe : IsNew(j) /\ Pipe[j].id = id
        BY <1>8, <3>2 DEF Alive
      <3>4. j < 1
        BY <2>1, <3>1, <3>3 DEF OrderInv, PipeOK
      <3>5. QED
        BY <1>4, <3>4
    <2>3. i - 1 \in DOMAIN Pipe' /\ Pipe'[i - 1] = Pipe[i]
      BY <1>4, <2>2
    <2>4. QED
      BY <2>1, <2>3 DEF Deleting, IsDelete
  <1>9. PipeOK'
    <2>1. \A i \in DOMAIN Pipe' : Pipe'[i].msg_type # "REJECT" => Pipe'[i].id <= clock
      BY <1>4 DEF OrderInv, PipeOK
    <2>2. ASSUME NEW i \in DOMAIN Pipe', NEW j \in DOMAIN Pipe',
                 Pipe'[i].msg_type = "NEW_ORDER", Pipe'[i].id = Pipe'[j].id
          PROVE  /\ Pipe'[j].msg_type = "NEW_ORDER" => i = j
                 /\ Pipe'[j].msg_type = "DELETE_ORDER" => i < j
      <3>1. /\ i + 1 \in DOMAIN Pipe /\ j + 1 \in DOMAIN Pipe /\ Pipe'[i] = Pipe[i + 1] /\ Pipe'[j] = Pipe[j + 1]
            /\ i \in Nat /\ j \in Nat
        BY <1>4
      <3>2. /\ Pipe[j + 1].msg_type = "NEW_ORDER" => i + 1 = j + 1
            /\ Pipe[j + 1].msg_type = "DELETE_ORDER" => i + 1 < j + 1
        BY <2>2, <3>1 DEF OrderInv, PipeOK, IsNew, IsDelete
      <3>3. QED
        BY <3>1, <3>2
    <2>3. ASSUME NEW i \in DOMAIN Pipe', Pipe'[i].msg_type = "NEW_ORDER"
          PROVE  clientOf'[Pipe'[i].id] = NoClient
      BY <1>1, <1>6, <2>3 DEF OrderInv, PipeOK
    <2>4. QED
      BY <1>1, <2>1, <2>2, <2>3 DEF PipeOK, IsNew, IsDelete, Taken
  <1>10. ClosedOK'
    BY <1>1, <1>5 DEF OrderInv, ClosedOK
  <1>11. MapsOK'
    BY <1>1, <1>5 DEF OrderInv, MapsOK
  <1>12. OrdersOK'
    BY <1>1, <1>5, <1>7, <1>8 DEF OrderInv, OrdersOK
  <1>13. QED
    BY <1>9, <1>10, <1>11, <1>12 DEF OrderInv

\* Every step of the broker thread.
LEMMA BrokerOrders == ASSUME TypeInv, TypeInv', OrderInv, BrokerThread PROVE OrderInv'
  <1>1. SessionLayerSame
    BY DEF BrokerThread, SessionLayerSame, sessions, orderMaps, history
  <1> DEFINE p == Head(from_client)
  <1>2. /\ \A id \in open : id \in Ids /\ clientOf[id] # NoClient
        /\ phase \in {"matching", "owesFill", "owesLastFill"} => clientOf[p.id] # NoClient
        /\ phase \in {"owesFill", "owesLastFill"} => p.msg_type \in {"NEW_ORDER", "MODIFY_ORDER"}
    BY DEF TypeInv, BrokerOK, OrderInv, ClosedOK
  <1> HIDE DEF p
  <1>3. CASE Engine!TakeChange
    <2>1. /\ UNCHANGED <<from_client, to_client, open, clientOf>>
          /\ p.msg_type # "NEW_ORDER" /\ phase' = IF p.id \in open THEN "matching" ELSE "rejecting"
      BY <1>3 DEF Engine!TakeChange, Engine!Waiting, Engine!Current, p
    <2>2. \A id \in Ids : Reported(id)' <=> Reported(id)
      BY <2>1 DEF Reported
    <2>3. QED
      BY <1>1, <1>2, <2>1, <2>2, WorkOrders DEF p
  <1>4. CASE Engine!PassReject
    <2>1. /\ UNCHANGED <<from_client, open, clientOf>> /\ Engine!Emit("REJECT", p.id, p.client, "NONE")
          /\ p.msg_type = "REJECT" /\ phase' = "done"
      BY <1>4 DEF Engine!PassReject, Engine!Waiting, Engine!Current, p
    <2>2. /\ \A x \in Ids : Reported(x)' <=> Reported(x)
          /\ to_client # <<>> => Head(to_client') = Head(to_client)
      BY <2>1, EmitReports
    <2>3. QED
      BY <1>1, <2>1, <2>2, WorkOrders DEF p
  <1>5. ASSUME NEW id \in open, NEW flags \in {"PARTIAL_FILL", "CLOSED"}, Engine!FillPassive(id, flags)
        PROVE  OrderInv'
    <2>1. /\ UNCHANGED <<from_client, clientOf>> /\ Engine!Emit("FILL", id, clientOf[id], flags)
          /\ phase = "matching" /\ phase' \in {"owesFill", "owesLastFill"}
          /\ open' = IF flags = "CLOSED" THEN open \ {id} ELSE open
      BY <1>5 DEF Engine!FillPassive
    <2>2. /\ \A x \in Ids : Reported(x)' <=> Reported(x) \/ (x = id /\ flags = "CLOSED")
          /\ to_client # <<>> => Head(to_client') = Head(to_client)
      BY <2>1, EmitReports
    <2>3. QED
      BY <1>1, <1>2, <2>1, <2>2, WorkOrders DEF p
  <1>6. ASSUME NEW flags \in {"PARTIAL_FILL", "CLOSED"}, Engine!FillActive(flags) PROVE OrderInv'
    <2>1. /\ UNCHANGED <<from_client, clientOf>> /\ Engine!Emit("FILL", p.id, p.client, flags)
          /\ phase \in {"owesFill", "owesLastFill"} /\ phase' = "matching"
          /\ open' = IF flags = "CLOSED" THEN open \ {p.id} ELSE open
      BY <1>6 DEF Engine!FillActive, Engine!Current, p
    <2>2. /\ \A x \in Ids : Reported(x)' <=> Reported(x) \/ (x = p.id /\ flags = "CLOSED")
          /\ to_client # <<>> => Head(to_client') = Head(to_client)
      BY <2>1, EmitReports
    <2>3. QED
      BY <1>1, <1>2, <2>1, <2>2, WorkOrders DEF p
  <1>7. CASE Engine!Acknowledge
    <2>1. /\ UNCHANGED <<from_client, open, clientOf>> /\ Engine!Emit("ACK", p.id, p.client, "NONE")
          /\ p.msg_type # "DELETE_ORDER" /\ phase = "matching" /\ phase' = "done"
      BY <1>7 DEF Engine!Acknowledge, Engine!Current, p
    <2>2. /\ \A x \in Ids : Reported(x)' <=> Reported(x)
          /\ to_client # <<>> => Head(to_client') = Head(to_client)
      BY <2>1, EmitReports
    <2>3. QED
      BY <1>1, <2>1, <2>2, WorkOrders DEF p
  <1>8. CASE Engine!Close
    <2>1. /\ UNCHANGED <<from_client, clientOf>> /\ Engine!Emit("CLOSE", p.id, p.client, "NONE")
          /\ open' = open \ {p.id} /\ phase = "matching" /\ phase' = "done"
      BY <1>8 DEF Engine!Close, Engine!Current, p
    <2>2. /\ \A x \in Ids : Reported(x)' <=> Reported(x) \/ x = p.id
          /\ to_client # <<>> => Head(to_client') = Head(to_client)
      BY <2>1, EmitReports
    <2>3. QED
      BY <1>1, <1>2, <2>1, <2>2, WorkOrders DEF p
  <1>9. CASE Engine!FinishSilently
    <2>1. /\ UNCHANGED <<from_client, to_client, open, clientOf>>
          /\ p.msg_type = "NEW_ORDER" /\ phase = "matching" /\ phase' = "done"
      BY <1>9 DEF Engine!FinishSilently, Engine!Current, p
    <2>2. \A id \in Ids : Reported(id)' <=> Reported(id)
      BY <2>1 DEF Reported
    <2>3. QED
      BY <1>1, <2>1, <2>2, WorkOrders DEF p
  <1>10. CASE Engine!Reject
    <2>1. /\ UNCHANGED <<from_client, open, clientOf>> /\ Engine!Emit("REJECT", p.id, p.client, "NONE")
          /\ phase = "rejecting" /\ phase' = "done"
      BY <1>10 DEF Engine!Reject, Engine!Current, p
    <2>2. /\ \A x \in Ids : Reported(x)' <=> Reported(x)
          /\ to_client # <<>> => Head(to_client') = Head(to_client)
      BY <2>1, EmitReports
    <2>3. p.msg_type = "DELETE_ORDER" => p.id \notin open
      BY <2>1 DEF OrderInv, ClosedOK, p
    <2>4. QED
      BY <1>1, <2>1, <2>2, <2>3, WorkOrders DEF p
  <1>11. QED
    BY <1>1, <1>3, <1>4, <1>5, <1>6, <1>7, <1>8, <1>9, <1>10, TakeOrders, PopOrders
    DEF BrokerThread, Engine!EngineStep

-----------------------------------------------------------------------------
(* The theorems. *)

\* A step of the exchange process keeps the invariant of the orders.
LEMMA OrderStep ==
    ASSUME TypeInv, TypeInv', SessionInv, OrderInv, ~LoginTwice, ~ReuseUnclosed, [ExchangeNext]_exchangeVars
    PROVE  OrderInv'
  <1>1. CASE ExchangeNext
    BY <1>1, BrokerOrders, SessionLayerOrders DEF ExchangeNext
  <1>2. CASE UNCHANGED exchangeVars
    BY <1>2 DEF exchangeVars, handlerVars, engineVars, sessions, orderMaps, history,
       OrderInv, PipeOK, ClosedOK, MapsOK, OrdersOK, Pipe, Taken, IsNew, IsDelete, Reported, Deleting,
       Alive, Mine, Tracked
  <1>3. QED
    BY <1>1, <1>2

\* It holds before the first order.
LEMMA OrderInit == ASSUME ExchangeInit PROVE OrderInv
  <1>1. Pipe = <<>> /\ to_client = <<>> /\ open = {} /\ phase = "idle" /\ pc = "poll" /\ ended = {}
    BY DEF ExchangeInit, HandlerInit, Engine!ContractInit, Pipe
  <1>2. /\ clientOf = [id \in Ids |-> NoClient] /\ exch_to_client_orders = [id \in Ids |-> NoEntry]
        /\ client_to_open_orders = [c \in Clients |-> NoOpenOrders]
        /\ entered = [id \in Ids |-> NoSocket]
    BY DEF ExchangeInit, HandlerInit, Engine!ContractInit
  <1>3. PipeOK
    BY <1>1 DEF PipeOK
  <1>4. ClosedOK
    BY <1>1, <1>2 DEF ClosedOK, Reported
  <1>5. MapsOK
    BY <1>1, <1>2 DEF MapsOK, Tracked, NoOpenOrders
  <1>6. OrdersOK
    BY <1>1, <1>2 DEF OrdersOK, Alive
  <1>7. QED
    BY <1>3, <1>4, <1>5, <1>6 DEF OrderInv

\* The invariant of the exchange process, when clients log in once per connection and use
\* an order id again only after its close was processed.
LEMMA ExchangeInvariant ==
    ASSUME ~LoginTwice, ~ReuseUnclosed
    PROVE  ExchangeSpec => [](TypeInv /\ SessionInv /\ OrderInv)
  <1>1. ExchangeInit => OrderInv
    BY OrderInit
  <1>2. TypeInv /\ TypeInv' /\ SessionInv /\ OrderInv /\ [ExchangeNext]_exchangeVars => OrderInv'
    BY OrderStep
  <1>3. QED
    BY <1>1, <1>2, SessionInvariant, PTL DEF ExchangeSpec

\* A cancel in the pipe is in the queue or in the outbox.
LEMMA DeletingQueued ==
    ASSUME TypeInv, NEW id, Deleting(id)
    PROVE  Queued(from_client, "DELETE_ORDER", id) \/ Queued(outbox, "DELETE_ORDER", id)
  <1>1. from_client \in Seq(Requests) /\ outbox \in Seq(Requests)
    BY DEF TypeInv, QueuesOK
  <1>2. PICK i \in DOMAIN Pipe : Pipe[i].msg_type = "DELETE_ORDER" /\ Pipe[i].id = id
    BY DEF Deleting, IsDelete
  <1>3. CASE i \in DOMAIN from_client
    <2>1. Pipe[i] = from_client[i]
      BY <1>1, <1>2, <1>3 DEF Pipe
    <2>2. QED
      BY <1>2, <1>3, <2>1 DEF Queued
  <1>4. CASE i \notin DOMAIN from_client
    <2>1. i - Len(from_client) \in DOMAIN outbox /\ Pipe[i] = outbox[i - Len(from_client)]
      BY <1>1, <1>2, <1>4 DEF Pipe
    <2>2. QED
      BY <1>2, <2>1 DEF Queued
  <1>5. QED
    BY <1>3, <1>4

\* An open order is cancelled, or belongs to a session of the client that entered it.
LEMMA OpenOrderOwned ==
    ASSUME TypeInv, OrderInv, NEW id \in open
    PROVE  \/ Queued(from_client, "DELETE_ORDER", id) \/ Queued(outbox, "DELETE_ORDER", id)
           \/ clientOf[id] \in Clients /\ Mine(id, clientOf[id])
  <1>1. id \in Ids /\ clientOf[id] \in Clients
    BY DEF TypeInv, BrokerOK
  <1>2. Alive(id, clientOf[id])
    BY <1>1 DEF Alive
  <1>3. Deleting(id) \/ Mine(id, clientOf[id])
    BY <1>1, <1>2 DEF OrderInv, OrdersOK
  <1>4. QED
    BY <1>1, <1>3, DeletingQueued

\* The client can still cancel every order that can trade: an open order is in both order
\* maps under the client that entered it, or its cancel is on the way.
THEOREM OpenOrdersStayTracked ==
    ASSUME ~LoginTwice, ~ReuseUnclosed PROVE ExchangeSpec => []OpenOrdersTracked
  <1>1. TypeInv /\ OrderInv => OpenOrdersTracked
    BY OpenOrderOwned DEF OpenOrdersTracked, Mine
  <1>2. QED
    BY <1>1, ExchangeInvariant, PTL

\* No order id stays blocked: what the session layer holds open is open in the broker, on
\* its way there, or the report that closes it is on its way back.
THEOREM TrackedOrdersStayOpen ==
    ASSUME ~LoginTwice, ~ReuseUnclosed PROVE ExchangeSpec => []TrackedOrdersOpen
  <1>1. ASSUME TypeInv, OrderInv PROVE TrackedOrdersOpen
    <2>1. SUFFICES ASSUME NEW c \in Clients, NEW oid \in OrderIds, client_to_open_orders[c][oid] # 0
                   PROVE  LET id == client_to_open_orders[c][oid] IN
                          /\ exch_to_client_orders[id] = Entry(c, oid)
                          /\ id \in open \/ clientOf[id] = NoClient \/ Reported(id)
      BY DEF TrackedOrdersOpen, Reported
    <2> DEFINE id == client_to_open_orders[c][oid]
    <2>2. id \in Ids
      BY <1>1, <2>1, HandlerAssumption DEF TypeInv, SessionLayerOK, Ids
    <2>3. exch_to_client_orders[id] = Entry(c, oid)
      BY <1>1, <2>1 DEF OrderInv, MapsOK
    <2>4. Tracked(id)
      BY <2>3, EntryFields DEF Tracked
    <2>5. QED
      BY <1>1, <2>2, <2>3, <2>4 DEF OrderInv, MapsOK
  <1>2. QED
    BY <1>1, ExchangeInvariant, PTL

\* When a connection is over, the cancels of its orders that can still trade are on the
\* way, however it ended, or the server is about to find out.
THEOREM EndedOrdersAreCancelled ==
    ASSUME ~LoginTwice, ~ReuseUnclosed PROVE ExchangeSpec => []EndedOrdersCancelled
  <1>1. ASSUME TypeInv, OrderInv PROVE EndedOrdersCancelled
    <2>1. SUFFICES ASSUME NEW id \in ended \cap open
                   PROVE  \/ Queued(from_client, "DELETE_ORDER", id) \/ Queued(outbox, "DELETE_ORDER", id)
                          \/ pc = "reading" /\ fd \notin conn
      BY DEF EndedOrdersCancelled
    <2>2. entered[id] = NoSocket
      BY <1>1 DEF OrderInv, OrdersOK
    <2>3. QED
      BY <1>1, <2>2, OpenOrderOwned DEF Mine
  <1>2. QED
    BY <1>1, ExchangeInvariant, PTL
=============================================================================
