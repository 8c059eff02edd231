--------------------------- MODULE ClientHandler ---------------------------
(***************************************************************************)
(* The order entry thread: EpollServer::run (order_entry/oe_server.cpp),   *)
(* StreamParser (oe_stream_parser.H) and ClientHandler                     *)
(* (oe_client_handler.cpp).                                                *)
(*                                                                         *)
(* One turn of the thread handles a batch of socket events and then drains *)
(* the reports of the matching engine.  A handler updates the maps of the  *)
(* session layer at once; the payloads it has still to emplace are in      *)
(* `outbox', and the thread does nothing else until they are on the queue. *)
(* A socket is a file descriptor number: it is used again after a close.   *)
(***************************************************************************)
EXTENDS Integers, Sequences

Seqs == INSTANCE SequencesExt

CONSTANTS
    Sockets, NoSocket,
    Clients, NoClient,
    OrderIds,           \* order ids clients choose
    MaxOrders,          \* bound: orders ever accepted; their exchange ids are 1..MaxOrders
    MaxBatch,           \* bound: events and messages handled in one turn of the thread
    QueueCapacity,      \* capacity of either queue
    ReuseUnclosed,      \* may a client use an order id again before the close was processed?
    LoginTwice          \* may a socket that is logged in log in as another client?

ASSUME HandlerAssumption ==
    /\ NoSocket \notin Sockets /\ NoClient \notin Clients
    /\ MaxOrders \in Nat /\ MaxBatch \in Nat \ {0} /\ QueueCapacity \in Nat \ {0}
    /\ ReuseUnclosed \in BOOLEAN /\ LoginTwice \in BOOLEAN

VARIABLES
    from_client, to_client,     \* the queues to and from the matching engine
    sock_to_session_info,       \* the client a socket is logged in as, NoClient when none
    client_to_sock_fd,          \* the socket of a client, NoSocket when none
    client_to_open_orders,      \* per client and order id the exchange id, 0 when none
    exch_to_client_orders,      \* per exchange id the client and order id, NoEntry when none
    outbox,                     \* payloads the running handler has yet to emplace
    conn,                       \* the sockets that are open
    pc, fd,                     \* where the thread is, and the socket it reads from
    batch,                      \* messages and events handled in this turn
    clock,                      \* the last exchange id: nanotime() only moves forward
    entered,                    \* history: the socket an order was entered on, while it is open
    ended                       \* history: orders whose connection has been closed since

sessions == <<sock_to_session_info, client_to_sock_fd>>
orderMaps == <<client_to_open_orders, exch_to_client_orders>>
history == <<clock, entered, ended>>
handlerVars == <<from_client, to_client, sessions, orderMaps, outbox, conn, pc, fd, batch, history>>

Ids == 1..MaxOrders
NoEntry == [client |-> NoClient]
Entry(c, oid) == [client |-> c, order_id |-> oid]
NoOpenOrders == [oid \in OrderIds |-> 0]

PayloadOf(type, id, client) == [msg_type |-> type, id |-> id, client |-> client]

\* The thread can take its next step: no handler waits for room in the queue.
Running(at) == pc = at /\ outbox = <<>>

-----------------------------------------------------------------------------
(* Sessions and sockets. *)

\* Mutant: the session ends and its orders stay.
CancelNone(c) == outbox' = <<>>

\* cancel_all_client_orders, in whatever order the hash map is traversed.
CancelAll(c) ==
    \E listing \in Seqs!SetToSeqs({client_to_open_orders[c][oid] : oid \in OrderIds} \ {0}) :
        outbox' = [i \in DOMAIN listing |-> PayloadOf("DELETE_ORDER", listing[i], c)]

OpenOrdersWithout(c) == [client_to_open_orders EXCEPT ![c] = NoOpenOrders]

\* Mutant: the client stays mapped to the socket that is gone.
OnSocketClosedKeepsClient(s) ==
    LET c == sock_to_session_info[s] IN
    IF c = NoClient THEN outbox' = <<>> /\ UNCHANGED sessions
    ELSE /\ CancelAll(c)
         /\ sock_to_session_info' = [sock_to_session_info EXCEPT ![s] = NoClient]
         /\ UNCHANGED client_to_sock_fd

\* on_socket_closed, but for the client's open orders (OpenOrdersAfter).
OnSocketClosed(s) ==
    LET c == sock_to_session_info[s] IN
    IF c = NoClient THEN outbox' = <<>> /\ UNCHANGED sessions
    ELSE /\ CancelAll(c)
         /\ sock_to_session_info' = [sock_to_session_info EXCEPT ![s] = NoClient]
         /\ client_to_sock_fd' = [client_to_sock_fd EXCEPT ![c] = NoSocket]

OpenOrdersAfter(s) ==
    LET c == sock_to_session_info[s] IN
    IF c = NoClient THEN client_to_open_orders ELSE OpenOrdersWithout(c)

\* close(): the descriptors are free to be used again.
CloseSockets(S) ==
    /\ conn' = conn \ S
    /\ ended' = ended \cup {id \in Ids : entered[id] \in S}
    /\ entered' = [id \in Ids |-> IF entered[id] \in S THEN NoSocket ELSE entered[id]]

\* The server has learnt that a connection is over.
Disconnect(s) ==
    /\ OnSocketClosed(s)
    /\ client_to_open_orders' = OpenOrdersAfter(s)
    /\ CloseSockets({s})
    /\ UNCHANGED exch_to_client_orders

-----------------------------------------------------------------------------
(* on_login. *)

LoginRefused ==
    /\ CloseSockets({fd})
    /\ UNCHANGED <<sessions, client_to_open_orders, outbox>>

\* Mutant: the older connection is closed, its session is not.
LoginDuplicateKeepsSession(other) ==
    /\ CloseSockets({fd, other})
    /\ UNCHANGED <<sessions, client_to_open_orders, outbox>>

\* Both connections are closed, and the first one's session with it.
LoginDuplicate(other) ==
    /\ OnSocketClosed(other)
    /\ client_to_open_orders' = OpenOrdersAfter(other)
    /\ CloseSockets({fd, other})

LoginAccepted(c) ==
    /\ fd \in conn
    /\ sock_to_session_info' = [sock_to_session_info EXCEPT ![fd] = c]
    /\ client_to_sock_fd' = [client_to_sock_fd EXCEPT ![c] = fd]
    /\ UNCHANGED <<client_to_open_orders, outbox, conn, entered, ended>>

\* The response could not be written: the new session is closed at once.
LoginUnanswered(c) ==
    /\ sock_to_session_info' = [sock_to_session_info EXCEPT ![fd] = NoClient]
    /\ CancelAll(c)
    /\ client_to_open_orders' = OpenOrdersWithout(c)
    /\ CloseSockets({fd})
    /\ UNCHANGED client_to_sock_fd

Authenticated(c, valid) ==
    LET other == client_to_sock_fd[c] IN
    IF ~valid THEN LoginRefused
    ELSE IF other = NoSocket THEN LoginAccepted(c) \/ LoginUnanswered(c)
    ELSE IF other = fd THEN UNCHANGED <<sessions, client_to_open_orders, outbox, conn, entered, ended>>
    ELSE IF sock_to_session_info[other] = NoClient THEN LoginRefused
    ELSE LoginDuplicate(other)

OnLogin(c, valid) ==
    /\ LoginTwice \/ ~valid \/ sock_to_session_info[fd] \in {NoClient, c}
    /\ Authenticated(c, valid)
    /\ UNCHANGED <<exch_to_client_orders, clock>>

-----------------------------------------------------------------------------
(* Orders.  A request names a client and carries a session id, which is right or not;
   the validator accepts it or not. *)

ValidateSession(c, sessionRight) == sessionRight /\ sock_to_session_info[fd] = c

\* The reject goes through the broker, under the client's own order id.
SendOrderReject(c, oid) ==
    /\ outbox' = <<PayloadOf("REJECT", oid, c)>>
    /\ UNCHANGED <<orderMaps, clock, entered>>

Forward(type, c, oid) ==
    /\ outbox' = <<PayloadOf(type, client_to_open_orders[c][oid], c)>>
    /\ UNCHANGED <<orderMaps, clock, entered>>

Enter(c, oid) ==
    LET id == clock + 1 IN
    /\ clock < MaxOrders
    /\ clock' = id
    /\ client_to_open_orders' = [client_to_open_orders EXCEPT ![c][oid] = id]
    /\ exch_to_client_orders' = [exch_to_client_orders EXCEPT ![id] = Entry(c, oid)]
    /\ outbox' = <<PayloadOf("NEW_ORDER", id, c)>>
    /\ entered' = [entered EXCEPT ![id] = fd]

OnNewOrder(c, sessionRight, oid, accepted) ==
    /\ IF /\ ValidateSession(c, sessionRight)
          /\ accepted
          /\ client_to_open_orders[c][oid] = 0
       THEN /\ ReuseUnclosed \/ \A id \in Ids : exch_to_client_orders[id] # Entry(c, oid)
            /\ Enter(c, oid)
       ELSE SendOrderReject(c, oid)
    /\ UNCHANGED <<sessions, conn, ended>>

OnDeleteOrder(c, sessionRight, oid) ==
    /\ IF ValidateSession(c, sessionRight) /\ client_to_open_orders[c][oid] # 0
       THEN Forward("DELETE_ORDER", c, oid)
       ELSE SendOrderReject(c, oid)
    /\ UNCHANGED <<sessions, conn, ended>>

OnModifyOrder(c, sessionRight, oid, accepted) ==
    /\ IF ValidateSession(c, sessionRight) /\ client_to_open_orders[c][oid] # 0 /\ accepted
       THEN Forward("MODIFY_ORDER", c, oid)
       ELSE SendOrderReject(c, oid)
    /\ UNCHANGED <<sessions, conn, ended>>

\* One message that parse() takes from the stream of fd.  Messages that were read
\* together are handled even when one of them made the handler close the socket.
Message ==
    /\ Running("reading")
    /\ batch < MaxBatch
    /\ batch' = batch + 1
    /\ \E c \in Clients :
          \/ \E valid \in BOOLEAN : OnLogin(c, valid)
          \/ \E oid \in OrderIds, sessionRight \in BOOLEAN :
                \/ \E accepted \in BOOLEAN : OnNewOrder(c, sessionRight, oid, accepted)
                \/ OnDeleteOrder(c, sessionRight, oid)
                \/ \E accepted \in BOOLEAN : OnModifyOrder(c, sessionRight, oid, accepted)
    /\ UNCHANGED <<from_client, to_client, pc, fd>>

-----------------------------------------------------------------------------
(* The event loop. *)

Accept(s) ==
    /\ Running("poll") /\ batch < MaxBatch
    /\ s \notin conn
    /\ conn' = conn \cup {s}
    /\ batch' = batch + 1
    /\ UNCHANGED <<from_client, to_client, sessions, orderMaps, outbox, pc, fd, history>>

Readable(s) ==
    /\ Running("poll") /\ batch < MaxBatch
    /\ s \in conn
    /\ pc' = "reading" /\ fd' = s
    /\ batch' = batch + 1
    /\ UNCHANGED <<from_client, to_client, sessions, orderMaps, outbox, conn, history>>

\* EPOLLHUP or EPOLLRDHUP: the `break' leaves the loop over the events.
HangUp(s) ==
    /\ Running("poll") /\ batch < MaxBatch
    /\ s \in conn
    /\ Disconnect(s)
    /\ pc' = "process"
    /\ UNCHANGED <<from_client, to_client, fd, batch, clock>>

\* Mutant: a failing read() ends the loop and nothing else.
EndReadQuietly ==
    /\ Running("reading")
    /\ pc' = "poll" /\ fd' = NoSocket
    /\ UNCHANGED <<from_client, to_client, sessions, orderMaps, outbox, conn, batch, history>>

\* read() has nothing more.  When a handler has closed the socket read() fails with
\* EBADF, and the session ends like one whose peer is gone.
EndRead ==
    /\ Running("reading")
    /\ pc' = "poll" /\ fd' = NoSocket
    /\ IF fd \in conn
       THEN UNCHANGED <<sessions, orderMaps, outbox, conn, entered, ended>>
       ELSE Disconnect(fd)
    /\ UNCHANGED <<from_client, to_client, batch, clock>>

\* read() returns 0 or fails, or the parser refuses the stream and closes the socket.
PeerGone ==
    /\ Running("reading")
    /\ fd \in conn
    /\ Disconnect(fd)
    /\ pc' = "poll" /\ fd' = NoSocket
    /\ UNCHANGED <<from_client, to_client, batch, clock>>

EndPoll ==
    /\ Running("poll")
    /\ pc' = "process"
    /\ UNCHANGED <<from_client, to_client, sessions, orderMaps, outbox, conn, fd, batch, history>>

\* Mutant: emplace does not look at the capacity.
EmplaceAnyway ==
    /\ outbox # <<>>
    /\ from_client' = Append(from_client, Head(outbox))
    /\ outbox' = Tail(outbox)
    /\ UNCHANGED <<to_client, sessions, orderMaps, conn, pc, fd, batch, history>>

\* emplace spins until the matching engine has made room.
Emplace ==
    /\ outbox # <<>>
    /\ Len(from_client) < QueueCapacity
    /\ from_client' = Append(from_client, Head(outbox))
    /\ outbox' = Tail(outbox)
    /\ UNCHANGED <<to_client, sessions, orderMaps, conn, pc, fd, batch, history>>

-----------------------------------------------------------------------------
(* process(). *)

\* write_msg_to_client, but for the client's open orders (OpenOrdersAfter): the socket
\* is closed when the write fails, as it must on one that is closed or has no session.
WriteToClient(c, fails) ==
    LET s == client_to_sock_fd[c] IN
    IF s = NoSocket THEN ~fails /\ UNCHANGED <<sessions, outbox, conn, entered, ended>>
    ELSE IF fails THEN OnSocketClosed(s) /\ CloseSockets({s})
    ELSE /\ s \in conn /\ sock_to_session_info[s] # NoClient
         /\ UNCHANGED <<sessions, outbox, conn, entered, ended>>

OpenOrdersAfterWrite(c, fails) ==
    IF fails THEN OpenOrdersAfter(client_to_sock_fd[c]) ELSE client_to_open_orders

\* Mutant: every fill closes the order.
ClosesOnFill(r) == r.msg_type \in {"CLOSE", "FILL"}

\* Mutant: no fill closes the order.
ClosesOnClose(r) == r.msg_type = "CLOSE"

Closes(r) == r.msg_type = "CLOSE" \/ (r.msg_type = "FILL" /\ r.flags = "CLOSED")

Reject(r, fails) ==
    /\ r.msg_type = "REJECT"
    /\ WriteToClient(r.client, fails)
    /\ client_to_open_orders' = OpenOrdersAfterWrite(r.client, fails)
    /\ UNCHANGED exch_to_client_orders

\* A report about an order that is closed already, or never was.
Unknown(r) ==
    /\ r.msg_type # "REJECT" /\ exch_to_client_orders[r.id] = NoEntry
    /\ UNCHANGED <<sessions, orderMaps, outbox, conn, entered, ended>>

AckFillOrClose(r, fails) ==
    LET c == exch_to_client_orders[r.id].client
        oid == exch_to_client_orders[r.id].order_id
    IN  /\ r.msg_type # "REJECT" /\ exch_to_client_orders[r.id] # NoEntry
        /\ WriteToClient(c, fails)
        /\ IF Closes(r)
           THEN /\ client_to_open_orders' = [OpenOrdersAfterWrite(c, fails) EXCEPT ![c][oid] = 0]
                /\ exch_to_client_orders' = [exch_to_client_orders EXCEPT ![r.id] = NoEntry]
           ELSE /\ client_to_open_orders' = OpenOrdersAfterWrite(c, fails)
                /\ UNCHANGED exch_to_client_orders

Process ==
    /\ Running("process")
    /\ to_client # <<>>
    /\ \/ \E fails \in BOOLEAN : Reject(Head(to_client), fails) \/ AckFillOrClose(Head(to_client), fails)
       \/ Unknown(Head(to_client))
    /\ pc' = "pop"
    /\ UNCHANGED <<from_client, to_client, fd, batch, clock>>

PopReport ==
    /\ Running("pop")
    /\ to_client' = Tail(to_client)
    /\ pc' = "process"
    /\ UNCHANGED <<from_client, sessions, orderMaps, outbox, conn, fd, batch, history>>

\* Mutant: the thread returns to the sockets with reports left.
EndProcessEarly ==
    /\ Running("process")
    /\ pc' = "poll" /\ batch' = 0
    /\ UNCHANGED <<from_client, to_client, sessions, orderMaps, outbox, conn, fd, history>>

EndProcess ==
    /\ Running("process")
    /\ to_client = <<>>
    /\ pc' = "poll" /\ batch' = 0
    /\ UNCHANGED <<from_client, to_client, sessions, orderMaps, outbox, conn, fd, history>>

HandlerInit ==
    /\ from_client = <<>> /\ to_client = <<>>
    /\ sock_to_session_info = [s \in Sockets |-> NoClient]
    /\ client_to_sock_fd = [c \in Clients |-> NoSocket]
    /\ client_to_open_orders = [c \in Clients |-> NoOpenOrders]
    /\ exch_to_client_orders = [id \in Ids |-> NoEntry]
    /\ outbox = <<>>
    /\ conn = {}
    /\ pc = "poll" /\ fd = NoSocket
    /\ batch = 0
    /\ clock = 0
    /\ entered = [id \in Ids |-> NoSocket] /\ ended = {}

\* What clients and the network make the thread do.
ClientStep ==
    \/ Message
    \/ \E s \in Sockets : Accept(s) \/ Readable(s) \/ HangUp(s)
    \/ PeerGone

\* What the thread does by itself.
ThreadStep == EndRead \/ EndPoll \/ Emplace \/ Process \/ PopReport \/ EndProcess
=============================================================================
