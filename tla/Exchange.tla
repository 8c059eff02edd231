------------------------------ MODULE Exchange ------------------------------
(***************************************************************************)
(* The exchange process (matching_engine/matching_engine.cpp): the order   *)
(* entry thread and the broker thread, joined by two bounded queues.  The  *)
(* order entry thread is ClientHandler; the broker thread is what          *)
(* EngineContract says of it, which MatchingEngine implements.             *)
(***************************************************************************)
EXTENDS ClientHandler

VARIABLES phase, open, clientOf     \* the broker thread, see EngineContract

engineVars == <<phase, open, clientOf>>
exchangeVars == <<handlerVars, engineVars>>

Engine == INSTANCE EngineContract

BrokerThread ==
    /\ Engine!EngineStep
    /\ UNCHANGED <<sessions, orderMaps, outbox, conn, pc, fd, batch, history>>
OrderEntryThread == ThreadStep /\ UNCHANGED engineVars
Clientele == ClientStep /\ UNCHANGED engineVars

ExchangeInit == HandlerInit /\ Engine!ContractInit

ExchangeNext == BrokerThread \/ OrderEntryThread \/ Clientele

\* Each thread runs on a core of its own and polls without blocking.
ExchangeSpec ==
    /\ ExchangeInit /\ [][ExchangeNext]_exchangeVars
    /\ WF_exchangeVars(BrokerThread) /\ WF_exchangeVars(OrderEntryThread)

-----------------------------------------------------------------------------
(* The properties. *)

Queued(queue, type, id) == \E i \in DOMAIN queue : queue[i].msg_type = type /\ queue[i].id = id

\* Every variable stays within its type.
ExchangeTypeOK ==
    /\ Len(from_client) <= QueueCapacity /\ Len(to_client) <= QueueCapacity
    /\ sock_to_session_info \in [Sockets -> Clients \cup {NoClient}]
    /\ client_to_sock_fd \in [Clients -> Sockets \cup {NoSocket}]
    /\ client_to_open_orders \in [Clients -> [OrderIds -> 0..MaxOrders]]
    /\ exch_to_client_orders \in
          [Ids -> [client: Clients, order_id: OrderIds] \cup {NoEntry}]
    /\ conn \subseteq Sockets
    /\ pc \in {"poll", "reading", "process", "pop"}
    /\ fd \in Sockets \cup {NoSocket}
    /\ phase \in Engine!Phases /\ open \subseteq Ids

\* The client table and the session table describe the same logins.
SessionsAgree ==
    \A c \in Clients, s \in Sockets :
        client_to_sock_fd[c] = s <=> sock_to_session_info[s] = c

\* A session is on a connection: between two events no session is left on a closed
\* socket, whose descriptor the next connection will get.
SessionsAreConnected ==
    pc # "reading" => \A s \in Sockets : sock_to_session_info[s] # NoClient => s \in conn

Tracked(id) ==
    LET entry == exch_to_client_orders[id] IN
    entry # NoEntry /\ client_to_open_orders[entry.client][entry.order_id] = id

\* The client can still cancel every order that can trade: an open order is in both order
\* maps, under the client that entered it, unless its cancel is on the way.
OpenOrdersTracked ==
    \A id \in open :
        \/ Tracked(id) /\ exch_to_client_orders[id].client = clientOf[id]
        \/ Queued(from_client, "DELETE_ORDER", id)
        \/ Queued(outbox, "DELETE_ORDER", id)

\* No order id stays blocked: whatever the session layer holds open is open in the
\* engine, on its way there, or a report that closes it is on its way back.
TrackedOrdersOpen ==
    \A c \in Clients, oid \in OrderIds :
        LET id == client_to_open_orders[c][oid] IN
        id # 0 => /\ exch_to_client_orders[id] = Entry(c, oid)
                  /\ \/ id \in open
                     \/ clientOf[id] = NoClient
                     \/ \E i \in DOMAIN to_client : to_client[i].id = id /\ Closes(to_client[i])

\* An order whose connection is over and that can still trade has its cancel on the way;
\* only while the server finds out that a handler closed the socket is there none.
EndedOrdersCancelled ==
    \A id \in ended \cap open :
        \/ Queued(from_client, "DELETE_ORDER", id) \/ Queued(outbox, "DELETE_ORDER", id)
        \/ pc = "reading" /\ fd \notin conn

\* When a connection ends, however it ends, every order entered on it is eventually gone
\* from the engine and stays gone.
CancelledOnDisconnect == \A id \in Ids : id \in ended ~> [](id \notin open)

\* No handler of the order entry thread spins forever in emplace: the two threads never
\* wait for each other, each for room in the queue the other one drains.
HandlersReturn == (outbox # <<>>) ~> (outbox = <<>>)
=============================================================================
