--------------------------- MODULE MatchingEngine ---------------------------
(***************************************************************************)
(* The broker thread of the matching engine: MatchingEngineBroker          *)
(* (matching_engine/me_broker.H) around one symbol's OrderLadder, with the *)
(* market data publisher (md_mcast.cpp) and the clearing publisher         *)
(* (clearing_mcast.cpp) its callbacks drive.                               *)
(*                                                                         *)
(* The thread takes a payload from the front of from_client, hands it to   *)
(* the ladder, runs the callbacks the ladder makes, publishes the queued   *)
(* trades and only then pops the payload.  Both queues are single-producer *)
(* single-consumer rings: emplace spins while its queue is full.           *)
(***************************************************************************)
EXTENDS OrderLadder, Sums

CONSTANTS
    Clients,        \* client ids
    NoClient,       \* absence from the owner map
    EnteredBy,      \* bound: per order the clients that may enter it
    QueueCapacity,  \* capacity of from_client and of to_client
    KeySpace        \* number of values of the owner map's key type (2^32)

ASSUME EngineAssumption ==
    /\ Ids \subseteq Nat
    /\ NoClient \notin Clients
    /\ EnteredBy \in [Ids -> SUBSET Clients]
    /\ QueueCapacity \in Nat \ {0}
    /\ KeySpace \in Nat \ {0}

VARIABLES
    from_client,    \* requests from the order entry thread
    to_client,      \* reports to the order entry thread
    busy,           \* the front of from_client is being processed
    owner,          \* exch_order_id_to_client_id
    queued_trades,  \* MarketDataPublisher::queued_trades
    view,           \* the book of a consumer that applied every message published so far
    fills,          \* history: fills sent to clearing for the front of from_client, each
                    \*          with the order's id, which the message does not carry
    submitter,      \* history: the client that introduced the order
    closed,         \* history: orders reported as closed to the order entry thread
    resized         \* history: orders given a new quantity in place after a partial fill

brokerVars == <<from_client, to_client, busy, owner, queued_trades>>
outVars == <<view, fills>>
historyVars == <<submitter, closed, resized>>
engineVars == <<vars, brokerVars, outVars, historyVars>>

Book == INSTANCE OrderBook

-----------------------------------------------------------------------------
Payload == [msg_type: {"NEW_ORDER", "DELETE_ORDER", "MODIFY_ORDER", "REJECT"},
            id: Pointer, client: Clients, side: Side, quantity: Nat, price: Int, flags: Flags]
Report == [msg_type: {"ACK", "CLOSE", "REJECT", "FILL"}, id: Pointer, client: Clients,
           flags: FillFlags \cup {"NONE"}]

ReportOf(type, id, client, flags) ==
    [msg_type |-> type, id |-> id, client |-> client, flags |-> flags]

\* unordered_map<uint32_t, uint32_t> keyed with a 64-bit order id.
OwnerKey(id) == id % KeySpace

Current == Head(from_client)

\* client_id, set from the payload that is being processed.
ActiveClient == Current.client

\* Mutant: emplace overwrites instead of waiting.
EmplaceAnyway(report) == to_client' = Append(to_client, report)

\* emplace waits until the consumer has made room.
Emplace(report) ==
    /\ Len(to_client) < QueueCapacity
    /\ to_client' = Append(to_client, report)

-----------------------------------------------------------------------------
(* process(): one payload at a time. *)

\* The part of every dispatch that is not the ladder's.
Take(type) ==
    /\ ~busy /\ ~failed
    /\ from_client # <<>>
    /\ Current.msg_type = type
    /\ busy' = TRUE
    /\ UNCHANGED fills

TakeNew ==
    /\ Take("NEW_ORDER")
    /\ owner' = [owner EXCEPT ![OwnerKey(Current.id)] = Current.client]
    /\ NewOrder(Current.id, Current.side, Current.quantity, Current.price, Current.flags)
    /\ UNCHANGED <<from_client, to_client, queued_trades, view, historyVars>>

TakeDelete ==
    /\ Take("DELETE_ORDER")
    /\ DeleteOrder(Current.id)
    /\ UNCHANGED <<from_client, to_client, owner, queued_trades, view, historyVars>>

TakeModify ==
    /\ Take("MODIFY_ORDER")
    /\ ModifyOrder(Current.id, Current.side, Current.quantity, Current.price)
    /\ resized' = IF /\ Current.id \in Resting
                     /\ Current.id \in DOMAIN orders'
                     /\ orders[Current.id].filled_quantity > 0
                  THEN resized \cup {Current.id} ELSE resized
    /\ UNCHANGED <<from_client, to_client, owner, queued_trades, view, submitter, closed>>

\* A reject of the order entry thread travels through the broker to keep its order
\* with the other reports.
TakeReject ==
    /\ Take("REJECT")
    /\ Emplace(ReportOf("REJECT", Current.id, Current.client, "NONE"))
    /\ UNCHANGED <<vars, from_client, owner, queued_trades, view, historyVars>>

\* The ladder's own steps.
LadderStep ==
    /\ Match \/ FinishWithoutResting \/ FinishResting
    /\ UNCHANGED <<brokerVars, outVars, historyVars>>

-----------------------------------------------------------------------------
(* The callbacks. *)

RunNewOrder(c) ==
    /\ c.fn = "onNewOrder"
    /\ view' = IF c.quantity > 0 THEN Book!new_order(view, c.id, c.side, c.quantity, c.price)
               ELSE view
    /\ Emplace(ReportOf("ACK", c.id, ActiveClient, "NONE"))
    /\ UNCHANGED <<queued_trades, fills, closed>>

RunModifyOrder(c) ==
    /\ c.fn = "onModifyOrder"
    /\ view' = Book!modify_order(view, c.id, c.side, c.quantity, c.price)
    /\ Emplace(ReportOf("ACK", c.id, ActiveClient, "NONE"))
    /\ UNCHANGED <<queued_trades, fills, closed>>

\* Mutant: the DELETE message is never published.
RunDeleteOrderSilently(c) ==
    /\ c.fn = "onDeleteOrder"
    /\ Emplace(ReportOf("CLOSE", c.id, ActiveClient, "NONE"))
    /\ closed' = closed \cup {c.id}
    /\ UNCHANGED <<queued_trades, view, fills>>

\* Mutant: an unpublished delete returns before the report.
RunDeleteOrderUnreported(c) ==
    /\ c.fn = "onDeleteOrder"
    /\ IF c.publish
       THEN /\ view' = Book!delete_order(view, c.id)
            /\ Emplace(ReportOf("CLOSE", c.id, ActiveClient, "NONE"))
            /\ closed' = closed \cup {c.id}
       ELSE UNCHANGED <<view, to_client, closed>>
    /\ UNCHANGED <<queued_trades, fills>>

RunDeleteOrder(c) ==
    /\ c.fn = "onDeleteOrder"
    /\ view' = IF c.publish THEN Book!delete_order(view, c.id) ELSE view
    /\ Emplace(ReportOf("CLOSE", c.id, ActiveClient, "NONE"))
    /\ closed' = closed \cup {c.id}
    /\ UNCHANGED <<queued_trades, fills>>

RunCancelReject(c) ==
    /\ c.fn = "onCancelReject"
    /\ Emplace(ReportOf("REJECT", c.id, ActiveClient, "NONE"))
    /\ UNCHANGED <<queued_trades, view, fills, closed>>

RunTrade(c) ==
    /\ c.fn = "onTrade"
    /\ queued_trades' = Append(queued_trades, [id |-> c.id, quantity |-> c.quantity, price |-> c.price])
    /\ UNCHANGED <<to_client, view, fills, closed>>

\* Mutant: both sides of a trade are attributed to the aggressor.
FillActiveClient(c) == ActiveClient

FillClient(c) == IF c.active THEN ActiveClient ELSE owner[OwnerKey(c.id)]

RunFill(c) ==
    /\ c.fn = "onFill"
    /\ Emplace(ReportOf("FILL", c.id, FillClient(c), c.flags))
    /\ fills' = Append(fills, [id |-> c.id, client |-> FillClient(c), side |-> c.side,
                               quantity |-> c.quantity, price |-> c.price])
    /\ closed' = IF c.flags = "CLOSED" THEN closed \cup {c.id} ELSE closed
    /\ UNCHANGED <<queued_trades, view>>

\* onFill throws when the passive order has no owner.
OwnerMissing(c) == c.fn = "onFill" /\ ~c.active /\ owner[OwnerKey(c.id)] = NoClient

Callbacks ==
    /\ calls # <<>> /\ ~failed
    /\ LET c == Head(calls) IN
       IF OwnerMissing(c)
       THEN /\ failed' = TRUE
            /\ UNCHANGED <<orders, levels, cur, calls, used, ahead, queued_trades, to_client,
                           outVars, closed>>
       ELSE /\ RunCallback
            /\ \/ RunNewOrder(c)
               \/ RunModifyOrder(c)
               \/ RunDeleteOrder(c)
               \/ RunCancelReject(c)
               \/ RunTrade(c)
               \/ RunFill(c)
    /\ UNCHANGED <<from_client, busy, owner, submitter, resized>>

\* finishedPacket() and from_client.pop(): the trades of the request are published
\* in one packet, after its NEW, MODIFY or DELETE message.
ApplyTrades(book, trades) ==
    LET after[n \in 0..Len(trades)] ==
            IF n = 0 THEN book
            ELSE Book!order_trade(after[n - 1], trades[n].id, trades[n].quantity)
    IN  after[Len(trades)]

FinishedPacket ==
    /\ busy /\ Idle
    /\ view' = ApplyTrades(view, queued_trades)
    /\ queued_trades' = <<>>
    /\ fills' = <<>>
    /\ from_client' = Tail(from_client)
    /\ busy' = FALSE
    /\ UNCHANGED <<vars, to_client, owner, historyVars>>

BrokerStep ==
    \/ TakeNew \/ TakeDelete \/ TakeModify \/ TakeReject
    \/ LadderStep \/ Callbacks \/ FinishedPacket
-----------------------------------------------------------------------------
(* The order entry thread, as far as the broker can tell: it enqueues requests
   about orders it introduced itself and drains the reports. *)

PayloadOf(type, id, client, side, quantity, price, flags) ==
    [msg_type |-> type, id |-> id, client |-> client, side |-> side,
     quantity |-> quantity, price |-> price, flags |-> flags]

Enqueue(payload) ==
    /\ Len(from_client) < QueueCapacity
    /\ from_client' = Append(from_client, payload)
    /\ UNCHANGED <<vars, to_client, busy, owner, queued_trades, outVars>>

Introduced(id) ==
    id \in used \/ \E i \in DOMAIN from_client :
                       from_client[i].msg_type = "NEW_ORDER" /\ from_client[i].id = id

\* Order ids are readings of a clock that only moves forward.
EnqueueNew(client, id, side, quantity, price, flags) ==
    /\ ~Introduced(id)
    /\ \A earlier \in Ids : earlier < id => Introduced(earlier)
    /\ Enqueue(PayloadOf("NEW_ORDER", id, client, side, quantity, price, flags))
    /\ submitter' = [submitter EXCEPT ![id] = client]
    /\ UNCHANGED <<closed, resized>>

EnqueueDelete(id) ==
    /\ Introduced(id)
    /\ Enqueue(PayloadOf("DELETE_ORDER", id, submitter[id], "BUY", 0, 0, "NONE"))
    /\ UNCHANGED historyVars

EnqueueModify(id, side, quantity, price) ==
    /\ Introduced(id)
    /\ Enqueue(PayloadOf("MODIFY_ORDER", id, submitter[id], side, quantity, price, "NONE"))
    /\ UNCHANGED historyVars

\* A reject names the client's own order id, which the exchange did not assign.
EnqueueReject(client) ==
    /\ Enqueue(PayloadOf("REJECT", NoOrder, client, "BUY", 0, 0, "NONE"))
    /\ UNCHANGED historyVars

Drain ==
    /\ to_client # <<>>
    /\ to_client' = Tail(to_client)
    /\ UNCHANGED <<vars, from_client, busy, owner, queued_trades, outVars, historyVars>>

OrderEntry ==
    \/ \E id \in Ids, side \in Side, quantity \in Quantities, price \in Prices, flags \in Flags :
          \E client \in EnteredBy[id] : EnqueueNew(client, id, side, quantity, price, flags)
    \/ \E id \in Ids : EnqueueDelete(id)
    \/ \E id \in Ids, side \in Side, quantity \in Quantities, price \in Prices :
          EnqueueModify(id, side, quantity, price)
    \/ \E client \in Clients : EnqueueReject(client)
    \/ Drain

EngineInit ==
    /\ Init
    /\ from_client = <<>> /\ to_client = <<>>
    /\ busy = FALSE
    /\ owner = [k \in 0..(KeySpace - 1) |-> NoClient]
    /\ queued_trades = <<>>
    /\ view = Book!Empty
    /\ fills = <<>>
    /\ submitter = [id \in Ids |-> NoClient]
    /\ closed = {} /\ resized = {}

EngineNext == BrokerStep \/ OrderEntry

EngineSpec == EngineInit /\ [][EngineNext]_engineVars

-----------------------------------------------------------------------------
(* The properties. *)

\* Between two packets.
AtRest == ~busy /\ ~failed

\* Every broker variable stays within its type, and both rings within their size.
EngineTypeOK ==
    /\ from_client \in Seq(Payload) /\ Len(from_client) <= QueueCapacity
    /\ to_client \in Seq(Report) /\ Len(to_client) <= QueueCapacity
    /\ busy \in BOOLEAN
    /\ owner \in [0..(KeySpace - 1) -> Clients \cup {NoClient}]
    /\ submitter \in [Ids -> Clients \cup {NoClient}]
    /\ closed \subseteq Ids /\ resized \subseteq used

\* Replaying the feed reproduces the ladder: between two packets a consumer that
\* applied NEW, MODIFY, DELETE and the deferred TRADE messages knows exactly the
\* resting orders, with their price and quantity.  Orders resized in place after a
\* partial fill are left out: see ReportedQuantityRests.
FeedReproducesBook ==
    AtRest => \A id \in Ids \ resized :
        /\ Book!Known(view, id) <=> id \in Resting
        /\ id \in Resting =>
              /\ view.orders[id].side = orders[id].side
              /\ view.orders[id].price = orders[id].price
              /\ view.orders[id].quantity = orders[id].quantity

\* The consumer's price levels are the sums of its orders after every message, also
\* when trades of unknown or outsized orders were ignored.
LevelsAreSums ==
    \A side \in Side, p \in Prices :
        view.levels[side][p] =
            Total([id \in DOMAIN view.orders |-> view.orders[id].quantity],
                  {id \in DOMAIN view.orders : view.orders[id].side = side /\ view.orders[id].price = p})

\* Between two packets an order the broker has taken rests in the ladder exactly if
\* no report has closed it: no client waits for an order that is gone, and none is
\* told that an order is gone that can still trade.
ClosedIsGone == AtRest => \A id \in used : id \in closed <=> id \notin Resting

\* Every fill is reported to the client that entered the order, and cleared to it.
FillsGoToOwner ==
    /\ \A i \in DOMAIN to_client :
          to_client[i].msg_type = "FILL" => to_client[i].client = submitter[to_client[i].id]
    /\ \A i \in DOMAIN fills : fills[i].client = submitter[fills[i].id]

QuantityCleared(side, p) ==
    Total([i \in DOMAIN fills |-> fills[i].quantity],
          {i \in DOMAIN fills : fills[i].side = side /\ fills[i].price = p})
QuantityTraded(p) ==
    Total([i \in DOMAIN queued_trades |-> queued_trades[i].quantity],
          {i \in DOMAIN queued_trades : queued_trades[i].price = p})

\* When a packet is complete, as much was bought as sold at every price, and that is
\* the quantity of the trades about to be published.
ClearingBalances ==
    busy /\ Idle => \A p \in Prices :
        /\ QuantityCleared("BUY", p) = QuantityTraded(p)
        /\ QuantityCleared("SELL", p) = QuantityTraded(p)

\* The promise to the order entry thread.
phaseOfBroker ==
    CASE ~busy -> "idle"
      [] busy /\ calls # <<>> ->
            LET c == Head(calls) IN
            CASE c.fn = "onCancelReject" -> "rejecting"
              [] c.fn = "onFill" /\ c.active ->
                    IF fills[Len(fills)].id \in Resting THEN "owesLastFill" ELSE "owesFill"
              [] OTHER -> "matching"
      [] busy /\ calls = <<>> -> IF cur = NoRequest THEN "done" ELSE "matching"

Contract == INSTANCE EngineContract WITH
    phase <- phaseOfBroker,
    open <- used \ closed,
    clientOf <- [id \in Ids |-> owner[OwnerKey(id)]]

\* The broker keeps the promise the order entry thread relies on: every request is
\* answered as the contract says, a fill reaches the client that entered the order,
\* and an order is open until exactly one of its reports closes it.
ImplementsContract == Contract!ContractSpec
=============================================================================
