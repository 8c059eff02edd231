# A TLA+ model of NDFEX

NDFEX is a toy exchange: a process that accepts orders over TCP, matches them in a
limit order book, publishes the book as multicast market data and the fills as
multicast clearing messages; services that serve snapshots of the book and track
positions; and bots that trade on it. This directory holds TLA+ modules that model
the exchange process, the recovery of market data, the consumers of the clearing feed and
the market making bots, configurations that check them with TLC, and proofs that TLAPS
checks about the order book, the broker, the consumer's book, the session layer, the server
and its stream parser, market data recovery, the clearing consumers, the ETF service and the bots. `PROJECT.json` lists the components, runs, mutants,
findings, hazards and theorems, and maps definitions to source lines.

To check a run: `tlc -workers 4 -config MCOrderLadder.cfg MCOrderLadder`.
To check the proofs of a module: `tlapm OrderLadderProofs.tla`, and so on for each `*Proofs`
module; the longest, `MarketDataProofs`, takes about ten minutes.

## 1. Inventory

| Component | State | Operations | Talks to |
|---|---|---|---|
| Order ladder (`matching_engine/order_ladder.H`) | map id -> order; per side a sorted map price -> level; a level is the head and tail of a doubly linked list | `new_order`, `modify_order`, `delete_order`, `match` | calls its subscriber, the broker, synchronously |
| Broker (`me_broker.H`) | the payload being processed, `exch_order_id_to_client_id`, the ladders by symbol | `process` and the callbacks `onNewOrder`, `onModifyOrder`, `onDeleteOrder`, `onCancelReject`, `onTrade`, `onFill`, `finishedPacket` | reads `from_client`, writes `to_client`, drives both publishers |
| Market data publisher (`md_mcast.cpp`) | sequence number, `queued_trades` | publish new, modify, delete, trades, heartbeat | UDP multicast |
| Clearing publisher (`clearing_mcast.cpp`) | sequence number | publish fill | UDP multicast |
| Queues (`spsc_oe_queue.H`) | two rings of 80000 payloads | `emplace` (spins when full), `front`, `pop` | join the two threads |
| Client handler (`order_entry/oe_client_handler.cpp`) | sessions by socket, socket by client, open orders by client and order id, client order by exchange id | `on_login`, `on_new_order`, `on_delete_order`, `on_modify_order`, `on_socket_closed`, `process`, `cancel_all_client_orders` | writes `from_client`, drains `to_client`, writes to sockets |
| Order entry server and stream parser (`oe_server.cpp`, `oe_stream_parser.H`) | epoll set; per descriptor the bytes of an unfinished message and the times of recent messages | `run`, `parse`, `new_socket`, `socket_closed` | calls the handler |
| Validator (`oe_validator.cpp`) | the symbol definitions | accept or reject an order | called by the handler |
| Client book (`bots/order_book.cpp`) | orders, quantity per side and price | `new_order`, `modify_order`, `delete_order`, `order_trade` | fed by the market data client |
| Snapshot service (`market_data/`) | the resting orders of two symbols, last sequence number | apply the live feed, write a snapshot every 500 ms | reads and writes multicast |
| Market data client (`bots/md_client.cpp`) | books, live and snapshot buffers, last sequence number | `wait_for_snapshot`, `process_message` | reads both multicasts |
| Order entry client, bots (`bots/`) | session, own orders, stacks of quotes | login, send, cancel, modify, re-quote | TCP to the order entry server |
| Clearing clients, ETF service (`web_data/`, `etf_service/`) | positions, last sequence number, ETF adjustments | apply fills, create and redeem | read the clearing multicast |
| Viewers, web application, scripts | none of their own | presentation, process control | |

**How the parts interact.** The exchange process has two threads. The order entry thread
runs `EpollServer::run`: it handles a batch of socket events - each message goes through
`StreamParser::parse` to a handler of `ClientHandler`, which may emplace payloads on
`from_client` - and then lets `ClientHandler::process` drain `to_client`. The broker
thread polls `from_client`, calls the ladder, and the ladder's callbacks write reports to
`to_client`, market data and clearing messages. The threads share nothing but the two
queues. Everybody else sees the multicasts or a TCP connection.

**What is hard.** Reports that were on the way when a connection ended, was replaced by a
duplicate login or reused an order id; file descriptors that are used again; handlers
that close a socket whose stream is still being parsed; failures in the middle of
`process()`; both threads waiting for room in each other's queue; the order of NEW and
TRADE messages within a packet; orders filled exactly; partially filled orders that are
modified; the linked lists under deletes from the middle; edges of the epoll that are
taken and not acted on; state kept by descriptor that outlives its connection; clearing
totals that wrap; positions that change while a request checks them; and bots whose orders
are filled while they move them. The `hazards` of
`PROJECT.json` name each at its line.

**What makes each component correct.** Ladder: never crossed, lists intact, price-time
priority, no exception. Broker: every request answered, fills to their owner, an order
closed by exactly the report that tells the client, both sides of a trade cleared, a
replayed feed equal to the book. Session layer: the maps agree with each other, with the
connections and with the engine; orders of an ended connection are cancelled. Server and
parser: messages come out as they were sent, the rate is that of the connection, no
wake-up is lost. Client book: levels are the sums of orders.
Snapshots and market data client: after any loss the recovered book is the exchange's at
some sequence number. Clearing: positions are the sums of fills. ETF service: create and
redeem neither make nor lose value, and spend no position twice. Bots: every open order is
known, at its price, and the position is what was traded.

## 2. Plan

1. `OrderLadder`, its abstract specification `PriceTimeBook`, the proofs. *Done.*
2. `OrderBook` and `MatchingEngine` (ladder, broker, publishers, a consumer). *Done.*
3. `EngineContract`, implemented by `MatchingEngine`; `ClientHandler`; `Exchange`
   composing both threads. *Done.*
4. `MarketData`: the numbered feed with loss, the snapshot service, `MDClient`; a
   recovered client has the exchange's book at its sequence number. *Done*, but for
   progress (that it recovers), reordered packets and a service that loses packets itself.
5. `StreamServer`: the epoll set (edges, the `break` after a hang-up), the stream parser's
   partial messages and rate limit. *Done*, but for session sequence numbers and the
   validator's arithmetic.
6. `Clearing` and `PositionLedger`; `MarketMaker`: order entry client, stack manager and
   the pair of quotes. *Done.*
7. Theorems: the ladder implements the price-time book; the broker's, the session layer's,
   the ledger's and the market makers' invariants for any number of orders, clients,
   sockets and threads; the broker implements its contract. *Done.*
8. Theorems: the consumer's book is the ladder's; the server keeps its edges, frames messages
   as they were sent and limits each connection by its own rate. *Done.*
9. Theorems: the snapshot service follows the exchange, a client never goes back, and a
   recovered client has the exchange's book. *Done.*

## 3. Modules

| Module | Models |
|---|---|
| `OrderLadder` | the ladder of one symbol |
| `PriceTimeBook` | abstract: a book with price-time priority, without lists |
| `OrderBook` | the consumer's book, as operators on a book |
| `MatchingEngine` | extends `OrderLadder`: broker, publishers, both queues; the order entry thread as an environment that only makes requests the session layer can make |
| `EngineContract` | abstract: what the broker thread does, seen through the queues |
| `ClientHandler` | the order entry thread: event loop, dispatch, session layer |
| `Exchange` | `ClientHandler` composed with `EngineContract` |
| `MarketData` | the numbered feed, the snapshot service and one market data client, with `OrderBook` as the client's books |
| `StreamServer` | the event loop over an edge-triggered epoll, framing and the rate limit; the handler only as what it closes |
| `Clearing` | the numbered clearing feed with loss, and its C++ and Python consumers |
| `PositionLedger` | extends `Clearing`: the threads of the ETF service that create and redeem |
| `MarketMaker` | one bot, its order entry client, the connection, and the exchange as this client sees it |
| `Sums` | sums over finite sets, for the properties that say that something adds up |
| `OrderLadderProofs` | theorems about `OrderLadder`, and that it implements `PriceTimeBook` |
| `SumProofs` | lemmas about `Sums`, and how to count up to a number |
| `MatchingEngineProofs` | theorems about the broker of `MatchingEngine`, then about its consumer's book |
| `ExchangeProofs`, `MarketDataProofs`, `StreamServerProofs`, `PositionLedgerProofs`, `MarketMakerProofs` | theorems about the modules they are named after |
| `MCOrderLadder`, `MCMatchingEngine`, `MCExchange`, `MCMarketData`, `MCStreamServer`, `MCPositionLedger`, `MCMarketMaker` | instances for TLC |

**OrderLadder.** `orders` and `levels` are the maps of the class; an order has its `next`
and `prev`, a level its `head` and `tail`, and a level with a null head is one that is not
in the map (every caller of `handle_delete_order` erases it). A request is several steps:
`NewOrder` or `ModifyOrder` puts what `handle_new_order` was called with into `cur`, each
`Match` is one turn of the inner loop of `match()`, and `FinishResting` or
`FinishWithoutResting` is what follows `match()`. `calls` holds the callbacks of a step in
the order in which they are made; nothing else happens until they have run. Each
`runtime_error` is a transition to `failed`, which ends the thread. `used` and `ahead` are
history: the ids ever given to `new_order`, and for a resting order the orders that were
at its level before it. Quantities are naturals: the only subtractions in the code are
guarded, and the guards are modelled.

**MatchingEngine.** `busy` says that the front of `from_client` is being processed; it is
popped in `FinishedPacket`. `owner` is `exch_order_id_to_client_id`, whose key is an id
modulo `KeySpace` (2^32 in the code: the map's key type is `uint32_t`, ids have 64 bits).
Market data messages are applied to `view`, the book of a consumer that misses none;
`queued_trades` is applied by `FinishedPacket`. `fills` are the clearing messages of the
current packet. An `emplace` is a guard on the length of the queue.

**EngineContract.** `phase` is how far the front request has come; `open` are the orders
taken and not yet reported as closed. `phaseOfBroker` is the refinement mapping.

**ClientHandler.** `pc` is where the thread is: `poll` (in the loop over the events),
`reading` (in the read loop of `fd`), `process`, and `pop` (between the handling of a
report and its pop, which are separate because the handling may itself wait for room).
Map updates of a handler are one step; what it has still to emplace is in `outbox`, in
the order of the calls. `conn` are the open file descriptors: a handler that closes a
socket removes it, the read loop then fails with EBADF and runs `socket_closed`. `clock` gives exchange ids.
`entered` and `ended` are history: which orders were entered on a connection that has
ended since.

**MarketData.** A message is its sequence number, `feed` has its contents and `truth`
(history) the exchange's orders after it; a packet is a sequence of numbers. `live` and
`snaps` are the client's sockets; a live packet is lost when it is published, a snapshot
datagram when it is written. `WriteSnapshot(n)` is one call of
`SnapshotWriter::process` that finds the messages up to `n` on the queue from
`SnapshotClient` and writes: calls that write nothing can be left out, since the next one
may take their messages as well. `SymbolRow` is the order in which symbols are written, and
within a side orders of one price may come in any order (`Rows`). A datagram is named by what
it is a part of: its symbol, the number of the snapshot, all orders of the symbol (`row`) and
how many of them were in earlier datagrams (`from`); only the datagram with `from = 0` has the
counts and the number (`HasInfo`), and the client looks at the number of no other one.
Loops of the code are functions that are recursive in the number of turns. `ReceiveWhileWaiting` is one turn of the loop of
`wait_for_snapshot`, `FinishWaiting` all that follows the loop, `Process` the handling of a
packet by a live client; a gap in either is `Restart`. `nested` says that
`wait_for_snapshot` was called from its own last loop, whose next step after the inner call
is undefined behaviour (`mode = "undefined"`). Prices are left out: recovery does not look
at them, and the orders of a snapshot are written in any order. `scenario` is chosen at the
start and never changes: the client's parameter `recover_on_drops`, and the orders and
bounds that go with it, so that one run looks at a late joiner and at a recovering client.

**StreamServer.** A message is two or three units, of which the first is the header; a
stream is what a client sends unit by unit, and a read takes what has arrived, up to
`BufferUnits`. A connection keeps its number while descriptors are used again. `ready` is
the kernel's list of items with an edge: an item is put on it when data, a hang-up or a
connection arrives and taken off by `epoll_wait`, whether or not `run()` then does anything.
`events` is the rest of the batch and `reading` the descriptor in the read loop. `Parse` is
one call of `parse()`; `ParseOne` is one turn of its loop and `Parsed` what the loop makes of the
bytes at hand, a function that is recursive in the number of turns; `Kept` are the times of
recent messages that the rate limit keeps. Of the handler there is
`session`, the duplicate login that closes two descriptors, and the write that fails
(`WriteFails`). `handled`, `limited` and `neglected` are history.

**Clearing, PositionLedger.** A datagram is one fill and its number its place in `fills`;
`read` is how far a consumer's socket is, `arrived` (history) which of the datagrams it got.
`Narrow` is the storing of results in 32-bit maps, with `Word` for 2^32: since both
consumers compute the same sums, `Filled` is shared and the C++ one is narrowed after each
fill. The two consumers serve the same dashboard port and one of them runs. A request of the
ledger is a thread that takes the lock (`Begin`), reads one position after another
(`CheckPosition`) and adjusts (`Finish`); fills may come in between.

**MarketMaker.** `orders` is what the bot lists, `open_orders` what `OEClient` knows, `open`
what the exchange has, and `requests` and `reports` what is on the connection. One
`ProcessStack` or `ProcessPair` is a `process()` of the bot with everything it writes;
any of the writes may fail, which is only logged (`unsent`, history), and `Written` is what
then goes out. Whether 100 ms or 30 s
have passed is an input, for each side, as each side reads the clock. `rbegin` of either
set is the order nearest to the market, which the code calls the worst.
Acknowledgements and rejects, which `OEClient` only logs, are left out.

## 4. Runs

### Passing

| Run | Instance | Shows |
|---|---|---|
| `order_ladder` | 4 orders, 3 prices, quantities 1..2, ids symmetric | `TypeOK`, `Uncrossed`, `RestingIsOpen`, `WellLinked`, `NeverThrows`; `ImplementsPriceTime`: every behaviour is one of `PriceTimeBook` |
| `matching_engine` | 3 orders, 2 prices, quantities 1..2, 2 clients, queues of 1 | `EngineTypeOK`, `FeedReproducesBook`, `LevelsAreSums`, `ClosedIsGone`, `FillsGoToOwner`, `ClearingBalances`; `ImplementsContract`: the broker behaves as `Exchange` assumes |
| `exchange` | 2 sockets, 2 clients, 1 order id, 2 orders, 3 events per turn, queues of 2 | `ExchangeTypeOK`, `SessionsAgree`, `SessionsAreConnected`, `OpenOrdersTracked`, `TrackedOrdersOpen`, `EndedOrdersCancelled` |
| `exchange_liveness` | 2 sockets, 1 client, 1 order, 3 events per turn, queues of 3 | `HandlersReturn`, `CancelledOnDisconnect` |
| `market_data` | 2 symbols, 1 lost packet, 1 order per datagram; either 2 orders in one book, quantities 1..2, 4 messages, 1 snapshot and no recovery on drops, or 1 order, 6 messages, 2 snapshots and recovery | `FeedTypeOK`, `RecoveredBook`, `SnapshotIsCurrent`, `NeverBack` |
| `stream_server` | 2 connections of one client, 2 descriptors, 3 messages of 4 kinds, reads of 3 units, 2 events per batch, a limit of 0 | `ServerTypeOK`, `FramedExactly`, `RateBounded`, `LimitedForItsOwn`, `NoEdgeLost` |
| `position_ledger` | 2 clients, 2 underlyings and the ETF, words of 8 values, 3 fills, 1 lost, 2 threads, 3 requests | `ServiceTypeOK`, `CppFollowsFeed`, `PyCountsArrivals`, `AdjustmentsBalance`, `NothingSpentTwice` |
| `market_maker` | either bot, 3 orders, stacks of 2, 3 markets, 2 fair values, 2 fills, 3 messages each way, 1 failed write | `MakerTypeOK`, `PositionIsNetFills`, `NoOrphans`, `PricesAgree`, `StackUncrossed` |

**Why the bounds are enough to be interesting.** Four orders at three prices give a level
with a head, a middle and a tail while a fourth order trades or moves; quantity 2 gives
partial fills, exact fills on both sides and resizing. Queues of one in the engine make
every report a point at which the broker waits. Two sockets and two clients give duplicate
logins, reconnects on a reused descriptor and a client on the other's socket; two orders
under one order id give reuse; three events per turn give login, order and a disconnect in
one batch, and three messages read together from a socket that the first one closed.
A client needs two messages to become live (a snapshot counts only when it is newer than
the first message buffered), one lost and one that shows the gap, and two more to recover:
six messages are the fewest in which a client is live again after a gap, and the run
reaches that. One order per datagram makes a snapshot of one symbol several datagrams.
The orders of `matching_engine` are entered by the two clients in turn (`EnteredBy`), so
that trades within and between clients happen. Reads of three units cut the two-unit messages in every
way and hold parts of two; two connections of one client give the duplicate login that
closes a socket still being read, and a descriptor that is used again. `RateBounded` allows
the limit and `MessagesPerRead` more, the messages a single read can bring; with a limit of
0 the second read within a second is refused, and one step of the clock is longer than the
second. Words of eight values wrap within three fills. Stacks of two with three orders
and a market that goes up and comes back fill a stack, move its orders and cancel them.

**Restrictions, and what they hide.** Some constants keep the passing runs from behaviours
in which the code does break a property. Each can be turned over in the `.cfg`:

| Constant | Passing runs | Turned over |
|---|---|---|
| `KeySpace` | 4: larger than any id | 1: two ids agree in the bits that the owner map keeps (`me_broker.H:189`, a `uint32_t` key for 64-bit ids), and `FillsGoToOwner` fails: the older order's fill goes to the newer one's client |
| `ReuseUnclosed` | `FALSE`: a client uses an order id again only after its close was processed | `TRUE`: the late close of a disconnected session's order erases the order that the next session entered under the same id (`oe_client_handler.cpp:336`), and `OpenOrdersTracked` fails |
| `LoginTwice` | `FALSE`: a socket that is logged in does not log in as another client | `TRUE`: the second login overwrites the session and leaves the first client registered (`oe_client_handler.cpp:123`), and `SessionsAgree` fails |
| `LoseSnapshots` | `FALSE`: live packets are lost, datagrams of a snapshot are not | `TRUE`: a client that misses the counts of one symbol completes its books from two snapshots and counts both as the later one (`md_client.cpp:141`), and `RecoveredBook` fails |

(The refinement property of `MCMatchingEngine.cfg` maps owners through the same key, so with
a small key space it fails first; remove it to see `FillsGoToOwner`.)
`FeedReproducesBook` leaves out orders modified after a partial fill, which
`reported_quantity` is about. `NoEdgeLost` leaves out the edges in `neglected`, which `run()`
takes and drops: those after a hang-up in the same batch, which `lost_edge` is about, and
that of a second connection that arrives before the first is accepted, since there is one
`accept` for one edge. `NoOrphans` and `PricesAgree` leave out orders about which a write
failed.

**Deadlock.** `order_ladder` and `matching_engine` check for deadlock.
The `exchange` run does not: with queues of two both threads can wait for each other, and
its invariants hold there as well. Nor do the market data, clearing, bot and server runs,
whose messages, fills and requests are bounded and which therefore end.
`emplace` waits for room without draining the other
queue, so a turn's requests and their reports must fit: with one order, one message per
turn needs queues of two and two messages queues of three; queues of three or four are too
small for two orders. Roughly, the requests a turn emplaces times the reports of
a request must not exceed the capacity. In the code the capacity is 80000 and a turn is up
to 32 sockets read until EAGAIN. `exchange_liveness` shows that with room for the
turn no handler waits forever; a deadlock would violate `HandlersReturn`.

**Fairness.** Weak fairness of each thread (`BrokerThread`, `OrderEntryThread`): both are
loops that never block except in `emplace` and each has a core of its own
(`matching_engine.cpp`). Nothing is assumed of clients or of the network: messages,
connections and failures are steps of `Clientele` that need not happen. The number of
events in a turn is bounded by `MaxBatch`, as it is in the code by the size of the event
array and the data that has arrived, so `process()` is reached. A write to a socket
succeeds or fails; the code's retry on EAGAIN, which a client that does not read can
prolong, is not modelled. `StreamServer` assumes weak fairness of `run()`, which polls with a
timeout of 0 and reads from non-blocking sockets.

### Violations

Each states what a comment or a test of the repository says and shows a behaviour of the
code that contradicts it.

| Run | What the code does |
|---|---|
| `reported_quantity` | `modify_order` in place rests the requested total, and reports the total less what was filled |
| `drop_while_waiting` | a gap among the buffered messages starts a wait within the wait; after it the outer loop erases from an empty buffer |
| `lost_edge` | one client hangs up, and the readable event of another in the same batch is dropped: under fairness of `run()` its message is still never read. Two clients that hang up together leave the second logged in |
| `stack_orders` | a filled order stays in the stack, so its price is never quoted again and it takes a place |

Two more places where code and comment differ have no run of their own. The remainder of an
aggressor is published before the trades that emptied the level it took, so a consumer's
book is crossed until the packet ends (`order_book.cpp:23` says that this should not
happen; `FeedReproducesBook` shows that the book comes out right). And the reject of a
cancel that came too late carries the exchange's order id (`me_broker.H:71`), which
`oe_client_handler.cpp:273` passes on as the client's.

## 5. Proofs

A theorem holds for every value of the constants that satisfies the assumptions; the bounds
of the runs play no part in it.

| Module | Theorem | Statement |
|---|---|---|
| `OrderLadderProofs` | `LadderInvariant` | `Spec => []IInv` |
| | `TypeCorrect` | `Spec => []TypeOK` |
| | `NeverCrossed` | `Spec => []Uncrossed` |
| | `ListsWellLinked` | `Spec => []WellLinked` |
| | `RestingOrdersOpen` | `Spec => []RestingIsOpen` |
| | `LadderNeverThrows` | `Spec => []NeverThrows` |
| | `LadderImplementsPriceTime` | `Spec => ImplementsPriceTime`: the linked lists implement the book with price-time priority |
| `MatchingEngineProofs` | `EngineInvariant` | `EngineSpec => []EngineInv` |
| | `EngineImplementsLadder` | `EngineSpec => Spec`: the broker uses its ladder as `OrderLadder` says |
| | `BrokerNeverThrows` | `EngineSpec => []NeverThrows` |
| | `EngineTypes` | `EngineSpec => []EngineTypeOK` |
| | `ClosedOrdersAreGone` | `EngineSpec => []ClosedIsGone` |
| | `FillsReachTheirOwner` | with `KeysDiffer`: `EngineSpec => []FillsGoToOwner` |
| | `ClearingAlwaysBalances` | `EngineSpec => []ClearingBalances` |
| | `EngineImplementsContract` | with `KeysDiffer`: `EngineSpec => ImplementsContract` |
| | `FeedInvariant` | `EngineSpec => []FeedInv` |
| | `ConsumerLevelsAddUp` | `EngineSpec => []LevelsAreSums` |
| | `FeedIsTheBook` | `EngineSpec => []FeedReproducesBook` |
| `ExchangeProofs` | `ExchangeTypes` | `ExchangeSpec => []ExchangeTypeOK` |
| | `LoginsAgree` | with `~LoginTwice`: `ExchangeSpec => []SessionsAgree` |
| | `SessionsConnected` | with `~LoginTwice`: `ExchangeSpec => []SessionsAreConnected` |
| | `OpenOrdersStayTracked` | with `~LoginTwice`, `~ReuseUnclosed`: `ExchangeSpec => []OpenOrdersTracked` |
| | `TrackedOrdersStayOpen` | with the same: `ExchangeSpec => []TrackedOrdersOpen` |
| | `EndedOrdersAreCancelled` | with the same: `ExchangeSpec => []EndedOrdersCancelled` |
| `MarketDataProofs` | `DataConsistent` | `FeedSpec => []DataInv` |
| | `FeedTypeCorrect` | `FeedSpec => []FeedTypeOK` |
| | `SnapshotsAreCurrent` | `FeedSpec => []SnapshotIsCurrent` |
| | `BooksNeverGoBack` | `FeedSpec => NeverBack`, an action property |
| | `BooksRecovered` | with `~LoseSnapshots`: `FeedSpec => []RecoveredBook` |
| `StreamServerProofs` | `EdgeInvariant` | `ServerSpec => []EdgeInv` |
| | `ServerTypesHold` | `ServerSpec => []ServerTypeOK` |
| | `EdgesAreKept` | `ServerSpec => []NoEdgeLost` |
| | `MessagesAreFramed` | `ServerSpec => []FramedExactly` |
| | `ServerInvariant` | `ServerSpec => []ServerInv` |
| | `RatesAreBounded` | `ServerSpec => []RateBounded` |
| | `LimitsAreItsOwn` | `ServerSpec => LimitedForItsOwn`, an action property |
| `PositionLedgerProofs` | `ServiceInvariant` | `ServiceSpec => []ServiceInv` |
| | `ServiceTypes` | `ServiceSpec => []ServiceTypeOK` |
| | `CppFollows` | `ServiceSpec => []CppFollowsFeed`, for any even width of the word |
| | `PyCounts` | `ServiceSpec => []PyCountsArrivals` |
| | `LedgerBalances` | `ServiceSpec => []AdjustmentsBalance` |
| | `LedgerNeverOverspends` | `ServiceSpec => []NothingSpentTwice`, for any number of threads |
| `MarketMakerProofs` | `MakerInvariant` | `MakerSpec => []MakerInv` |
| | `MakerTypesHold` | `MakerSpec => []MakerTypeOK` |
| | `PositionIsRight` | `MakerSpec => []PositionIsNetFills` |
| | `NothingIsOrphaned` | `MakerSpec => []NoOrphans` |
| | `PricesAlwaysAgree` | `MakerSpec => []PricesAgree` |
| | `StackNeverCrosses` | `MakerSpec => []StackUncrossed` |

**Assumptions.** Each module names its own: `LadderAssumption` (the null pointer is no
order, prices are integers, quantities positive), `PriceAssumption` (a non-empty set of
prices has a highest and a lowest element, which holds because prices are a finite range of
`int32_t`), `EngineAssumption`, `HandlerAssumption`, `MarketDataAssumption` (at least one
symbol, none written twice, order ids that are not used again), `ServerAssumption` (at least
as many descriptors as connections, among them), `ClearingAssumption`, `LedgerAssumption` and
`MarketMakerAssumption`, which give the constants their types. Four theorems or groups of them
need more, and say so in their statement, because the code
breaks the property without it (section 4): `KeysDiffer`, that the ids in use differ in the
bits the owner map keeps; `~LoginTwice`, that a socket does not log in as a second client;
`~ReuseUnclosed`, that an order id is used again only after its close was processed;
`~LoseSnapshots`, that no datagram of a snapshot is lost (live packets may be). The
cfg files of the passing runs choose values that satisfy them.

**Order ladder.** `IInv` is the conjunction of `TypeOK`, `WellLinked`, `RestingIsOpen`,
`Uncrossed` and `NeverThrows`. None of them but the type invariant can do without the
others. `Uncrossed` needs `WellLinked`: an order rests when `match()` finds no marketable
level, and that says nothing of the orders unless a level with orders has a head.
`NeverThrows` needs `WellLinked` as well: an order that rests has its level in the map and
the level has a tail. `WellLinked` is the large part. Its piece `ListedByArrival`, with the history variable
`ahead`, is what makes it inductive: pointers that are locally inverse to each other could
still form a cycle beside the list, and `ahead` excludes that without an induction along
the list. The lemmas follow the operators: `Unlink` keeps the lists, `Link` keeps them,
a match keeps them, and changes of quantity do not touch them; then there is a step per action.
The refinement needs no more than `IInv`: the head of a level is the order that nobody is
ahead of, and the level `match()` looks at has the best price.

**Broker.** `EngineImplementsLadder` reduces the ladder to what is proved already: a step of
the broker is a step of `OrderLadder` or leaves the ladder alone, because the ids on
`from_client` are entered once and changed only afterwards (`QueueInv`). `EngineInv` adds
to `IInv` what the broker knows in the middle of a packet: the request the ladder works on is the front
of the queue (`RequestInv`), the callbacks left to run are the end of one of the few
sequences that the ladder makes (`CallsInv`), and an order is closed, or a callback that
will close it is still to run, exactly if it neither rests nor trades (`ClosedInv`).
`ClosedIsGone` is what is left of that between packets. `ClearingBalances` holds between
packets too; `BalanceInv` makes it inductive by counting what is traded and not cleared yet
(`Owed`). The contract is proved step by step under the mapping `phaseOfBroker`.

**The consumer's book.** `FeedInv` relates the consumer's book to the ladder in the middle of
a packet, when they differ. `BookInv`: its levels are the sums of its orders, and it has only
orders that were entered. `TradeInv`: a request trades once with an order and goes on only
after it has filled it, so that the trades that are not yet published are of different orders.
`ViewInv`: an order that the request does not concern is in the consumer's book with the
quantity of the ladder plus what was traded and is not published (`Mirrored`); for the order of
the request, what the callback left to run is about to announce (`Announced`). A packet ends
with its trades, one after the other; `ApplyTrades` is a recursive function, and what it does to
an order follows by counting (see below).

**Market data.** `DataInv` holds whatever is lost. Every message fits the orders before it
(`ExchangeOK`); what the service has listed is the exchange's orders after the messages it has
taken (`ServiceOK`); the packets buffered and in the socket are in order and a datagram is a
part of the exchange's book at its number (`LiveOK`, `SnapsOK`). `WaitOK` is what `NeverBack`
needs: nothing that a waiting client has still to read is older than the books it gave up, and
a snapshot counts only when it is newer than the first message buffered; so the books it makes
are newer too. `RecoveredBook` needs two parts more. `StreamOK`: the datagrams in the socket
are whole snapshots, but for the first one, of which the client has taken exactly the part that
is missing or skips all of it; this is what keeps the books of two symbols from being of two
numbers, and what fails with `LoseSnapshots`. `BooksOK`: the books hold the exchange's orders
at the number of the last message, with `order_to_symbol` naming the symbol of each (`Holds`).
Each loop of the code has lemmas for one turn and one for all turns (`TakesAll` for a
datagram, `PacketDone` and `BufferDone` for messages, `SnapshotBooks` for the orders of the
snapshot); the messages before the snapshot are skipped by their number, and each later one
fits the books, so that it is addressed to an order the client knows.

**Server and parser.** `EdgeInv` is `NoEdgeLost` by descriptor with what it needs: a connection
is open at one descriptor, waits or has ended (`SocketInv`), and a batch has one event of a
descriptor (`BatchInv`). `FrameInv` says where the units of a stream are: those of the handled
messages, then the partial message kept by descriptor, then the receive buffer, with nothing
missing between them (`Streamed`); the lemmas about `Parsed` show that it takes whole messages
from the front and leaves the rest. `RateInv` says that the times kept by descriptor are those
of the last messages of the connection that has it now, and that the ones dropped are older
than a second (`TimesKept`); that a partial message is never a whole one bounds what one read
can bring.

**Session layer.** The threads share the queues only, and what the session layer knows of
the broker is late. The invariant follows an order through one pipe, `from_client` and
behind it the `outbox` of the running handler: an order is entered once, its cancel comes
after it (`PipeOK`), and as long as it can trade it is in both order maps under the session
it was entered on, or its cancel is in the pipe (`OrdersOK`, with `Alive`, `Deleting` and
`Mine`). `ClosedOK` says that what was reported closed stays closed, `MapsOK` that the two
order maps are inverse to each other and lag behind the broker by the reports on `to_client`.
`SessionsAreConnected` rests on `SessionsOpen`: only the socket that is being read may be
closed and still have a session.

**Clearing and the ledger.** The accounts of a consumer are sums over the datagrams that
have arrived, for the C++ one up to multiples of the word (`CppOK`, `PyOK`). For the ledger,
`HandlersOK` says that a handler has the lock and what the positions it has checked so far
had at least at that time, and `PeakOK` that the history variable `peak` bounds every
position; so what a request spends was there once, although fills come in between.

**Market makers.** Two parties keep lists of the same orders with messages between them.
`KnownOK`: the client knows an order from before it is sent until after the last report
about it, a close follows every fill of its order, and an id on its way to the exchange is
neither open there nor reported on; so no fill is ever of an unknown order. `OrphanOK`: an
order that is on its way is listed or a cancel follows it - the strengthening of
`NoOrphans` to orders that are not open yet. `PriceOK`: the last request about a listed order
has the price at which it is listed, and none is a cancel. `FreshOK`: an id that was not used
is nowhere. A turn of either bot is described by what it does to one side (`Answers`), so that
the proof that a turn keeps the invariant is done once for both.

**Sums.** A sum is a fold, and what a fold computes is proved without induction over
data: among the subsets of a finite set for which a statement fails there is a smallest one
(`SmallestSubset`), and taking an element out of that gives a contradiction. `SumProofs`
derives in this way that an element may be taken out of a sum anywhere, that equal summands
give equal sums, and that indices may be shifted. In the same way `CountUp` says that what
holds of 0 and passes from a number to the next holds up to any number. Loops of the code
(`Parsed`, `Kept`, `ApplyTrades`, `TakeAll`, `PacketProcessed`) are functions that are recursive in the number of turns, so
that their results can be proved turn by turn.

**Only model-checked.** Liveness (`HandlersReturn`, `CancelledOnDisconnect` and the fairness of
the server), which the prover cannot treat. Every invariant and action property of a passing
run is a theorem as well.

## 6. Not modelled

- **Send errors of the publishers, packets split at 1460 bytes, wrapping sequence
  numbers, reordered packets**; a snapshot service that misses packets itself (it logs the
  gap and goes on); that a client eventually recovers.
- **Several symbols** in the broker: ladders are independent, and a request names one.
- **`client_seq` and session sequence numbers**; passwords, beyond valid or not.
- **Start-up errors and a full descriptor table** of the server: its system calls other than
  `read`, `write` and `accept` succeed. A connection that is reset while it waits for
  `accept` is accepted. In `ClientHandler` a stream the parser refuses is `PeerGone`.
- **A third connection** in `stream_server`: with three, a duplicate login may close a
  descriptor whose event is still in the batch and which an `accept` of the same batch
  hands out again. The actions model this; the instance is too small to reach it.
- **Clearing heartbeats**: nothing calls `publish_heartbeat`. **Malformed datagrams**: the
  exchange sends none.
- **Reads of the ledger** for the dashboard, which take positions and adjustments at
  different times; the mark-to-market P&L; the ETF service's market data client.
- **Partial reads and writes of `OEClient`**, several symbols or bots on one session, the
  takers and the random walk: they send orders and keep nothing that depends on the answers.
- **Lot and tick arithmetic** of the validator: a request is accepted or not, and the
  ladder is given prices and quantities that pass.
- **Memory**: `OrderPool` hands out distinct orders; a deallocated one is not looked at
  again (`match()` reads `next` before it deletes).
- **Viewers, web application, scripts, logging, start-up**: presentation and process
  control.
