----------------------------- MODULE MarketData -----------------------------
(***************************************************************************)
(* The numbered market data feed (matching_engine/md_mcast.cpp), the       *)
(* snapshot service (market_data/snapshot_client.cpp, snapshot_writer.cpp) *)
(* and one client that joins late or loses packets and recovers from a     *)
(* snapshot (MDClient, bots/md_client.cpp).                                *)
(*                                                                         *)
(* A message is known by its sequence number; a packet is the sequence of  *)
(* the numbers in it.  Packets and snapshot datagrams wait in the client's *)
(* sockets in the order sent; each may be lost on the way.  The snapshot   *)
(* service loses none and is any number of messages behind.  Prices are    *)
(* left out: there is one.                                                 *)
(***************************************************************************)
EXTENDS Integers, Sequences, FiniteSets

CONSTANTS
    SymbolRow,          \* the symbols, in the order in which their snapshots are written
    OrdersPerDatagram,  \* how many orders of a snapshot fit into a datagram
    LoseSnapshots,      \* may snapshot datagrams be lost?
    MaxDrops,           \* bound: live packets lost
    Scenarios           \* what to look at: the client's parameter recover_on_drops, the
                        \* orders entered and their largest quantity, and the bounds on
                        \* the messages published and the snapshots written

Side == {"BUY", "SELL"}
Symbols == {SymbolRow[i] : i \in DOMAIN SymbolRow}

ASSUME MarketDataAssumption ==
    /\ SymbolRow \in Seq(Symbols) /\ Len(SymbolRow) > 0
    /\ \A i, j \in DOMAIN SymbolRow : SymbolRow[i] = SymbolRow[j] => i = j
    /\ \A sc \in Scenarios :
          /\ sc.recover_on_drops \in BOOLEAN
          /\ sc.MaxMessages \in Nat /\ sc.MaxSnapshots \in Nat /\ sc.MaxQuantity \in Nat
          /\ IsFiniteSet(sc.NewOrders)
          /\ \A o \in sc.NewOrders :
                o.symbol \in Symbols /\ o.side \in Side /\ o.quantity \in 1..sc.MaxQuantity
          /\ \A o, p \in sc.NewOrders : o.id = p.id => o = p
    /\ OrdersPerDatagram \in Nat \ {0} /\ MaxDrops \in Nat
    /\ LoseSnapshots \in BOOLEAN

VARIABLES
    scenario,       \* one of the scenarios
    feed,           \* the messages published: feed[n + 1] has sequence number n
    truth,          \* history: truth[n + 1] are the exchange's orders after message n
    drops,          \* live packets lost
    heard,          \* the service: how many messages it has taken
    listed,         \* the service: per side its orders, symbol_to_bids and symbol_to_asks
    written_seq,    \* the service: last_md_seq_num
    cycles,         \* snapshots written
    live, snaps,    \* the client's sockets
    mode,           \* the client is off, waiting for a snapshot, live or has run into
                    \* undefined behaviour
    nested,         \* wait_for_snapshot was called from its own last loop
    live_buffer, snapshot_buffer, snapshot_complete,
    awaited,        \* symbol_to_bid_orders and symbol_to_ask_orders, by symbol
    last_snapshot_seq_num,
    last_md_seq_num,
    symbol_to_order_book,
    order_to_symbol

exchange == <<feed, truth>>
service == <<heard, listed, written_seq, cycles>>
recovery == <<live_buffer, snapshot_buffer, snapshot_complete, awaited, last_snapshot_seq_num>>
books == <<last_md_seq_num, symbol_to_order_book, order_to_symbol>>
client == <<mode, nested, recovery, books>>
feedVars == <<scenario, exchange, drops, service, live, snaps, client>>

Quantities == 1..scenario.MaxQuantity
NewOrders == scenario.NewOrders
recover_on_drops == scenario.recover_on_drops

Seqs == INSTANCE SequencesExt
Funs == INSTANCE Functions
Sets == INSTANCE FiniteSetsExt
Book == INSTANCE OrderBook WITH Prices <- {1}

Nothing == <<>>     \* the function without arguments: an empty map

With(f, x, y) == [z \in DOMAIN f \cup {x} |-> IF z = x THEN y ELSE f[z]]
Without(f, x) == Funs!Restrict(f, DOMAIN f \ {x})

-----------------------------------------------------------------------------
(* The exchange: what its publisher sends, one packet at a time. *)

Orders == IF truth = <<>> THEN Nothing ELSE truth[Len(truth)]

\* What a message says of the exchange's orders.
After(orders, m) ==
    CASE m.type = "NEW_ORDER" ->
            With(orders, m.id, [symbol |-> m.symbol, side |-> m.side, quantity |-> m.quantity])
      [] m.type = "MODIFY_ORDER" ->
            [orders EXCEPT ![m.id].side = m.side, ![m.id].quantity = m.quantity]
      [] m.type = "DELETE_ORDER" -> Without(orders, m.id)
      [] m.type = "TRADE" ->
            IF m.quantity = orders[m.id].quantity THEN Without(orders, m.id)
            ELSE [orders EXCEPT ![m.id].quantity = @ - m.quantity]
      [] m.type \in {"TRADE_SUMMARY", "HEARTBEAT"} -> orders

\* The exchange's orders after each of the messages of a packet.
OrdersAfter(messages) ==
    LET after[i \in 0..Len(messages)] ==
            IF i = 0 THEN Orders ELSE After(after[i - 1], messages[i])
    IN  [i \in 1..Len(messages) |-> after[i]]

\* Mutant: the first message has number 1.
NumberedFromOne(messages) == [i \in DOMAIN messages |-> Len(feed) + i]

\* write_msg: the messages of a packet get the next numbers, from 0 on.
Numbered(messages) == [i \in DOMAIN messages |-> Len(feed) + i - 1]

\* The messages become one packet, which sends: the client's socket gets all of it or nothing.
Publish(messages) ==
    /\ Len(feed) + Len(messages) <= scenario.MaxMessages
    /\ feed' = feed \o messages
    /\ truth' = truth \o OrdersAfter(messages)
    /\ \/ live' = (IF mode = "off" THEN live ELSE Append(live, Numbered(messages))) /\ UNCHANGED drops
       \/ mode # "off" /\ drops < MaxDrops /\ drops' = drops + 1 /\ UNCHANGED live
    /\ UNCHANGED <<service, snaps, client>>

PublishNewOrder(o) ==
    /\ \A i \in DOMAIN feed : feed[i].type = "NEW_ORDER" => feed[i].id # o.id
    /\ Publish(<<[type |-> "NEW_ORDER", id |-> o.id, symbol |-> o.symbol, side |-> o.side,
                  quantity |-> o.quantity]>>)

PublishDeleteOrder(id) == Publish(<<[type |-> "DELETE_ORDER", id |-> id]>>)

\* Only modifications that change the order.
PublishModifyOrder(id, side, quantity) ==
    /\ side # Orders[id].side \/ quantity # Orders[id].quantity
    /\ Publish(<<[type |-> "MODIFY_ORDER", id |-> id, side |-> side, quantity |-> quantity]>>)

\* The trades of one request, after their summary; all but the last fill their order.
PublishQueuedTrades(ids, quantity) ==
    /\ \A i, j \in DOMAIN ids : /\ Orders[ids[i]].symbol = Orders[ids[j]].symbol
                                 /\ Orders[ids[i]].side = Orders[ids[j]].side
    /\ quantity <= Orders[ids[Len(ids)]].quantity
    /\ Publish(<<[type |-> "TRADE_SUMMARY", symbol |-> Orders[ids[1]].symbol]>> \o
               [i \in DOMAIN ids |->
                  [type |-> "TRADE", id |-> ids[i],
                   quantity |-> IF i = Len(ids) THEN quantity ELSE Orders[ids[i]].quantity]])

PublishHeartbeat == Publish(<<[type |-> "HEARTBEAT"]>>)

-----------------------------------------------------------------------------
(* The snapshot service. *)

Listing(l, id) == {side \in Side : id \in DOMAIN l[side]}

ListedAfterTrade(l, m) ==
    [side \in Side |->
        IF side \notin Listing(l, m.id) \/ l[side][m.id].quantity < m.quantity THEN l[side]
        ELSE IF l[side][m.id].quantity = m.quantity THEN Without(l[side], m.id)
        ELSE [l[side] EXCEPT ![m.id].quantity = @ - m.quantity]]

\* An order that changes side moves to the other list.
ListedAfterModify(l, m) ==
    IF Listing(l, m.id) = {} THEN l
    ELSE LET old == CHOOSE side \in Listing(l, m.id) : TRUE
             order == [l[old][m.id] EXCEPT !.quantity = m.quantity]
         IN  [side \in Side |-> IF side = m.side THEN With(l[side], m.id, order)
                                ELSE Without(l[side], m.id)]

ListedAfter(l, m) ==
    CASE m.type = "NEW_ORDER" ->
            [l EXCEPT ![m.side] = With(@, m.id, [symbol |-> m.symbol, quantity |-> m.quantity])]
      [] m.type = "DELETE_ORDER" -> [side \in Side |-> Without(l[side], m.id)]
      [] m.type = "MODIFY_ORDER" -> ListedAfterModify(l, m)
      [] m.type = "TRADE" -> ListedAfterTrade(l, m)
      [] m.type = "HEARTBEAT" -> l

\* Mutant: trades do not move the number forward.
TakenStale(s, n) ==
    LET m == feed[n + 1] IN
    IF m.type = "TRADE_SUMMARY" THEN s
    ELSE [orders |-> ListedAfter(s.orders, m), seq |-> IF m.type = "TRADE" THEN s.seq ELSE n]

\* Message n passes the queue from SnapshotClient to SnapshotWriter, which applies it;
\* trade summaries are not put on the queue.
Taken(s, n) ==
    IF feed[n + 1].type = "TRADE_SUMMARY" THEN s
    ELSE [orders |-> ListedAfter(s.orders, feed[n + 1]), seq |-> n]

\* The service's state when it has taken the first n messages.
CaughtUp(n) ==
    LET caught[k \in 0..(n - heard)] ==
            IF k = 0 THEN [orders |-> listed, seq |-> written_seq]
            ELSE Taken(caught[k - 1], heard + k - 1)
    IN  caught[n - heard]

\* The orders of a symbol, bids first, in every order in which they can be written.
Rows(s, symbol) ==
    LET Of(side) == {id \in DOMAIN s.orders[side] : s.orders[side][id].symbol = symbol}
        Entries(side) == {[id |-> id, symbol |-> symbol, side |-> side,
                           quantity |-> s.orders[side][id].quantity] : id \in Of(side)}
    IN  {both[1] \o both[2] : both \in Seqs!SetToSeqs(Entries("BUY")) \X Seqs!SetToSeqs(Entries("SELL"))}

\* The datagrams of a symbol: its orders, in row, fill as many as they need.  A datagram is
\* the row and how many orders of it are in the ones before; the first one has the counts
\* and the sequence number as well.
DatagramCount(row) == Sets!Min({c \in 1..(Len(row) + 1) : c * OrdersPerDatagram >= Len(row)})
Datagrams(seq, symbol, row) ==
    [i \in 1..DatagramCount(row) |->
        [symbol |-> symbol, seq |-> seq, row |-> row, from |-> (i - 1) * OrdersPerDatagram]]

\* All symbols, one after the other.
Cycle(seq, rows) ==
    LET upto[i \in 0..Len(SymbolRow)] ==
            IF i = 0 THEN <<>>
            ELSE upto[i - 1] \o Datagrams(seq, SymbolRow[i], rows[SymbolRow[i]])
    IN  upto[Len(SymbolRow)]

\* SnapshotWriter::process: it takes what is on the queue, up to message n, and every
\* 500 ms writes all symbols, always in the same order; within a side the orders are
\* sorted by price.  A call that writes nothing only takes messages, as the next one may.
WriteSnapshot(n) ==
    LET s == CaughtUp(n) IN
    /\ cycles < scenario.MaxSnapshots
    /\ cycles' = cycles + 1
    /\ mode = "waiting" \/ (mode = "live" /\ recover_on_drops)
    /\ heard' = n /\ listed' = s.orders /\ written_seq' = s.seq
    /\ \E rows \in [Symbols -> UNION {Rows(s, symbol) : symbol \in Symbols}] :
          LET cycle == Cycle(s.seq, rows) IN
          /\ \A symbol \in Symbols : rows[symbol] \in Rows(s, symbol)
          /\ \/ snaps' = snaps \o cycle
             \/ LoseSnapshots /\ \E i \in DOMAIN cycle : snaps' = snaps \o Seqs!RemoveAt(cycle, i)
    /\ UNCHANGED <<exchange, drops, live, client>>

-----------------------------------------------------------------------------
(* The client: process_message, on the state of its books and the number of the last
   message. *)

BookState == [seq |-> last_md_seq_num, books |-> symbol_to_order_book,
              symbols |-> order_to_symbol, status |-> "reading"]

\* The message is about a symbol or an order that the client has a book for.
Addressed(st, m) ==
    CASE m.type \in {"NEW_ORDER", "HEARTBEAT"} -> TRUE
      [] m.type = "TRADE_SUMMARY" -> m.symbol \in DOMAIN st.books
      [] m.type \in {"DELETE_ORDER", "MODIFY_ORDER", "TRADE"} ->
            m.id \in DOMAIN st.symbols /\ st.symbols[m.id] \in DOMAIN st.books

\* The message is counted; looking up the symbol of an unknown order has added the order
\* to order_to_symbol, with symbol 0.
Returned(st, n) ==
    LET m == feed[n + 1]
        unknown == m.type \in {"DELETE_ORDER", "MODIFY_ORDER"} /\ m.id \notin DOMAIN st.symbols
    IN  [st EXCEPT !.seq = n, !.status = "returned",
                   !.symbols = IF unknown THEN With(@, m.id, 0) ELSE @]

WithOrder(st, o) ==
    LET book == IF o.symbol \in DOMAIN st.books THEN st.books[o.symbol] ELSE Book!Empty
    IN  [st EXCEPT !.books = With(@, o.symbol, Book!new_order(book, o.id, o.side, o.quantity, 1)),
                   !.symbols = With(@, o.id, o.symbol)]

Applied(st, m) ==
    CASE m.type = "NEW_ORDER" -> WithOrder(st, m)
      [] m.type = "DELETE_ORDER" ->
            [st EXCEPT !.books[st.symbols[m.id]] = Book!delete_order(@, m.id)]
      [] m.type = "MODIFY_ORDER" ->
            [st EXCEPT !.books[st.symbols[m.id]] = Book!modify_order(@, m.id, m.side, m.quantity, 1)]
      [] m.type = "TRADE" ->
            [st EXCEPT !.books[st.symbols[m.id]] = Book!order_trade(@, m.id, m.quantity)]
      [] m.type \in {"TRADE_SUMMARY", "HEARTBEAT"} -> st

\* A gap ends the loop, as does a message about something unknown; a message that was
\* applied before is skipped.
ProcessMessage(st, n) ==
    LET m == feed[n + 1] IN
    IF st.status # "reading" THEN st
    ELSE IF n > st.seq + 1 THEN [st EXCEPT !.status = "gap"]
    ELSE IF n <= st.seq THEN st
    ELSE IF ~Addressed(st, m) THEN Returned(st, n)
    ELSE [Applied(st, m) EXCEPT !.seq = n]

Become(st) ==
    /\ last_md_seq_num' = st.seq
    /\ symbol_to_order_book' = st.books
    /\ order_to_symbol' = st.symbols

\* The start of wait_for_snapshot.
NothingAwaited ==
    /\ awaited' = [symbol \in Symbols |-> [side \in Side |-> -1]]
    /\ snapshot_complete' = [symbol \in Symbols |-> FALSE]

\* Mutant: the number of the last message is forgotten as well.
RestartFromZero(seq) ==
    /\ mode' = "waiting"
    /\ last_md_seq_num' = 0
    /\ symbol_to_order_book' = Nothing /\ order_to_symbol' = Nothing
    /\ live_buffer' = <<>>
    /\ snapshot_buffer' = [symbol \in Symbols |-> <<>>]
    /\ last_snapshot_seq_num' = 0
    /\ NothingAwaited

\* A gap makes process_message forget everything and wait for a new snapshot.
Restart(seq) ==
    /\ mode' = "waiting"
    /\ last_md_seq_num' = seq
    /\ symbol_to_order_book' = Nothing /\ order_to_symbol' = Nothing
    /\ live_buffer' = <<>>
    /\ snapshot_buffer' = [symbol \in Symbols |-> <<>>]
    /\ last_snapshot_seq_num' = 0
    /\ NothingAwaited

-----------------------------------------------------------------------------
(* wait_for_snapshot. *)

\* Both sockets have joined their groups: datagrams sent from now on arrive.
Start ==
    /\ mode = "off"
    /\ mode' = "waiting"
    /\ NothingAwaited
    /\ UNCHANGED <<exchange, drops, service, live, snaps, nested,
                   live_buffer, snapshot_buffer, last_snapshot_seq_num, books>>

\* One order of a snapshot.
TakeOrder(w, o) ==
    LET missing == [w.awaited EXCEPT ![o.symbol][o.side] = @ - 1]
    IN  [w EXCEPT !.awaited = missing,
                  !.buffer[o.symbol] = Append(@, o),
                  !.complete[o.symbol] = @ \/ \A side \in Side : missing[o.symbol][side] = 0]

\* How many orders of the row, after the first k, are on a side.
CountAfter(row, k, side) == Cardinality({i \in (k + 1)..Len(row) : row[i].side = side})

\* The counts of a symbol: its snapshot starts anew.
TakeInfo(w, d) ==
    [w EXCEPT !.seq = d.seq,
              !.awaited[d.symbol] = [side \in Side |-> CountAfter(d.row, 0, side)],
              !.buffer[d.symbol] = <<>>,
              !.complete[d.symbol] = @ \/ \A side \in Side : CountAfter(d.row, 0, side) = 0]

HasInfo(d) == d.from = 0
InDatagram(d) ==
    IF d.from + OrdersPerDatagram < Len(d.row) THEN OrdersPerDatagram ELSE Len(d.row) - d.from

\* What a datagram holds, one after the other.
TakeAll(w, d) ==
    LET taken[k \in 0..InDatagram(d)] ==
            IF k = 0 THEN IF HasInfo(d) THEN TakeInfo(w, d) ELSE w
            ELSE TakeOrder(taken[k - 1], d.row[d.from + k])
    IN  taken[InDatagram(d)]

\* Mutant: snapshots older than the buffered messages are taken.
TakeDatagramStale(w, d, first) == TakeAll(w, d)

\* A snapshot that is not newer than the first message buffered is skipped.
TakeDatagram(w, d, first) == IF HasInfo(d) /\ d.seq <= first THEN w ELSE TakeAll(w, d)

AllComplete == \A symbol \in Symbols : snapshot_complete[symbol]

\* A snapshot datagram is only looked for when a live packet was there.
ReceiveWhileWaiting ==
    /\ mode = "waiting" /\ ~AllComplete
    /\ live # <<>>
    /\ live_buffer' = live_buffer \o Head(live)
    /\ live' = Tail(live)
    /\ IF snaps = <<>> THEN
            UNCHANGED <<snaps, snapshot_buffer, snapshot_complete, awaited, last_snapshot_seq_num>>
       ELSE LET w == TakeDatagram([seq |-> last_snapshot_seq_num, awaited |-> awaited,
                                   buffer |-> snapshot_buffer, complete |-> snapshot_complete],
                                  Head(snaps), live_buffer'[1])
            IN  /\ snaps' = Tail(snaps)
                /\ last_snapshot_seq_num' = w.seq
                /\ awaited' = w.awaited
                /\ snapshot_buffer' = w.buffer
                /\ snapshot_complete' = w.complete
    /\ UNCHANGED <<exchange, drops, service, mode, nested, books>>

\* The orders of a symbol's snapshot are put into the books.
WithBuffer(st, buffer) ==
    LET put[k \in 0..Len(buffer)] == IF k = 0 THEN st ELSE WithOrder(put[k - 1], buffer[k])
    IN  put[Len(buffer)]

\* The books of the snapshots.
SnapshotState ==
    LET put[i \in 0..Len(SymbolRow)] ==
            IF i = 0 THEN [BookState EXCEPT !.seq = last_snapshot_seq_num]
            ELSE WithBuffer(put[i - 1], snapshot_buffer[SymbolRow[i]])
    IN  put[Len(SymbolRow)]

\* The last loop removes the messages that the snapshot has, and calls process_message again
\* after each one it removes, so only a gap stops it.
ProcessBuffered(st, n) ==
    IF n <= last_snapshot_seq_num \/ st.status = "gap" THEN st
    ELSE ProcessMessage([st EXCEPT !.status = "reading"], n)

BufferProcessed ==
    LET done[k \in 0..Len(live_buffer)] ==
            IF k = 0 THEN SnapshotState ELSE ProcessBuffered(done[k - 1], live_buffer[k])
    IN  done[Len(live_buffer)]

\* The buffered messages after the snapshot are applied.  A gap among them restarts the
\* wait from within this loop; when that inner wait is over the loop removes a message
\* from a buffer that is empty.
FinishWaiting ==
    LET st == BufferProcessed IN
    /\ mode = "waiting" /\ AllComplete
    /\ IF st.status = "gap" /\ recover_on_drops
       THEN Restart(st.seq) /\ nested' = TRUE /\ UNCHANGED snaps
       ELSE /\ mode' = IF nested THEN "undefined" ELSE "live"
            /\ Become(st)
            /\ live_buffer' = <<>>
            /\ snaps' = IF recover_on_drops THEN snaps ELSE <<>>
            /\ UNCHANGED <<nested, snapshot_buffer, snapshot_complete, awaited,
                           last_snapshot_seq_num>>
    /\ UNCHANGED <<exchange, drops, service, live>>

\* process_message on a whole packet.
PacketProcessed(packet) ==
    LET done[k \in 0..Len(packet)] ==
            IF k = 0 THEN BookState ELSE ProcessMessage(done[k - 1], packet[k])
    IN  done[Len(packet)]

\* process(): one live packet.
Process ==
    LET st == PacketProcessed(Head(live)) IN
    /\ mode = "live"
    /\ live # <<>>
    /\ live' = Tail(live)
    /\ IF st.status = "gap" /\ recover_on_drops THEN Restart(st.seq)
       ELSE Become(st) /\ UNCHANGED <<mode, recovery>>
    /\ UNCHANGED <<exchange, drops, service, snaps, nested>>

-----------------------------------------------------------------------------
FeedInit ==
    /\ scenario \in Scenarios
    /\ feed = <<>> /\ truth = <<>> /\ drops = 0
    /\ heard = 0 /\ listed = [side \in Side |-> Nothing] /\ written_seq = 0 /\ cycles = 0
    /\ live = <<>> /\ snaps = <<>>
    /\ mode = "off" /\ nested = FALSE
    /\ live_buffer = <<>>
    /\ snapshot_buffer = [symbol \in Symbols |-> <<>>]
    /\ snapshot_complete = [symbol \in Symbols |-> FALSE]
    /\ awaited = [symbol \in Symbols |-> [side \in Side |-> -1]]
    /\ last_snapshot_seq_num = 0 /\ last_md_seq_num = 0
    /\ symbol_to_order_book = Nothing /\ order_to_symbol = Nothing

FeedStep ==
    \/ \E o \in NewOrders : PublishNewOrder(o)
    \/ \E id \in DOMAIN Orders : PublishDeleteOrder(id)
    \/ \E id \in DOMAIN Orders, side \in Side, quantity \in Quantities :
          PublishModifyOrder(id, side, quantity)
    \/ \E S \in (SUBSET DOMAIN Orders) \ {{}} : \E ids \in Seqs!SetToSeqs(S), quantity \in Quantities :
          PublishQueuedTrades(ids, quantity)
    \/ PublishHeartbeat
    \/ \E n \in heard..Len(feed) : WriteSnapshot(n)
    \/ Start \/ ReceiveWhileWaiting \/ FinishWaiting \/ Process

FeedNext == FeedStep /\ UNCHANGED scenario

FeedSpec == FeedInit /\ [][FeedNext]_feedVars

-----------------------------------------------------------------------------
(* The properties. *)

Numbers == 0..(Len(feed) - 1)

\* Every variable stays within its type: packets hold numbers of messages that were
\* published (write_msg), books are those of known symbols.
FeedTypeOK ==
    /\ Len(truth) = Len(feed) /\ heard \in 0..Len(feed)
    /\ \A i \in DOMAIN live : live[i] \in Seq(Numbers)
    /\ live_buffer \in Seq(Numbers)
    /\ mode \in {"off", "waiting", "live", "undefined"}
    /\ nested \in BOOLEAN
    /\ DOMAIN symbol_to_order_book \subseteq Symbols
    /\ order_to_symbol \in [DOMAIN order_to_symbol -> Symbols \cup {0}]
    /\ \A side \in Side, symbol \in Symbols : awaited[symbol][side] \in Int

\* The exchange's orders of a symbol after message n, as a client's book has them.
OrdersAt(n, symbol) ==
    LET ids == {id \in DOMAIN truth[n + 1] : truth[n + 1][id].symbol = symbol}
    IN  [id \in ids |-> [side |-> truth[n + 1][id].side, price |-> 1,
                         quantity |-> truth[n + 1][id].quantity]]
OrdersSeen(symbol) ==
    IF symbol \in DOMAIN symbol_to_order_book THEN symbol_to_order_book[symbol].orders ELSE Nothing

\* A live client has, for every symbol, the exchange's orders as of the last message it
\* counts as applied (process_message, wait_for_snapshot): whichever live packet was lost,
\* whenever the client joined and wherever in the feed its snapshot was taken, nothing is
\* applied twice and nothing is left out.
RecoveredBook ==
    mode = "live" => \A symbol \in Symbols : OrdersSeen(symbol) = OrdersAt(last_md_seq_num, symbol)

\* What SnapshotWriter::process has listed is the exchange's book at the number that it
\* writes with it, also when it stops between the messages of one packet.
SnapshotIsCurrent ==
    written_seq > 0 =>
        LET orders == truth[written_seq + 1] IN
        \A side \in Side :
            listed[side] = [id \in {x \in DOMAIN orders : orders[x].side = side} |->
                              [symbol |-> orders[id].symbol, quantity |-> orders[id].quantity]]

\* A client's book never goes back in time, in particular not with a snapshot that has been
\* in the socket since before the gap that wait_for_snapshot recovers from.
NeverBack == [][last_md_seq_num' >= last_md_seq_num]_feedVars

\* A packet lost while the client waits for a snapshot is recovered from like any other:
\* wait_for_snapshot starts anew and ends without undefined behaviour.
WaitRecovers == mode # "undefined"
=============================================================================
