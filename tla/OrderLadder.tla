---------------------------- MODULE OrderLadder ----------------------------
(***************************************************************************)
(* One symbol's limit order book: the OrderLadder template of              *)
(* matching_engine/order_ladder.H.                                         *)
(*                                                                         *)
(* The book keeps a hash map of resting orders and, per side, a sorted map *)
(* of price levels; a level is a doubly linked list of orders with a head  *)
(* and a tail pointer.  The pointers are modelled as they are: `next' and  *)
(* `prev' are fields of the order, `head' and `tail' of the level.         *)
(*                                                                         *)
(* A request (new_order, modify_order, delete_order) is several steps: it  *)
(* begins, takes one step per resting order that match() consumes, and     *)
(* finishes.  The callbacks a step makes on the subscriber are left in     *)
(* `calls', in order; they are synchronous, so no ladder step is taken     *)
(* before the subscriber has run all of them.                              *)
(***************************************************************************)
EXTENDS Integers, Sequences

CONSTANTS
    Ids,            \* exchange order ids
    NoOrder,        \* the null pointer
    Prices,         \* the prices the validator lets through
    MaxQuantity     \* max_lot_size: the largest quantity it lets through

ASSUME LadderAssumption ==
    /\ NoOrder \notin Ids
    /\ Prices \subseteq Int
    /\ MaxQuantity \in Nat \ {0}

\* Prices are a finite range, so some price of every set of prices is the highest and
\* some is the lowest: a non-empty level map has a first key in either sort order.
ASSUME PriceAssumption ==
    \A S \in SUBSET Prices :
        S # {} => /\ \E p \in S : \A q \in S : p >= q
                  /\ \E p \in S : \A q \in S : p <= q

VARIABLES
    orders,     \* the map order_id -> Order, a function on the resting ids
    levels,     \* buy_levels and sell_levels; a level absent from its map is EmptyLevel
    cur,        \* the request in progress, NoRequest between requests
    calls,      \* callbacks made on the subscriber and not yet run
    failed,     \* an exception has left the ladder
    used,       \* history: ids that new_order was ever called with
    ahead       \* history: ahead[id] are the orders that rested at id's level before id

vars == <<orders, levels, cur, calls, failed, used, ahead>>

-----------------------------------------------------------------------------
Side == {"BUY", "SELL"}
Flags == {"NONE", "IOC"}
FillFlags == {"PARTIAL_FILL", "CLOSED"}
Quantities == 1..MaxQuantity

Opposite(side) == IF side = "BUY" THEN "SELL" ELSE "BUY"

\* The sort order of buy_levels (std::greater) and sell_levels (std::less).
AtLeastAsGood(side, p, q) == IF side = "BUY" THEN p >= q ELSE p <= q

\* Mutant: an order does not trade at its own limit.
MarketableInside(side, price, p) == IF side = "BUY" THEN p < price ELSE p > price

\* An incoming order of this side and price trades with a level at price p.
Marketable(side, price, p) == IF side = "BUY" THEN p <= price ELSE p >= price

Pointer == Ids \cup {NoOrder}
Order == [side: Side, price: Prices, quantity: Nat, filled_quantity: Nat,
          flags: Flags, next: Pointer, prev: Pointer]
Level == [head: Pointer, tail: Pointer]
EmptyLevel == [head |-> NoOrder, tail |-> NoOrder]

Request == [op: {"NEW", "MODIFY"}, id: Ids, side: Side, quantity: Nat,
            price: Prices, flags: Flags, prematch: Nat]
NoRequest == [op |-> "IDLE"]

\* The callbacks of the Subscriber.
OnNewOrder(id, side, quantity, price, flags) ==
    [fn |-> "onNewOrder", id |-> id, side |-> side, quantity |-> quantity,
     price |-> price, flags |-> flags]
OnModifyOrder(id, side, quantity, price) ==
    [fn |-> "onModifyOrder", id |-> id, side |-> side, quantity |-> quantity,
     price |-> price]
OnDeleteOrder(id, publish) ==
    [fn |-> "onDeleteOrder", id |-> id, publish |-> publish]
OnCancelReject(id) == [fn |-> "onCancelReject", id |-> id]
OnTrade(id, quantity, price) ==
    [fn |-> "onTrade", id |-> id, quantity |-> quantity, price |-> price]
OnFill(id, side, quantity, price, flags, active) ==
    [fn |-> "onFill", id |-> id, side |-> side, quantity |-> quantity,
     price |-> price, flags |-> flags, active |-> active]

Callback ==
         [fn: {"onNewOrder"}, id: Ids, side: Side, quantity: Nat, price: Prices, flags: Flags]
    \cup [fn: {"onModifyOrder"}, id: Ids, side: Side, quantity: Nat, price: Prices]
    \cup [fn: {"onDeleteOrder"}, id: Ids, publish: BOOLEAN]
    \cup [fn: {"onCancelReject"}, id: Ids]
    \cup [fn: {"onTrade"}, id: Ids, quantity: Nat, price: Prices]
    \cup [fn: {"onFill"}, id: Ids, side: Side, quantity: Nat, price: Prices,
          flags: FillFlags, active: BOOLEAN]

-----------------------------------------------------------------------------
Resting == DOMAIN orders

\* The prices that are keys of a side's level map.
LevelPrices(side) == {p \in Prices : levels[side][p].head # NoOrder}

BestPrices(side) ==
    {p \in LevelPrices(side) : \A q \in LevelPrices(side) : AtLeastAsGood(side, p, q)}

\* The level match() turns to next, none when its loop is over.
MatchPrices ==
    {p \in BestPrices(Opposite(cur.side)) :
        cur.quantity > 0 /\ Marketable(cur.side, cur.price, p)}

\* The thread is in the ladder and the last step's callbacks have returned.
Ready == calls = <<>> /\ ~failed
Idle == Ready /\ cur = NoRequest
Matching == Ready /\ cur # NoRequest

-----------------------------------------------------------------------------
\* Mutant: the level keeps pointing at a removed tail.
LevelStaleTail(id) ==
    LET o == orders[id]
        level == levels[o.side][o.price]
        head == IF level.head = id THEN o.next ELSE level.head
    IN  IF head = NoOrder THEN EmptyLevel ELSE [head |-> head, tail |-> level.tail]

\* handle_delete_order followed by the caller's erasure of a level whose head is
\* null: id leaves its list and the hash map.
LevelWithout(id) ==
    LET o == orders[id]
        level == levels[o.side][o.price]
        head == IF level.head = id THEN o.next ELSE level.head
        tail == IF level.tail = id THEN o.prev ELSE level.tail
    IN  IF head = NoOrder THEN EmptyLevel ELSE [head |-> head, tail |-> tail]

\* Mutant: the order is unlinked but not erased from the hash map.
OrdersUnerased(id) ==
    LET o == orders[id] IN
    [x \in Resting |->
        [orders[x] EXCEPT !.next = IF x = o.prev THEN o.next ELSE @,
                          !.prev = IF x = o.next THEN o.prev ELSE @]]

OrdersWithout(id) ==
    LET o == orders[id] IN
    [x \in Resting \ {id} |->
        [orders[x] EXCEPT !.next = IF x = o.prev THEN o.next ELSE @,
                          !.prev = IF x = o.next THEN o.prev ELSE @]]

Unlink(id) ==
    /\ orders' = OrdersWithout(id)
    /\ levels' = [levels EXCEPT ![orders[id].side][orders[id].price] = LevelWithout(id)]
    /\ ahead' = [x \in Ids |-> IF x = id THEN {} ELSE ahead[x] \ {id}]

\* handle_delete_order throws when the order's level is not in the map.
Unlinkable(id) == levels[orders[id].side][orders[id].price].head # NoOrder

\* The tail of handle_new_order: the remainder of cur becomes the last order of
\* its level.
Link ==
    LET level == levels[cur.side][cur.price]
        order == [side |-> cur.side, price |-> cur.price, quantity |-> cur.quantity,
                  filled_quantity |-> cur.prematch - cur.quantity, flags |-> cur.flags,
                  next |-> NoOrder, prev |-> level.tail]
    IN  /\ orders' = [x \in Resting \cup {cur.id} |->
                        IF x = cur.id THEN order
                        ELSE [orders[x] EXCEPT !.next = IF x = level.tail THEN cur.id ELSE @]]
        /\ levels' = [levels EXCEPT ![cur.side][cur.price] =
                        [head |-> IF level.head = NoOrder THEN cur.id ELSE level.head,
                         tail |-> cur.id]]
        /\ ahead' = [ahead EXCEPT ![cur.id] =
                        {x \in Resting : orders[x].side = cur.side /\ orders[x].price = cur.price}]

\* handle_new_order throws when the id already rests or a level has no tail.
Linkable ==
    /\ cur.id \notin Resting
    /\ levels[cur.side][cur.price].head # NoOrder => levels[cur.side][cur.price].tail # NoOrder

\* A runtime_error leaves the ladder: nothing after it in the request happens.  The
\* thread that owns the ladder ends, so what the request had changed before is never
\* seen and is left out.
Throw == failed' = TRUE /\ UNCHANGED <<orders, levels, cur, calls, ahead>>

-----------------------------------------------------------------------------
\* The start of handle_new_order: what was filled before a modify is deducted.
Incoming(op, id, side, quantity, price, flags, filled) ==
    [op |-> op, id |-> id, side |-> side, quantity |-> quantity - filled,
     price |-> price, flags |-> flags, prematch |-> quantity - filled]

NewOrder(id, side, quantity, price, flags) ==
    /\ Idle
    /\ id \notin used
    /\ used' = used \cup {id}
    /\ IF quantity > 0
       THEN /\ cur' = Incoming("NEW", id, side, quantity, price, flags, 0)
            /\ UNCHANGED <<orders, levels, calls, failed, ahead>>
       ELSE Throw

\* delete_order of an order that rests.
DeleteResting(id) ==
    IF Unlinkable(id)
    THEN /\ Unlink(id)
         /\ calls' = <<OnDeleteOrder(id, TRUE)>>
         /\ UNCHANGED <<cur, failed>>
    ELSE Throw

\* delete_order and modify_order of an order that does not rest (any more).
CancelReject(id) ==
    /\ calls' = <<OnCancelReject(id)>>
    /\ UNCHANGED <<orders, levels, cur, failed, ahead>>

DeleteOrder(id) ==
    /\ Idle
    /\ \/ id \notin Resting /\ CancelReject(id)
       \/ id \in Resting /\ DeleteResting(id)
    /\ UNCHANGED used

\* modify_order at an unchanged price and side keeps the order's place in its level.
ModifyInPlace(id, side, quantity, price) ==
    /\ orders[id].price = price /\ orders[id].side = side
    /\ orders' = [orders EXCEPT ![id].quantity = quantity]
    /\ calls' = <<OnModifyOrder(id, side, quantity - orders[id].filled_quantity, price)>>
    /\ UNCHANGED <<levels, cur, failed, ahead>>

\* modify_order to another price or side: the order is taken off the ladder and
\* handled as an incoming one, which throws unless it asks for more than was filled.
ModifyAndMove(id, side, quantity, price) ==
    /\ orders[id].price # price \/ orders[id].side # side
    /\ IF Unlinkable(id) /\ quantity > orders[id].filled_quantity
       THEN /\ Unlink(id)
            /\ cur' = Incoming("MODIFY", id, side, quantity, price, orders[id].flags,
                               orders[id].filled_quantity)
            /\ UNCHANGED <<calls, failed>>
       ELSE Throw

\* Mutant: an order modified to exactly what was filled is not deleted.
ModifyOrderToFilled(id, side, quantity, price) ==
    /\ Idle
    /\ \/ id \notin Resting /\ CancelReject(id)
       \/ /\ id \in Resting
          /\ orders[id].filled_quantity > quantity
          /\ DeleteResting(id)
       \/ /\ id \in Resting
          /\ orders[id].filled_quantity <= quantity
          /\ \/ ModifyInPlace(id, side, quantity, price)
             \/ ModifyAndMove(id, side, quantity, price)
    /\ UNCHANGED used

ModifyOrder(id, side, quantity, price) ==
    /\ Idle
    /\ \/ id \notin Resting /\ CancelReject(id)
       \/ /\ id \in Resting
          /\ orders[id].filled_quantity >= quantity
          /\ DeleteResting(id)
       \/ /\ id \in Resting
          /\ orders[id].filled_quantity < quantity
          /\ \/ ModifyInPlace(id, side, quantity, price)
             \/ ModifyAndMove(id, side, quantity, price)
    /\ UNCHANGED used

\* Mutant: the two sides of a trade get each other's flags.
TradeCallsSwapped(id, o, quantity, passiveFlags, activeFlags) ==
    <<OnTrade(id, quantity, o.price),
      OnFill(id, o.side, quantity, o.price, activeFlags, FALSE),
      OnFill(cur.id, cur.side, quantity, o.price, passiveFlags, TRUE)>>

\* Mutant: the trade reports the whole resting order.
TradeCallsWhole(id, o, quantity, passiveFlags, activeFlags) ==
    <<OnTrade(id, o.quantity, o.price),
      OnFill(id, o.side, quantity, o.price, passiveFlags, FALSE),
      OnFill(cur.id, cur.side, quantity, o.price, activeFlags, TRUE)>>

\* match(): the callbacks of one trade, the resting order's fill first.
TradeCalls(id, o, quantity, passiveFlags, activeFlags) ==
    <<OnTrade(id, quantity, o.price),
      OnFill(id, o.side, quantity, o.price, passiveFlags, FALSE),
      OnFill(cur.id, cur.side, quantity, o.price, activeFlags, TRUE)>>

\* match(): the head of the best level is filled and leaves the book.
MatchFully(id) ==
    LET o == orders[id]
        left == cur.quantity - o.quantity
    IN  /\ o.quantity <= cur.quantity
        /\ IF Unlinkable(id)
           THEN /\ Unlink(id)
                /\ cur' = [cur EXCEPT !.quantity = left]
                /\ calls' = TradeCalls(id, o, o.quantity, "CLOSED",
                                       IF left > 0 THEN "PARTIAL_FILL" ELSE "CLOSED")
                /\ UNCHANGED failed
           ELSE Throw
        /\ UNCHANGED used

\* Mutant: an order that is filled exactly stays in the book.
MatchPartlyExact(id) ==
    LET o == orders[id]
    IN  /\ o.quantity >= cur.quantity
        /\ orders' = [orders EXCEPT ![id].quantity = @ - cur.quantity,
                                    ![id].filled_quantity = @ + cur.quantity]
        /\ cur' = [cur EXCEPT !.quantity = 0]
        /\ calls' = TradeCalls(id, o, cur.quantity, "PARTIAL_FILL", "CLOSED")
        /\ UNCHANGED <<levels, failed, used, ahead>>

\* match(): the head of the best level takes all that is left of the incoming order.
MatchPartly(id) ==
    LET o == orders[id]
    IN  /\ o.quantity > cur.quantity
        /\ orders' = [orders EXCEPT ![id].quantity = @ - cur.quantity,
                                    ![id].filled_quantity = @ + cur.quantity]
        /\ cur' = [cur EXCEPT !.quantity = 0]
        /\ calls' = TradeCalls(id, o, cur.quantity, "PARTIAL_FILL", "CLOSED")
        /\ UNCHANGED <<levels, failed, used, ahead>>

\* Mutant: the newest order of the level trades first.
MatchNewest ==
    /\ Matching
    /\ \E p \in MatchPrices :
          LET id == levels[Opposite(cur.side)][p].tail
          IN  MatchFully(id) \/ MatchPartly(id)

\* One turn of match()'s inner loop.  The order it takes is always the head of the
\* level, so the level is empty when the loop runs out of orders, and the exception
\* behind the loop ("not empty but no orders? Impossible") has no state to arise in.
Match ==
    /\ Matching
    /\ \E p \in MatchPrices :
          LET id == levels[Opposite(cur.side)][p].head
          IN  MatchFully(id) \/ MatchPartly(id)

\* The last callback of new_order and of modify_order.
FinishCalls ==
    CASE cur.op = "NEW" /\ cur.flags # "IOC" ->
            <<OnNewOrder(cur.id, cur.side, cur.quantity, cur.price, cur.flags)>>
      [] cur.op = "NEW" /\ cur.flags = "IOC" ->
            IF cur.quantity > 0 THEN <<OnDeleteOrder(cur.id, FALSE)>> ELSE <<>>
      [] cur.op = "MODIFY" ->
            IF cur.quantity > 0
            THEN <<OnModifyOrder(cur.id, cur.side, cur.quantity, cur.price)>>
            ELSE <<OnDeleteOrder(cur.id, TRUE)>>

\* What follows match(): an order that is filled, or that is IOC, leaves nothing
\* behind; any other remainder is appended to its level.
FinishWithoutResting ==
    /\ Matching /\ MatchPrices = {}
    /\ cur.quantity = 0 \/ cur.flags = "IOC"
    /\ cur' = NoRequest
    /\ calls' = FinishCalls
    /\ UNCHANGED <<orders, levels, failed, used, ahead>>

FinishResting ==
    /\ Matching /\ MatchPrices = {}
    /\ cur.quantity > 0 /\ cur.flags # "IOC"
    /\ IF Linkable
       THEN /\ Link
            /\ cur' = NoRequest
            /\ calls' = FinishCalls
            /\ UNCHANGED failed
       ELSE Throw
    /\ UNCHANGED used

\* The subscriber runs one callback (what the callbacks do is the broker's).
RunCallback ==
    /\ calls # <<>>
    /\ calls' = Tail(calls)
    /\ UNCHANGED <<orders, levels, cur, failed, used, ahead>>

Init ==
    /\ orders = [x \in {} |-> NoRequest]
    /\ levels = [side \in Side |-> [p \in Prices |-> EmptyLevel]]
    /\ cur = NoRequest
    /\ calls = <<>>
    /\ failed = FALSE
    /\ used = {}
    /\ ahead = [x \in Ids |-> {}]

Next ==
    \/ \E id \in Ids, side \in Side, quantity \in Quantities, price \in Prices, flags \in Flags :
          NewOrder(id, side, quantity, price, flags)
    \/ \E id \in used : DeleteOrder(id)
    \/ \E id \in used, side \in Side, quantity \in Quantities, price \in Prices :
          ModifyOrder(id, side, quantity, price)
    \/ Match
    \/ FinishWithoutResting
    \/ FinishResting
    \/ RunCallback

Spec == Init /\ [][Next]_vars

-----------------------------------------------------------------------------
(* The properties. *)

\* Every variable stays within its type; resting orders and remainders have a
\* quantity, and the ids in use are the ones the ladder was given.
TypeOK ==
    /\ used \subseteq Ids
    /\ Resting \subseteq used
    /\ orders \in [Resting -> Order]
    /\ levels \in [Side -> [Prices -> Level]]
    /\ cur \in Request \cup {NoRequest}
    /\ cur # NoRequest => cur.id \in used \ Resting /\ cur.quantity <= cur.prematch
    /\ calls \in Seq(Callback)
    /\ failed \in BOOLEAN
    /\ ahead \in [Ids -> SUBSET Ids]

\* match() never leaves resting orders that could trade with each other: the best
\* bid is below the best ask after every step, in the middle of a match as well.
Uncrossed ==
    \A b, s \in Resting :
        orders[b].side = "BUY" /\ orders[s].side = "SELL" => orders[b].price < orders[s].price

\* An order that rests has something left to trade, and an immediate-or-cancel
\* order never rests.
RestingIsOpen == \A id \in Resting : orders[id].quantity > 0 /\ orders[id].flags # "IOC"

LevelOf(x) == levels[orders[x].side][orders[x].price]
LevelOrders(side, p) == {x \in Resting : orders[x].side = side /\ orders[x].price = p}
Mates(x) == LevelOrders(orders[x].side, orders[x].price)

\* A level with orders has a head and a tail, both among its orders.
EndsLinked ==
    /\ \A side \in Side, p \in Prices :
          LET level == levels[side][p] IN
          /\ level.head = NoOrder <=> level.tail = NoOrder
          /\ level.head # NoOrder => /\ level.head \in LevelOrders(side, p)
                                     /\ orders[level.head].prev = NoOrder
          /\ level.tail # NoOrder => /\ level.tail \in LevelOrders(side, p)
                                     /\ orders[level.tail].next = NoOrder
    /\ \A x \in Resting : LevelOf(x).head # NoOrder

\* next and prev are inverse of each other and stay within a level; only its head has
\* no predecessor and only its tail no successor.
NeighboursLinked ==
    \A x \in Resting :
        /\ orders[x].prev = NoOrder => LevelOf(x).head = x
        /\ orders[x].next = NoOrder => LevelOf(x).tail = x
        /\ orders[x].prev # NoOrder => orders[x].prev \in Mates(x) /\ orders[orders[x].prev].next = x
        /\ orders[x].next # NoOrder => orders[x].next \in Mates(x) /\ orders[orders[x].next].prev = x

\* Along next, the orders of a level come in the order in which they took their place.
ListedByArrival ==
    \A x \in Resting :
        /\ x \notin ahead[x]
        /\ ahead[x] \subseteq Mates(x)
        /\ orders[x].prev = NoOrder => ahead[x] = {}
        /\ orders[x].prev # NoOrder => ahead[x] = ahead[orders[x].prev] \cup {orders[x].prev}
        /\ orders[x].next = NoOrder => Mates(x) = ahead[x] \cup {x}

\* The linked lists hold every resting order exactly once and in order of arrival,
\* whatever was deleted from their middle, their ends, or moved between them.
WellLinked == EndsLinked /\ NeighboursLinked /\ ListedByArrival

\* None of the runtime_errors of order_ladder.H can be raised: the level of an
\* order to unlink is there, an id is not added twice, a level has a tail.
NeverThrows == ~failed

\* What onNewOrder and onModifyOrder report of an order that rests is what rests:
\* the quantity in the acknowledgement and in the market data is the quantity that
\* can still trade.
ReportedQuantityRests ==
    \A i \in DOMAIN calls :
        calls[i].fn \in {"onNewOrder", "onModifyOrder"} /\ calls[i].id \in Resting =>
            orders[calls[i].id].quantity = calls[i].quantity

-----------------------------------------------------------------------------
(* The promise: the ladder is a book with price-time priority. *)

bookOfLadder ==
    [x \in Resting |-> [side |-> orders[x].side, price |-> orders[x].price,
                       quantity |-> orders[x].quantity]]
takerOfLadder ==
    IF cur = NoRequest THEN [id |-> "nobody"]
    ELSE [id |-> cur.id, side |-> cur.side, quantity |-> cur.quantity, price |-> cur.price]

PriceTime == INSTANCE PriceTimeBook WITH book <- bookOfLadder, taker <- takerOfLadder

\* Every step of the ladder is a step of the abstract book, or invisible in it: the
\* linked lists give price-time priority, through deletes from the middle of a level,
\* modifications in place and modifications that move an order.
ImplementsPriceTime == PriceTime!BookSpec
=============================================================================
