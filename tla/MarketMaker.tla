----------------------------- MODULE MarketMaker ----------------------------
(***************************************************************************)
(* A bot that makes a market in one symbol over one order entry session:   *)
(* OEClient (bots/oe_client.cpp) with either a StackManager                *)
(* (bots/stack_manager.cpp, fair_value_stack_mm.cpp) or the two quotes of  *)
(* a FairValueMarketMaker (bots/fair_value_mm.cpp) on top.                 *)
(*                                                                         *)
(* Requests and reports are in flight on a TCP connection; what they are   *)
(* about may have changed at the other end.  The exchange is what          *)
(* EngineContract and ClientHandler say of it, seen by one client:         *)
(* acknowledgements and rejects, which OEClient only logs, are left out,   *)
(* as are the quantities of orders.                                        *)
(***************************************************************************)
EXTENDS Integers, Sequences, FiniteSets, Sums

CONSTANTS
    Makers,             \* the kinds of bot to run: "stack" or "pair"
    Markets,            \* best bids and asks: records bid, ask, bid_quantity, ask_quantity
    Quantities,         \* the quantities of fills
    FairValues,         \* the values a FairValue object may give
    tick_size, min_price, max_price, width_in_ticks,
    stack_depth,
    PositionLimit,      \* the position at which the pair's skew ends: 100 in the code
    MaxOrders,          \* bound: orders sent
    MaxFills,           \* bound: fills
    MaxInFlight,        \* bound: requests, and reports, on the connection
    MaxUnsent           \* bound: orders about which a write failed

Side == {"BUY", "SELL"}
Ids == 1..MaxOrders

ASSUME MarketMakerAssumption ==
    /\ Makers \subseteq {"stack", "pair"}
    /\ tick_size \in Nat \ {0} /\ min_price \in Nat /\ max_price \in Nat /\ width_in_ticks \in Nat
    /\ \A m \in Markets : /\ {m.bid, m.ask} \subseteq {n \in 1..max_price : n % tick_size = 0}
                          /\ m.bid < m.ask
                          /\ {m.bid_quantity, m.ask_quantity} \subseteq Nat \ {0}
    /\ Quantities \subseteq Nat \ {0} /\ FairValues \subseteq Nat
    /\ stack_depth \in Nat \ {0} /\ PositionLimit \in Nat
    /\ MaxOrders \in Nat /\ MaxFills \in Nat /\ MaxInFlight \in Nat /\ MaxUnsent \in Nat

VARIABLES
    maker,          \* which bot runs
    mode,           \* the bot: "off", "running" or, after an exception, "ended"
    orders,         \* by side: bid_orders and ask_orders, records id and price
    last_order_id,
    sent,           \* last_order_send_ts is not 0
    open_orders,    \* OEClient: the sides of the orders it knows, by id
    positions,      \* OEClient: of the symbol, and of symbol 0
    requests,       \* on the way to the exchange
    reports,        \* on the way back
    session,        \* the exchange: the client is logged in
    open,           \* the exchange: the client's orders by id, with side and price
    filled,         \* history: the fills of each side so far
    unsent          \* history: orders about which a write failed

bot == <<maker, mode, orders, last_order_id, sent>>
oe == <<open_orders, positions>>
exchange == <<session, open, filled>>
makerVars == <<bot, oe, requests, reports, exchange, unsent>>

Seqs == INSTANCE SequencesExt
Funs == INSTANCE Functions

With(f, x, y) == [z \in DOMAIN f \cup {x} |-> IF z = x THEN y ELSE f[z]]
Without(f, x) == Funs!Restrict(f, DOMAIN f \ {x})

-----------------------------------------------------------------------------
(* OEClient. *)

\* login: the reply is waited for; a refused login ends the program.
Login(status) ==
    /\ mode = "off"
    /\ mode' = IF status = "SUCCESS" THEN "running" ELSE "ended"
    /\ session' = (status = "SUCCESS")
    /\ UNCHANGED <<maker, orders, last_order_id, sent, oe, requests, reports, open, filled, unsent>>

SendOrder(id, side, price) == [type |-> "NEW_ORDER", id |-> id, side |-> side, price |-> price]
ModifyOrder(id, side, price) == [type |-> "MODIFY_ORDER", id |-> id, side |-> side, price |-> price]
CancelOrder(id) == [type |-> "DELETE_ORDER", id |-> id]

\* Mutant: an order that is being cancelled is forgotten at once.
KnownUncancelled(messages) ==
    LET new == {i \in DOMAIN messages : messages[i].type = "NEW_ORDER"}
        cancelled == {messages[i].id : i \in {j \in DOMAIN messages : messages[j].type = "DELETE_ORDER"}}
        ids == (DOMAIN open_orders \cup {messages[i].id : i \in new}) \ cancelled
    IN  [id \in ids |->
           IF id \in DOMAIN open_orders THEN open_orders[id]
           ELSE messages[CHOOSE i \in new : messages[i].id = id].side]

\* send_order notes the new order; cancel_order and modify_order note nothing.
Known(messages) ==
    LET new == {i \in DOMAIN messages : messages[i].type = "NEW_ORDER"}
    IN  [id \in DOMAIN open_orders \cup {messages[i].id : i \in new} |->
           IF id \in DOMAIN open_orders THEN open_orders[id]
           ELSE messages[CHOOSE i \in new : messages[i].id = id].side]

\* What goes out of messages when the writes at some places fail: the rest, in its order.
Written(messages, failed) ==
    LET kept == DOMAIN messages \ failed
        row == CHOOSE f \in [1..Cardinality(kept) -> kept] :
                  /\ Seqs!ToSet(f) = kept
                  /\ \A i, j \in DOMAIN f : i < j => f[i] < f[j]
    IN  [i \in 1..Cardinality(kept) |-> messages[row[i]]]

\* The messages of a turn are written one by one; a write that fails is only logged.
Write(messages) ==
    /\ Len(requests) + Len(messages) <= MaxInFlight
    /\ open_orders' = Known(messages)
    /\ UNCHANGED positions
    /\ \E failed \in SUBSET DOMAIN messages :
         /\ unsent' = unsent \cup {messages[i].id : i \in failed}
         /\ failed = {} \/ Cardinality(unsent') <= MaxUnsent
         /\ requests' = requests \o Written(messages, failed)

\* A fill of an order that is not known is booked as a sale of symbol 0.
ReadFill(r) ==
    IF r.id \notin DOMAIN open_orders THEN [positions EXCEPT ![0] = @ - r.quantity]
    ELSE [positions EXCEPT ![1] = IF open_orders[r.id] = "BUY" THEN @ + r.quantity
                                  ELSE @ - r.quantity]

\* process: one report.  An error message ends the program.
ReadReport ==
    /\ mode = "running" /\ reports # <<>>
    /\ LET r == Head(reports) IN
         /\ positions' = IF r.type = "FILL" THEN ReadFill(r) ELSE positions
         /\ open_orders' = CASE r.type = "CLOSE" -> Without(open_orders, r.id)
                             [] r.type = "FILL" /\ r.id \notin DOMAIN open_orders ->
                                    With(open_orders, r.id, "unknown")
                             [] OTHER -> open_orders
         /\ mode' = IF r.type = "ERROR" THEN "ended" ELSE mode
    /\ reports' = Tail(reports)
    /\ UNCHANGED <<maker, orders, last_order_id, sent, requests, exchange, unsent>>

-----------------------------------------------------------------------------
(* StackManager.  The sets bid_orders and ask_orders hold one order per price. *)

Ahead(side, a, b) == IF side = "BUY" THEN a > b ELSE a < b

\* Mutant: asks are compared like bids.
AheadOfAsBid(S, side, price) == {o \in S : o.price > price}

AheadOf(S, side, price) == {o \in S : Ahead(side, o.price, price)}

Insert(S, o) == IF \E p \in S : p.price = o.price THEN S ELSE S \cup {o}

\* rbegin of either set: the order nearest to the market.
LastOf(S, side) == CHOOSE o \in S : \A p \in S : p = o \/ Ahead(side, o.price, p.price)

Cancels(S) == LET row == Seqs!SetToSeq(S) IN [i \in DOMAIN row |-> CancelOrder(row[i].id)]

\* What a call leaves in the set, sends and uses of order ids.
Result(S, messages, id, was_sent) == [orders |-> S, messages |-> messages, next |-> id, sent |-> was_sent]

\* Mutant: the price is not looked for.
StackedNever(S, price) == FALSE

Stacked(S, price) == \E o \in S : o.price = price

\* Mutant: one order too many is stacked.
FullLate(S) == Cardinality(S) > stack_depth

Full(S) == Cardinality(S) >= stack_depth

\* Mutant: the moved order is listed at its old price.
MovedNowhere(S, o, price) == S

\* The order is taken out and inserted at its new price.
Moved(S, o, price) == Insert(S \ {o}, [o EXCEPT !.price = price])

\* Orders ahead of the price are cancelled.  When the price is free, the nearest order of a
\* full stack moves there, or a new order is sent when the last one was 100 ms ago.
stack_side(price, S, side, id, was_sent, waited) ==
    LET ahead == AheadOf(S, side, price)
        left == S \ ahead
        last == LastOf(left, side)
        free == ~Stacked(left, price)
    IN  CASE free /\ Full(left) ->
                Result(Moved(left, last, price),
                       Cancels(ahead) \o <<ModifyOrder(last.id, side, price)>>, id, TRUE)
          [] free /\ ~Full(left) /\ (~was_sent \/ waited) ->
                Result(Insert(left, [id |-> id, price |-> price]),
                       Cancels(ahead) \o <<SendOrder(id, side, price)>>, id + 1, TRUE)
          [] OTHER -> Result(left, Cancels(ahead), id, was_sent)

Least(a, b) == IF a < b THEN a ELSE b
Most(a, b) == IF a > b THEN a ELSE b
Rounded(n) == (n \div tick_size) * tick_size

BidToStack(fair_value, bid) == Most(Least(Rounded(fair_value - width_in_ticks), bid), min_price)
AskToStack(fair_value, ask) == Least(Most(Rounded(fair_value + width_in_ticks - 1), ask), max_price)

\* The mid price weighted by the quantities of the other side.
WeightedMid(m) ==
    Rounded((m.bid * m.ask_quantity + m.ask * m.bid_quantity) \div (m.bid_quantity + m.ask_quantity))

\* Both sides of a turn, bids first; what it sends is written in this order.
Turn(bids, asks) ==
    /\ orders' = [side \in Side |-> IF side = "BUY" THEN bids.orders ELSE asks.orders]
    /\ asks.next <= MaxOrders + 1
    /\ last_order_id' = asks.next
    /\ sent' = asks.sent
    /\ Write(bids.messages \o asks.messages)
    /\ UNCHANGED <<maker, mode, reports, exchange>>

Quotable(bid, ask) == bid > 0 /\ ask > 0 /\ bid < ask

\* FairValueStackingMarketMaker::process and StackManager::process; waited[side] says that
\* 100 ms have passed since the last order.  A market without a bid, without an ask or that
\* is crossed is not quoted.
ProcessStack(market, waited) ==
    LET fair_value == WeightedMid(market)
        buy == BidToStack(fair_value, market.bid)
        sell == AskToStack(fair_value, market.ask)
        bids == stack_side(buy, orders["BUY"], "BUY", last_order_id, sent, waited["BUY"])
        asks == stack_side(sell, orders["SELL"], "SELL", bids.next, bids.sent, waited["SELL"])
    IN  /\ mode = "running" /\ maker = "stack"
        /\ Quotable(buy, sell)
        /\ Turn(bids, asks)

-----------------------------------------------------------------------------
(* FairValueMarketMaker: at most one order on each side. *)

Skewed(fair_value) ==
    Most(fair_value - Most(Least(positions[1], PositionLimit), -PositionLimit),
         min_price + 10 * tick_size)

PairBid(fair_value) ==
    LET price == fair_value - width_in_ticks * tick_size IN price - (price % tick_size)
PairAsk(fair_value) ==
    LET price == fair_value + width_in_ticks * tick_size IN price + (tick_size - (price % tick_size))

\* An order at another price, or one older than 30 s, is cancelled; a missing one is sent.
quote(price, S, side, id, old) ==
    IF S # {} /\ (old \/ \E o \in S : o.price # price) THEN Result({}, Cancels(S), id, sent)
    ELSE IF S = {} THEN Result({[id |-> id, price |-> price]}, <<SendOrder(id, side, price)>>, id + 1, TRUE)
    ELSE Result(S, <<>>, id, sent)

\* FairValueMarketMaker::process; old[side] says that the last order was sent 30 s ago,
\* which is looked at for each side.
ProcessPair(fair_value, old) ==
    LET value == Skewed(fair_value)
        bids == quote(PairBid(value), orders["BUY"], "BUY", last_order_id, old["BUY"])
        asks == quote(PairAsk(value), orders["SELL"], "SELL", bids.next, old["SELL"])
    IN  /\ mode = "running" /\ maker = "pair"
        /\ Turn(bids, [asks EXCEPT !.sent = asks.sent \/ bids.sent])

-----------------------------------------------------------------------------
(* The exchange. *)

Report(r) ==
    /\ Len(reports) < MaxInFlight
    /\ reports' = Append(reports, r)

\* A cancel or a modify of an order that is not open is rejected.
TakeRequest ==
    /\ session /\ requests # <<>>
    /\ LET m == Head(requests) IN
         CASE m.type = "NEW_ORDER" ->
                open' = With(open, m.id, [side |-> m.side, price |-> m.price]) /\ UNCHANGED reports
           [] m.type = "MODIFY_ORDER" /\ m.id \in DOMAIN open ->
                open' = [open EXCEPT ![m.id].price = m.price] /\ UNCHANGED reports
           [] m.type = "DELETE_ORDER" /\ m.id \in DOMAIN open ->
                open' = Without(open, m.id) /\ Report([type |-> "CLOSE", id |-> m.id])
           [] OTHER -> UNCHANGED <<open, reports>>
    /\ requests' = Tail(requests)
    /\ UNCHANGED <<bot, oe, session, filled, unsent>>

\* The fill that closes an order is the last report about it.
FillOrder(id, quantity, closes) ==
    /\ filled["BUY"] + filled["SELL"] + quantity <= MaxFills
    /\ filled' = [filled EXCEPT ![open[id].side] = @ + quantity]
    /\ open' = IF closes THEN Without(open, id) ELSE open
    /\ Report([type |-> "FILL", id |-> id, quantity |-> quantity])
    /\ UNCHANGED <<bot, oe, requests, session, unsent>>

\* The exchange ends the session: an error message is the last report, the orders are
\* cancelled, requests are no longer read.
EndSession ==
    /\ session /\ session' = FALSE
    /\ open' = <<>>
    /\ Report([type |-> "ERROR"])
    /\ UNCHANGED <<bot, oe, requests, filled, unsent>>

-----------------------------------------------------------------------------
MakerInit ==
    /\ maker \in Makers
    /\ mode = "off"
    /\ orders = [side \in Side |-> {}]
    /\ last_order_id = 1 /\ sent = FALSE
    /\ open_orders = <<>> /\ positions = [symbol \in {0, 1} |-> 0]
    /\ requests = <<>> /\ reports = <<>>
    /\ session = FALSE /\ open = <<>> /\ filled = [side \in Side |-> 0]
    /\ unsent = {}

MakerNext ==
    \/ \E status \in {"SUCCESS", "REFUSED"} : Login(status)
    \/ ReadReport
    \/ \E market \in Markets, waited \in [Side -> BOOLEAN] : ProcessStack(market, waited)
    \/ \E fair_value \in FairValues, old \in [Side -> BOOLEAN] : ProcessPair(fair_value, old)
    \/ TakeRequest
    \/ \E id \in DOMAIN open, quantity \in Quantities, closes \in BOOLEAN : FillOrder(id, quantity, closes)
    \/ EndSession

MakerSpec == MakerInit /\ [][MakerNext]_makerVars

-----------------------------------------------------------------------------
(* The properties. *)

Orders == [id : Ids, price : Int]
Listed == {o.id : o \in orders["BUY"] \cup orders["SELL"]}
Pending(id) == {i \in DOMAIN requests : requests[i].id = id}

\* Every variable keeps its type; a stack has one order per price and no more than its
\* depth, a pair one order per side (stack_side, FairValueMarketMaker::process).
MakerTypeOK ==
    /\ mode \in {"off", "running", "ended"}
    /\ last_order_id \in 1..(MaxOrders + 1)
    /\ \A side \in Side :
         /\ orders[side] \subseteq Orders
         /\ Cardinality(orders[side]) <= IF maker = "stack" THEN stack_depth ELSE 1
         /\ \A o, p \in orders[side] : o.price = p.price => o = p
    /\ DOMAIN open_orders \subseteq Ids
    /\ positions \in [{0, 1} -> Int]
    /\ DOMAIN open \subseteq Ids
    /\ \A id \in DOMAIN open : open[id] \in [side : Side, price : Int]

\* The fills on the way of orders that the client knows to be of the side.
InFlight(side) ==
    {i \in DOMAIN reports : /\ reports[i].type = "FILL"
                            /\ reports[i].id \in DOMAIN open_orders
                            /\ open_orders[reports[i].id] = side}

FillsInFlight(side) == Total([i \in InFlight(side) |-> reports[i].quantity], InFlight(side))

\* The bot's position is what its orders have traded (OEClient::process): with the fills
\* that are still on the way it is the exchange's, although cancels, closes and fills of an
\* order cross each other, and no fill is booked on an unknown order.
PositionIsNetFills ==
    mode = "running" =>
        /\ positions[1] + FillsInFlight("BUY") - FillsInFlight("SELL") = filled["BUY"] - filled["SELL"]
        /\ positions[0] = 0

\* No order is left behind (stack_side, FairValueMarketMaker::process): one that is open at
\* the exchange is listed by the bot, or its cancel is on the way; only a failed write
\* makes the bot lose sight of an order.
NoOrphans ==
    \A id \in DOMAIN open \ unsent :
        id \in Listed \/ \E i \in Pending(id) : requests[i].type = "DELETE_ORDER"

\* The bot knows at which price each open order rests, once its requests have arrived
\* (stack_side, which lists the new price of an order it moves).
PricesAgree ==
    \A side \in Side : \A o \in orders[side] :
        o.id \in DOMAIN open \ unsent /\ Pending(o.id) = {} =>
            open[o.id] = [side |-> side, price |-> o.price]

\* A stack is never crossed (StackManager::process), whatever the market has done since its
\* orders were placed.
StackUncrossed ==
    maker = "stack" => \A b \in orders["BUY"], a \in orders["SELL"] : b.price < a.price

\* The stack lists open orders: none that is done and whose last report has been read.
StackOrdersOpen ==
    \A id \in Listed \ unsent :
        \/ id \in DOMAIN open
        \/ Pending(id) # {}
        \/ \E i \in DOMAIN reports : reports[i].type = "ERROR" \/ reports[i].id = id
        \/ mode = "ended"
=============================================================================
