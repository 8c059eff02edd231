----------------------------- MODULE OrderBook -----------------------------
(***************************************************************************)
(* The book a market data consumer keeps: class OrderBook of               *)
(* bots/order_book.cpp, as operators on a book.  A book has the orders it  *)
(* knows of and the total quantity per side and price; a price that is not *)
(* a key of buy_levels or sell_levels has total 0.                         *)
(***************************************************************************)
EXTENDS Integers, Sequences, Functions

CONSTANT Prices

Side == {"BUY", "SELL"}

Empty == [orders |-> <<>>, levels |-> [side \in Side |-> [p \in Prices |-> 0]]]

Known(book, id) == id \in DOMAIN book.orders

OrdersWith(book, id, order) ==
    [x \in DOMAIN book.orders \cup {id} |-> IF x = id THEN order ELSE book.orders[x]]

OrdersWithout(book, id) == Restrict(book.orders, DOMAIN book.orders \ {id})

\* delete_order_from_levels: nothing is deducted from a level that holds less.
LevelsWithout(book, id) ==
    LET o == book.orders[id] IN
    IF book.levels[o.side][o.price] < o.quantity THEN book.levels
    ELSE [book.levels EXCEPT ![o.side][o.price] = @ - o.quantity]

\* emplace keeps an order that is already known, the level grows anyway.
new_order(book, id, side, quantity, price) ==
    [orders |-> IF Known(book, id) THEN book.orders
                ELSE OrdersWith(book, id, [side |-> side, price |-> price, quantity |-> quantity]),
     levels |-> [book.levels EXCEPT ![side][price] = @ + quantity]]

delete_order(book, id) ==
    IF ~Known(book, id) THEN book
    ELSE [orders |-> OrdersWithout(book, id), levels |-> LevelsWithout(book, id)]

modify_order(book, id, side, quantity, price) ==
    IF ~Known(book, id) THEN book
    ELSE [orders |-> OrdersWith(book, id, [side |-> side, price |-> price, quantity |-> quantity]),
          levels |-> [LevelsWithout(book, id) EXCEPT ![side][price] = @ + quantity]]

\* Mutant: a filled order leaves its quantity in its level.
order_trade_stale_level(book, id, quantity) ==
    IF ~Known(book, id) \/ book.orders[id].quantity < quantity THEN book
    ELSE LET o == book.orders[id] IN
         IF o.quantity = quantity THEN [book EXCEPT !.orders = OrdersWithout(book, id)]
         ELSE [orders |-> OrdersWith(book, id, [o EXCEPT !.quantity = @ - quantity]),
               levels |-> [book.levels EXCEPT ![o.side][o.price] = @ - quantity]]

\* A trade larger than the order is ignored.
order_trade(book, id, quantity) ==
    IF ~Known(book, id) \/ book.orders[id].quantity < quantity THEN book
    ELSE LET o == book.orders[id] IN
         [orders |-> IF o.quantity = quantity THEN OrdersWithout(book, id)
                     ELSE OrdersWith(book, id, [o EXCEPT !.quantity = @ - quantity]),
          levels |-> [book.levels EXCEPT ![o.side][o.price] = @ - quantity]]
=============================================================================
