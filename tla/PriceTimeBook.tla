--------------------------- MODULE PriceTimeBook ---------------------------
(***************************************************************************)
(* What a limit order book promises: an incoming order trades only with    *)
(* resting orders of the best price on the other side and, at that price,  *)
(* only with one that has nobody ahead of it; it trades as long as it can; *)
(* what is left of it takes the last place at its own price.  There are no *)
(* levels and no lists here, only orders and who came before whom.         *)
(***************************************************************************)
EXTENDS Integers

CONSTANTS Ids, Prices

VARIABLES
    book,       \* resting orders: a function from ids to side, price, quantity
    ahead,      \* ahead[id]: the resting orders with priority over id at its price
    taker       \* the order that is being handled, or Nobody

bookVars == <<book, ahead, taker>>

Nobody == [id |-> "nobody"]
Taker == [id: Ids, side: {"BUY", "SELL"}, quantity: Nat, price: Prices]

\* Orders that t can trade with, and how two of them rank by price.
Counterparties(t) ==
    {x \in DOMAIN book :
        /\ book[x].side # t.side
        /\ t.quantity > 0
        /\ IF t.side = "BUY" THEN book[x].price <= t.price ELSE book[x].price >= t.price}
BetterPrice(x, y, t) ==
    IF t.side = "BUY" THEN book[x].price < book[y].price ELSE book[x].price > book[y].price

\* The book once x has left it.
Removed(x) == [y \in DOMAIN book \ {x} |-> book[y]]
Closed(x) == [y \in Ids |-> IF y = x THEN {} ELSE ahead[y] \ {x}]

Arrive ==
    /\ taker = Nobody
    /\ taker' \in Taker
    /\ taker'.id \notin DOMAIN book
    /\ UNCHANGED <<book, ahead>>

Trade ==
    /\ taker # Nobody
    /\ \E x \in Counterparties(taker) :
        /\ \A y \in Counterparties(taker) : ~BetterPrice(y, x, taker)
        /\ ahead[x] = {}
        /\ IF book[x].quantity <= taker.quantity
           THEN /\ book' = Removed(x)
                /\ ahead' = Closed(x)
                /\ taker' = [taker EXCEPT !.quantity = @ - book[x].quantity]
           ELSE /\ book' = [book EXCEPT ![x].quantity = @ - taker.quantity]
                /\ taker' = [taker EXCEPT !.quantity = 0]
                /\ UNCHANGED ahead

\* Nobody is left to trade with: the remainder rests behind the orders at its price,
\* or is dropped.
Settle ==
    /\ taker # Nobody
    /\ Counterparties(taker) = {}
    /\ taker' = Nobody
    /\ \/ UNCHANGED <<book, ahead>>
       \/ /\ taker.quantity > 0
          /\ book' = [x \in DOMAIN book \cup {taker.id} |->
                        IF x = taker.id
                        THEN [side |-> taker.side, price |-> taker.price, quantity |-> taker.quantity]
                        ELSE book[x]]
          /\ ahead' = [ahead EXCEPT ![taker.id] =
                        {x \in DOMAIN book : book[x].side = taker.side /\ book[x].price = taker.price}]

Cancel(x) ==
    /\ taker = Nobody
    /\ book' = Removed(x)
    /\ ahead' = Closed(x)
    /\ UNCHANGED taker

\* A change of quantity keeps the order's place ...
Resize(x) ==
    /\ taker = Nobody
    /\ x \in DOMAIN book'
    /\ book'[x].quantity > 0
    /\ book' = [book EXCEPT ![x].quantity = book'[x].quantity]
    /\ UNCHANGED <<ahead, taker>>

\* ... a change of price or side gives it up.
Reprice(x) ==
    /\ taker = Nobody
    /\ book' = Removed(x)
    /\ ahead' = Closed(x)
    /\ taker' \in Taker
    /\ taker'.id = x
    /\ taker'.price # book[x].price \/ taker'.side # book[x].side

BookInit ==
    /\ book = [x \in {} |-> Nobody]
    /\ ahead = [x \in Ids |-> {}]
    /\ taker = Nobody

BookNext ==
    \/ Arrive \/ Trade \/ Settle
    \/ \E x \in DOMAIN book : Cancel(x) \/ Resize(x) \/ Reprice(x)

BookSpec == BookInit /\ [][BookNext]_bookVars
=============================================================================
