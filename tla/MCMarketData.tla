---------------------------- MODULE MCMarketData ----------------------------
(* The feed, the snapshot service and one client on small instances. *)
EXTENDS MarketData

OneAndTwo == <<1, 2>>

OneOrder == {[id |-> 1, symbol |-> 2, side |-> "BUY", quantity |-> 1]}
SameBook == {[id |-> 1, symbol |-> 1, side |-> "BUY", quantity |-> 2],
             [id |-> 2, symbol |-> 1, side |-> "BUY", quantity |-> 1]}

\* A client that joins late, of a feed with two orders in one book.
LateJoin == [recover_on_drops |-> FALSE, NewOrders |-> SameBook, MaxQuantity |-> 2,
             MaxMessages |-> 4, MaxSnapshots |-> 1]

\* A client that recovers from the packets it loses, with an order in one of two books.
GapRecovery == [recover_on_drops |-> TRUE, NewOrders |-> OneOrder, MaxQuantity |-> 1,
                MaxMessages |-> 6, MaxSnapshots |-> 2]

\* The same with heartbeats only.
Quiet == [recover_on_drops |-> TRUE, NewOrders |-> {}, MaxQuantity |-> 1,
          MaxMessages |-> 8, MaxSnapshots |-> 2]

Both == {LateJoin, GapRecovery}
QuietOnly == {Quiet}
=============================================================================
