--------------------------- MODULE MCMarketMaker ----------------------------
(* The market making bots on small instances. *)
EXTENDS MarketMaker

Market(bid, ask, bid_quantity, ask_quantity) ==
    [bid |-> bid, ask |-> ask, bid_quantity |-> bid_quantity, ask_quantity |-> ask_quantity]

\* A market that goes up and comes back.
Moving == {Market(4, 8, 1, 1), Market(6, 10, 1, 1), Market(8, 12, 3, 1)}
=============================================================================
