-------------------------- MODULE MCPositionLedger --------------------------
(* The clearing feed, its consumers and the ETF service on a small instance. *)
EXTENDS PositionLedger, TLC

Trade(client, symbol, side, quantity, price) ==
    [client |-> client, symbol |-> symbol, side |-> side, quantity |-> quantity, price |-> price]

\* Client 1 trades in the underlyings 3 and 4, client 2 buys; a price is more than Word.
SomeFills == {Trade(1, 3, "BUY", 1, 9), Trade(1, 3, "SELL", 1, 7), Trade(1, 4, "BUY", 2, 3),
              Trade(2, 3, "BUY", 1, 3)}

TwoUnderlyings == <<3, 4>>
AnyAmount == {-1, 1}
ThreadSymmetry == Permutations(Threads)
=============================================================================
