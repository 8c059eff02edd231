------------------------------ MODULE Clearing ------------------------------
(***************************************************************************)
(* The clearing feed (matching_engine/clearing_mcast.cpp) and its two      *)
(* consumers: the ClearingClient of the C++ dashboard                      *)
(* (web_data/clearing_client.cpp) and that of the ETF service              *)
(* (etf_service/clearing_client.py).                                       *)
(*                                                                         *)
(* One datagram is one fill.  A consumer's socket holds the datagrams      *)
(* after the read[k]-th that were sent since the consumer joined; each may *)
(* be lost.  Both keep positions, totals, volume and P&L by client and     *)
(* symbol: the C++ client in 32 bits and only up to the first gap, the     *)
(* Python client in unbounded integers and across gaps.                    *)
(***************************************************************************)
EXTENDS Integers, Sequences, FiniteSets, Sums

CONSTANTS
    Clients,
    Symbols,
    Fills,      \* the fills that may happen: records client, symbol, side, quantity, price
    Word,       \* values of a uint32_t: 2^32 in the code
    MaxFills,   \* bound: fills published
    MaxLost     \* bound: datagrams lost

Consumers == {"web_data", "etf_service"}
Pairs == Clients \X Symbols

ASSUME ClearingAssumption ==
    /\ \A f \in Fills : /\ f.client \in Clients /\ f.symbol \in Symbols
                        /\ f.side \in {"BUY", "SELL"}
                        /\ f.quantity \in Nat \ {0} /\ f.price \in Int
    /\ Word \in Nat \ {0} /\ Word % 2 = 0
    /\ MaxFills \in Nat /\ MaxLost \in Nat

VARIABLES
    fills,          \* the fills published, in order
    joined,         \* the consumers that listen
    read,           \* by consumer: the last datagram that has been delivered or lost
    arrived,        \* history, by consumer: the datagrams delivered
    last_seq_num,   \* by consumer
    accounts        \* by consumer: positions, total_buy, total_sell, volume, raw_pnl

clearingVars == <<fills, joined, read, arrived, last_seq_num, accounts>>

-----------------------------------------------------------------------------
\* publish_fill: the sequence number of the i-th datagram.
Number(i) == i

NoAccounts == [positions |-> [p \in Pairs |-> 0], total_buy |-> [p \in Pairs |-> 0],
               total_sell |-> [p \in Pairs |-> 0], volume |-> [p \in Pairs |-> 0],
               raw_pnl |-> [p \in Pairs |-> 0]]

Signed(n) == IF n % Word >= Word \div 2 THEN (n % Word) - Word ELSE n % Word

\* What a fill does to the accounts of its client and symbol.
Filled(a, f) ==
    LET p == <<f.client, f.symbol>>
        buy == a.total_buy[p] + IF f.side = "BUY" THEN f.quantity * f.price ELSE 0
        sell == a.total_sell[p] + IF f.side = "SELL" THEN f.quantity * f.price ELSE 0
    IN  [positions |-> [a.positions EXCEPT ![p] = IF f.side = "BUY" THEN @ + f.quantity ELSE @ - f.quantity],
         total_buy |-> [a.total_buy EXCEPT ![p] = buy],
         total_sell |-> [a.total_sell EXCEPT ![p] = sell],
         volume |-> [a.volume EXCEPT ![p] = @ + f.quantity],
         raw_pnl |-> [a.raw_pnl EXCEPT ![p] = sell - buy]]

\* The C++ maps hold int32_t positions and P&L, and uint32_t totals and volume.
Narrow(a) ==
    [positions |-> [p \in Pairs |-> Signed(a.positions[p])],
     total_buy |-> [p \in Pairs |-> a.total_buy[p] % Word],
     total_sell |-> [p \in Pairs |-> a.total_sell[p] % Word],
     volume |-> [p \in Pairs |-> a.volume[p] % Word],
     raw_pnl |-> [p \in Pairs |-> Signed(a.raw_pnl[p])]]

-----------------------------------------------------------------------------
\* The broker reports a fill of one client.
PublishFill(f) ==
    /\ Len(fills) < MaxFills
    /\ fills' = Append(fills, f)
    /\ UNCHANGED <<joined, read, arrived, last_seq_num, accounts>>

\* A consumer starts and hears the datagrams sent from now on.  The ETF service replaces the
\* C++ dashboard and serves the same port: one of them runs.
Join(k) ==
    /\ joined = {}
    /\ joined' = {k}
    /\ read' = [read EXCEPT ![k] = Len(fills)]
    /\ UNCHANGED <<fills, arrived, last_seq_num, accounts>>

LostOf(k) == (1..read[k]) \ arrived[k]

Lose(k) ==
    /\ k \in joined /\ read[k] < Len(fills)
    /\ Cardinality(LostOf(k)) < MaxLost
    /\ read' = [read EXCEPT ![k] = @ + 1]
    /\ UNCHANGED <<fills, joined, arrived, last_seq_num, accounts>>

\* The next datagram is delivered to consumer k.
Deliver(k) ==
    /\ k \in joined /\ read[k] < Len(fills)
    /\ read' = [read EXCEPT ![k] = @ + 1]
    /\ arrived' = [arrived EXCEPT ![k] = @ \cup {read[k] + 1}]
    /\ UNCHANGED <<fills, joined>>

\* Some number of a gap has been missed; 0 is the number of a client that has read nothing.
Gap(k, n) == last_seq_num[k] # 0 /\ n # last_seq_num[k] + 1

\* Mutant: the gap is logged and the fill applied.
ProcessAcrossGap ==
    LET k == "web_data"  i == read[k] + 1 IN
    /\ Deliver(k)
    /\ last_seq_num' = [last_seq_num EXCEPT ![k] = Number(i)]
    /\ accounts' = [accounts EXCEPT ![k] = Narrow(Filled(@, fills[i]))]

\* C++ ClearingClient::process: after a gap every datagram is refused.
Process ==
    LET k == "web_data"  i == read[k] + 1 IN
    /\ Deliver(k)
    /\ IF Gap(k, Number(i)) THEN UNCHANGED <<last_seq_num, accounts>>
       ELSE /\ last_seq_num' = [last_seq_num EXCEPT ![k] = Number(i)]
            /\ accounts' = [accounts EXCEPT ![k] = Narrow(Filled(@, fills[i]))]

\* Mutant: a message after a gap is not applied.
ProcessMessageBeforeGap ==
    LET k == "etf_service"  i == read[k] + 1 IN
    /\ Deliver(k)
    /\ last_seq_num' = [last_seq_num EXCEPT ![k] = Number(i)]
    /\ accounts' = [accounts EXCEPT ![k] = IF Gap(k, Number(i)) THEN @ ELSE Filled(@, fills[i])]

\* Python _process_message and _process_fill: a gap is only logged.
ProcessMessage ==
    LET k == "etf_service"  i == read[k] + 1 IN
    /\ Deliver(k)
    /\ last_seq_num' = [last_seq_num EXCEPT ![k] = Number(i)]
    /\ accounts' = [accounts EXCEPT ![k] = Filled(@, fills[i])]

-----------------------------------------------------------------------------
ClearingInit ==
    /\ fills = <<>>
    /\ joined = {}
    /\ read = [k \in Consumers |-> 0]
    /\ arrived = [k \in Consumers |-> {}]
    /\ last_seq_num = [k \in Consumers |-> 0]
    /\ accounts = [k \in Consumers |-> NoAccounts]

ClearingNext ==
    \/ \E f \in Fills : PublishFill(f)
    \/ \E k \in Consumers : Join(k) \/ Lose(k)
    \/ Process \/ ProcessMessage

-----------------------------------------------------------------------------
(* The properties. *)

\* The accounts that the fills of S add up to.
SumOver(S, Of(_, _)) == [p \in Pairs |-> Total([i \in DOMAIN fills |-> Of(p, fills[i])], S)]
Concerns(p, f) == p = <<f.client, f.symbol>>
Bought(p, f) == IF Concerns(p, f) /\ f.side = "BUY" THEN f.quantity ELSE 0
Sold(p, f) == IF Concerns(p, f) /\ f.side = "SELL" THEN f.quantity ELSE 0

PositionsOf(S) == SumOver(S, LAMBDA p, f : Bought(p, f) - Sold(p, f))
VolumeOf(S) == SumOver(S, LAMBDA p, f : Bought(p, f) + Sold(p, f))
PnlOf(S) == SumOver(S, LAMBDA p, f : (Sold(p, f) - Bought(p, f)) * f.price)

\* The datagrams that arrived before the first one that was lost since the first arrival.
UpToGap(k) ==
    LET first == CHOOSE i \in arrived[k] : \A j \in arrived[k] : i <= j
    IN  IF arrived[k] = {} THEN {}
        ELSE {i \in arrived[k] : first..i \subseteq arrived[k]}

\* The C++ dashboard shows exactly the fills from the first datagram it received up to the
\* first one lost (ClearingClient::process): a gap is noticed wherever it is, nothing after
\* it is counted, and a P&L that fits into 32 bits is exact although the totals it is
\* computed from wrap around.
CppFollowsFeed ==
    LET a == accounts["web_data"]  S == UpToGap("web_data") IN
    \A p \in Pairs :
        /\ a.positions[p] = Signed(PositionsOf(S)[p])
        /\ a.volume[p] = VolumeOf(S)[p] % Word
        /\ PnlOf(S)[p] \in -(Word \div 2)..(Word \div 2 - 1) => a.raw_pnl[p] = PnlOf(S)[p]

\* The ETF service counts every fill that reached it exactly once, also after a gap
\* (_process_message): its positions are off by the lost fills and by nothing else.
PyCountsArrivals ==
    LET a == accounts["etf_service"]  S == arrived["etf_service"] IN
    a.positions = PositionsOf(S) /\ a.volume = VolumeOf(S) /\ a.raw_pnl = PnlOf(S)
=============================================================================
