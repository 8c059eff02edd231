-------------------------- MODULE MarketDataProofs --------------------------
(***************************************************************************)
(* Market data, for any symbols, orders, losses and snapshots: what the    *)
(* snapshot service has listed is the exchange's book at the number that   *)
(* it writes, a client never goes back in the feed, and a client that has  *)
(* recovered has the exchange's book at the number of its last message.    *)
(***************************************************************************)
EXTENDS MarketData, SumProofs, SequenceTheorems

-----------------------------------------------------------------------------
(* The invariant. *)

Ids == {o.id : o \in NewOrders}
Positive == Nat \ {0}
Resting == [symbol : Symbols, side : Side, quantity : Positive]
Entry == [id : Ids, symbol : Symbols, side : Side, quantity : Positive]
Message ==
    [type : {"NEW_ORDER"}, id : Ids, symbol : Symbols, side : Side, quantity : Positive]
      \cup [type : {"MODIFY_ORDER"}, id : Ids, side : Side, quantity : Positive]
      \cup [type : {"DELETE_ORDER"}, id : Ids]
      \cup [type : {"TRADE"}, id : Ids, quantity : Positive]
      \cup [type : {"TRADE_SUMMARY"}, symbol : Symbols]
      \cup [type : {"HEARTBEAT"}]

\* The exchange's orders after the first n messages.
Was(n) == IF n = 0 THEN Nothing ELSE truth[n]

\* Orders of the scenario.
IsOrders(T) == DOMAIN T \subseteq Ids /\ T \in [DOMAIN T -> Resting]
Books == UNION {[D -> Resting] : D \in SUBSET Ids}

\* A message that an exchange with the orders T sends.
Fits(m, T) ==
    /\ m.type = "NEW_ORDER" => m.id \notin DOMAIN T
    /\ m.type \in {"MODIFY_ORDER", "DELETE_ORDER", "TRADE"} => m.id \in DOMAIN T
    /\ m.type = "TRADE" => m.quantity <= T[m.id].quantity
    /\ m.type = "TRADE_SUMMARY" => \E id \in DOMAIN T : T[id].symbol = m.symbol

\* Each message is one that the orders before it allow, and the orders come from messages.
ExchangeOK ==
    /\ scenario \in Scenarios
    /\ feed \in Seq(Message) /\ truth \in Seq(Books) /\ Len(truth) = Len(feed)
    /\ \A n \in 1..Len(feed) :
          truth[n] = After(Was(n - 1), feed[n]) /\ Fits(feed[n], Was(n - 1))
    /\ \A id \in DOMAIN Orders : \E n \in DOMAIN feed : feed[n].type = "NEW_ORDER" /\ feed[n].id = id

\* The orders T, by side, as the service lists them.
SideOf(T, side) ==
    [id \in {x \in DOMAIN T : T[x].side = side} |-> [symbol |-> T[id].symbol, quantity |-> T[id].quantity]]
Mirrors(l, T) == l = [side \in Side |-> SideOf(T, side)]

\* A service that has taken n messages.
Serves(s, n) ==
    /\ s = [orders |-> s.orders, seq |-> s.seq]
    /\ Mirrors(s.orders, Was(n))
    /\ IF n = 0 THEN s.seq = 0 ELSE s.seq \in 0..(n - 1) /\ truth[s.seq + 1] = Was(n)

ServiceOK == heard \in 0..Len(feed) /\ Serves([orders |-> listed, seq |-> written_seq], heard)

\* A sequence of numbers that grow.
Growing(s) == \A a, b \in DOMAIN s : a < b => s[a] < s[b]

\* The client's live packets, those in its buffer and those in the socket, are in order.
LiveOK ==
    /\ live \in Seq(Seq(Numbers)) /\ live_buffer \in Seq(Numbers)
    /\ \A i \in DOMAIN live : live[i] # <<>> /\ Growing(live[i])
    /\ \A i, j \in DOMAIN live : i < j =>
          \A a \in DOMAIN live[i], b \in DOMAIN live[j] : live[i][a] < live[j][b]
    /\ Growing(live_buffer)
    /\ \A a \in DOMAIN live_buffer, j \in DOMAIN live : \A b \in DOMAIN live[j] : live_buffer[a] < live[j][b]

\* The orders T of a symbol, one after the other.
RowOf(row, T, symbol) ==
    /\ \A i \in DOMAIN row :
          /\ row[i].id \in DOMAIN T /\ row[i].symbol = symbol /\ T[row[i].id].symbol = symbol
          /\ row[i].side = T[row[i].id].side /\ row[i].quantity = T[row[i].id].quantity
    /\ \A i, j \in DOMAIN row : row[i].id = row[j].id => i = j
    /\ \A id \in DOMAIN T : T[id].symbol = symbol => \E i \in DOMAIN row : row[i].id = id

\* The number of a message that was published, or none.
Counted(n) == n \in Nat /\ (n = 0 \/ n < Len(feed))

Datagram == [symbol : Symbols, seq : Nat, row : Seq(Entry), from : Nat]

\* A datagram is part of a snapshot of the exchange's orders after message d.seq.
DatagramOK(d) ==
    /\ Counted(d.seq) /\ (d.from = 0 \/ d.from < Len(d.row))
    /\ \A i \in DOMAIN d.row : d.row[i].symbol = d.symbol
    /\ d.seq > 0 => RowOf(d.row, truth[d.seq + 1], d.symbol)

SnapsOK == snaps \in Seq(Datagram) /\ \A i \in DOMAIN snaps : DatagramOK(snaps[i])

\* The books of a client, of orders and symbols that are known.
Kept(books_, symbols) ==
    /\ DOMAIN books_ \subseteq Symbols
    /\ symbols \in [DOMAIN symbols -> Symbols \cup {0}]

ClientOK ==
    /\ mode \in {"off", "waiting", "live", "undefined"} /\ nested \in BOOLEAN
    /\ awaited \in [Symbols -> [Side -> Int]]
    /\ snapshot_complete \in [Symbols -> BOOLEAN]
    /\ snapshot_buffer \in [Symbols -> Seq(Entry)]
    /\ Counted(last_snapshot_seq_num) /\ Counted(last_md_seq_num)
    /\ Kept(symbol_to_order_book, order_to_symbol)
    /\ mode \in {"off", "waiting"} => symbol_to_order_book = Nothing /\ order_to_symbol = Nothing
    /\ mode = "off" => last_md_seq_num = 0

\* A snapshot of the symbol has begun.
Begun(aw, complete, symbol) == complete[symbol] \/ \E side \in Side : aw[symbol][side] >= 0

\* Nothing that a waiting client has still to read is older than its books were, and the snapshot it
\* takes is newer than the first message it has buffered.
WaitOK ==
    mode = "waiting" =>
        /\ \A a \in DOMAIN live_buffer : live_buffer[a] >= last_md_seq_num
        /\ \A i \in DOMAIN live : \A a \in DOMAIN live[i] : live[i][a] >= last_md_seq_num
        /\ \A symbol \in Symbols : Begun(awaited, snapshot_complete, symbol) =>
              live_buffer # <<>> /\ last_snapshot_seq_num > live_buffer[1]

\* The part of the invariant that holds whatever is lost.
DataInv == ExchangeOK /\ ServiceOK /\ LiveOK /\ SnapsOK /\ ClientOK /\ WaitOK

\* Datagrams follow one another: those of a symbol, then the next symbol of the same snapshot,
\* then another snapshot.
Final(d) == d.from + OrdersPerDatagram >= Len(d.row)
Succeeds(d, e) ==
    IF ~Final(d)
    THEN e.symbol = d.symbol /\ e.seq = d.seq /\ e.row = d.row /\ e.from = d.from + OrdersPerDatagram
    ELSE /\ e.from = 0
         /\ \A i \in DOMAIN SymbolRow : d.symbol = SymbolRow[i] =>
               IF i < Len(SymbolRow) THEN e.symbol = SymbolRow[i + 1] /\ e.seq = d.seq
               ELSE e.symbol = SymbolRow[1]
Starts(d) == d.from = 0 /\ d.symbol = SymbolRow[1]
Ends(d) == Final(d) /\ d.symbol = SymbolRow[Len(SymbolRow)]

WholeStream(s) ==
    /\ \A i \in 1..(Len(s) - 1) : Succeeds(s[i], s[i + 1])
    /\ s # <<>> => Ends(s[Len(s)])
AtStart(s) == s = <<>> \/ Starts(s[1])

\* The first k orders of a symbol's row have been taken.
Partly(aw, buffer, symbol, row, k) ==
    /\ Len(buffer[symbol]) = k /\ \A i \in 1..k : buffer[symbol][i] = row[i]
    /\ \A side \in Side : aw[symbol][side] = CountAfter(row, k, side)

\* No snapshot has begun, and the one whose datagrams are being read is being skipped.
Skipping ==
    /\ \A symbol \in Symbols : ~Begun(awaited, snapshot_complete, symbol)
    /\ AtStart(snaps) \/ (live_buffer # <<>> /\ snaps[1].seq <= live_buffer[1])

\* The snapshots of the symbols before the i-th are complete and of one number.
CompleteTo(complete, buffer, seq, i) ==
    /\ \A j \in 1..(i - 1) : /\ complete[SymbolRow[j]]
                             /\ RowOf(buffer[SymbolRow[j]], truth[seq + 1], SymbolRow[j])
    /\ \A j \in i..Len(SymbolRow) : ~complete[SymbolRow[j]]

\* The next datagram goes on with the snapshot that is being taken.
Taking(i) ==
    /\ snaps # <<>> /\ ~Starts(snaps[1])
    /\ snaps[1].symbol = SymbolRow[i] /\ snaps[1].seq = last_snapshot_seq_num
    /\ CompleteTo(snapshot_complete, snapshot_buffer, last_snapshot_seq_num, i)
    /\ snaps[1].from > 0 =>
          Partly(awaited, snapshot_buffer, snaps[1].symbol, snaps[1].row, snaps[1].from)

\* All snapshots are there.
Taken_ == /\ CompleteTo(snapshot_complete, snapshot_buffer, last_snapshot_seq_num, Len(SymbolRow) + 1)
          /\ AtStart(snaps)

\* Snapshots are taken as a whole or not at all.
StreamOK ==
    /\ WholeStream(snaps)
    /\ mode # "waiting" => AtStart(snaps)
    /\ mode = "waiting" =>
          \/ Skipping
          \/ last_snapshot_seq_num > 0 /\ \E i \in DOMAIN SymbolRow : Taking(i)
          \/ last_snapshot_seq_num > 0 /\ Taken_

\* The orders of a symbol: those that books have, and those of T with ids in D.
OrdersIn(books_, symbol) == IF symbol \in DOMAIN books_ THEN books_[symbol].orders ELSE Nothing
AsInBook(order) == [side |-> order.side, price |-> 1, quantity |-> order.quantity]
Part(T, D, symbol) == [id \in {x \in D : T[x].symbol = symbol} |-> AsInBook(T[id])]

\* Books that hold those of the orders T whose ids are in D.
Holds(books_, symbols, T, D) ==
    /\ \A id \in D : /\ id \in DOMAIN symbols /\ symbols[id] = T[id].symbol
                     /\ T[id].symbol \in DOMAIN books_
    /\ \A symbol \in Symbols : OrdersIn(books_, symbol) = Part(T, D, symbol)

\* A live client's books are the exchange's after its last message.
BooksOK ==
    mode = "live" =>
        /\ last_md_seq_num < Len(feed)
        /\ Holds(symbol_to_order_book, order_to_symbol, truth[last_md_seq_num + 1],
                 DOMAIN truth[last_md_seq_num + 1])

\* The whole invariant, of a client that loses no part of a snapshot.
RecoveryInv == DataInv /\ StreamOK /\ BooksOK

-----------------------------------------------------------------------------
(* What the loops compute, step by step. *)

\* f[i] are the exchange's orders after i messages of a packet.
OrdersBy(f, messages, n) ==
    f = [i \in 0..n |-> IF i = 0 THEN Orders ELSE After(f[i - 1], messages[i])]

\* OrdersAfter is such a function.
LEMMA OrdersStepwise ==
    ASSUME NEW messages, Len(messages) \in Nat
    PROVE  \E f : OrdersBy(f, messages, Len(messages)) /\ OrdersAfter(messages) = [i \in 1..Len(messages) |-> f[i]]
  <1> DEFINE N == {n \in Nat : \E f : OrdersBy(f, messages, n)}
  <1>1. 0 \in N
    <2>1. PICK f : f = [i \in 0..0 |-> Orders]
      OBVIOUS
    <2>2. OrdersBy(f, messages, 0)
      BY <2>1 DEF OrdersBy
    <2>3. QED
      BY <2>2
  <1>2. ASSUME NEW n \in 0..(Len(messages) - 1), n \in N
        PROVE  n + 1 \in N
    <2>1. PICK f : OrdersBy(f, messages, n)
      BY <1>2
    <2>2. PICK last : last = After(f[n], messages[n + 1])
      OBVIOUS
    <2>3. PICK g : g = [i \in 0..(n + 1) |-> IF i = n + 1 THEN last ELSE f[i]]
      OBVIOUS
    <2>4. ASSUME NEW i \in 0..(n + 1)
          PROVE  g[i] = IF i = 0 THEN Orders ELSE After(g[i - 1], messages[i])
      <3>1. CASE i = n + 1
        <4>1. i # 0 /\ i - 1 = n /\ n \in 0..(n + 1) /\ n # n + 1
          BY <1>2, <3>1
        <4>2. g[i] = last /\ g[i - 1] = f[n]
          BY <2>3, <3>1, <4>1
        <4>3. QED
          BY <2>2, <3>1, <4>1, <4>2
      <3>2. CASE i # n + 1
        <4>1. i \in 0..n /\ g[i] = f[i]
          BY <1>2, <2>3, <2>4, <3>2
        <4>2. f[i] = IF i = 0 THEN Orders ELSE After(f[i - 1], messages[i])
          BY <2>1, <4>1 DEF OrdersBy
        <4>3. i # 0 => g[i - 1] = f[i - 1]
          BY <1>2, <2>3, <4>1
        <4>4. QED
          BY <4>1, <4>2, <4>3
      <3>3. QED
        BY <3>1, <3>2
    <2>5. OrdersBy(g, messages, n + 1)
      BY <2>3, <2>4 DEF OrdersBy
    <2>6. QED
      BY <1>2, <2>5
  <1>3. Len(messages) \in N
    <2> HIDE DEF N
    <2>1. 0..(Len(messages)) \subseteq N
      BY <1>1, <1>2, CountUp
    <2>2. QED
      BY <2>1
  <1>4. PICK f : f = CHOOSE g : OrdersBy(g, messages, Len(messages))
    OBVIOUS
  <1>5. OrdersBy(f, messages, Len(messages))
    BY <1>3, <1>4
  <1>6. OrdersAfter(messages) = [i \in 1..Len(messages) |-> f[i]]
    BY <1>4 DEF OrdersAfter, OrdersBy
  <1>7. QED
    BY <1>5, <1>6

\* f[k] is the service after k more messages.
CaughtBy(f, n) ==
    f = [i \in 0..n |-> IF i = 0 THEN [orders |-> listed, seq |-> written_seq] ELSE Taken(f[i - 1], heard + i - 1)]

\* CaughtUp is the last of such a function.
LEMMA CaughtStepwise ==
    ASSUME NEW upto, upto - heard \in Nat
    PROVE  \E f : CaughtBy(f, upto - heard) /\ CaughtUp(upto) = f[upto - heard]
  <1> DEFINE N == {n \in Nat : \E f : CaughtBy(f, n)}
  <1>1. 0 \in N
    <2>1. PICK f : f = [i \in 0..0 |-> [orders |-> listed, seq |-> written_seq]]
      OBVIOUS
    <2>2. CaughtBy(f, 0)
      BY <2>1 DEF CaughtBy
    <2>3. QED
      BY <2>2
  <1>2. ASSUME NEW n \in 0..(upto - heard - 1), n \in N
        PROVE  n + 1 \in N
    <2>1. PICK f : CaughtBy(f, n)
      BY <1>2
    <2>2. PICK last : last = Taken(f[n], heard + (n + 1) - 1)
      OBVIOUS
    <2>3. PICK g : g = [i \in 0..(n + 1) |-> IF i = n + 1 THEN last ELSE f[i]]
      OBVIOUS
    <2>4. ASSUME NEW i \in 0..(n + 1)
          PROVE  g[i] = IF i = 0 THEN [orders |-> listed, seq |-> written_seq] ELSE Taken(g[i - 1], heard + i - 1)
      <3>1. CASE i = n + 1
        <4>1. i # 0 /\ i - 1 = n /\ n \in 0..(n + 1) /\ n # n + 1
          BY <1>2, <3>1
        <4>2. g[i] = last /\ g[i - 1] = f[n]
          BY <2>3, <3>1, <4>1
        <4>3. QED
          BY <2>2, <3>1, <4>1, <4>2
      <3>2. CASE i # n + 1
        <4>1. i \in 0..n /\ g[i] = f[i]
          BY <1>2, <2>3, <2>4, <3>2
        <4>2. f[i] = IF i = 0 THEN [orders |-> listed, seq |-> written_seq] ELSE Taken(f[i - 1], heard + i - 1)
          BY <2>1, <4>1 DEF CaughtBy
        <4>3. i # 0 => g[i - 1] = f[i - 1]
          BY <1>2, <2>3, <4>1
        <4>4. QED
          BY <4>1, <4>2, <4>3
      <3>3. QED
        BY <3>1, <3>2
    <2>5. CaughtBy(g, n + 1)
      BY <2>3, <2>4 DEF CaughtBy
    <2>6. QED
      BY <1>2, <2>5
  <1>3. upto - heard \in N
    <2> HIDE DEF N
    <2>1. 0..(upto - heard) \subseteq N
      BY <1>1, <1>2, CountUp
    <2>2. QED
      BY <2>1
  <1>4. PICK f : f = CHOOSE g : CaughtBy(g, upto - heard)
    OBVIOUS
  <1>5. CaughtBy(f, upto - heard)
    BY <1>3, <1>4
  <1>6. CaughtUp(upto) = f[upto - heard]
    BY <1>4 DEF CaughtUp, CaughtBy
  <1>7. QED
    BY <1>5, <1>6

\* f[i] are the datagrams of the first i symbols.
CycleBy(f, seq, rows, n) ==
    f = [i \in 0..n |-> IF i = 0 THEN <<>> ELSE f[i - 1] \o Datagrams(seq, SymbolRow[i], rows[SymbolRow[i]])]

\* Cycle is the last of such a function.
LEMMA CycleStepwise ==
    ASSUME NEW seq, NEW rows, Len(SymbolRow) \in Nat
    PROVE  \E f : CycleBy(f, seq, rows, Len(SymbolRow)) /\ Cycle(seq, rows) = f[Len(SymbolRow)]
  <1> DEFINE N == {n \in Nat : \E f : CycleBy(f, seq, rows, n)}
  <1>1. 0 \in N
    <2>1. PICK f : f = [i \in 0..0 |-> <<>>]
      OBVIOUS
    <2>2. CycleBy(f, seq, rows, 0)
      BY <2>1 DEF CycleBy
    <2>3. QED
      BY <2>2
  <1>2. ASSUME NEW n \in 0..(Len(SymbolRow) - 1), n \in N
        PROVE  n + 1 \in N
    <2>1. PICK f : CycleBy(f, seq, rows, n)
      BY <1>2
    <2>2. PICK last : last = f[n] \o Datagrams(seq, SymbolRow[n + 1], rows[SymbolRow[n + 1]])
      OBVIOUS
    <2>3. PICK g : g = [i \in 0..(n + 1) |-> IF i = n + 1 THEN last ELSE f[i]]
      OBVIOUS
    <2>4. ASSUME NEW i \in 0..(n + 1)
          PROVE  g[i] = IF i = 0 THEN <<>> ELSE g[i - 1] \o Datagrams(seq, SymbolRow[i], rows[SymbolRow[i]])
      <3>1. CASE i = n + 1
        <4>1. i # 0 /\ i - 1 = n /\ n \in 0..(n + 1) /\ n # n + 1
          BY <1>2, <3>1
        <4>2. g[i] = last /\ g[i - 1] = f[n]
          BY <2>3, <3>1, <4>1
        <4>3. QED
          BY <2>2, <3>1, <4>1, <4>2
      <3>2. CASE i # n + 1
        <4>1. i \in 0..n /\ g[i] = f[i]
          BY <1>2, <2>3, <2>4, <3>2
        <4>2. f[i] = IF i = 0 THEN <<>> ELSE f[i - 1] \o Datagrams(seq, SymbolRow[i], rows[SymbolRow[i]])
          BY <2>1, <4>1 DEF CycleBy
        <4>3. i # 0 => g[i - 1] = f[i - 1]
          BY <1>2, <2>3, <4>1
        <4>4. QED
          BY <4>1, <4>2, <4>3
      <3>3. QED
        BY <3>1, <3>2
    <2>5. CycleBy(g, seq, rows, n + 1)
      BY <2>3, <2>4 DEF CycleBy
    <2>6. QED
      BY <1>2, <2>5
  <1>3. Len(SymbolRow) \in N
    <2> HIDE DEF N
    <2>1. 0..(Len(SymbolRow)) \subseteq N
      BY <1>1, <1>2, CountUp
    <2>2. QED
      BY <2>1
  <1>4. PICK f : f = CHOOSE g : CycleBy(g, seq, rows, Len(SymbolRow))
    OBVIOUS
  <1>5. CycleBy(f, seq, rows, Len(SymbolRow))
    BY <1>3, <1>4
  <1>6. Cycle(seq, rows) = f[Len(SymbolRow)]
    BY <1>4 DEF Cycle, CycleBy
  <1>7. QED
    BY <1>5, <1>6

\* f[k] is the client after k orders of a datagram.
TakenBy(f, w, d, n) ==
    f = [i \in 0..n |-> IF i = 0 THEN (IF HasInfo(d) THEN TakeInfo(w, d) ELSE w) ELSE TakeOrder(f[i - 1], d.row[d.from + i])]

\* TakeAll is the last of such a function.
LEMMA TakenStepwise ==
    ASSUME NEW w, NEW d, InDatagram(d) \in Nat
    PROVE  \E f : TakenBy(f, w, d, InDatagram(d)) /\ TakeAll(w, d) = f[InDatagram(d)]
  <1> DEFINE N == {n \in Nat : \E f : TakenBy(f, w, d, n)}
  <1>1. 0 \in N
    <2>1. PICK f : f = [i \in 0..0 |-> (IF HasInfo(d) THEN TakeInfo(w, d) ELSE w)]
      OBVIOUS
    <2>2. TakenBy(f, w, d, 0)
      BY <2>1 DEF TakenBy
    <2>3. QED
      BY <2>2
  <1>2. ASSUME NEW n \in 0..(InDatagram(d) - 1), n \in N
        PROVE  n + 1 \in N
    <2>1. PICK f : TakenBy(f, w, d, n)
      BY <1>2
    <2>2. PICK last : last = TakeOrder(f[n], d.row[d.from + (n + 1)])
      OBVIOUS
    <2>3. PICK g : g = [i \in 0..(n + 1) |-> IF i = n + 1 THEN last ELSE f[i]]
      OBVIOUS
    <2>4. ASSUME NEW i \in 0..(n + 1)
          PROVE  g[i] = IF i = 0 THEN (IF HasInfo(d) THEN TakeInfo(w, d) ELSE w) ELSE TakeOrder(g[i - 1], d.row[d.from + i])
      <3>1. CASE i = n + 1
        <4>1. i # 0 /\ i - 1 = n /\ n \in 0..(n + 1) /\ n # n + 1
          BY <1>2, <3>1
        <4>2. g[i] = last /\ g[i - 1] = f[n]
          BY <2>3, <3>1, <4>1
        <4>3. QED
          BY <2>2, <3>1, <4>1, <4>2
      <3>2. CASE i # n + 1
        <4>1. i \in 0..n /\ g[i] = f[i]
          BY <1>2, <2>3, <2>4, <3>2
        <4>2. f[i] = IF i = 0 THEN (IF HasInfo(d) THEN TakeInfo(w, d) ELSE w) ELSE TakeOrder(f[i - 1], d.row[d.from + i])
          BY <2>1, <4>1 DEF TakenBy
        <4>3. i # 0 => g[i - 1] = f[i - 1]
          BY <1>2, <2>3, <4>1
        <4>4. QED
          BY <4>1, <4>2, <4>3
      <3>3. QED
        BY <3>1, <3>2
    <2>5. TakenBy(g, w, d, n + 1)
      BY <2>3, <2>4 DEF TakenBy
    <2>6. QED
      BY <1>2, <2>5
  <1>3. InDatagram(d) \in N
    <2> HIDE DEF N
    <2>1. 0..(InDatagram(d)) \subseteq N
      BY <1>1, <1>2, CountUp
    <2>2. QED
      BY <2>1
  <1>4. PICK f : f = CHOOSE g : TakenBy(g, w, d, InDatagram(d))
    OBVIOUS
  <1>5. TakenBy(f, w, d, InDatagram(d))
    BY <1>3, <1>4
  <1>6. TakeAll(w, d) = f[InDatagram(d)]
    BY <1>4 DEF TakeAll, TakenBy
  <1>7. QED
    BY <1>5, <1>6

\* f[k] are the books with k orders of a symbol.
PutBy(f, st, buffer, n) ==
    f = [i \in 0..n |-> IF i = 0 THEN st ELSE WithOrder(f[i - 1], buffer[i])]

\* WithBuffer is the last of such a function.
LEMMA PutStepwise ==
    ASSUME NEW st, NEW buffer, Len(buffer) \in Nat
    PROVE  \E f : PutBy(f, st, buffer, Len(buffer)) /\ WithBuffer(st, buffer) = f[Len(buffer)]
  <1> DEFINE N == {n \in Nat : \E f : PutBy(f, st, buffer, n)}
  <1>1. 0 \in N
    <2>1. PICK f : f = [i \in 0..0 |-> st]
      OBVIOUS
    <2>2. PutBy(f, st, buffer, 0)
      BY <2>1 DEF PutBy
    <2>3. QED
      BY <2>2
  <1>2. ASSUME NEW n \in 0..(Len(buffer) - 1), n \in N
        PROVE  n + 1 \in N
    <2>1. PICK f : PutBy(f, st, buffer, n)
      BY <1>2
    <2>2. PICK last : last = WithOrder(f[n], buffer[n + 1])
      OBVIOUS
    <2>3. PICK g : g = [i \in 0..(n + 1) |-> IF i = n + 1 THEN last ELSE f[i]]
      OBVIOUS
    <2>4. ASSUME NEW i \in 0..(n + 1)
          PROVE  g[i] = IF i = 0 THEN st ELSE WithOrder(g[i - 1], buffer[i])
      <3>1. CASE i = n + 1
        <4>1. i # 0 /\ i - 1 = n /\ n \in 0..(n + 1) /\ n # n + 1
          BY <1>2, <3>1
        <4>2. g[i] = last /\ g[i - 1] = f[n]
          BY <2>3, <3>1, <4>1
        <4>3. QED
          BY <2>2, <3>1, <4>1, <4>2
      <3>2. CASE i # n + 1
        <4>1. i \in 0..n /\ g[i] = f[i]
          BY <1>2, <2>3, <2>4, <3>2
        <4>2. f[i] = IF i = 0 THEN st ELSE WithOrder(f[i - 1], buffer[i])
          BY <2>1, <4>1 DEF PutBy
        <4>3. i # 0 => g[i - 1] = f[i - 1]
          BY <1>2, <2>3, <4>1
        <4>4. QED
          BY <4>1, <4>2, <4>3
      <3>3. QED
        BY <3>1, <3>2
    <2>5. PutBy(g, st, buffer, n + 1)
      BY <2>3, <2>4 DEF PutBy
    <2>6. QED
      BY <1>2, <2>5
  <1>3. Len(buffer) \in N
    <2> HIDE DEF N
    <2>1. 0..(Len(buffer)) \subseteq N
      BY <1>1, <1>2, CountUp
    <2>2. QED
      BY <2>1
  <1>4. PICK f : f = CHOOSE g : PutBy(g, st, buffer, Len(buffer))
    OBVIOUS
  <1>5. PutBy(f, st, buffer, Len(buffer))
    BY <1>3, <1>4
  <1>6. WithBuffer(st, buffer) = f[Len(buffer)]
    BY <1>4 DEF WithBuffer, PutBy
  <1>7. QED
    BY <1>5, <1>6

\* f[i] are the books of the first i symbols.
SnapshotBy(f, n) ==
    f = [i \in 0..n |-> IF i = 0 THEN [BookState EXCEPT !.seq = last_snapshot_seq_num] ELSE WithBuffer(f[i - 1], snapshot_buffer[SymbolRow[i]])]

\* SnapshotState is the last of such a function.
LEMMA SnapshotStepwise ==
    ASSUME Len(SymbolRow) \in Nat
    PROVE  \E f : SnapshotBy(f, Len(SymbolRow)) /\ SnapshotState = f[Len(SymbolRow)]
  <1> DEFINE N == {n \in Nat : \E f : SnapshotBy(f, n)}
  <1>1. 0 \in N
    <2>1. PICK f : f = [i \in 0..0 |-> [BookState EXCEPT !.seq = last_snapshot_seq_num]]
      OBVIOUS
    <2>2. SnapshotBy(f, 0)
      BY <2>1 DEF SnapshotBy
    <2>3. QED
      BY <2>2
  <1>2. ASSUME NEW n \in 0..(Len(SymbolRow) - 1), n \in N
        PROVE  n + 1 \in N
    <2>1. PICK f : SnapshotBy(f, n)
      BY <1>2
    <2>2. PICK last : last = WithBuffer(f[n], snapshot_buffer[SymbolRow[n + 1]])
      OBVIOUS
    <2>3. PICK g : g = [i \in 0..(n + 1) |-> IF i = n + 1 THEN last ELSE f[i]]
      OBVIOUS
    <2>4. ASSUME NEW i \in 0..(n + 1)
          PROVE  g[i] = IF i = 0 THEN [BookState EXCEPT !.seq = last_snapshot_seq_num] ELSE WithBuffer(g[i - 1], snapshot_buffer[SymbolRow[i]])
      <3>1. CASE i = n + 1
        <4>1. i # 0 /\ i - 1 = n /\ n \in 0..(n + 1) /\ n # n + 1
          BY <1>2, <3>1
        <4>2. g[i] = last /\ g[i - 1] = f[n]
          BY <2>3, <3>1, <4>1
        <4>3. QED
          BY <2>2, <3>1, <4>1, <4>2
      <3>2. CASE i # n + 1
        <4>1. i \in 0..n /\ g[i] = f[i]
          BY <1>2, <2>3, <2>4, <3>2
        <4>2. f[i] = IF i = 0 THEN [BookState EXCEPT !.seq = last_snapshot_seq_num] ELSE WithBuffer(f[i - 1], snapshot_buffer[SymbolRow[i]])
          BY <2>1, <4>1 DEF SnapshotBy
        <4>3. i # 0 => g[i - 1] = f[i - 1]
          BY <1>2, <2>3, <4>1
        <4>4. QED
          BY <4>1, <4>2, <4>3
      <3>3. QED
        BY <3>1, <3>2
    <2>5. SnapshotBy(g, n + 1)
      BY <2>3, <2>4 DEF SnapshotBy
    <2>6. QED
      BY <1>2, <2>5
  <1>3. Len(SymbolRow) \in N
    <2> HIDE DEF N
    <2>1. 0..(Len(SymbolRow)) \subseteq N
      BY <1>1, <1>2, CountUp
    <2>2. QED
      BY <2>1
  <1>4. PICK f : f = CHOOSE g : SnapshotBy(g, Len(SymbolRow))
    OBVIOUS
  <1>5. SnapshotBy(f, Len(SymbolRow))
    BY <1>3, <1>4
  <1>6. SnapshotState = f[Len(SymbolRow)]
    BY <1>4 DEF SnapshotState, SnapshotBy
  <1>7. QED
    BY <1>5, <1>6

\* f[k] are the books after k buffered messages.
BufferBy(f, n) ==
    f = [i \in 0..n |-> IF i = 0 THEN SnapshotState ELSE ProcessBuffered(f[i - 1], live_buffer[i])]

\* BufferProcessed is the last of such a function.
LEMMA BufferStepwise ==
    ASSUME Len(live_buffer) \in Nat
    PROVE  \E f : BufferBy(f, Len(live_buffer)) /\ BufferProcessed = f[Len(live_buffer)]
  <1> DEFINE N == {n \in Nat : \E f : BufferBy(f, n)}
  <1>1. 0 \in N
    <2>1. PICK f : f = [i \in 0..0 |-> SnapshotState]
      OBVIOUS
    <2>2. BufferBy(f, 0)
      BY <2>1 DEF BufferBy
    <2>3. QED
      BY <2>2
  <1>2. ASSUME NEW n \in 0..(Len(live_buffer) - 1), n \in N
        PROVE  n + 1 \in N
    <2>1. PICK f : BufferBy(f, n)
      BY <1>2
    <2>2. PICK last : last = ProcessBuffered(f[n], live_buffer[n + 1])
      OBVIOUS
    <2>3. PICK g : g = [i \in 0..(n + 1) |-> IF i = n + 1 THEN last ELSE f[i]]
      OBVIOUS
    <2>4. ASSUME NEW i \in 0..(n + 1)
          PROVE  g[i] = IF i = 0 THEN SnapshotState ELSE ProcessBuffered(g[i - 1], live_buffer[i])
      <3>1. CASE i = n + 1
        <4>1. i # 0 /\ i - 1 = n /\ n \in 0..(n + 1) /\ n # n + 1
          BY <1>2, <3>1
        <4>2. g[i] = last /\ g[i - 1] = f[n]
          BY <2>3, <3>1, <4>1
        <4>3. QED
          BY <2>2, <3>1, <4>1, <4>2
      <3>2. CASE i # n + 1
        <4>1. i \in 0..n /\ g[i] = f[i]
          BY <1>2, <2>3, <2>4, <3>2
        <4>2. f[i] = IF i = 0 THEN SnapshotState ELSE ProcessBuffered(f[i - 1], live_buffer[i])
          BY <2>1, <4>1 DEF BufferBy
        <4>3. i # 0 => g[i - 1] = f[i - 1]
          BY <1>2, <2>3, <4>1
        <4>4. QED
          BY <4>1, <4>2, <4>3
      <3>3. QED
        BY <3>1, <3>2
    <2>5. BufferBy(g, n + 1)
      BY <2>3, <2>4 DEF BufferBy
    <2>6. QED
      BY <1>2, <2>5
  <1>3. Len(live_buffer) \in N
    <2> HIDE DEF N
    <2>1. 0..(Len(live_buffer)) \subseteq N
      BY <1>1, <1>2, CountUp
    <2>2. QED
      BY <2>1
  <1>4. PICK f : f = CHOOSE g : BufferBy(g, Len(live_buffer))
    OBVIOUS
  <1>5. BufferBy(f, Len(live_buffer))
    BY <1>3, <1>4
  <1>6. BufferProcessed = f[Len(live_buffer)]
    BY <1>4 DEF BufferProcessed, BufferBy
  <1>7. QED
    BY <1>5, <1>6

\* f[k] are the books after k messages of a packet.
PacketBy(f, packet, n) ==
    f = [i \in 0..n |-> IF i = 0 THEN BookState ELSE ProcessMessage(f[i - 1], packet[i])]

\* PacketProcessed is the last of such a function.
LEMMA PacketStepwise ==
    ASSUME NEW packet, Len(packet) \in Nat
    PROVE  \E f : PacketBy(f, packet, Len(packet)) /\ PacketProcessed(packet) = f[Len(packet)]
  <1> DEFINE N == {n \in Nat : \E f : PacketBy(f, packet, n)}
  <1>1. 0 \in N
    <2>1. PICK f : f = [i \in 0..0 |-> BookState]
      OBVIOUS
    <2>2. PacketBy(f, packet, 0)
      BY <2>1 DEF PacketBy
    <2>3. QED
      BY <2>2
  <1>2. ASSUME NEW n \in 0..(Len(packet) - 1), n \in N
        PROVE  n + 1 \in N
    <2>1. PICK f : PacketBy(f, packet, n)
      BY <1>2
    <2>2. PICK last : last = ProcessMessage(f[n], packet[n + 1])
      OBVIOUS
    <2>3. PICK g : g = [i \in 0..(n + 1) |-> IF i = n + 1 THEN last ELSE f[i]]
      OBVIOUS
    <2>4. ASSUME NEW i \in 0..(n + 1)
          PROVE  g[i] = IF i = 0 THEN BookState ELSE ProcessMessage(g[i - 1], packet[i])
      <3>1. CASE i = n + 1
        <4>1. i # 0 /\ i - 1 = n /\ n \in 0..(n + 1) /\ n # n + 1
          BY <1>2, <3>1
        <4>2. g[i] = last /\ g[i - 1] = f[n]
          BY <2>3, <3>1, <4>1
        <4>3. QED
          BY <2>2, <3>1, <4>1, <4>2
      <3>2. CASE i # n + 1
        <4>1. i \in 0..n /\ g[i] = f[i]
          BY <1>2, <2>3, <2>4, <3>2
        <4>2. f[i] = IF i = 0 THEN BookState ELSE ProcessMessage(f[i - 1], packet[i])
          BY <2>1, <4>1 DEF PacketBy
        <4>3. i # 0 => g[i - 1] = f[i - 1]
          BY <1>2, <2>3, <4>1
        <4>4. QED
          BY <4>1, <4>2, <4>3
      <3>3. QED
        BY <3>1, <3>2
    <2>5. PacketBy(g, packet, n + 1)
      BY <2>3, <2>4 DEF PacketBy
    <2>6. QED
      BY <1>2, <2>5
  <1>3. Len(packet) \in N
    <2> HIDE DEF N
    <2>1. 0..(Len(packet)) \subseteq N
      BY <1>1, <1>2, CountUp
    <2>2. QED
      BY <2>1
  <1>4. PICK f : f = CHOOSE g : PacketBy(g, packet, Len(packet))
    OBVIOUS
  <1>5. PacketBy(f, packet, Len(packet))
    BY <1>3, <1>4
  <1>6. PacketProcessed(packet) = f[Len(packet)]
    BY <1>4 DEF PacketProcessed, PacketBy
  <1>7. QED
    BY <1>5, <1>6

-----------------------------------------------------------------------------
(* The constants, and maps. *)

LEMMA Constants ==
    /\ Len(SymbolRow) \in Nat /\ Len(SymbolRow) >= 1 /\ DOMAIN SymbolRow = 1..Len(SymbolRow)
    /\ \A i \in 1..Len(SymbolRow) : SymbolRow[i] \in Symbols
    /\ \A symbol \in Symbols : \E i \in 1..Len(SymbolRow) : symbol = SymbolRow[i]
    /\ \A i, j \in 1..Len(SymbolRow) : SymbolRow[i] = SymbolRow[j] => i = j
    /\ OrdersPerDatagram \in Nat /\ OrdersPerDatagram >= 1
  BY MarketDataAssumption DEF Symbols

LEMMA SameSymbol ==
    ASSUME NEW i \in DOMAIN SymbolRow, NEW j \in DOMAIN SymbolRow, SymbolRow[i] = SymbolRow[j]
    PROVE  i = j
  BY MarketDataAssumption

LEMMA ScenarioConstants ==
    ASSUME scenario \in Scenarios
    PROVE  /\ Quantities \subseteq Positive /\ IsFiniteSet(Ids)
           /\ \A o \in NewOrders : o.id \in Ids /\ o.symbol \in Symbols /\ o.side \in Side /\ o.quantity \in Positive
  <1>1. /\ scenario.MaxQuantity \in Nat /\ IsFiniteSet(NewOrders)
        /\ \A o \in NewOrders : o.symbol \in Symbols /\ o.side \in Side /\ o.quantity \in 1..scenario.MaxQuantity
    BY MarketDataAssumption DEF NewOrders
  <1>2. IsFiniteSet(Ids)
    <2>1. PICK S : S = NewOrders
      OBVIOUS
    <2>2. PICK idOf : idOf = [o \in S |-> o.id]
      OBVIOUS
    <2>3. IsFiniteSet({idOf[o] : o \in S})
      <3>1. idOf \in Surjection(S, {idOf[o] : o \in S})
        BY <2>2 DEF Surjection
      <3>2. QED
        BY <1>1, <2>1, <3>1, FS_Surjection
    <2>4. Ids = {idOf[o] : o \in S}
      BY <2>1, <2>2 DEF Ids
    <2>5. QED
      BY <2>3, <2>4
  <1>3. QED
    BY <1>1, <1>2 DEF Quantities, Positive, Ids

\* Maps with an element more and an element less.
LEMMA Maps ==
    ASSUME NEW f, NEW x, NEW y
    PROVE  /\ DOMAIN With(f, x, y) = DOMAIN f \cup {x}
           /\ With(f, x, y)[x] = y /\ \A z \in DOMAIN f : z # x => With(f, x, y)[z] = f[z]
           /\ DOMAIN Without(f, x) = DOMAIN f \ {x}
           /\ \A z \in DOMAIN f : z # x => Without(f, x)[z] = f[z]
           /\ With(f, x, y) = [z \in DOMAIN f \cup {x} |-> IF z = x THEN y ELSE f[z]]
           /\ Without(f, x) = [z \in DOMAIN f \ {x} |-> f[z]]
  BY DEF With, Without, Funs!Restrict

\* The sequence c is a and then b.
IsJoin(S, a, b, c) ==
    /\ c \in Seq(S) /\ Len(a) \in Nat /\ Len(b) \in Nat /\ Len(c) = Len(a) + Len(b)
    /\ \A i \in 1..Len(a) : c[i] = a[i]
    /\ \A i \in 1..Len(b) : c[Len(a) + i] = b[i]

LEMMA Joined ==
    ASSUME NEW S, NEW a \in Seq(S), NEW b \in Seq(S), NEW c, c = a \o b
    PROVE  IsJoin(S, a, b, c)
  BY DEF IsJoin

LEMMA NothingIsEmpty ==
    /\ DOMAIN Nothing = {} /\ \A S : Nothing \in [{} -> S]
    /\ \A f : f = [x \in DOMAIN f |-> f[x]] /\ DOMAIN f = {} => f = Nothing
  <1>1. DOMAIN Nothing = {} /\ \A S : Nothing \in [{} -> S]
    BY DEF Nothing
  <1>2. ASSUME NEW f, f = [x \in DOMAIN f |-> f[x]], DOMAIN f = {}
        PROVE  f = Nothing
    BY <1>1, <1>2 DEF Nothing
  <1>3. QED
    BY <1>1, <1>2

-----------------------------------------------------------------------------
(* The exchange. *)

\* The fields of a message.
LEMMA MessageFields ==
    ASSUME NEW m \in Message
    PROVE  /\ m.type \in {"NEW_ORDER", "MODIFY_ORDER", "DELETE_ORDER", "TRADE", "TRADE_SUMMARY", "HEARTBEAT"}
           /\ m.type \in {"NEW_ORDER", "MODIFY_ORDER", "DELETE_ORDER", "TRADE"} => m.id \in Ids
           /\ m.type \in {"NEW_ORDER", "TRADE_SUMMARY"} => m.symbol \in Symbols
           /\ m.type \in {"NEW_ORDER", "MODIFY_ORDER"} => m.side \in Side
           /\ m.type \in {"NEW_ORDER", "MODIFY_ORDER", "TRADE"} => m.quantity \in Positive
  <1>1. CASE m \in [type : {"NEW_ORDER"}, id : Ids, symbol : Symbols, side : Side, quantity : Positive]
    BY <1>1
  <1>2. CASE m \in [type : {"MODIFY_ORDER"}, id : Ids, side : Side, quantity : Positive]
    BY <1>2
  <1>3. CASE m \in [type : {"DELETE_ORDER"}, id : Ids]
    BY <1>3
  <1>4. CASE m \in [type : {"TRADE"}, id : Ids, quantity : Positive]
    BY <1>4
  <1>5. CASE m \in [type : {"TRADE_SUMMARY"}, symbol : Symbols] \/ m \in [type : {"HEARTBEAT"}]
    BY <1>5
  <1>6. QED
    BY <1>1, <1>2, <1>3, <1>4, <1>5 DEF Message

\* What a message says of the orders, by its type.
LEMMA AfterIs ==
    ASSUME NEW T, NEW m \in Message
    PROVE  /\ m.type = "NEW_ORDER" => After(T, m) =
                 With(T, m.id, [symbol |-> m.symbol, side |-> m.side, quantity |-> m.quantity])
           /\ m.type = "MODIFY_ORDER" => After(T, m) = [T EXCEPT ![m.id].side = m.side, ![m.id].quantity = m.quantity]
           /\ m.type = "DELETE_ORDER" => After(T, m) = Without(T, m.id)
           /\ m.type = "TRADE" => After(T, m) =
                 IF m.quantity = T[m.id].quantity THEN Without(T, m.id)
                 ELSE [T EXCEPT ![m.id].quantity = @ - m.quantity]
           /\ m.type \in {"TRADE_SUMMARY", "HEARTBEAT"} => After(T, m) = T
  BY DEF After

\* The message m turns the orders T into U.
Turns(T, m, U) ==
    /\ IsOrders(U)
    /\ m.type = "NEW_ORDER" =>
          /\ DOMAIN U = DOMAIN T \cup {m.id}
          /\ U[m.id] = [symbol |-> m.symbol, side |-> m.side, quantity |-> m.quantity]
          /\ \A id \in DOMAIN T : U[id] = T[id]
    /\ m.type = "MODIFY_ORDER" =>
          /\ DOMAIN U = DOMAIN T
          /\ U[m.id] = [symbol |-> T[m.id].symbol, side |-> m.side, quantity |-> m.quantity]
          /\ \A id \in DOMAIN T : id # m.id => U[id] = T[id]
    /\ m.type = "DELETE_ORDER" \/ (m.type = "TRADE" /\ m.quantity = T[m.id].quantity) =>
          /\ DOMAIN U = DOMAIN T \ {m.id}
          /\ \A id \in DOMAIN U : U[id] = T[id]
    /\ m.type = "TRADE" /\ m.quantity # T[m.id].quantity =>
          /\ DOMAIN U = DOMAIN T
          /\ U[m.id] = [symbol |-> T[m.id].symbol, side |-> T[m.id].side,
                        quantity |-> T[m.id].quantity - m.quantity]
          /\ \A id \in DOMAIN T : id # m.id => U[id] = T[id]
    /\ m.type \in {"TRADE_SUMMARY", "HEARTBEAT"} => U = T

\* The orders after a message, one by one.
LEMMA AfterOrders ==
    ASSUME NEW T, IsOrders(T), NEW m \in Message, Fits(m, T), NEW U, U = After(T, m)
    PROVE  Turns(T, m, U)
  <1>1. U = After(T, m)
    OBVIOUS
  <1>2. DOMAIN T \subseteq Ids /\ T \in [DOMAIN T -> Resting] /\ \A id \in DOMAIN T : T[id] \in Resting
    BY DEF IsOrders
  <1>3. \A r \in Resting : /\ r = [symbol |-> r.symbol, side |-> r.side, quantity |-> r.quantity]
                           /\ r.symbol \in Symbols /\ r.side \in Side /\ r.quantity \in Positive
    BY DEF Resting
  <1>4. CASE m.type = "NEW_ORDER"
    <2>1. PICK r : r = [symbol |-> m.symbol, side |-> m.side, quantity |-> m.quantity]
      OBVIOUS
    <2>2. r \in Resting /\ m.id \in Ids /\ m.id \notin DOMAIN T
      BY <1>4, <2>1, MessageFields DEF Resting, Fits
    <2>3. U = With(T, m.id, r)
      BY <1>1, <1>4, <2>1, AfterIs
    <2>4. /\ DOMAIN U = DOMAIN T \cup {m.id} /\ U[m.id] = r /\ \A id \in DOMAIN T : U[id] = T[id]
          /\ U = [z \in DOMAIN T \cup {m.id} |-> IF z = m.id THEN r ELSE T[z]]
      BY <2>2, <2>3 DEF With
    <2>5. IsOrders(U)
      BY <1>2, <2>2, <2>4 DEF IsOrders
    <2>6. QED
      BY <1>4, <2>1, <2>4, <2>5 DEF Turns
  <1>5. CASE m.type = "MODIFY_ORDER"
    <2>1. m.id \in DOMAIN T /\ m.side \in Side /\ m.quantity \in Positive
      BY <1>5, MessageFields DEF Fits
    <2>2. U = [T EXCEPT ![m.id].side = m.side, ![m.id].quantity = m.quantity]
      BY <1>1, <1>5, AfterIs
    <2>3. /\ DOMAIN U = DOMAIN T /\ \A id \in DOMAIN T : id # m.id => U[id] = T[id]
          /\ U[m.id] = [symbol |-> T[m.id].symbol, side |-> m.side, quantity |-> m.quantity]
      <3>1. PICK i, sd, q : i = m.id /\ sd = m.side /\ q = m.quantity
        OBVIOUS
      <3>2. PICK r : r = T[i]
        OBVIOUS
      <3>3. i \in DOMAIN T /\ r = [symbol |-> r.symbol, side |-> r.side, quantity |-> r.quantity]
        BY <1>2, <1>3, <2>1, <3>1, <3>2
      <3>4. U = [T EXCEPT ![i] = [[r EXCEPT !.side = sd] EXCEPT !.quantity = q]]
        BY <2>2, <3>1, <3>2, <3>3
      <3>5. [[r EXCEPT !.side = sd] EXCEPT !.quantity = q] = [symbol |-> r.symbol, side |-> sd, quantity |-> q]
        <4>1. PICK x, y, z : r = [symbol |-> x, side |-> y, quantity |-> z]
          BY <3>3
        <4>2. [r EXCEPT !.side = sd] = [symbol |-> x, side |-> sd, quantity |-> z]
          BY <4>1
        <4>3. [[symbol |-> x, side |-> sd, quantity |-> z] EXCEPT !.quantity = q]
                = [symbol |-> x, side |-> sd, quantity |-> q]
          OBVIOUS
        <4>4. QED
          BY <4>1, <4>2, <4>3
      <3>6. QED
        BY <3>1, <3>2, <3>3, <3>4, <3>5
    <2>4. U[m.id] \in Resting
      BY <1>2, <1>3, <2>1, <2>3 DEF Resting
    <2>5. U = [z \in DOMAIN T |-> U[z]]
      BY <2>2
    <2>6. IsOrders(U)
      BY <1>2, <2>3, <2>4, <2>5 DEF IsOrders
    <2>7. QED
      BY <1>5, <2>3, <2>6 DEF Turns
  <1>6. CASE m.type = "DELETE_ORDER" \/ (m.type = "TRADE" /\ m.quantity = T[m.id].quantity)
    <2>1. U = Without(T, m.id)
      BY <1>1, <1>6, AfterIs
    <2>2. /\ DOMAIN U = DOMAIN T \ {m.id} /\ \A id \in DOMAIN U : U[id] = T[id]
          /\ U = [z \in DOMAIN T \ {m.id} |-> T[z]]
      BY <2>1 DEF Without, Funs!Restrict
    <2>3. IsOrders(U)
      BY <1>2, <2>2 DEF IsOrders
    <2>4. QED
      BY <1>6, <2>2, <2>3 DEF Turns
  <1>7. CASE m.type = "TRADE" /\ m.quantity # T[m.id].quantity
    <2>1. m.id \in DOMAIN T /\ m.quantity \in Positive /\ m.quantity <= T[m.id].quantity
      BY <1>7, MessageFields DEF Fits
    <2>2. U = [T EXCEPT ![m.id].quantity = @ - m.quantity]
      BY <1>1, <1>7, AfterIs
    <2>3. /\ DOMAIN U = DOMAIN T /\ \A id \in DOMAIN T : id # m.id => U[id] = T[id]
          /\ U[m.id] = [symbol |-> T[m.id].symbol, side |-> T[m.id].side,
                        quantity |-> T[m.id].quantity - m.quantity]
      BY <1>2, <1>3, <2>1, <2>2
    <2>4. T[m.id].quantity - m.quantity \in Positive
      BY <1>2, <1>3, <1>7, <2>1 DEF Positive
    <2>5. U[m.id] \in Resting
      BY <1>2, <1>3, <2>1, <2>3, <2>4 DEF Resting
    <2>6. U = [z \in DOMAIN T |-> U[z]]
      BY <2>2
    <2>7. IsOrders(U)
      BY <1>2, <2>3, <2>5, <2>6 DEF IsOrders
    <2>8. QED
      BY <1>7, <2>3, <2>7 DEF Turns
  <1>8. CASE m.type \in {"TRADE_SUMMARY", "HEARTBEAT"}
    BY <1>8, AfterIs DEF Turns
  <1>9. QED
    BY <1>4, <1>5, <1>6, <1>7, <1>8, MessageFields

LEMMA BooksAreOrders ==
    ASSUME NEW T
    PROVE  IsOrders(T) <=> T \in Books
  BY DEF IsOrders, Books

\* The orders now are those after the last message.
LEMMA OrdersNow ==
    ASSUME ExchangeOK
    PROVE  /\ Orders = Was(Len(feed)) /\ IsOrders(Orders) /\ Len(feed) \in Nat /\ DOMAIN feed = 1..Len(feed)
           /\ DOMAIN truth = 1..Len(feed) /\ \A n \in 0..Len(feed) : IsOrders(Was(n))
  <1>1. Len(feed) \in Nat /\ DOMAIN feed = 1..Len(feed) /\ DOMAIN truth = 1..Len(feed) /\ Len(truth) = Len(feed)
    BY DEF ExchangeOK
  <1>2. Orders = Was(Len(feed))
    <2>1. truth = <<>> <=> Len(truth) = 0
      BY EmptySeq DEF ExchangeOK
    <2>2. QED
      BY <1>1, <2>1 DEF Orders, Was
  <1>3. IsOrders(Nothing)
    BY NothingIsEmpty DEF IsOrders
  <1>4. \A n \in 1..Len(feed) : IsOrders(truth[n])
    <2>1. \A n \in 1..Len(feed) : truth[n] \in Books
      BY <1>1 DEF ExchangeOK
    <2>2. QED
      BY <2>1, BooksAreOrders
  <1>5. \A n \in 0..Len(feed) : IsOrders(Was(n))
    BY <1>1, <1>3, <1>4 DEF Was
  <1>6. Len(feed) \in 0..Len(feed)
    BY <1>1
  <1>7. QED
    BY <1>1, <1>2, <1>5, <1>6

\* An order was entered by one of the messages.
Entered(id, messages) == \E n \in DOMAIN messages : messages[n].type = "NEW_ORDER" /\ messages[n].id = id

\* A packet that the exchange can send.
Sendable(messages) ==
    /\ messages \in Seq(Message) /\ messages # <<>>
    /\ \A f : OrdersBy(f, messages, Len(messages)) =>
          \A i \in 1..Len(messages) : Fits(messages[i], f[i - 1])

\* The orders after the messages of a packet.
LEMMA PacketOrders ==
    ASSUME ExchangeOK, NEW messages, Sendable(messages), NEW f, OrdersBy(f, messages, Len(messages))
    PROVE  /\ \A i \in 0..Len(messages) : IsOrders(f[i])
           /\ \A i \in 0..Len(messages) : \A id \in DOMAIN f[i] : Entered(id, feed) \/ Entered(id, messages)
           /\ \A i \in 1..Len(messages) : f[i] = After(f[i - 1], messages[i])
           /\ f[0] = Orders
  <1> DEFINE N == {i \in 0..Len(messages) :
                     IsOrders(f[i]) /\ \A id \in DOMAIN f[i] : Entered(id, feed) \/ Entered(id, messages)}
  <1>1. /\ Len(messages) \in Nat /\ DOMAIN messages = 1..Len(messages)
        /\ \A i \in 1..Len(messages) : messages[i] \in Message /\ Fits(messages[i], f[i - 1])
    BY DEF Sendable
  <1>2. f[0] = Orders /\ \A i \in 1..Len(messages) : f[i] = After(f[i - 1], messages[i])
    BY <1>1 DEF OrdersBy
  <1>3. 0 \in N
    BY <1>1, <1>2, OrdersNow DEF ExchangeOK, Entered
  <1>4. ASSUME NEW i \in 0..(Len(messages) - 1), i \in N
        PROVE  i + 1 \in N
    <2>1. i + 1 \in 1..Len(messages) /\ (i + 1) - 1 = i /\ i + 1 \in 0..Len(messages)
      BY <1>1
    <2>2. PICK T, U, m : T = f[i] /\ U = f[i + 1] /\ m = messages[i + 1]
      OBVIOUS
    <2>3. U = After(T, m) /\ m \in Message /\ Fits(m, T) /\ IsOrders(T)
      BY <1>1, <1>2, <1>4, <2>1, <2>2
    <2>4. IsOrders(U) /\ \A id \in DOMAIN U : id \in DOMAIN T \/ (m.type = "NEW_ORDER" /\ m.id = id)
      <3>1. Turns(T, m, U)
        BY <2>3, AfterOrders
      <3>2. QED
        BY <2>3, <3>1, MessageFields DEF Turns
    <2>5. ASSUME NEW id \in DOMAIN U PROVE Entered(id, feed) \/ Entered(id, messages)
      BY <1>1, <1>4, <2>1, <2>2, <2>4, <2>5 DEF Entered
    <2>6. QED
      BY <2>1, <2>2, <2>4, <2>5
  <1>5. 0..Len(messages) \subseteq N
    <2> HIDE DEF N
    <2>1. QED
      BY <1>1, <1>3, <1>4, CountUp
  <1>6. QED
    BY <1>2, <1>5

\* The messages are published.
Published(messages) == feed' = feed \o messages /\ truth' = truth \o OrdersAfter(messages)

\* Publishing a packet adds its messages to the feed, each with the orders after it.
LEMMA PublishKeepsExchange ==
    ASSUME ExchangeOK, NEW messages, Sendable(messages), UNCHANGED scenario, Published(messages)
    PROVE  /\ ExchangeOK' /\ Len(feed') = Len(feed) + Len(messages)
           /\ \A n \in 1..Len(feed) : feed'[n] = feed[n] /\ truth'[n] = truth[n]
  <1>1. Len(messages) \in Nat /\ messages \in Seq(Message)
    BY DEF Sendable
  <1>2. PICK f : OrdersBy(f, messages, Len(messages)) /\ OrdersAfter(messages) = [i \in 1..Len(messages) |-> f[i]]
    BY <1>1, OrdersStepwise
  <1>3. /\ \A i \in 0..Len(messages) : IsOrders(f[i])
        /\ \A i \in 0..Len(messages) : \A id \in DOMAIN f[i] : Entered(id, feed) \/ Entered(id, messages)
        /\ \A i \in 1..Len(messages) : f[i] = After(f[i - 1], messages[i])
        /\ f[0] = Orders
    BY <1>2, PacketOrders
  <1>4. PICK l, e, more : l = Len(feed) /\ e = Len(messages) /\ more = OrdersAfter(messages)
    OBVIOUS
  <1>6. /\ l \in Nat /\ e \in Nat /\ e >= 1 /\ feed \in Seq(Message) /\ truth \in Seq(Books) /\ Len(truth) = l
        /\ more \in Seq(Books) /\ Len(more) = e /\ \A i \in 1..e : more[i] = f[i]
    <2>1. l \in Nat /\ e \in Nat /\ feed \in Seq(Message) /\ Len(truth) = l /\ truth \in Seq(Books)
      BY <1>1, <1>4 DEF ExchangeOK
    <2>2. more \in Seq(Books) /\ Len(more) = e /\ \A i \in 1..e : more[i] = f[i]
      <3>1. more = [i \in 1..e |-> f[i]]
        BY <1>2, <1>4
      <3>2. \A i \in 1..e : f[i] \in Books
        BY <1>3, <1>4, <2>1, BooksAreOrders
      <3>3. QED
        BY <2>1, <3>1, <3>2
    <2>3. e >= 1
      BY <1>1, <1>4, <2>1, EmptySeq DEF Sendable
    <2>4. QED
      BY <2>1, <2>2, <2>3
  <1>7. /\ feed' \in Seq(Message) /\ Len(feed') = l + e /\ truth' \in Seq(Books) /\ Len(truth') = l + e
        /\ \A n \in 1..l : feed'[n] = feed[n] /\ truth'[n] = truth[n]
        /\ \A i \in 1..e : feed'[l + i] = messages[i] /\ truth'[l + i] = f[i]
    <2>1. PICK F : F = feed \o messages
      OBVIOUS
    <2>2. PICK G : G = truth \o more
      OBVIOUS
    <2>3. IsJoin(Message, feed, messages, F)
      BY <1>1, <1>6, <2>1, Joined
    <2>4. IsJoin(Books, truth, more, G)
      BY <1>6, <2>2, Joined
    <2>5. feed' = F /\ truth' = G
      BY <1>4, <2>1, <2>2 DEF Published
    <2>6. QED
      BY <1>4, <1>6, <2>3, <2>4, <2>5 DEF IsJoin
  <1>8. /\ \A n \in 0..l : (Was(n))' = Was(n)
        /\ \A i \in 0..e : (Was(l + i))' = f[i]
    <2>1. \A n \in 0..l : (Was(n))' = Was(n)
      BY <1>6, <1>7 DEF Was
    <2>2. Was(l) = f[0] /\ l \in 0..l
      BY <1>3, <1>4, <1>6, OrdersNow
    <2>3. ASSUME NEW i \in 1..e PROVE (Was(l + i))' = f[i]
      <3>1. l + i # 0 /\ truth'[l + i] = f[i]
        BY <1>6, <1>7
      <3>2. QED
        BY <3>1 DEF Was
    <2>4. (Was(l + 0))' = f[0]
      BY <1>6, <2>1, <2>2
    <2>5. QED
      BY <1>6, <2>1, <2>3, <2>4
  <1>9. Ids' = Ids /\ \A T : IsOrders(T)' <=> IsOrders(T)
    BY DEF Ids, NewOrders, IsOrders
  <1>10. Message' = Message /\ Books' = Books
    BY <1>9 DEF Message, Books
  <1>11. ASSUME NEW n \in 1..(l + e)
         PROVE  /\ truth'[n] = After((Was(n - 1))', feed'[n])
                /\ Fits(feed'[n], (Was(n - 1))')
    <2>1. CASE n \in 1..l
      <3>1. n - 1 \in 0..l /\ (Was(n - 1))' = Was(n - 1)
        BY <1>6, <1>8, <2>1
      <3>2. QED
        BY <1>4, <1>7, <2>1, <3>1 DEF ExchangeOK
    <2>2. CASE n \notin 1..l
      <3>1. PICK i \in 1..e : n = l + i
        <4>1. n - l \in 1..e /\ n = l + (n - l)
          BY <1>6, <1>11, <2>2
        <4>2. QED
          BY <4>1
      <3>2. i - 1 \in 0..e /\ n - 1 = l + (i - 1) /\ i \in 0..e
        BY <1>6, <3>1
      <3>3. (Was(n - 1))' = f[i - 1]
        BY <1>8, <3>2
      <3>4. Fits(messages[i], f[i - 1])
        BY <1>2, <1>4 DEF Sendable
      <3>5. QED
        BY <1>3, <1>4, <1>7, <3>1, <3>2, <3>3, <3>4
    <2>3. QED
      BY <2>1, <2>2
  <1>12. Orders' = f[e]
    <2>1. truth' # <<>> /\ truth'[l + e] = f[e]
      <3>1. l + e # 0 /\ e \in 1..e /\ truth' \in Seq(Books) /\ Len(truth') = l + e
        BY <1>6, <1>7
      <3>2. QED
        BY <1>7, <3>1, EmptySeq
    <2>2. QED
      BY <1>7, <2>1 DEF Orders
  <1>13. ASSUME NEW id \in DOMAIN Orders'
         PROVE  \E n \in DOMAIN feed' : feed'[n].type = "NEW_ORDER" /\ feed'[n].id = id
    <2>1. Entered(id, feed) \/ Entered(id, messages)
      <3>1. e \in 0..Len(messages) /\ id \in DOMAIN f[e]
        BY <1>4, <1>6, <1>12, <1>13
      <3>2. QED
        BY <1>3, <3>1
    <2>2. DOMAIN feed = 1..l /\ DOMAIN messages = 1..e /\ DOMAIN feed' = 1..(l + e)
      BY <1>1, <1>4, <1>6, <1>7
    <2>3. CASE Entered(id, feed)
      <3>1. PICK n \in 1..l : feed[n].type = "NEW_ORDER" /\ feed[n].id = id
        BY <2>2, <2>3 DEF Entered
      <3>2. n \in 1..(l + e)
        BY <1>6
      <3>3. QED
        BY <1>7, <2>2, <3>1, <3>2
    <2>4. CASE Entered(id, messages)
      <3>1. PICK n \in 1..e : messages[n].type = "NEW_ORDER" /\ messages[n].id = id
        BY <2>2, <2>4 DEF Entered
      <3>2. l + n \in 1..(l + e)
        BY <1>6
      <3>3. QED
        BY <1>7, <2>2, <3>1, <3>2
    <2>5. QED
      BY <2>1, <2>3, <2>4
  <1>15. scenario' \in Scenarios
    BY DEF ExchangeOK
  <1>16. Len(feed') = Len(feed) + Len(messages) /\ \A n \in 1..Len(feed) : feed'[n] = feed[n] /\ truth'[n] = truth[n]
    BY <1>4, <1>7
  <1>17. ExchangeOK'
    <2>1. ASSUME NEW n \in 1..Len(feed')
          PROVE  (truth[n] = After(Was(n - 1), feed[n]))' /\ (Fits(feed[n], Was(n - 1)))'
      <3>1. n \in 1..(l + e)
        BY <1>7
      <3>2. (truth[n] = After(Was(n - 1), feed[n]))'
        BY <1>11, <3>1 DEF After, With, Without, Funs!Restrict
      <3>3. (Fits(feed[n], Was(n - 1)))'
        BY <1>11, <3>1 DEF Fits
      <3>4. QED
        BY <3>2, <3>3
    <2>2. QED
      BY <1>7, <1>10, <1>13, <1>15, <2>1 DEF ExchangeOK
  <1>18. QED
    BY <1>16, <1>17

\* A packet of one message.
LEMMA SendOne ==
    ASSUME ExchangeOK, NEW m \in Message, Fits(m, Orders)
    PROVE  Sendable(<<m>>)
  <1>1. PICK s : s = <<m>>
    OBVIOUS
  <1>2. s \in Seq(Message) /\ s # <<>> /\ Len(s) = 1 /\ s[1] = m
    BY <1>1
  <1>3. ASSUME NEW f, OrdersBy(f, s, 1), NEW i \in 1..1 PROVE Fits(s[i], f[i - 1])
    <2>1. f[0] = Orders /\ i = 1 /\ i - 1 = 0
      BY <1>3 DEF OrdersBy
    <2>2. QED
      BY <1>2, <2>1
  <1>4. QED
    BY <1>1, <1>2, <1>3 DEF Sendable

\* The trades of the orders ids: all but the last are filled, the last one by quantity.
TradeOf(ids, quantity, i) ==
    [type |-> "TRADE", id |-> ids[i],
     quantity |-> IF i = Len(ids) THEN quantity ELSE Orders[ids[i]].quantity]

\* After k trades the other orders are as they were.
Untraded(T, ids, k) ==
    \A j \in (k + 1)..Len(ids) : ids[j] \in DOMAIN T /\ T[ids[j]] = Orders[ids[j]]

\* A packet of trades.
LEMMA SendTrades ==
    ASSUME ExchangeOK, NEW ids, NEW c \in Positive, ids \in [1..c -> DOMAIN Orders],
           \A i, j \in 1..c : i # j => ids[i] # ids[j],
           NEW quantity \in Positive, quantity <= Orders[ids[c]].quantity,
           NEW messages,
           messages = <<[type |-> "TRADE_SUMMARY", symbol |-> Orders[ids[1]].symbol]>> \o
                      [i \in DOMAIN ids |->
                         [type |-> "TRADE", id |-> ids[i],
                          quantity |-> IF i = Len(ids) THEN quantity ELSE Orders[ids[i]].quantity]]
    PROVE  Sendable(messages)
  <1>1. /\ c \in Nat /\ c >= 1 /\ ids \in Seq(DOMAIN Orders) /\ Len(ids) = c /\ DOMAIN ids = 1..c
        /\ \A i \in 1..c : ids[i] \in DOMAIN Orders
    BY DEF Positive
  <1>2. IsOrders(Orders) /\ \A id \in DOMAIN Orders : Orders[id] \in Resting /\ id \in Ids
    BY OrdersNow DEF IsOrders
  <1>3. PICK sum : sum = [type |-> "TRADE_SUMMARY", symbol |-> Orders[ids[1]].symbol]
    OBVIOUS
  <1>4. PICK trades : trades = [i \in 1..c |-> TradeOf(ids, quantity, i)]
    OBVIOUS
  <1>5. sum \in Message /\ Fits(sum, Orders) /\ sum.type = "TRADE_SUMMARY"
    <2>1. 1 \in 1..c /\ ids[1] \in DOMAIN Orders /\ Orders[ids[1]] \in Resting
      BY <1>1, <1>2
    <2>2. Orders[ids[1]].symbol \in Symbols
      BY <2>1 DEF Resting
    <2>3. sum \in [type : {"TRADE_SUMMARY"}, symbol : Symbols]
      BY <1>3, <2>2
    <2>4. QED
      BY <1>3, <2>1, <2>3 DEF Message, Fits
  <1>6. ASSUME NEW i \in 1..c
        PROVE  /\ trades[i] = TradeOf(ids, quantity, i) /\ trades[i] \in Message
               /\ trades[i].type = "TRADE" /\ trades[i].id = ids[i]
               /\ trades[i].quantity \in Nat /\ trades[i].quantity <= Orders[ids[i]].quantity
               /\ i # c => trades[i].quantity = Orders[ids[i]].quantity
    <2>1. Orders[ids[i]] \in Resting /\ ids[i] \in Ids /\ Orders[ids[i]].quantity \in Positive
      BY <1>1, <1>2 DEF Resting
    <2>2. PICK q : q = IF i = c THEN quantity ELSE Orders[ids[i]].quantity
      OBVIOUS
    <2>3. q \in Positive /\ q <= Orders[ids[i]].quantity
      BY <2>1, <2>2 DEF Positive
    <2>4. trades[i] = [type |-> "TRADE", id |-> ids[i], quantity |-> q]
      BY <1>1, <1>4, <2>2 DEF TradeOf
    <2>5. trades[i] \in [type : {"TRADE"}, id : Ids, quantity : Positive]
      BY <2>1, <2>3, <2>4
    <2>6. QED
      BY <1>1, <1>4, <2>2, <2>3, <2>4, <2>5 DEF Message, Positive
  <1>7. messages = <<sum>> \o trades
    BY <1>1, <1>3, <1>4 DEF TradeOf
  <1>8. /\ messages \in Seq(Message) /\ Len(messages) = c + 1 /\ messages[1] = sum
        /\ \A i \in 1..c : messages[i + 1] = trades[i]
    <2>1. PICK one : one = <<sum>>
      OBVIOUS
    <2>2. one \in Seq(Message) /\ Len(one) = 1 /\ one[1] = sum
      BY <1>5, <2>1
    <2>3. trades \in Seq(Message) /\ Len(trades) = c
      <3>1. \A i \in 1..c : trades[i] \in Message
        BY <1>6
      <3>2. QED
        BY <1>1, <1>4, <3>1
    <2>4. IsJoin(Message, one, trades, messages)
      BY <1>7, <2>1, <2>2, <2>3, Joined
    <2>5. \A i \in 1..c : messages[1 + i] = trades[i] /\ 1 + i = i + 1
      BY <2>2, <2>3, <2>4 DEF IsJoin
    <2>6. QED
      BY <1>1, <2>2, <2>3, <2>4, <2>5 DEF IsJoin
  <1>9. ASSUME NEW f, OrdersBy(f, messages, c + 1)
        PROVE  \A i \in 1..(c + 1) : Fits(messages[i], f[i - 1])
    <2> DEFINE N == {k \in 0..(c - 1) : IsOrders(f[k + 1]) /\ Untraded(f[k + 1], ids, k)}
    <2>1. f[0] = Orders /\ \A i \in 1..(c + 1) : f[i] = After(f[i - 1], messages[i])
      BY <1>1, <1>9 DEF OrdersBy
    <2>2. f[1] = Orders
      <3>1. 1 \in 1..(c + 1) /\ 1 - 1 = 0
        BY <1>1
      <3>2. f[1] = After(Orders, sum)
        BY <1>8, <2>1, <3>1
      <3>3. QED
        BY <1>5, <3>2, AfterIs
    <2>3. 0 \in N
      BY <1>1, <1>2, <2>2 DEF Untraded
    <2>4. ASSUME NEW k \in 0..(c - 2), k \in N
          PROVE  k + 1 \in N
      <3>1. k + 1 \in 1..c /\ k + 1 # c /\ k + 2 \in 1..(c + 1) /\ (k + 2) - 1 = k + 1 /\ (k + 1) + 1 = k + 2
            /\ k + 1 \in 0..(c - 1) /\ k + 1 \in (k + 1)..c
        BY <1>1
      <3>2. PICK T, U, m, id : T = f[k + 1] /\ U = f[k + 2] /\ m = messages[k + 2] /\ id = ids[k + 1]
        OBVIOUS
      <3>3. m = trades[k + 1] /\ m \in Message /\ m.type = "TRADE" /\ m.id = id /\ m.quantity = Orders[id].quantity
            /\ U = After(T, m)
        <4>1. (k + 1) + 1 = k + 2 /\ messages[(k + 1) + 1] = trades[k + 1]
          BY <1>8, <3>1
        <4>2. m = trades[k + 1]
          BY <3>2, <4>1
        <4>3. f[k + 2] = After(f[(k + 2) - 1], messages[k + 2])
          BY <2>1, <3>1
        <4>4. U = After(T, m)
          BY <3>1, <3>2, <4>3
        <4>5. /\ trades[k + 1] \in Message /\ trades[k + 1].type = "TRADE" /\ trades[k + 1].id = ids[k + 1]
              /\ trades[k + 1].quantity = Orders[ids[k + 1]].quantity
          BY <1>6, <3>1
        <4>6. QED
          BY <3>2, <4>2, <4>4, <4>5
      <3>4. IsOrders(T) /\ id \in DOMAIN T /\ T[id] = Orders[id]
        BY <1>1, <2>4, <3>1, <3>2 DEF Untraded
      <3>5. Orders[id].quantity \in Nat
        BY <1>2, <3>4 DEF IsOrders, Resting, Positive
      <3>6. Fits(m, T)
        BY <3>3, <3>4, <3>5 DEF Fits
      <3>7. Turns(T, m, U)
        BY <3>3, <3>4, <3>6, AfterOrders
      <3>8. IsOrders(U) /\ DOMAIN U = DOMAIN T \ {id} /\ \A x \in DOMAIN U : U[x] = T[x]
        BY <3>3, <3>4, <3>7 DEF Turns
      <3>9. ASSUME NEW j \in (k + 2)..c PROVE ids[j] \in DOMAIN U /\ U[ids[j]] = Orders[ids[j]]
        <4>1. j \in (k + 1)..c /\ j \in 1..c /\ j # k + 1
          BY <1>1, <3>1
        <4>2. ids[j] \in DOMAIN T /\ T[ids[j]] = Orders[ids[j]] /\ ids[j] # id
          BY <1>1, <2>4, <3>1, <3>2, <4>1 DEF Untraded
        <4>3. QED
          BY <3>8, <4>2
      <3>10. QED
        BY <1>1, <3>1, <3>2, <3>8, <3>9 DEF Untraded
    <2>5. 0..(c - 1) \subseteq N
      <3> HIDE DEF N
      <3>1. c - 1 \in Nat /\ (c - 1) - 1 = c - 2
        BY <1>1
      <3>2. QED
        BY <2>3, <2>4, <3>1, CountUp
    <2>6. ASSUME NEW i \in 1..c PROVE Fits(messages[i + 1], f[i])
      <3>1. i - 1 \in 0..(c - 1) /\ (i - 1) + 1 = i /\ i \in i..c
        BY <1>1
      <3>2. Untraded(f[i], ids, i - 1)
        BY <2>5, <3>1
      <3>3. ids[i] \in DOMAIN f[i] /\ f[i][ids[i]] = Orders[ids[i]]
        BY <1>1, <3>1, <3>2 DEF Untraded
      <3>4. PICK m, id : m = trades[i] /\ id = ids[i]
        OBVIOUS
      <3>5. m.type = "TRADE" /\ m.id = id /\ m.quantity <= Orders[id].quantity
        BY <1>6, <3>4
      <3>6. Fits(m, f[i])
        BY <3>3, <3>4, <3>5 DEF Fits
      <3>7. messages[i + 1] = m
        BY <1>8, <3>4
      <3>8. QED
        BY <3>6, <3>7
    <2>7. ASSUME NEW i \in 1..(c + 1) PROVE Fits(messages[i], f[i - 1])
      <3>1. CASE i = 1
        BY <1>5, <1>8, <2>1, <3>1
      <3>2. CASE i # 1
        <4>1. i - 1 \in 1..c /\ (i - 1) + 1 = i
          BY <1>1, <3>2
        <4>2. QED
          BY <2>6, <4>1
      <3>3. QED
        BY <3>1, <3>2
    <2>8. QED
      BY <2>7
  <1>10. messages # <<>>
    BY <1>1, <1>8
  <1>11. QED
    BY <1>8, <1>9, <1>10 DEF Sendable

\* One of the publisher's operations.
Publishing ==
    \/ \E o \in NewOrders : PublishNewOrder(o)
    \/ \E id \in DOMAIN Orders : PublishDeleteOrder(id)
    \/ \E id \in DOMAIN Orders, side \in Side, quantity \in Quantities :
          PublishModifyOrder(id, side, quantity)
    \/ \E S \in (SUBSET DOMAIN Orders) \ {{}} : \E ids \in Seqs!SetToSeqs(S), quantity \in Quantities :
          PublishQueuedTrades(ids, quantity)
    \/ PublishHeartbeat

\* The instance counts like the module.
LEMMA SameCardinality == ASSUME NEW S PROVE Seqs!Cardinality(S) = Cardinality(S)
  BY DEF Seqs!Cardinality, Cardinality

\* The sequence s has the members of S, each once.
Lists(s, S) ==
    /\ Cardinality(S) \in Nat /\ s \in [1..Cardinality(S) -> S]
    /\ s \in Seq(S) /\ Len(s) = Cardinality(S) /\ DOMAIN s = 1..Cardinality(S)
    /\ \A i, j \in DOMAIN s : i # j => s[i] # s[j]
    /\ \A x \in S : \E i \in DOMAIN s : s[i] = x
    /\ S # {} => Cardinality(S) \in Positive

\* A sequence of all the members of a set.
LEMMA SequencesOf ==
    ASSUME NEW S, IsFiniteSet(S), NEW s \in Seqs!SetToSeqs(S)
    PROVE  Lists(s, S)
  <1>1. PICK c : c = Cardinality(S)
    OBVIOUS
  <1>2. c \in Nat /\ (c = 0 <=> S = {})
    BY <1>1, FS_CardinalityType, FS_EmptySet
  <1>3. s \in [1..c -> S] /\ \A i, j \in 1..c : i # j => s[i] # s[j]
    <2>1. Seqs!SetToSeqs(S) = {f \in [1..c -> S] : \A i, j \in 1..c : i # j => f[i] # f[j]}
      <3>1. Seqs!Cardinality(S) = c
        BY <1>1, SameCardinality
      <3>2. QED
        BY <3>1 DEF Seqs!SetToSeqs
    <2>2. s \in {f \in [1..c -> S] : \A i, j \in 1..c : i # j => f[i] # f[j]}
      BY <2>1, Zenon
    <2>3. QED
      BY <2>2
  <1>4. s \in Seq(S) /\ Len(s) = c /\ DOMAIN s = 1..c
    BY <1>2, <1>3
  <1>5. s \in Injection(1..c, S)
    BY <1>3 DEF Injection, IsInjective
  <1>6. s \in Surjection(1..c, S)
    <2>1. IsFiniteSet(1..c) /\ Cardinality(1..c) = c
      BY <1>2, FS_Interval
    <2>2. QED
      BY <1>1, <1>5, <2>1, FS_Injection
  <1>7. \A x \in S : \E i \in 1..c : s[i] = x
    BY <1>6 DEF Surjection
  <1>8. QED
    BY <1>1, <1>2, <1>3, <1>4, <1>7 DEF Positive, Lists

\* What the publisher sends fits the orders.
LEMMA PublisherSends ==
    ASSUME ExchangeOK, Publishing
    PROVE  \E messages : Sendable(messages) /\ Publish(messages)
  <1>1. scenario \in Scenarios /\ IsOrders(Orders) /\ \A id \in DOMAIN Orders : id \in Ids /\ Orders[id] \in Resting
    BY OrdersNow DEF ExchangeOK, IsOrders
  <1>2. /\ Quantities \subseteq Positive /\ IsFiniteSet(Ids)
        /\ \A o \in NewOrders : o.id \in Ids /\ o.symbol \in Symbols /\ o.side \in Side /\ o.quantity \in Positive
    BY <1>1, ScenarioConstants
  <1>3. ASSUME NEW o \in NewOrders, PublishNewOrder(o)
        PROVE  \E messages : Sendable(messages) /\ Publish(messages)
    <2>1. PICK m : m = [type |-> "NEW_ORDER", id |-> o.id, symbol |-> o.symbol, side |-> o.side, quantity |-> o.quantity]
      OBVIOUS
    <2>2. m \in [type : {"NEW_ORDER"}, id : Ids, symbol : Symbols, side : Side, quantity : Positive]
      BY <1>2, <2>1
    <2>3. m \in Message
      BY <2>2 DEF Message
    <2>4. o.id \notin DOMAIN Orders
      BY <1>3 DEF PublishNewOrder, ExchangeOK
    <2>5. Fits(m, Orders)
      BY <2>1, <2>4 DEF Fits
    <2>6. Publish(<<m>>)
      BY <1>3, <2>1 DEF PublishNewOrder
    <2>7. QED
      BY <2>3, <2>5, <2>6, SendOne
  <1>4. ASSUME NEW id \in DOMAIN Orders, PublishDeleteOrder(id)
        PROVE  \E messages : Sendable(messages) /\ Publish(messages)
    <2>1. PICK m : m = [type |-> "DELETE_ORDER", id |-> id]
      OBVIOUS
    <2>2. m \in [type : {"DELETE_ORDER"}, id : Ids]
      BY <1>1, <2>1
    <2>3. m \in Message /\ Fits(m, Orders)
      BY <2>1, <2>2 DEF Message, Fits
    <2>4. Publish(<<m>>)
      BY <1>4, <2>1 DEF PublishDeleteOrder
    <2>5. QED
      BY <2>3, <2>4, SendOne
  <1>5. ASSUME NEW id \in DOMAIN Orders, NEW side \in Side, NEW quantity \in Quantities,
               PublishModifyOrder(id, side, quantity)
        PROVE  \E messages : Sendable(messages) /\ Publish(messages)
    <2>1. PICK m : m = [type |-> "MODIFY_ORDER", id |-> id, side |-> side, quantity |-> quantity]
      OBVIOUS
    <2>2. m \in [type : {"MODIFY_ORDER"}, id : Ids, side : Side, quantity : Positive]
      BY <1>1, <1>2, <2>1
    <2>3. m \in Message /\ Fits(m, Orders)
      BY <2>1, <2>2 DEF Message, Fits
    <2>4. Publish(<<m>>)
      BY <1>5, <2>1 DEF PublishModifyOrder
    <2>5. QED
      BY <2>3, <2>4, SendOne
  <1>6. ASSUME NEW S \in (SUBSET DOMAIN Orders) \ {{}}, NEW ids \in Seqs!SetToSeqs(S), NEW quantity \in Quantities,
               PublishQueuedTrades(ids, quantity)
        PROVE  \E messages : Sendable(messages) /\ Publish(messages)
    <2>1. IsFiniteSet(S) /\ S # {}
      BY <1>1, <1>2, <1>6, FS_Subset
    <2>2. PICK c : c = Cardinality(S)
      OBVIOUS
    <2>3. /\ c \in Positive /\ ids \in [1..c -> S] /\ Len(ids) = c
          /\ \A i, j \in 1..c : i # j => ids[i] # ids[j]
      <3>1. Lists(ids, S)
        BY <1>6, <2>1, SequencesOf
      <3>2. QED
        BY <2>1, <2>2, <3>1 DEF Lists
    <2>4. ids \in [1..c -> DOMAIN Orders]
      BY <1>6, <2>3
    <2>5. quantity \in Positive /\ quantity <= Orders[ids[c]].quantity
      BY <1>2, <1>6, <2>3 DEF PublishQueuedTrades
    <2>6. PICK messages :
             messages = <<[type |-> "TRADE_SUMMARY", symbol |-> Orders[ids[1]].symbol]>> \o
                        [i \in DOMAIN ids |->
                           [type |-> "TRADE", id |-> ids[i],
                            quantity |-> IF i = Len(ids) THEN quantity ELSE Orders[ids[i]].quantity]]
      OBVIOUS
    <2>7. Sendable(messages)
      BY <2>3, <2>4, <2>5, <2>6, SendTrades
    <2>8. Publish(messages)
      BY <1>6, <2>6 DEF PublishQueuedTrades
    <2>9. QED
      BY <2>7, <2>8
  <1>7. ASSUME PublishHeartbeat
        PROVE  \E messages : Sendable(messages) /\ Publish(messages)
    <2>1. PICK m : m = [type |-> "HEARTBEAT"]
      OBVIOUS
    <2>2. m \in [type : {"HEARTBEAT"}]
      BY <2>1
    <2>3. m \in Message /\ Fits(m, Orders)
      BY <2>1, <2>2 DEF Message, Fits
    <2>4. Publish(<<m>>)
      BY <1>7, <2>1 DEF PublishHeartbeat
    <2>5. QED
      BY <2>3, <2>4, SendOne
  <1>8. QED
    BY <1>3, <1>4, <1>5, <1>6, <1>7 DEF Publishing

-----------------------------------------------------------------------------
(* What holds of the exchange's past goes on holding. *)

\* Messages may be added to the feed, and nothing else happens to it.
Grows ==
    /\ UNCHANGED scenario /\ Len(feed') \in Nat /\ Len(feed) <= Len(feed')
    /\ \A n \in 1..Len(feed) : feed'[n] = feed[n] /\ truth'[n] = truth[n]

LEMMA SameFeedGrows == ASSUME ExchangeOK, UNCHANGED <<scenario, feed, truth>> PROVE Grows /\ ExchangeOK'
  <1>1. Grows
    BY DEF Grows, ExchangeOK
  <1>2. ExchangeOK'
    <2>1. Ids' = Ids /\ Orders' = Orders
      BY DEF Ids, NewOrders, Orders
    <2>2. Message' = Message /\ Books' = Books
      BY <2>1 DEF Message, Books
    <2>3. \A n : (Was(n))' = Was(n)
      BY DEF Was
    <2>4. ASSUME NEW n \in 1..Len(feed')
          PROVE  (truth[n] = After(Was(n - 1), feed[n]))' /\ (Fits(feed[n], Was(n - 1)))'
      <3>1. truth[n] = After(Was(n - 1), feed[n]) /\ Fits(feed[n], Was(n - 1))
        BY DEF ExchangeOK
      <3>2. (Was(n - 1))' = Was(n - 1) /\ feed'[n] = feed[n] /\ truth'[n] = truth[n]
        BY <2>3
      <3>3. (truth[n] = After(Was(n - 1), feed[n]))'
        BY <3>1, <3>2 DEF After, With, Without, Funs!Restrict
      <3>4. (Fits(feed[n], Was(n - 1)))'
        BY <3>1, <3>2 DEF Fits
      <3>5. QED
        BY <3>3, <3>4
    <2>5. QED
      BY <2>1, <2>2, <2>4 DEF ExchangeOK
  <1>3. QED
    BY <1>1, <1>2

LEMMA GrowTypes ==
    ASSUME ExchangeOK, Grows
    PROVE  Ids' = Ids /\ Entry' = Entry /\ Datagram' = Datagram /\ Numbers \subseteq Numbers'
  <1>1. Ids' = Ids
    BY DEF Grows, Ids, NewOrders
  <1>2. Entry' = Entry
    BY <1>1 DEF Entry
  <1>3. Numbers \subseteq Numbers'
    BY DEF Grows, Numbers, ExchangeOK
  <1>4. QED
    BY <1>1, <1>2, <1>3 DEF Datagram

LEMMA GrowWas ==
    ASSUME ExchangeOK, Grows, NEW n \in 0..Len(feed)
    PROVE  (Was(n))' = Was(n)
  BY OrdersNow DEF Grows, Was

LEMMA GrowCounted ==
    ASSUME ExchangeOK, Grows, NEW n, Counted(n)
    PROVE  (Counted(n))'
  BY OrdersNow DEF Grows, Counted

LEMMA GrowServes ==
    ASSUME ExchangeOK, Grows, NEW s, NEW n \in 0..Len(feed), Serves(s, n)
    PROVE  (Serves(s, n))'
  <1>1. Len(feed) \in Nat /\ (Was(n))' = Was(n)
    BY OrdersNow, GrowWas
  <1>2. (Mirrors(s.orders, Was(n)))'
    BY <1>1 DEF Serves, Mirrors
  <1>3. n # 0 => s.seq + 1 \in 1..Len(feed) /\ truth'[s.seq + 1] = truth[s.seq + 1]
    BY <1>1 DEF Serves, Grows
  <1>4. QED
    BY <1>1, <1>2, <1>3 DEF Serves

LEMMA GrowDatagrams ==
    ASSUME ExchangeOK, Grows, NEW d, DatagramOK(d)
    PROVE  (DatagramOK(d))'
  <1>1. (Counted(d.seq))' /\ Counted(d.seq) /\ Len(feed) \in Nat
    BY OrdersNow, GrowCounted DEF DatagramOK
  <1>2. d.seq > 0 => truth'[d.seq + 1] = truth[d.seq + 1]
    BY <1>1 DEF Counted, Grows
  <1>3. d.seq > 0 => RowOf(d.row, truth'[d.seq + 1], d.symbol)
    BY <1>2 DEF DatagramOK
  <1>4. d.seq > 0 => (RowOf(d.row, truth[d.seq + 1], d.symbol))'
    BY <1>3 DEF RowOf
  <1>5. QED
    BY <1>1, <1>4 DEF DatagramOK

LEMMA GrowComplete ==
    ASSUME ExchangeOK, Grows, NEW c, NEW b, NEW seq, Counted(seq), seq > 0, NEW i, CompleteTo(c, b, seq, i)
    PROVE  (CompleteTo(c, b, seq, i))'
  <1>1. truth'[seq + 1] = truth[seq + 1]
    BY OrdersNow DEF Counted, Grows
  <1>2. QED
    BY <1>1 DEF CompleteTo, RowOf

\* What nobody touches stays as it is.
LEMMA GrowService ==
    ASSUME ExchangeOK, Grows, ServiceOK, UNCHANGED service
    PROVE  ServiceOK'
  <1>1. heard' = heard /\ listed' = listed /\ written_seq' = written_seq /\ Len(feed) \in Nat
    BY OrdersNow DEF service
  <1>2. PICK s, n : s = [orders |-> listed, seq |-> written_seq] /\ n = heard
    OBVIOUS
  <1>3. n \in 0..Len(feed) /\ Serves(s, n)
    BY <1>2 DEF ServiceOK
  <1>4. (Serves(s, n))'
    BY <1>3, GrowServes
  <1>5. s = [orders |-> listed', seq |-> written_seq'] /\ n = heard'
    BY <1>1, <1>2
  <1>6. heard' \in 0..Len(feed')
    BY <1>1, <1>2, <1>3 DEF Grows
  <1>7. Serves([orders |-> listed, seq |-> written_seq], heard)'
    <2>1. PICK T : T = (Was(n))'
      OBVIOUS
    <2>2. (Was(heard))' = T
      BY <1>5, <2>1 DEF Was
    <2>3. s = [orders |-> s.orders, seq |-> s.seq] /\ Mirrors(s.orders, T)
          /\ IF n = 0 THEN s.seq = 0 ELSE s.seq \in 0..(n - 1) /\ truth'[s.seq + 1] = T
      BY <1>4, <2>1 DEF Serves
    <2>4. PICK now : now = [orders |-> listed', seq |-> written_seq']
      OBVIOUS
    <2>5. now = s /\ now.orders = s.orders /\ now.seq = s.seq
      BY <1>5, <2>4
    <2>6. (Mirrors([orders |-> listed, seq |-> written_seq].orders, Was(heard)))'
      BY <2>2, <2>3, <2>4, <2>5
    <2>7. now = [orders |-> now.orders, seq |-> now.seq]
          /\ IF heard' = 0 THEN now.seq = 0 ELSE now.seq \in 0..(heard' - 1) /\ truth'[now.seq + 1] = (Was(heard))'
      BY <1>5, <2>2, <2>3, <2>5
    <2>8. QED
      BY <2>4, <2>6, <2>7 DEF Serves
  <1>8. QED
    BY <1>6, <1>7 DEF ServiceOK

LEMMA GrowSnaps ==
    ASSUME ExchangeOK, Grows, SnapsOK, UNCHANGED snaps
    PROVE  SnapsOK'
  <1>1. snaps' \in Seq(Datagram')
    BY GrowTypes DEF SnapsOK
  <1>2. ASSUME NEW i \in DOMAIN snaps' PROVE (DatagramOK(snaps[i]))'
    <2>1. PICK d : d = snaps[i]
      OBVIOUS
    <2>2. DatagramOK(d) /\ d = snaps'[i]
      BY <2>1 DEF SnapsOK
    <2>3. (DatagramOK(d))'
      BY <2>2, GrowDatagrams
    <2>4. QED
      BY <2>2, <2>3 DEF DatagramOK, Counted, RowOf
  <1>3. QED
    BY <1>1, <1>2 DEF SnapsOK

LEMMA GrowClient ==
    ASSUME ExchangeOK, Grows, ClientOK, UNCHANGED client
    PROVE  ClientOK'
  <1>1. UNCHANGED <<mode, nested, live_buffer, snapshot_buffer, snapshot_complete, awaited,
                    last_snapshot_seq_num, last_md_seq_num, symbol_to_order_book, order_to_symbol>>
    BY DEF client, recovery, books
  <1>2. Entry' = Entry
    BY GrowTypes
  <1>3. (Counted(last_snapshot_seq_num))' /\ (Counted(last_md_seq_num))'
    BY <1>1, OrdersNow DEF ClientOK, Grows, Counted
  <1>4. QED
    BY <1>1, <1>2, <1>3 DEF ClientOK, Kept

LEMMA GrowBooks ==
    ASSUME ExchangeOK, Grows, ClientOK, BooksOK, UNCHANGED client
    PROVE  BooksOK'
  <1>1. UNCHANGED <<mode, last_md_seq_num, symbol_to_order_book, order_to_symbol>>
    BY DEF client, books
  <1>2. Len(feed) \in Nat /\ last_md_seq_num \in Nat
    BY OrdersNow DEF ClientOK, Counted
  <1>3. CASE mode = "live"
    <2>1. PICK T : T = truth[last_md_seq_num + 1]
      OBVIOUS
    <2>2. /\ last_md_seq_num < Len(feed) /\ Holds(symbol_to_order_book, order_to_symbol, T, DOMAIN T)
      BY <1>3, <2>1 DEF BooksOK
    <2>3. truth'[last_md_seq_num' + 1] = T /\ last_md_seq_num' < Len(feed')
      <3>1. last_md_seq_num + 1 \in 1..Len(feed)
        BY <1>2, <2>2
      <3>2. QED
        BY <1>1, <1>2, <2>1, <2>2, <3>1 DEF Grows
    <2>4. Holds(symbol_to_order_book', order_to_symbol', T, DOMAIN T)
      BY <1>1, <2>2
    <2>5. (Holds(symbol_to_order_book, order_to_symbol, truth[last_md_seq_num + 1], DOMAIN truth[last_md_seq_num + 1]))'
      BY <2>3, <2>4
    <2>6. QED
      BY <2>3, <2>5 DEF BooksOK
  <1>4. CASE mode # "live"
    BY <1>1, <1>4 DEF BooksOK
  <1>5. QED
    BY <1>3, <1>4

LEMMA GrowStream ==
    ASSUME ExchangeOK, Grows, ClientOK, StreamOK, UNCHANGED client, UNCHANGED snaps
    PROVE  StreamOK'
  <1>1. UNCHANGED <<mode, nested, live_buffer, snapshot_buffer, snapshot_complete, awaited,
                    last_snapshot_seq_num>>
    BY DEF client, recovery, books
  <1>2. WholeStream(snaps)' /\ (mode # "waiting" => AtStart(snaps))'
    BY <1>1 DEF StreamOK, WholeStream, AtStart, Succeeds, Starts, Ends, Final
  <1>3. Skipping => Skipping'
    BY <1>1 DEF Skipping, Begun, AtStart, Starts
  <1>4. ASSUME last_snapshot_seq_num > 0, NEW i,
               CompleteTo(snapshot_complete, snapshot_buffer, last_snapshot_seq_num, i)
        PROVE  (CompleteTo(snapshot_complete, snapshot_buffer, last_snapshot_seq_num, i))'
    <2>1. PICK c, b, seq : c = snapshot_complete /\ b = snapshot_buffer /\ seq = last_snapshot_seq_num
      OBVIOUS
    <2>2. Counted(seq) /\ seq > 0 /\ CompleteTo(c, b, seq, i)
      BY <1>4, <2>1 DEF ClientOK
    <2>3. (CompleteTo(c, b, seq, i))'
      BY <2>2, GrowComplete
    <2>4. c = snapshot_complete' /\ b = snapshot_buffer' /\ seq = last_snapshot_seq_num'
      BY <1>1, <2>1
    <2>5. QED
      BY <2>3, <2>4 DEF CompleteTo
  <1>5. ASSUME last_snapshot_seq_num > 0, NEW i \in DOMAIN SymbolRow, Taking(i)
        PROVE  (Taking(i))'
    <2>1. (CompleteTo(snapshot_complete, snapshot_buffer, last_snapshot_seq_num, i))'
      BY <1>4, <1>5 DEF Taking
    <2>2. (snaps # <<>> /\ ~Starts(snaps[1]) /\ snaps[1].symbol = SymbolRow[i] /\ snaps[1].seq = last_snapshot_seq_num)'
      BY <1>1, <1>5 DEF Taking, Starts
    <2>3. (snaps[1].from > 0 =>
             Partly(awaited, snapshot_buffer, snaps[1].symbol, snaps[1].row, snaps[1].from))'
      BY <1>1, <1>5 DEF Taking
    <2>4. QED
      BY <2>1, <2>2, <2>3 DEF Taking
  <1>6. last_snapshot_seq_num > 0 /\ Taken_ => Taken_'
    <2>1. last_snapshot_seq_num > 0 /\ Taken_ =>
            (CompleteTo(snapshot_complete, snapshot_buffer, last_snapshot_seq_num, Len(SymbolRow) + 1))'
      BY <1>4 DEF Taken_
    <2>2. Taken_ => AtStart(snaps)'
      BY DEF Taken_, AtStart, Starts
    <2>3. QED
      BY <2>1, <2>2 DEF Taken_
  <1>7. QED
    BY <1>1, <1>2, <1>3, <1>5, <1>6 DEF StreamOK

\* The numbers of a packet grow, and follow those published before.
LEMMA NumbersOfPacket ==
    ASSUME ExchangeOK, NEW messages, Sendable(messages), Published(messages), UNCHANGED scenario,
           NEW packet, packet = Numbered(messages)
    PROVE  /\ packet \in Seq(Numbers') /\ packet # <<>> /\ Growing(packet)
           /\ \A a \in DOMAIN packet : packet[a] >= Len(feed)
  <1>1. PICK l, e : l = Len(feed) /\ e = Len(messages)
    OBVIOUS
  <1>2. l \in Nat /\ e \in Nat /\ e # 0 /\ DOMAIN messages = 1..e
    BY <1>1, OrdersNow, EmptySeq DEF Sendable
  <1>3. packet = [i \in 1..e |-> l + i - 1]
    BY <1>1, <1>2 DEF Numbered
  <1>4. Len(feed') = l + e
    BY <1>1, PublishKeepsExchange
  <1>5. \A i \in 1..e : l + i - 1 \in 0..((l + e) - 1) /\ l + i - 1 >= l
    BY <1>2
  <1>6. Numbers' = 0..((l + e) - 1)
    BY <1>4 DEF Numbers
  <1>7. packet \in Seq(Numbers') /\ DOMAIN packet = 1..e
    BY <1>2, <1>3, <1>5, <1>6
  <1>8. packet # <<>>
    BY <1>2, <1>3
  <1>9. Growing(packet)
    <2>1. \A a, b \in 1..e : a < b => l + a - 1 < l + b - 1
      BY <1>2
    <2>2. QED
      BY <1>3, <1>7, <2>1 DEF Growing
  <1>10. \A a \in DOMAIN packet : packet[a] >= Len(feed)
    BY <1>1, <1>3, <1>5, <1>7
  <1>11. QED
    BY <1>7, <1>8, <1>9, <1>10

LEMMA MoreNumbers ==
    ASSUME NEW A, NEW B, A \subseteq B
    PROVE  Seq(A) \subseteq Seq(B) /\ Seq(Seq(A)) \subseteq Seq(Seq(B))
  <1>1. Seq(A) \subseteq Seq(B)
    OBVIOUS
  <1>2. QED
    BY <1>1

\* The packet arrives behind the others, or is lost.
LEMMA PublishKeepsLive ==
    ASSUME ExchangeOK, LiveOK, NEW messages, Sendable(messages), Publish(messages), UNCHANGED scenario
    PROVE  LiveOK' /\ \A i \in DOMAIN live' : \A a \in DOMAIN live'[i] :
              live'[i][a] >= Len(feed) \/ (i \in DOMAIN live /\ live'[i] = live[i])
  <1>1. Published(messages) /\ live_buffer' = live_buffer
    BY DEF Publish, Published, client, recovery
  <1>2. PICK packet : packet = Numbered(messages)
    OBVIOUS
  <1>3. /\ packet \in Seq(Numbers') /\ packet # <<>> /\ Growing(packet)
        /\ \A a \in DOMAIN packet : packet[a] >= Len(feed)
    BY <1>1, <1>2, NumbersOfPacket
  <1>4. Grows
    BY <1>1, PublishKeepsExchange, OrdersNow DEF Grows, Sendable
  <1>5. Seq(Numbers) \subseteq Seq(Numbers') /\ Seq(Seq(Numbers)) \subseteq Seq(Seq(Numbers'))
    BY <1>4, GrowTypes, MoreNumbers
  <1>6. Len(feed) \in Nat /\ \A s \in Seq(Numbers) : \A a \in DOMAIN s : s[a] \in Nat /\ s[a] < Len(feed)
    BY OrdersNow DEF Numbers
  <1>7. live \in Seq(Seq(Numbers)) /\ live_buffer \in Seq(Numbers)
    BY DEF LiveOK
  <1>8. CASE live' = live
    BY <1>1, <1>5, <1>8 DEF LiveOK
  <1>9. CASE live' = Append(live, packet)
    <2>1. PICK c : c = Len(live)
      OBVIOUS
    <2>2. /\ c \in Nat /\ DOMAIN live = 1..c /\ DOMAIN live' = 1..(c + 1)
          /\ live'[c + 1] = packet /\ \A i \in 1..c : live'[i] = live[i]
      BY <1>7, <1>9, <2>1
    <2>3. live' \in Seq(Seq(Numbers'))
      BY <1>3, <1>5, <1>7, <1>9
    <2>4. \A i \in 1..(c + 1) : i = c + 1 \/ i \in 1..c
      BY <2>2
    <2>5. \A i \in DOMAIN live' : live'[i] # <<>> /\ Growing(live'[i])
      BY <1>3, <2>2, <2>4 DEF LiveOK
    <2>6. \A i \in 1..c : live[i] \in Seq(Numbers) /\ \A a \in DOMAIN live[i] : live[i][a] \in Nat /\ live[i][a] < Len(feed)
      BY <1>6, <1>7, <2>2
    <2>7. \A b \in DOMAIN packet : packet[b] \in Int /\ packet[b] >= Len(feed)
      BY <1>3, <1>6 DEF Numbers
    <2>8. ASSUME NEW i \in 1..(c + 1), NEW j \in 1..(c + 1), i < j,
                 NEW a \in DOMAIN live'[i], NEW b \in DOMAIN live'[j]
          PROVE  live'[i][a] < live'[j][b]
      <3>1. i \in 1..c
        BY <2>2, <2>8
      <3>2. CASE j = c + 1
        <4>1. live'[i][a] \in Nat /\ live'[i][a] < Len(feed) /\ live'[j][b] \in Int /\ live'[j][b] >= Len(feed)
          BY <2>2, <2>6, <2>7, <2>8, <3>1, <3>2
        <4>2. QED
          BY <1>6, <4>1
      <3>3. CASE j \in 1..c
        BY <2>2, <2>8, <3>1, <3>3 DEF LiveOK
      <3>4. QED
        BY <2>4, <3>2, <3>3
    <2>9. ASSUME NEW a \in DOMAIN live_buffer, NEW j \in 1..(c + 1), NEW b \in DOMAIN live'[j]
          PROVE  live_buffer[a] < live'[j][b]
      <3>1. live_buffer[a] \in Nat /\ live_buffer[a] < Len(feed)
        BY <1>6, <1>7
      <3>2. CASE j = c + 1
        <4>1. live'[j][b] \in Int /\ live'[j][b] >= Len(feed)
          BY <2>2, <2>7, <2>9, <3>2
        <4>2. QED
          BY <1>6, <3>1, <4>1
      <3>3. CASE j \in 1..c
        BY <2>2, <2>9, <3>3 DEF LiveOK
      <3>4. QED
        BY <2>4, <3>2, <3>3
    <2>10. LiveOK'
      <3>1. live_buffer' \in Seq(Numbers') /\ Growing(live_buffer')
        BY <1>1, <1>5, <1>7 DEF LiveOK
      <3>2. \A i, j \in DOMAIN live' : i < j => \A a \in DOMAIN live'[i], b \in DOMAIN live'[j] : live'[i][a] < live'[j][b]
        BY <2>2, <2>8
      <3>3. \A a \in DOMAIN live_buffer', j \in DOMAIN live' : \A b \in DOMAIN live'[j] : live_buffer'[a] < live'[j][b]
        BY <1>1, <2>2, <2>9
      <3>4. QED
        BY <2>3, <2>5, <3>1, <3>2, <3>3 DEF LiveOK, Growing
    <2>11. QED
      BY <1>3, <2>2, <2>4, <2>10
  <1>10. QED
    BY <1>2, <1>8, <1>9 DEF Publish

\* Publishing keeps everything.
LEMMA PublishKeepsData ==
    ASSUME DataInv, Publishing, UNCHANGED scenario
    PROVE  DataInv' /\ Grows /\ UNCHANGED <<client, snaps>>
  <1>1. PICK messages : Sendable(messages) /\ Publish(messages)
    BY PublisherSends DEF DataInv
  <1>2. Published(messages) /\ UNCHANGED <<service, snaps, client>>
    BY <1>1 DEF Publish, Published
  <1>3. ExchangeOK /\ ServiceOK /\ LiveOK /\ SnapsOK /\ ClientOK /\ WaitOK
    BY DEF DataInv
  <1>4. ExchangeOK' /\ Grows
    BY <1>1, <1>2, <1>3, PublishKeepsExchange, OrdersNow DEF Grows, Sendable
  <1>5. LiveOK' /\ \A i \in DOMAIN live' : \A a \in DOMAIN live'[i] :
           live'[i][a] >= Len(feed) \/ (i \in DOMAIN live /\ live'[i] = live[i])
    BY <1>1, <1>3, PublishKeepsLive
  <1>6. UNCHANGED <<mode, live_buffer, snapshot_complete, awaited, last_snapshot_seq_num, last_md_seq_num>>
    BY <1>2 DEF client, recovery, books
  <1>7. WaitOK'
    <2>1. ASSUME mode = "waiting", NEW i \in DOMAIN live', NEW a \in DOMAIN live'[i]
          PROVE  live'[i][a] >= last_md_seq_num
      <3>1. CASE i \in DOMAIN live /\ live'[i] = live[i]
        BY <1>3, <2>1, <3>1 DEF WaitOK
      <3>2. CASE live'[i][a] >= Len(feed)
        <4>1. last_md_seq_num \in Nat /\ (last_md_seq_num = 0 \/ last_md_seq_num < Len(feed)) /\ Len(feed) \in Nat
          BY <1>3, OrdersNow DEF ClientOK, Counted
        <4>2. live'[i][a] \in Int
          <5>1. live'[i] \in Seq(Numbers')
            BY <1>5 DEF LiveOK
          <5>2. live'[i][a] \in Numbers'
            BY <5>1
          <5>3. QED
            BY <5>2 DEF Numbers
        <4>3. QED
          BY <3>2, <4>1, <4>2
      <3>3. QED
        BY <1>5, <3>1, <3>2
    <2>2. QED
      BY <1>3, <1>6, <2>1 DEF WaitOK, Begun
  <1>8. QED
    BY <1>2, <1>3, <1>4, <1>5, <1>7, GrowService, GrowSnaps, GrowClient DEF DataInv

LEMMA PublishKeeps ==
    ASSUME RecoveryInv, Publishing, UNCHANGED scenario
    PROVE  RecoveryInv'
  <1>1. DataInv' /\ Grows /\ UNCHANGED client /\ UNCHANGED snaps
    BY PublishKeepsData DEF RecoveryInv
  <1>2. QED
    BY <1>1, GrowStream, GrowBooks DEF RecoveryInv, DataInv

-----------------------------------------------------------------------------
(* The snapshot service follows the exchange. *)

LEMMA SideIs ==
    ASSUME NEW T, NEW side, NEW f, NEW D, f = [x \in D |-> f[x]],
           \A x : x \in D <=> x \in DOMAIN T /\ T[x].side = side,
           \A x \in D : f[x] = [symbol |-> T[x].symbol, quantity |-> T[x].quantity]
    PROVE  f = SideOf(T, side)
  <1>1. D = {x \in DOMAIN T : T[x].side = side}
    OBVIOUS
  <1>2. QED
    BY <1>1 DEF SideOf

LEMMA SideHas ==
    ASSUME NEW T, NEW side
    PROVE  /\ \A x : x \in DOMAIN SideOf(T, side) <=> x \in DOMAIN T /\ T[x].side = side
           /\ \A x \in DOMAIN T : T[x].side = side =>
                 SideOf(T, side)[x] = [symbol |-> T[x].symbol, quantity |-> T[x].quantity]
  BY DEF SideOf

\* A message does to the lists what it does to the exchange's orders.
LEMMA ListsFollow ==
    ASSUME NEW T, IsOrders(T), NEW m \in Message, Fits(m, T), m.type # "TRADE_SUMMARY", NEW U, Turns(T, m, U),
           NEW l, Mirrors(l, T), NEW k, k = ListedAfter(l, m)
    PROVE  Mirrors(k, U)
  <1>1. /\ \A side \in Side : l[side] = SideOf(T, side)
        /\ l = [side \in Side |-> l[side]] /\ DOMAIN l = Side
    BY DEF Mirrors
  <1>2. \A x \in DOMAIN T : T[x] \in Resting /\ T[x].side \in Side /\ T[x].quantity \in Nat
    BY DEF IsOrders, Resting, Positive
  <1>3. SUFFICES k = [side \in Side |-> k[side]] /\ \A side \in Side : k[side] = SideOf(U, side)
    BY DEF Mirrors
  <1>4. CASE m.type = "NEW_ORDER"
    <2>1. PICK r, s, id : r = [symbol |-> m.symbol, quantity |-> m.quantity] /\ s = m.side /\ id = m.id
      OBVIOUS
    <2>2. s \in Side /\ id \notin DOMAIN T
      BY <1>4, <2>1, MessageFields DEF Fits
    <2>9. PICK w : w = With(l[s], id, r)
      OBVIOUS
    <2>3. k = [l EXCEPT ![s] = w]
      BY <1>4, <2>1, <2>9 DEF ListedAfter
    <2>10. k = [side \in Side |-> k[side]] /\ k[s] = w /\ \A o \in Side : o # s => k[o] = l[o]
      <3>1. DOMAIN l = Side
        BY <1>1
      <3>2. DOMAIN k = Side /\ k = [side \in Side |-> IF side = s THEN w ELSE l[side]]
        BY <2>3, <3>1
      <3>3. QED
        BY <2>2, <3>2
    <2>4. /\ DOMAIN U = DOMAIN T \cup {id} /\ U[id] = [symbol |-> m.symbol, side |-> s, quantity |-> m.quantity]
          /\ \A x \in DOMAIN T : U[x] = T[x]
      BY <1>4, <2>1 DEF Turns
    <2>5. U[id].side = s /\ r = [symbol |-> U[id].symbol, quantity |-> U[id].quantity]
      BY <2>1, <2>4
    <2>6. k[s] = SideOf(U, s)
      <3>1. k[s] = With(SideOf(T, s), id, r)
        BY <1>1, <2>2, <2>9, <2>10
      <3>2. PICK f, D : f = k[s] /\ D = DOMAIN SideOf(T, s) \cup {id}
        OBVIOUS
      <3>3. f = [x \in D |-> IF x = id THEN r ELSE SideOf(T, s)[x]]
        BY <3>1, <3>2 DEF With
      <3>4. \A x : x \in D <=> x \in DOMAIN U /\ U[x].side = s
        BY <2>2, <2>4, <2>5, <3>2, SideHas
      <3>5. \A x \in D : f[x] = [symbol |-> U[x].symbol, quantity |-> U[x].quantity]
        BY <2>2, <2>4, <2>5, <3>2, <3>3, SideHas
      <3>6. f = [x \in D |-> f[x]]
        BY <3>3
      <3>7. f = SideOf(U, s)
        BY <3>4, <3>5, <3>6, SideIs
      <3>8. QED
        BY <3>2, <3>7
    <2>7. ASSUME NEW o \in Side, o # s PROVE k[o] = SideOf(U, o)
      <3>1. k[o] = SideOf(T, o)
        BY <1>1, <2>7, <2>10
      <3>2. \A x : x \in DOMAIN U /\ U[x].side = o <=> x \in DOMAIN T /\ T[x].side = o
        BY <2>2, <2>4, <2>5, <2>7
      <3>3. SideOf(T, o) = SideOf(U, o)
        BY <2>4, <3>2, SideHas, SideIs DEF SideOf
      <3>4. QED
        BY <3>1, <3>3
    <2>8. QED
      BY <2>6, <2>7, <2>10
  <1>5. CASE m.type = "DELETE_ORDER"
    <2>1. k = [side \in Side |-> Without(l[side], m.id)]
      BY <1>5 DEF ListedAfter
    <2>2. DOMAIN U = DOMAIN T \ {m.id} /\ \A x \in DOMAIN U : U[x] = T[x]
      BY <1>5 DEF Turns
    <2>3. ASSUME NEW s \in Side PROVE k[s] = SideOf(U, s)
      <3>1. PICK f, D : f = k[s] /\ D = DOMAIN SideOf(T, s) \ {m.id}
        OBVIOUS
      <3>2. f = [x \in D |-> SideOf(T, s)[x]]
        <4>1. f = Without(SideOf(T, s), m.id)
          BY <1>1, <2>1, <3>1
        <4>2. QED
          BY <3>1, <4>1 DEF Without, Funs!Restrict
      <3>3. \A x : x \in D <=> x \in DOMAIN U /\ U[x].side = s
        BY <2>2, <3>1, SideHas
      <3>4. \A x \in D : f[x] = [symbol |-> U[x].symbol, quantity |-> U[x].quantity]
        BY <2>2, <3>1, <3>2, SideHas
      <3>5. f = [x \in D |-> f[x]]
        BY <3>2
      <3>6. f = SideOf(U, s)
        BY <3>3, <3>4, <3>5, SideIs
      <3>7. QED
        BY <3>1, <3>6
    <2>4. QED
      BY <2>1, <2>3
  <1>6. CASE m.type = "MODIFY_ORDER"
    <2>1. PICK id, old : id = m.id /\ old = T[id].side
      OBVIOUS
    <2>2. id \in DOMAIN T /\ old \in Side /\ m.side \in Side
      BY <1>2, <1>6, <2>1, MessageFields DEF Fits
    <2>3. \A s \in Side : id \in DOMAIN l[s] <=> s = old
      BY <1>1, <2>1, <2>2, SideHas
    <2>4. Listing(l, id) = {old}
      BY <2>2, <2>3 DEF Listing
    <2>5. PICK order : order = [l[old][id] EXCEPT !.quantity = m.quantity]
      OBVIOUS
    <2>6. order = [symbol |-> T[id].symbol, quantity |-> m.quantity]
      <3>1. l[old][id] = [symbol |-> T[id].symbol, quantity |-> T[id].quantity]
        BY <1>1, <2>1, <2>2, SideHas
      <3>2. QED
        BY <2>5, <3>1
    <2>7. k = [side \in Side |-> IF side = m.side THEN With(l[side], id, order) ELSE Without(l[side], id)]
      <3>1. (CHOOSE side \in Listing(l, id) : TRUE) = old
        BY <2>4
      <3>2. k = ListedAfterModify(l, m)
        BY <1>6 DEF ListedAfter
      <3>3. QED
        BY <2>1, <2>4, <2>5, <3>1, <3>2 DEF ListedAfterModify
    <2>8. /\ DOMAIN U = DOMAIN T /\ U[id] = [symbol |-> T[id].symbol, side |-> m.side, quantity |-> m.quantity]
          /\ \A x \in DOMAIN T : x # id => U[x] = T[x]
      BY <1>6, <2>1 DEF Turns
    <2>9. U[id].side = m.side /\ order = [symbol |-> U[id].symbol, quantity |-> U[id].quantity]
      BY <2>6, <2>8
    <2>10. ASSUME NEW s \in Side PROVE k[s] = SideOf(U, s)
      <3>1. PICK f, g : f = k[s] /\ g = SideOf(T, s)
        OBVIOUS
      <3>2. /\ \A x : x \in DOMAIN g <=> x \in DOMAIN T /\ T[x].side = s
            /\ \A x \in DOMAIN g : g[x] = [symbol |-> T[x].symbol, quantity |-> T[x].quantity]
        BY <3>1 DEF SideOf
      <3>3. CASE s = m.side
        <4>1. PICK D : D = DOMAIN g \cup {id}
          OBVIOUS
        <4>2. f = [x \in D |-> IF x = id THEN order ELSE g[x]]
          <5>1. f = With(g, id, order)
            BY <1>1, <2>7, <3>1, <3>3
          <5>2. QED
            BY <4>1, <5>1 DEF With
        <4>3. \A x : x \in D <=> x \in DOMAIN U /\ U[x].side = s
          BY <2>2, <2>8, <2>9, <3>2, <3>3, <4>1
        <4>4. \A x \in D : f[x] = [symbol |-> U[x].symbol, quantity |-> U[x].quantity]
          BY <2>8, <2>9, <3>2, <4>1, <4>2
        <4>5. f = [x \in D |-> f[x]]
          BY <4>2
        <4>6. QED
          BY <3>1, <4>3, <4>4, <4>5, SideIs
      <3>4. CASE s # m.side
        <4>1. PICK D : D = DOMAIN g \ {id}
          OBVIOUS
        <4>2. f = [x \in D |-> g[x]]
          <5>1. f = Without(g, id)
            BY <1>1, <2>7, <3>1, <3>4
          <5>2. QED
            BY <4>1, <5>1 DEF Without, Funs!Restrict
        <4>3. \A x : x \in D <=> x \in DOMAIN U /\ U[x].side = s
          BY <2>2, <2>8, <2>9, <3>2, <3>4, <4>1
        <4>4. \A x \in D : f[x] = [symbol |-> U[x].symbol, quantity |-> U[x].quantity]
          BY <2>8, <2>9, <3>2, <4>1, <4>2
        <4>5. f = [x \in D |-> f[x]]
          BY <4>2
        <4>6. QED
          BY <3>1, <4>3, <4>4, <4>5, SideIs
      <3>5. QED
        BY <3>3, <3>4
    <2>11. QED
      BY <2>7, <2>10
  <1>7. CASE m.type = "TRADE"
    <2>1. PICK id, q : id = m.id /\ q = m.quantity
      OBVIOUS
    <2>2. id \in DOMAIN T /\ q \in Nat /\ q <= T[id].quantity
      BY <1>7, <2>1, MessageFields DEF Fits, Positive
    <2>3. \A s \in Side : id \in DOMAIN l[s] <=> s = T[id].side
      BY <1>1, <2>2, SideHas
    <2>4. l[T[id].side][id] = [symbol |-> T[id].symbol, quantity |-> T[id].quantity] /\ T[id].side \in Side
      BY <1>1, <1>2, <2>2, SideHas
    <2>5. k = [side \in Side |->
                 IF side \notin Listing(l, id) \/ l[side][id].quantity < q THEN l[side]
                 ELSE IF l[side][id].quantity = q THEN Without(l[side], id)
                 ELSE [l[side] EXCEPT ![id].quantity = @ - q]]
      BY <1>7, <2>1 DEF ListedAfter, ListedAfterTrade
    <2>6. \A s \in Side : s \in Listing(l, id) <=> s = T[id].side
      BY <2>3 DEF Listing
    <2>7. ASSUME NEW s \in Side PROVE k[s] = SideOf(U, s)
      <3>1. PICK f, g : f = k[s] /\ g = SideOf(T, s)
        OBVIOUS
      <3>2. /\ \A x : x \in DOMAIN g <=> x \in DOMAIN T /\ T[x].side = s
            /\ \A x \in DOMAIN g : g[x] = [symbol |-> T[x].symbol, quantity |-> T[x].quantity]
            /\ g = [x \in DOMAIN g |-> g[x]]
        BY <3>1, SideHas DEF SideOf
      <3>3. CASE s # T[id].side
        <4>1. f = g
          BY <1>1, <2>5, <2>6, <3>1, <3>3
        <4>2. \A x : x \in DOMAIN g <=> x \in DOMAIN U /\ U[x].side = s
          BY <1>7, <2>1, <2>2, <3>2, <3>3 DEF Turns
        <4>3. \A x \in DOMAIN g : f[x] = [symbol |-> U[x].symbol, quantity |-> U[x].quantity]
          BY <1>7, <2>1, <2>2, <3>2, <3>3, <4>1 DEF Turns
        <4>4. QED
          BY <3>1, <3>2, <4>1, <4>2, <4>3, SideIs
      <3>4. CASE s = T[id].side /\ q = T[id].quantity
        <4>1. PICK D : D = DOMAIN g \ {id}
          OBVIOUS
        <4>2. f = [x \in D |-> g[x]]
          <5>1. f = Without(g, id)
            BY <1>1, <2>2, <2>4, <2>5, <2>6, <3>1, <3>4
          <5>2. QED
            BY <4>1, <5>1 DEF Without, Funs!Restrict
        <4>3. DOMAIN U = DOMAIN T \ {id} /\ \A x \in DOMAIN U : U[x] = T[x]
          BY <1>7, <2>1, <3>4 DEF Turns
        <4>4. \A x : x \in D <=> x \in DOMAIN U /\ U[x].side = s
          BY <3>2, <4>1, <4>3
        <4>5. \A x \in D : f[x] = [symbol |-> U[x].symbol, quantity |-> U[x].quantity]
          BY <3>2, <4>1, <4>2, <4>3
        <4>6. f = [x \in D |-> f[x]]
          BY <4>2
        <4>7. QED
          BY <3>1, <4>4, <4>5, <4>6, SideIs
      <3>5. CASE s = T[id].side /\ q # T[id].quantity
        <4>1. g[id] = [symbol |-> T[id].symbol, quantity |-> T[id].quantity] /\ id \in DOMAIN g /\ T[id].quantity \in Nat
          BY <1>2, <2>2, <3>2, <3>5
        <4>2. f = [g EXCEPT ![id].quantity = @ - q]
          BY <1>1, <2>2, <2>4, <2>5, <2>6, <3>1, <3>5, <4>1
        <4>3. /\ DOMAIN U = DOMAIN T /\ U[id] = [symbol |-> T[id].symbol, side |-> s, quantity |-> T[id].quantity - q]
              /\ \A x \in DOMAIN T : x # id => U[x] = T[x]
          BY <1>7, <2>1, <3>5 DEF Turns
        <4>4. /\ DOMAIN f = DOMAIN g /\ f[id] = [symbol |-> T[id].symbol, quantity |-> T[id].quantity - q]
              /\ \A x \in DOMAIN g : x # id => f[x] = g[x]
          BY <4>1, <4>2
        <4>5. \A x : x \in DOMAIN g <=> x \in DOMAIN U /\ U[x].side = s
          BY <2>2, <3>2, <3>5, <4>3
        <4>6. \A x \in DOMAIN g : f[x] = [symbol |-> U[x].symbol, quantity |-> U[x].quantity]
          BY <3>2, <4>3, <4>4
        <4>7. f = [x \in DOMAIN g |-> f[x]]
          BY <4>2
        <4>8. QED
          BY <3>1, <4>5, <4>6, <4>7, SideIs
      <3>6. QED
        BY <3>3, <3>4, <3>5
    <2>8. QED
      BY <2>5, <2>7
  <1>8. CASE m.type = "HEARTBEAT"
    <2>1. k = l /\ U = T
      BY <1>8 DEF ListedAfter, Turns
    <2>2. QED
      BY <1>1, <2>1
  <1>9. QED
    BY <1>4, <1>5, <1>6, <1>7, <1>8, MessageFields

\* The service takes one more message.
LEMMA TakesOne ==
    ASSUME ExchangeOK, NEW n \in 0..(Len(feed) - 1), NEW s, Serves(s, n), NEW t, t = Taken(s, n)
    PROVE  Serves(t, n + 1)
  <1>1. Len(feed) \in Nat /\ n + 1 \in 1..Len(feed) /\ n \in Nat /\ (n + 1) - 1 = n /\ n + 1 # 0 /\ n \in 0..Len(feed)
    BY OrdersNow
  <1>2. PICK T, U, m : T = Was(n) /\ U = Was(n + 1) /\ m = feed[n + 1]
    OBVIOUS
  <1>3. U = truth[n + 1] /\ IsOrders(T) /\ m \in Message
    BY <1>1, <1>2, OrdersNow DEF Was, ExchangeOK
  <1>4. U = After(T, m) /\ Fits(m, T)
    BY <1>1, <1>2, <1>3 DEF ExchangeOK
  <1>5. Turns(T, m, U)
    BY <1>3, <1>4, AfterOrders
  <1>6. /\ s = [orders |-> s.orders, seq |-> s.seq] /\ Mirrors(s.orders, T)
        /\ IF n = 0 THEN s.seq = 0 ELSE s.seq \in 0..(n - 1) /\ truth[s.seq + 1] = T
    BY <1>2 DEF Serves
  <1>7. CASE m.type = "TRADE_SUMMARY"
    <2>1. t = s /\ U = T
      BY <1>2, <1>5, <1>7 DEF Taken, Turns
    <2>2. n # 0
      <3>1. DOMAIN T # {}
        BY <1>4, <1>7 DEF Fits
      <3>2. QED
        BY <1>2, <3>1, NothingIsEmpty DEF Was
    <2>3. s.seq \in 0..((n + 1) - 1) /\ truth[s.seq + 1] = U
      BY <1>1, <1>6, <2>1, <2>2
    <2>4. QED
      BY <1>1, <1>2, <1>6, <2>1, <2>3 DEF Serves
  <1>8. CASE m.type # "TRADE_SUMMARY"
    <2>1. PICK l, k : l = s.orders /\ k = ListedAfter(l, m)
      OBVIOUS
    <2>2. t = [orders |-> k, seq |-> n]
      BY <1>2, <1>8, <2>1 DEF Taken
    <2>3. Mirrors(k, U)
      BY <1>3, <1>4, <1>5, <1>6, <1>8, <2>1, ListsFollow
    <2>4. t.orders = k /\ t.seq = n /\ n \in 0..((n + 1) - 1)
      BY <1>1, <2>2
    <2>5. QED
      BY <1>1, <1>2, <1>3, <2>2, <2>3, <2>4 DEF Serves
  <1>9. QED
    BY <1>7, <1>8

\* The service takes any number of messages.
LEMMA CatchesUp ==
    ASSUME ExchangeOK, ServiceOK, NEW n \in heard..Len(feed), NEW s, s = CaughtUp(n)
    PROVE  Serves(s, n)
  <1>1. heard \in Nat /\ Len(feed) \in Nat /\ n \in Nat /\ n - heard \in Nat
    BY OrdersNow DEF ServiceOK
  <1>2. PICK f : CaughtBy(f, n - heard) /\ CaughtUp(n) = f[n - heard]
    BY <1>1, CaughtStepwise
  <1> DEFINE N == {k \in 0..(n - heard) : Serves(f[k], heard + k)}
  <1>3. 0 \in N
    <2>1. f[0] = [orders |-> listed, seq |-> written_seq] /\ heard + 0 = heard
      BY <1>1, <1>2 DEF CaughtBy
    <2>2. Serves([orders |-> listed, seq |-> written_seq], heard)
      BY DEF ServiceOK
    <2>3. QED
      BY <1>1, <2>1, <2>2
  <1>4. ASSUME NEW k \in 0..((n - heard) - 1), k \in N
        PROVE  k + 1 \in N
    <2>1. k + 1 \in 0..(n - heard) /\ k + 1 # 0 /\ heard + k \in 0..(Len(feed) - 1) /\ heard + (k + 1) = (heard + k) + 1
          /\ (k + 1) - 1 = k /\ heard + (k + 1) - 1 = heard + k
      BY <1>1
    <2>2. PICK a, b, h : a = f[k] /\ b = f[k + 1] /\ h = heard + k
      OBVIOUS
    <2>3. b = Taken(a, h)
      BY <1>2, <2>1, <2>2 DEF CaughtBy
    <2>4. h \in 0..(Len(feed) - 1) /\ Serves(a, h)
      BY <1>4, <2>1, <2>2
    <2>5. Serves(b, h + 1)
      BY <2>3, <2>4, TakesOne
    <2>6. QED
      BY <2>1, <2>2, <2>5
  <1>5. 0..(n - heard) \subseteq N
    <2> HIDE DEF N
    <2>1. QED
      BY <1>1, <1>3, <1>4, CountUp
  <1>6. n - heard \in N /\ heard + (n - heard) = n
    <2>1. n - heard \in 0..(n - heard)
      BY <1>1
    <2>2. QED
      BY <1>1, <1>5, <2>1
  <1>7. QED
    BY <1>2, <1>6

\* The orders of a symbol in a row, whatever their order.
LEMMA RowsAreOrders ==
    ASSUME scenario \in Scenarios, NEW T, IsOrders(T), NEW s, Mirrors(s.orders, T), NEW symbol \in Symbols,
           NEW row \in Rows(s, symbol)
    PROVE  row \in Seq(Entry) /\ RowOf(row, T, symbol)
  <1> DEFINE On(side) == {id \in DOMAIN s.orders[side] : s.orders[side][id].symbol = symbol}
             E(side) == {[id |-> id, symbol |-> symbol, side |-> side, quantity |-> s.orders[side][id].quantity] :
                            id \in On(side)}
  <1>1. \A side \in Side : s.orders[side] = SideOf(T, side)
    BY DEF Mirrors
  <1>2. ASSUME NEW side \in Side
        PROVE  /\ \A id : id \in On(side) <=> id \in DOMAIN T /\ T[id].side = side /\ T[id].symbol = symbol
               /\ \A id \in On(side) : s.orders[side][id].quantity = T[id].quantity
    <2>1. PICK g : g = SideOf(T, side)
      OBVIOUS
    <2>2. /\ \A x : x \in DOMAIN g <=> x \in DOMAIN T /\ T[x].side = side
          /\ \A x \in DOMAIN g : g[x] = [symbol |-> T[x].symbol, quantity |-> T[x].quantity]
      BY <2>1 DEF SideOf
    <2>3. s.orders[side] = g
      BY <1>1, <2>1
    <2>4. \A x \in DOMAIN g : g[x].symbol = T[x].symbol /\ g[x].quantity = T[x].quantity
      BY <2>2
    <2>5. QED
      BY <2>2, <2>3, <2>4
  <1>3. ASSUME NEW side \in Side
        PROVE  /\ IsFiniteSet(E(side))
               /\ \A e \in E(side) : /\ e \in Entry /\ e.id \in DOMAIN T /\ T[e.id].side = side
                                     /\ T[e.id].symbol = symbol /\ T[e.id].quantity = e.quantity
                                     /\ e.side = side /\ e.symbol = symbol
               /\ \A e, f \in E(side) : e.id = f.id => e = f
               /\ \A id \in DOMAIN T : T[id].side = side /\ T[id].symbol = symbol => \E e \in E(side) : e.id = id
    <2>1. PICK S : S = On(side)
      OBVIOUS
    <2>2. \A id : id \in S <=> id \in DOMAIN T /\ T[id].side = side /\ T[id].symbol = symbol
      BY <1>2, <2>1
    <2>3. \A id \in S : s.orders[side][id].quantity = T[id].quantity
      BY <1>2, <2>1
    <2>4. PICK F : F = {[id |-> id, symbol |-> symbol, side |-> side, quantity |-> T[id].quantity] : id \in S}
      OBVIOUS
    <2>5. F = E(side)
      BY <2>1, <2>3, <2>4
    <2>6. IsFiniteSet(S)
      <3>1. S \subseteq Ids
        BY <2>2 DEF IsOrders
      <3>2. IsFiniteSet(Ids)
        BY ScenarioConstants
      <3>3. QED
        BY <3>1, <3>2, FS_Subset
    <2>7. IsFiniteSet(F)
      <3>1. PICK g : g = [id \in S |-> [id |-> id, symbol |-> symbol, side |-> side, quantity |-> T[id].quantity]]
        OBVIOUS
      <3>2. g \in Surjection(S, F)
        BY <2>4, <3>1 DEF Surjection
      <3>3. QED
        BY <2>6, <3>2, FS_Surjection
    <2>8. ASSUME NEW e \in F
          PROVE  /\ e \in Entry /\ e.id \in DOMAIN T /\ T[e.id].side = side
                 /\ T[e.id].symbol = symbol /\ T[e.id].quantity = e.quantity
                 /\ e.side = side /\ e.symbol = symbol
                 /\ e = [id |-> e.id, symbol |-> symbol, side |-> side, quantity |-> T[e.id].quantity]
      <3>1. PICK id \in S : e = [id |-> id, symbol |-> symbol, side |-> side, quantity |-> T[id].quantity]
        BY <2>4
      <3>2. id \in DOMAIN T /\ id \in Ids /\ T[id].quantity \in Positive /\ T[id].side = side /\ T[id].symbol = symbol
        BY <2>2 DEF IsOrders, Resting
      <3>3. e.id = id /\ e.symbol = symbol /\ e.side = side /\ e.quantity = T[id].quantity
        BY <3>1
      <3>4. e \in Entry
        BY <3>1, <3>2 DEF Entry
      <3>5. QED
        BY <3>1, <3>2, <3>3, <3>4
    <2>9. ASSUME NEW e \in F, NEW f \in F, e.id = f.id PROVE e = f
      BY <2>8, <2>9
    <2>10. ASSUME NEW id \in DOMAIN T, T[id].side = side /\ T[id].symbol = symbol PROVE \E e \in F : e.id = id
      <3>1. PICK e : e = [id |-> id, symbol |-> symbol, side |-> side, quantity |-> T[id].quantity]
        OBVIOUS
      <3>2. id \in S
        BY <2>2, <2>10
      <3>3. e \in F
        BY <2>4, <3>1, <3>2
      <3>4. e.id = id
        BY <3>1
      <3>5. QED
        BY <3>3, <3>4
    <2>11. QED
      BY <2>5, <2>7, <2>8, <2>9, <2>10
  <1>4. PICK B, A : B = E("BUY") /\ A = E("SELL")
    OBVIOUS
  <1>5. PICK bids \in Seqs!SetToSeqs(B), asks \in Seqs!SetToSeqs(A) : row = bids \o asks
    <2>1. Rows(s, symbol) = {both[1] \o both[2] : both \in Seqs!SetToSeqs(E("BUY")) \X Seqs!SetToSeqs(E("SELL"))}
      BY DEF Rows
    <2> HIDE DEF E
    <2>2. PICK X, Y : X = Seqs!SetToSeqs(B) /\ Y = Seqs!SetToSeqs(A)
      OBVIOUS
    <2>3. PICK both \in X \X Y : row = both[1] \o both[2]
      BY <1>4, <2>1, <2>2
    <2>4. both[1] \in X /\ both[2] \in Y
      BY <2>3
    <2>5. QED
      BY <2>2, <2>3, <2>4
  <1>6. "BUY" \in Side /\ "SELL" \in Side /\ \A side \in Side : side = "BUY" \/ side = "SELL"
    BY DEF Side
  <1> HIDE DEF E
  <1>7. Lists(bids, B) /\ Lists(asks, A)
    BY <1>3, <1>4, <1>5, <1>6, SequencesOf
  <1>8. PICK b, a : b = Len(bids) /\ a = Len(asks)
    OBVIOUS
  <1>9. /\ b \in Nat /\ a \in Nat /\ bids \in Seq(B) /\ asks \in Seq(A) /\ DOMAIN bids = 1..b /\ DOMAIN asks = 1..a
        /\ \A i \in 1..b : bids[i] \in B
        /\ \A i \in 1..a : asks[i] \in A
    BY <1>7, <1>8 DEF Lists
  <1>10. \A e \in B \cup A : e \in Entry
    BY <1>3, <1>4, <1>6
  <1>11. IsJoin(Entry, bids, asks, row)
    <2>1. bids \in Seq(Entry) /\ asks \in Seq(Entry)
      BY <1>9, <1>10
    <2>2. QED
      BY <1>5, <2>1, Joined
  <1>12. /\ row \in Seq(Entry) /\ DOMAIN row = 1..(b + a)
         /\ \A i \in 1..b : row[i] = bids[i]
         /\ \A i \in 1..a : row[b + i] = asks[i]
    BY <1>8, <1>9, <1>11 DEF IsJoin
  <1>13. ASSUME NEW i \in 1..(b + a) PROVE (i \in 1..b) \/ (i - b \in 1..a /\ b + (i - b) = i)
    BY <1>9
  <1>14. ASSUME NEW i \in 1..(b + a)
         PROVE  IF i \in 1..b THEN row[i] \in B /\ row[i] = bids[i] ELSE row[i] \in A /\ row[i] = asks[i - b] /\ i - b \in 1..a
    BY <1>9, <1>12, <1>13
  <1>15. \A e \in B : e.side = "BUY"
    BY <1>3, <1>4, <1>6
  <1>16. \A e \in A : e.side = "SELL"
    BY <1>3, <1>4, <1>6
  <1>17. ASSUME NEW i \in DOMAIN row
         PROVE  /\ row[i].id \in DOMAIN T /\ row[i].symbol = symbol /\ T[row[i].id].symbol = symbol
                /\ row[i].side = T[row[i].id].side /\ row[i].quantity = T[row[i].id].quantity
    <2>1. row[i] \in B \/ row[i] \in A
      BY <1>12, <1>14
    <2>2. PICK e : e = row[i]
      OBVIOUS
    <2>3. PICK side \in Side : e \in E(side)
      BY <1>4, <1>6, <2>1, <2>2
    <2>4. QED
      BY <1>3, <2>2, <2>3
  <1>18. ASSUME NEW i \in DOMAIN row, NEW j \in DOMAIN row, row[i].id = row[j].id
         PROVE  i = j
    <2>1. row[i].side = row[j].side
      BY <1>17, <1>18
    <2>2. CASE i \in 1..b
      <3>1. j \in 1..b
        BY <1>12, <1>14, <1>15, <1>16, <2>1, <2>2
      <3>2. bids[i].id = bids[j].id /\ bids[i] \in B /\ bids[j] \in B
        BY <1>9, <1>12, <1>18, <2>2, <3>1
      <3>3. bids[i] = bids[j]
        BY <1>3, <1>4, <1>6, <3>2
      <3>4. QED
        BY <1>7, <1>9, <2>2, <3>1, <3>3 DEF Lists
    <2>3. CASE i \notin 1..b
      <3>1. j \notin 1..b
        BY <1>12, <1>14, <1>15, <1>16, <2>1, <2>3
      <3>2. i - b \in 1..a /\ j - b \in 1..a /\ row[i] = asks[i - b] /\ row[j] = asks[j - b]
        BY <1>12, <1>14, <2>3, <3>1
      <3>3. asks[i - b] = asks[j - b]
        BY <1>3, <1>4, <1>6, <1>9, <1>18, <3>2
      <3>4. i - b = j - b
        BY <1>7, <1>9, <3>2, <3>3 DEF Lists
      <3>5. QED
        BY <1>9, <1>12, <1>18, <3>4
    <2>4. QED
      BY <2>2, <2>3
  <1>19. ASSUME NEW id \in DOMAIN T, T[id].symbol = symbol
         PROVE  \E i \in DOMAIN row : row[i].id = id
    <2>1. T[id].side \in Side
      BY DEF IsOrders, Resting
    <2>2. CASE T[id].side = "BUY"
      <3>1. PICK e \in B : e.id = id
        BY <1>3, <1>4, <1>6, <1>19, <2>2
      <3>2. PICK i \in 1..b : bids[i] = e
        BY <1>7, <1>9 DEF Lists
      <3>3. i \in 1..(b + a) /\ row[i] = e
        BY <1>9, <1>12, <3>2
      <3>4. QED
        BY <1>12, <3>1, <3>3
    <2>3. CASE T[id].side = "SELL"
      <3>1. PICK e \in A : e.id = id
        BY <1>3, <1>4, <1>6, <1>19, <2>3
      <3>2. PICK i \in 1..a : asks[i] = e
        BY <1>7, <1>9 DEF Lists
      <3>3. b + i \in 1..(b + a) /\ row[b + i] = e
        BY <1>9, <1>12, <3>2
      <3>4. QED
        BY <1>12, <3>1, <3>3
    <2>4. QED
      BY <1>6, <2>1, <2>2, <2>3
  <1>20. QED
    BY <1>12, <1>17, <1>18, <1>19 DEF RowOf

-----------------------------------------------------------------------------
(* The datagrams of a snapshot. *)

\* The number of datagrams is the least that has room for the row.
LEMMA RoomForRow ==
    ASSUME NEW row, Len(row) \in Nat, NEW c, c = DatagramCount(row)
    PROVE  /\ c \in Nat /\ c >= 1 /\ c * OrdersPerDatagram >= Len(row)
           /\ \A i \in 1..(c - 1) : i * OrdersPerDatagram < Len(row)
  <1>1. PICK P, l : P = OrdersPerDatagram /\ l = Len(row)
    OBVIOUS
  <1>2. P \in Nat /\ P >= 1 /\ l \in Nat
    BY <1>1, Constants
  <1>3. PICK C : C = {k \in 1..(l + 1) : k * P >= l}
    OBVIOUS
  <1>4. l + 1 \in C
    <2>1. (l + 1) * P >= l
      <3>1. (l + 1) * P = l * P + P /\ l * P \in Nat
        BY <1>2
      <3>2. l * P >= l
        <4>1. PICK d \in Nat : P = d + 1
          <5>1. P - 1 \in Nat /\ P = (P - 1) + 1
            BY <1>2
          <5>2. QED
            BY <5>1
        <4>2. l * P = l * d + l /\ l * d \in Nat
          BY <1>2, <4>1
        <4>3. QED
          BY <1>2, <4>2
      <3>3. QED
        BY <1>2, <3>1, <3>2
    <2>2. QED
      BY <1>2, <1>3, <2>1
  <1>5. \E x \in C : \A y \in C : x <= y
    <2> DEFINE N == {k \in Nat : \A y \in C : k < y}
    <2>1. SUFFICES ASSUME ~\E x \in C : \A y \in C : x <= y PROVE FALSE
      OBVIOUS
    <2>2. C \subseteq Nat /\ 0 \in N
      BY <1>2, <1>3
    <2>3. ASSUME NEW k \in 0..l, k \in N PROVE k + 1 \in N
      <3>1. \A y \in C : k + 1 <= y
        BY <2>2, <2>3
      <3>2. k + 1 \notin C
        BY <2>1, <3>1
      <3>3. \A y \in C : k + 1 < y
        BY <2>2, <3>1, <3>2
      <3>4. QED
        BY <3>3
    <2>4. 0..(l + 1) \subseteq N
      <3> HIDE DEF N
      <3>1. l + 1 \in Nat /\ (l + 1) - 1 = l
        BY <1>2
      <3>2. QED
        BY <2>2, <2>3, <3>1, CountUp
    <2>5. l + 1 \in 0..(l + 1)
      BY <1>2
    <2>6. l + 1 < l + 1
      BY <1>4, <2>4, <2>5
    <2>7. QED
      BY <1>2, <2>6
  <1>6. c = CHOOSE x \in C : \A y \in C : x <= y
    BY <1>1, <1>3 DEF DatagramCount, Sets!Min
  <1>7. c \in C /\ \A y \in C : c <= y
    BY <1>5, <1>6
  <1>8. c \in Nat /\ c >= 1 /\ c * P >= l /\ c <= l + 1
    BY <1>2, <1>3, <1>7
  <1>9. ASSUME NEW i \in 1..(c - 1) PROVE i * P < l
    <2>1. i \in 1..(l + 1) /\ i \notin C /\ i \in Nat
      <3>1. i \in 1..(l + 1) /\ i \in Nat /\ ~(c <= i)
        BY <1>2, <1>8
      <3>2. QED
        BY <1>7, <3>1
    <2>2. ~(i * P >= l) /\ i * P \in Nat
      BY <1>2, <1>3, <2>1
    <2>3. QED
      BY <1>2, <2>2
  <1>10. QED
    BY <1>1, <1>8, <1>9

\* The datagrams ds are the row of one symbol, piece by piece.
Pieces(ds, seq, symbol, row) ==
    /\ ds \in Seq(Datagram) /\ Len(ds) \in Nat /\ Len(ds) >= 1 /\ ds[1].from = 0
    /\ \A i \in 1..Len(ds) : /\ ds[i].symbol = symbol /\ ds[i].seq = seq /\ ds[i].row = row
                             /\ ds[i].from = 0 \/ ds[i].from < Len(row)
    /\ \A i \in 1..(Len(ds) - 1) : ~Final(ds[i]) /\ ds[i + 1].from = ds[i].from + OrdersPerDatagram
    /\ Final(ds[Len(ds)])

LEMMA DatagramsArePieces ==
    ASSUME NEW seq \in Nat, NEW symbol \in Symbols, NEW row \in Seq(Entry), NEW ds, ds = Datagrams(seq, symbol, row)
    PROVE  Pieces(ds, seq, symbol, row)
  <1>1. PICK c, P, l : c = DatagramCount(row) /\ P = OrdersPerDatagram /\ l = Len(row)
    OBVIOUS
  <1>2. l \in Nat /\ P \in Nat /\ P >= 1
    BY <1>1, Constants
  <1>3. c \in Nat /\ c >= 1 /\ c * P >= l /\ \A i \in 1..(c - 1) : i * P < l
    BY <1>1, <1>2, RoomForRow
  <1>4. ds = [i \in 1..c |-> [symbol |-> symbol, seq |-> seq, row |-> row, from |-> (i - 1) * P]]
    BY <1>1 DEF Datagrams
  <1>5. \A i \in 1..c : (i - 1) * P \in Nat /\ (i - 1) * P + P = i * P
    BY <1>2, <1>3
  <1>6. \A i \in 1..c : ds[i] \in Datagram
    BY <1>4, <1>5 DEF Datagram
  <1>7. ds \in Seq(Datagram) /\ Len(ds) = c
    BY <1>3, <1>4, <1>6
  <1>8. ASSUME NEW i \in 1..c
        PROVE  /\ ds[i].symbol = symbol /\ ds[i].seq = seq /\ ds[i].row = row /\ ds[i].from = (i - 1) * P
               /\ ds[i].from = 0 \/ ds[i].from < l
    <2>1. ds[i].symbol = symbol /\ ds[i].seq = seq /\ ds[i].row = row /\ ds[i].from = (i - 1) * P
      BY <1>4
    <2>2. CASE i = 1
      BY <1>2, <2>1, <2>2
    <2>3. CASE i # 1
      <3>1. i - 1 \in 1..(c - 1)
        BY <1>3, <2>3
      <3>2. QED
        BY <1>3, <2>1, <3>1
    <2>4. QED
      BY <2>1, <2>2, <2>3
  <1>9. ASSUME NEW i \in 1..(c - 1) PROVE ~Final(ds[i]) /\ ds[i + 1].from = ds[i].from + P
    <2>1. i \in 1..c /\ i + 1 \in 1..c /\ (i + 1) - 1 = i
      BY <1>3
    <2>2. ds[i].from + P = i * P /\ ds[i + 1].from = i * P /\ i * P < l /\ i * P \in Int /\ ds[i].row = row
      BY <1>2, <1>3, <1>5, <1>8, <2>1
    <2>3. QED
      BY <1>1, <1>2, <2>2 DEF Final
  <1>10. Final(ds[c]) /\ ds[1].from = 0
    <2>1. c \in 1..c /\ 1 \in 1..c /\ (1 - 1) * P = 0
      BY <1>2, <1>3
    <2>2. ds[c].from + P = c * P /\ ds[c].row = row /\ ds[1].from = 0
      BY <1>5, <1>8, <2>1
    <2>3. QED
      BY <1>1, <1>3, <2>2 DEF Final
  <1>11. QED
    BY <1>1, <1>3, <1>7, <1>8, <1>9, <1>10 DEF Pieces

\* The datagrams s are the first k symbols of a snapshot with number seq.
CycleTo(s, seq, k) ==
    /\ s \in Seq(Datagram) /\ Len(s) \in Nat
    /\ \A i \in 1..Len(s) : DatagramOK(s[i]) /\ s[i].seq = seq
    /\ \A i \in 1..(Len(s) - 1) : Succeeds(s[i], s[i + 1])
    /\ k = 0 => Len(s) = 0
    /\ k > 0 => Len(s) >= 1 /\ Starts(s[1]) /\ Final(s[Len(s)]) /\ s[Len(s)].symbol = SymbolRow[k]

\* The row has the orders of the symbol after message seq.
RightRow(row, seq, symbol) ==
    /\ row \in Seq(Entry) /\ \A i \in DOMAIN row : row[i].symbol = symbol
    /\ seq > 0 => RowOf(row, truth[seq + 1], symbol)

\* The pieces of the next symbol are added.
LEMMA CycleGrows ==
    ASSUME NEW k \in 0..(Len(SymbolRow) - 1), NEW seq \in Nat, Counted(seq), NEW s, CycleTo(s, seq, k),
           NEW row, NEW ds, Pieces(ds, seq, SymbolRow[k + 1], row),
           RightRow(row, seq, SymbolRow[k + 1]), NEW t, IsJoin(Datagram, s, ds, t)
    PROVE  CycleTo(t, seq, k + 1)
  <1>1. PICK a, b : a = Len(s) /\ b = Len(ds)
    OBVIOUS
  <1>2. a \in Nat /\ b \in Nat /\ b >= 1 /\ s \in Seq(Datagram) /\ ds \in Seq(Datagram) /\ k \in Nat
    BY <1>1, Constants DEF CycleTo, Pieces
  <1>3. /\ t \in Seq(Datagram) /\ Len(t) = a + b
        /\ \A i \in 1..a : t[i] = s[i]
        /\ \A i \in 1..b : t[a + i] = ds[i]
    BY <1>1 DEF IsJoin
  <1>4. \A i \in 1..(a + b) : i \in 1..a \/ (i - a \in 1..b /\ i = a + (i - a))
    BY <1>2
  <1>5. ASSUME NEW i \in 1..(a + b) PROVE DatagramOK(t[i]) /\ t[i].seq = seq
    <2>1. CASE i \in 1..a
      BY <1>1, <1>3, <2>1 DEF CycleTo
    <2>2. CASE i - a \in 1..b /\ i = a + (i - a)
      <3>1. PICK d, j : j = i - a /\ d = ds[j]
        OBVIOUS
      <3>2. t[i] = d /\ d.seq = seq /\ d.row = row /\ d.symbol = SymbolRow[k + 1] /\ (d.from = 0 \/ d.from < Len(row))
        BY <1>1, <1>3, <2>2, <3>1 DEF Pieces
      <3>3. QED
        BY <3>2 DEF DatagramOK, RightRow
    <2>3. QED
      BY <1>4, <2>1, <2>2
  <1>6. ASSUME NEW i \in 1..((a + b) - 1) PROVE Succeeds(t[i], t[i + 1])
    <2>1. CASE i \in 1..(a - 1)
      <3>1. i \in 1..a /\ i + 1 \in 1..a
        BY <1>2, <2>1
      <3>2. QED
        BY <1>1, <1>3, <2>1, <3>1 DEF CycleTo
    <2>2. CASE i = a
      <3>1. a \in 1..a /\ 1 \in 1..b /\ a >= 1
        BY <1>2, <2>2
      <3>2. PICK d, e : d = s[a] /\ e = ds[1]
        OBVIOUS
      <3>3. t[i] = d /\ t[i + 1] = e
        BY <1>3, <2>2, <3>1, <3>2
      <3>4. k > 0 /\ k \in Nat
        BY <1>1, <1>2, <3>1 DEF CycleTo
      <3>5. Final(d) /\ d.symbol = SymbolRow[k] /\ d.seq = seq
        BY <1>1, <3>1, <3>2, <3>4 DEF CycleTo
      <3>6. e.from = 0 /\ e.symbol = SymbolRow[k + 1] /\ e.seq = seq
        BY <1>1, <3>1, <3>2 DEF Pieces
      <3>7. ASSUME NEW j \in DOMAIN SymbolRow, d.symbol = SymbolRow[j] PROVE j = k /\ j < Len(SymbolRow)
        <4>1. Len(SymbolRow) \in Nat
          BY Constants
        <4>2. k \in 1..Len(SymbolRow) /\ k < Len(SymbolRow)
          BY <3>4, <4>1
        <4>3. SymbolRow[j] = SymbolRow[k] /\ j \in 1..Len(SymbolRow)
          BY <3>5, <3>7, Constants
        <4>4. j = k
          BY <4>2, <4>3, SameSymbol, Constants
        <4>5. QED
          BY <4>2, <4>4
      <3>8. Succeeds(d, e)
        BY <3>5, <3>6, <3>7 DEF Succeeds
      <3>9. QED
        BY <3>3, <3>8
    <2>3. CASE i \notin 1..a
      <3>1. PICK j : j = i - a
        OBVIOUS
      <3>2. j \in 1..(b - 1) /\ j \in 1..b /\ j + 1 \in 1..b /\ i = a + j /\ i + 1 = a + (j + 1)
        BY <1>2, <2>3, <3>1
      <3>3. PICK d, e : d = ds[j] /\ e = ds[j + 1]
        OBVIOUS
      <3>4. t[i] = d /\ t[i + 1] = e
        BY <1>3, <3>2, <3>3
      <3>5. /\ ~Final(d) /\ e.from = d.from + OrdersPerDatagram
            /\ e.symbol = d.symbol /\ e.seq = d.seq /\ e.row = d.row
        BY <1>1, <3>2, <3>3 DEF Pieces
      <3>6. Succeeds(d, e)
        BY <3>5 DEF Succeeds
      <3>7. QED
        BY <3>4, <3>6
    <2>4. QED
      BY <1>2, <2>1, <2>2, <2>3
  <1>7. a + b >= 1 /\ Final(t[a + b]) /\ t[a + b].symbol = SymbolRow[k + 1] /\ a + b \in Nat
    <2>1. b \in 1..b
      BY <1>2
    <2>2. t[a + b] = ds[b]
      BY <1>3, <2>1
    <2>3. Final(ds[b]) /\ ds[b].symbol = SymbolRow[k + 1]
      BY <1>1, <2>1 DEF Pieces
    <2>4. QED
      BY <1>2, <2>2, <2>3
  <1>8. Starts(t[1])
    <2>1. CASE k = 0
      <3>1. a = 0 /\ 1 \in 1..b /\ a + 1 = 1
        BY <1>1, <1>2, <2>1 DEF CycleTo
      <3>2. t[1] = ds[1]
        BY <1>3, <3>1
      <3>3. ds[1].from = 0 /\ ds[1].symbol = SymbolRow[1]
        BY <1>1, <2>1, <3>1 DEF Pieces
      <3>4. QED
        BY <3>2, <3>3 DEF Starts
    <2>2. CASE k # 0
      <3>1. k > 0
        BY <1>2, <2>2
      <3>2. a >= 1 /\ Starts(s[1])
        BY <1>1, <3>1 DEF CycleTo
      <3>3. t[1] = s[1]
        BY <1>2, <1>3, <3>2
      <3>4. QED
        BY <3>2, <3>3
    <2>3. QED
      BY <2>1, <2>2
  <1>9. k + 1 # 0
    BY <1>2
  <1>10. QED
    BY <1>3, <1>5, <1>6, <1>7, <1>8, <1>9 DEF CycleTo

\* A snapshot has all symbols, one after the other.
LEMMA CycleIsWhole ==
    ASSUME NEW seq \in Nat, Counted(seq), NEW rows,
           \A symbol \in Symbols : RightRow(rows[symbol], seq, symbol),
           NEW s, s = Cycle(seq, rows)
    PROVE  CycleTo(s, seq, Len(SymbolRow))
  <1>1. PICK c : c = Len(SymbolRow)
    OBVIOUS
  <1>2. c \in Nat /\ c >= 1 /\ \A i \in 1..c : SymbolRow[i] \in Symbols
    BY <1>1, Constants
  <1>3. PICK f : CycleBy(f, seq, rows, c) /\ s = f[c]
    BY <1>1, <1>2, CycleStepwise
  <1> DEFINE N == {k \in 0..c : CycleTo(f[k], seq, k)}
  <1>4. 0 \in N
    <2>1. PICK e : e = f[0]
      OBVIOUS
    <2>2. e = <<>>
      BY <1>2, <1>3, <2>1 DEF CycleBy
    <2>3. CycleTo(e, seq, 0)
      <3>1. e \in Seq(Datagram) /\ Len(e) = 0
        BY <2>2
      <3>2. QED
        BY <3>1 DEF CycleTo
    <2>4. QED
      BY <1>2, <2>1, <2>3
  <1>5. ASSUME NEW k \in 0..(c - 1), k \in N PROVE k + 1 \in N
    <2>1. k + 1 \in 1..c /\ k + 1 \in 0..c /\ k + 1 # 0 /\ (k + 1) - 1 = k
      BY <1>2
    <2>2. PICK symbol, row, a, t : symbol = SymbolRow[k + 1] /\ row = rows[symbol] /\ a = f[k] /\ t = f[k + 1]
      OBVIOUS
    <2>3. PICK ds : ds = Datagrams(seq, symbol, row)
      OBVIOUS
    <2>4. t = a \o ds
      BY <1>3, <2>1, <2>2, <2>3 DEF CycleBy
    <2>5. symbol \in Symbols /\ RightRow(row, seq, symbol) /\ row \in Seq(Entry)
      BY <1>2, <2>1, <2>2 DEF RightRow
    <2>6. Pieces(ds, seq, symbol, row)
      BY <2>3, <2>5, DatagramsArePieces
    <2>7. CycleTo(a, seq, k)
      BY <1>5, <2>2
    <2>10. IsJoin(Datagram, a, ds, t)
      BY <2>4, <2>6, <2>7, Joined DEF Pieces, CycleTo
    <2>11. Pieces(ds, seq, SymbolRow[k + 1], row) /\ RightRow(row, seq, SymbolRow[k + 1])
      BY <2>2, <2>5, <2>6
    <2>8. CycleTo(t, seq, k + 1)
      BY <1>1, <2>7, <2>10, <2>11, CycleGrows
    <2>9. QED
      BY <2>1, <2>2, <2>8
  <1>6. 0..c \subseteq N
    <2> HIDE DEF N
    <2>1. QED
      BY <1>2, <1>4, <1>5, CountUp
  <1>7. c \in 0..c
    BY <1>2
  <1>8. QED
    BY <1>1, <1>3, <1>6, <1>7

\* A snapshot is added to whole snapshots.
LEMMA StreamsJoin ==
    ASSUME NEW a, NEW b, NEW seq, WholeStream(a), CycleTo(b, seq, Len(SymbolRow)), a \in Seq(Datagram),
           NEW c, IsJoin(Datagram, a, b, c)
    PROVE  /\ WholeStream(c) /\ c # <<>> /\ c \in Seq(Datagram)
           /\ a = <<>> => Starts(c[1])
           /\ a # <<>> => c[1] = a[1]
  <1>1. PICK l, m, n : l = Len(a) /\ m = Len(b) /\ n = Len(SymbolRow)
    OBVIOUS
  <1>2. n \in Nat /\ n >= 1 /\ DOMAIN SymbolRow = 1..n
    BY <1>1, Constants
  <1>3. /\ l \in Nat /\ m \in Nat /\ m >= 1
        /\ \A i \in 1..(m - 1) : Succeeds(b[i], b[i + 1])
        /\ Starts(b[1]) /\ Final(b[m]) /\ b[m].symbol = SymbolRow[n]
    BY <1>1, <1>2 DEF CycleTo
  <1>4. /\ c \in Seq(Datagram) /\ Len(c) = l + m
        /\ \A i \in 1..l : c[i] = a[i]
        /\ \A i \in 1..m : c[l + i] = b[i]
    BY <1>1 DEF IsJoin
  <1>5. (a = <<>> <=> l = 0) /\ c # <<>>
    BY <1>1, <1>3, <1>4, EmptySeq
  <1>6. l > 0 => Ends(a[l])
    BY <1>1, <1>5 DEF WholeStream
  <1>7. ASSUME NEW i \in 1..((l + m) - 1) PROVE Succeeds(c[i], c[i + 1])
    <2>1. CASE i < l
      <3>1. i \in 1..l /\ i + 1 \in 1..l /\ i \in 1..(l - 1)
        BY <1>3, <2>1
      <3>2. QED
        BY <1>1, <1>4, <3>1 DEF WholeStream
    <2>2. CASE i = l
      <3>1. l > 0 /\ l \in 1..l /\ 1 \in 1..m
        BY <1>3, <2>2
      <3>2. PICK d, e : d = a[l] /\ e = b[1]
        OBVIOUS
      <3>3. c[i] = d /\ c[i + 1] = e
        BY <1>4, <2>2, <3>1, <3>2
      <3>4. Final(d) /\ d.symbol = SymbolRow[n] /\ e.from = 0 /\ e.symbol = SymbolRow[1]
        BY <1>1, <1>3, <1>6, <3>1, <3>2 DEF Ends, Starts
      <3>5. ASSUME NEW j \in DOMAIN SymbolRow, d.symbol = SymbolRow[j] PROVE ~(j < Len(SymbolRow))
        <4>1. j = n
          <5>1. n \in DOMAIN SymbolRow
            BY <1>2
          <5>2. QED
            BY <3>4, <3>5, <5>1, SameSymbol
        <4>2. QED
          BY <1>1, <1>2, <4>1
      <3>6. Succeeds(d, e)
        BY <3>4, <3>5 DEF Succeeds
      <3>7. QED
        BY <3>3, <3>6
    <2>3. CASE i > l
      <3>1. PICK j : j = i - l
        OBVIOUS
      <3>2. j \in 1..(m - 1) /\ j \in 1..m /\ j + 1 \in 1..m /\ i = l + j /\ i + 1 = l + (j + 1)
        BY <1>3, <2>3, <3>1
      <3>3. c[i] = b[j] /\ c[i + 1] = b[j + 1]
        BY <1>4, <3>2
      <3>4. QED
        BY <1>3, <3>2, <3>3
    <2>4. QED
      BY <1>3, <2>1, <2>2, <2>3
  <1>8. Ends(c[l + m])
    <2>1. m \in 1..m
      BY <1>3
    <2>2. c[l + m] = b[m]
      BY <1>4, <2>1
    <2>3. QED
      BY <1>1, <1>3, <2>2 DEF Ends
  <1>9. WholeStream(c)
    BY <1>4, <1>7, <1>8 DEF WholeStream
  <1>10. a = <<>> => c[1] = b[1]
    <2>1. 1 \in 1..m
      BY <1>3
    <2>2. l = 0 => c[0 + 1] = b[1]
      BY <1>4, <2>1
    <2>3. QED
      BY <1>5, <2>2
  <1>11. a # <<>> => c[1] = a[1]
    BY <1>3, <1>4, <1>5
  <1>12. QED
    BY <1>3, <1>4, <1>5, <1>9, <1>10, <1>11

\* The datagrams that are part of a snapshot.
Good == {d \in Datagram : DatagramOK(d)}

LEMMA SnapsAreGood == ASSUME SnapsOK PROVE snaps \in Seq(Good)
  <1>1. snaps \in Seq(Datagram) /\ \A i \in DOMAIN snaps : snaps[i] \in Good
    BY DEF SnapsOK, Good
  <1>2. QED
    BY <1>1

LEMMA GoodSnaps == ASSUME ExchangeOK, Grows, snaps' \in Seq(Good) PROVE SnapsOK'
  <1>1. \A i \in DOMAIN snaps' : snaps'[i] \in Good
    OBVIOUS
  <1>2. snaps' \in Seq(Datagram')
    <2>1. Good \subseteq Datagram /\ Datagram' = Datagram
      BY GrowTypes DEF Good
    <2>2. snaps' \in Seq(Datagram)
      BY <2>1
    <2>3. QED
      BY <2>1, <2>2
  <1>3. ASSUME NEW i \in DOMAIN snaps' PROVE (DatagramOK(snaps[i]))'
    <2>1. PICK d : d = snaps'[i]
      OBVIOUS
    <2>2. DatagramOK(d)
      BY <1>1, <2>1 DEF Good
    <2>3. (DatagramOK(d))'
      BY <2>2, GrowDatagrams
    <2>4. QED
      BY <2>1, <2>3 DEF DatagramOK, Counted, RowOf
  <1>4. QED
    BY <1>2, <1>3 DEF SnapsOK

LEMMA JoinGood == ASSUME NEW S, NEW a \in Seq(S), NEW b \in Seq(S) PROVE a \o b \in Seq(S)
  OBVIOUS

\* What the service writes.
LEMMA Written ==
    ASSUME DataInv, NEW n \in heard..Len(feed), WriteSnapshot(n), UNCHANGED scenario
    PROVE  /\ ServiceOK' /\ UNCHANGED <<feed, truth, live, client>> /\ mode \in {"waiting", "live"}
           /\ \E cycle, seq : /\ CycleTo(cycle, seq, Len(SymbolRow)) /\ cycle \in Seq(Good)
                              /\ \/ snaps' = snaps \o cycle
                                 \/ LoseSnapshots /\ \E i \in DOMAIN cycle : snaps' = snaps \o Seqs!RemoveAt(cycle, i)
  <1>1. PICK s : s = CaughtUp(n)
    OBVIOUS
  <1>2. ExchangeOK /\ ServiceOK /\ scenario \in Scenarios
    BY DEF DataInv, ExchangeOK
  <1>3. Serves(s, n)
    BY <1>1, <1>2, CatchesUp
  <1>4. heard \in Nat /\ Len(feed) \in Nat /\ n \in 0..Len(feed)
    BY <1>2, OrdersNow DEF ServiceOK
  <1>5. PICK T : T = Was(n)
    OBVIOUS
  <1>6. /\ s = [orders |-> s.orders, seq |-> s.seq] /\ Mirrors(s.orders, T) /\ IsOrders(T)
        /\ IF n = 0 THEN s.seq = 0 ELSE s.seq \in 0..(n - 1) /\ truth[s.seq + 1] = T
    BY <1>2, <1>3, <1>4, <1>5, OrdersNow DEF Serves
  <1>7. PICK seq : seq = s.seq
    OBVIOUS
  <1>8. seq \in Nat /\ Counted(seq) /\ (seq > 0 => truth[seq + 1] = T)
    BY <1>4, <1>6, <1>7 DEF Counted
  <1>9. heard' = n /\ listed' = s.orders /\ written_seq' = s.seq /\ UNCHANGED <<feed, truth, live, client>>
        /\ mode \in {"waiting", "live"}
    BY <1>1 DEF WriteSnapshot, exchange
  <1>10. ServiceOK'
    <2>1. PICK t : t = [orders |-> listed', seq |-> written_seq']
      OBVIOUS
    <2>2. t = s
      BY <1>6, <1>9, <2>1
    <2>3. (Was(heard))' = T
      BY <1>5, <1>9 DEF Was
    <2>4. t.orders = s.orders /\ t.seq = s.seq
      BY <2>2
    <2>5. (Mirrors([orders |-> listed, seq |-> written_seq].orders, Was(heard)))'
      BY <1>6, <2>1, <2>3, <2>4
    <2>6. t = [orders |-> t.orders, seq |-> t.seq]
          /\ IF heard' = 0 THEN t.seq = 0 ELSE t.seq \in 0..(heard' - 1) /\ truth'[t.seq + 1] = (Was(heard))'
      BY <1>6, <1>9, <2>2, <2>3
    <2>7. Serves([orders |-> listed, seq |-> written_seq], heard)'
      BY <2>1, <2>5, <2>6 DEF Serves
    <2>8. QED
      BY <1>4, <1>9, <2>7 DEF ServiceOK
  <1>11. PICK rows : /\ \A symbol \in Symbols : rows[symbol] \in Rows(s, symbol)
                     /\ \/ snaps' = snaps \o Cycle(seq, rows)
                        \/ LoseSnapshots /\ \E i \in DOMAIN Cycle(seq, rows) :
                              snaps' = snaps \o Seqs!RemoveAt(Cycle(seq, rows), i)
    BY <1>1, <1>7 DEF WriteSnapshot
  <1>12. ASSUME NEW symbol \in Symbols PROVE RightRow(rows[symbol], seq, symbol)
    <2>1. PICK row : row = rows[symbol]
      OBVIOUS
    <2>2. row \in Seq(Entry) /\ RowOf(row, T, symbol)
      <3>1. row \in Rows(s, symbol)
        BY <1>11, <2>1
      <3>2. QED
        BY <1>2, <1>6, <3>1, RowsAreOrders
    <2>3. \A i \in DOMAIN row : row[i].symbol = symbol
      BY <2>2 DEF RowOf
    <2>4. QED
      BY <1>8, <2>1, <2>2, <2>3 DEF RightRow
  <1>13. PICK cycle : cycle = Cycle(seq, rows)
    OBVIOUS
  <1>14. CycleTo(cycle, seq, Len(SymbolRow))
    BY <1>8, <1>12, <1>13, CycleIsWhole
  <1>15. cycle \in Seq(Good)
    <2>1. cycle \in Seq(Datagram) /\ \A i \in 1..Len(cycle) : DatagramOK(cycle[i])
      BY <1>14 DEF CycleTo
    <2>2. \A i \in 1..Len(cycle) : cycle[i] \in Good
      BY <2>1 DEF Good
    <2>3. QED
      BY <2>1, <2>2
  <1>16. \/ snaps' = snaps \o cycle
         \/ LoseSnapshots /\ \E i \in DOMAIN cycle : snaps' = snaps \o Seqs!RemoveAt(cycle, i)
    BY <1>11, <1>13
  <1>17. QED
    BY <1>9, <1>10, <1>14, <1>15, <1>16

\* Writing a snapshot keeps everything.
LEMMA WriteKeepsData ==
    ASSUME DataInv, NEW n \in heard..Len(feed), WriteSnapshot(n), UNCHANGED scenario
    PROVE  DataInv'
  <1>1. /\ ServiceOK' /\ UNCHANGED <<feed, truth, live, client>> /\ mode \in {"waiting", "live"}
        /\ \E cycle, seq : /\ CycleTo(cycle, seq, Len(SymbolRow)) /\ cycle \in Seq(Good)
                           /\ \/ snaps' = snaps \o cycle
                              \/ LoseSnapshots /\ \E i \in DOMAIN cycle : snaps' = snaps \o Seqs!RemoveAt(cycle, i)
    BY Written
  <1>2. PICK cycle : /\ cycle \in Seq(Good)
                     /\ \/ snaps' = snaps \o cycle
                        \/ \E i \in DOMAIN cycle : snaps' = snaps \o Seqs!RemoveAt(cycle, i)
    BY <1>1
  <1>3. Grows /\ ExchangeOK'
    BY <1>1, SameFeedGrows DEF DataInv
  <1>4. SnapsOK'
    <2>1. snaps \in Seq(Good)
      BY SnapsAreGood DEF DataInv
    <2>2. PICK extra : extra \in Seq(Good) /\ snaps' = snaps \o extra
      <3>1. CASE snaps' = snaps \o cycle
        BY <1>2, <3>1
      <3>2. CASE \E i \in DOMAIN cycle : snaps' = snaps \o Seqs!RemoveAt(cycle, i)
        <4>1. PICK i \in DOMAIN cycle : snaps' = snaps \o Seqs!RemoveAt(cycle, i)
          BY <3>2
        <4>2. PICK x, y : x = SubSeq(cycle, 1, i - 1) /\ y = SubSeq(cycle, i + 1, Len(cycle))
          OBVIOUS
        <4>3. Seqs!RemoveAt(cycle, i) = x \o y
          BY <4>2 DEF Seqs!RemoveAt
        <4>4. x \in Seq(Good) /\ y \in Seq(Good)
          <5>1. PICK l : l = Len(cycle)
            OBVIOUS
          <5>2. l \in Nat /\ cycle \in Seq(Good) /\ i \in 1..l
            BY <1>2, <4>1, <5>1
          <5>3. \A j \in 1..l : cycle[j] \in Good
            BY <5>1, <5>2
          <5>4. (\A j \in 1..(i - 1) : cycle[j] \in Good) /\ \A j \in (i + 1)..l : cycle[j] \in Good
            BY <5>2, <5>3
          <5>5. SubSeq(cycle, 1, i - 1) \in Seq(Good)
            <6>1. 1 \in Int /\ i - 1 \in Int
              BY <5>2
            <6>2. QED
              BY <5>4, <6>1, SubSeqProperties
          <5>6. SubSeq(cycle, i + 1, l) \in Seq(Good)
            <6>1. i + 1 \in Int /\ l \in Int
              BY <5>2
            <6>2. QED
              BY <5>4, <6>1, SubSeqProperties
          <5>7. QED
            BY <4>2, <5>1, <5>5, <5>6
        <4>5. x \o y \in Seq(Good)
          BY <4>4, JoinGood
        <4>6. QED
          BY <4>1, <4>3, <4>5
      <3>3. QED
        BY <1>2, <3>1, <3>2
    <2>3. snaps' \in Seq(Good)
      BY <2>1, <2>2, JoinGood
    <2>4. QED
      BY <1>3, <2>3, GoodSnaps DEF DataInv
  <1>5. ClientOK'
    BY <1>1, <1>3, GrowClient DEF DataInv
  <1>6. UNCHANGED <<mode, live_buffer, snapshot_complete, awaited, last_snapshot_seq_num, last_md_seq_num>>
    BY <1>1 DEF client, recovery, books
  <1>7. LiveOK'
    BY <1>1, <1>6 DEF DataInv, LiveOK, Growing, Numbers
  <1>8. WaitOK'
    BY <1>1, <1>6 DEF DataInv, WaitOK, Begun
  <1>9. QED
    BY <1>1, <1>3, <1>4, <1>5, <1>7, <1>8 DEF DataInv

LEMMA WriteKeeps ==
    ASSUME RecoveryInv, ~LoseSnapshots, NEW n \in heard..Len(feed), WriteSnapshot(n), UNCHANGED scenario
    PROVE  RecoveryInv'
  <1>1. DataInv /\ StreamOK /\ BooksOK
    BY DEF RecoveryInv
  <1>2. DataInv'
    BY <1>1, WriteKeepsData
  <1>3. /\ ServiceOK' /\ UNCHANGED <<feed, truth, live, client>> /\ mode \in {"waiting", "live"}
        /\ \E cycle, seq : /\ CycleTo(cycle, seq, Len(SymbolRow)) /\ cycle \in Seq(Good)
                           /\ \/ snaps' = snaps \o cycle
                              \/ LoseSnapshots /\ \E i \in DOMAIN cycle : snaps' = snaps \o Seqs!RemoveAt(cycle, i)
    BY <1>1, Written
  <1>4. PICK cycle, seq : CycleTo(cycle, seq, Len(SymbolRow)) /\ snaps' = snaps \o cycle
    BY <1>3
  <1>5. Grows /\ ExchangeOK
    BY <1>1, <1>3, SameFeedGrows DEF DataInv
  <1>6. BooksOK'
    BY <1>1, <1>3, <1>5, GrowBooks DEF DataInv
  <1>7. PICK more : more = snaps \o cycle
    OBVIOUS
  <1>8. /\ WholeStream(more) /\ more # <<>>
        /\ snaps = <<>> => Starts(more[1])
        /\ snaps # <<>> => more[1] = snaps[1]
    <2>1. snaps \in Seq(Datagram) /\ cycle \in Seq(Datagram) /\ WholeStream(snaps)
      BY <1>1, <1>4 DEF DataInv, SnapsOK, CycleTo, StreamOK
    <2>2. IsJoin(Datagram, snaps, cycle, more)
      BY <1>7, <2>1, Joined
    <2>3. QED
      BY <1>4, <2>1, <2>2, StreamsJoin
  <1>9. snaps' = more
    BY <1>4, <1>7
  <1>10. UNCHANGED <<mode, live_buffer, snapshot_buffer, snapshot_complete, awaited, last_snapshot_seq_num>>
    BY <1>3 DEF client, recovery, books
  <1>11. AtStart(snaps) => AtStart(snaps)'
    BY <1>8, <1>9 DEF AtStart, Starts
  <1>12. WholeStream(snaps)'
    BY <1>8, <1>9 DEF WholeStream, Succeeds, Final, Ends
  <1>13. Skipping => Skipping'
    BY <1>8, <1>9, <1>10, <1>11 DEF Skipping, Begun, AtStart, Starts
  <1>14. \A i : (CompleteTo(snapshot_complete, snapshot_buffer, last_snapshot_seq_num, i))'
                  <=> CompleteTo(snapshot_complete, snapshot_buffer, last_snapshot_seq_num, i)
    BY <1>3, <1>10 DEF CompleteTo, RowOf
  <1>15. ASSUME NEW i \in DOMAIN SymbolRow, Taking(i) PROVE (Taking(i))'
    <2>1. snaps # <<>> /\ snaps' # <<>> /\ snaps'[1] = snaps[1]
      BY <1>8, <1>9, <1>15 DEF Taking
    <2>2. (CompleteTo(snapshot_complete, snapshot_buffer, last_snapshot_seq_num, i))'
      BY <1>14, <1>15 DEF Taking
    <2>3. (snaps # <<>> /\ ~Starts(snaps[1]) /\ snaps[1].symbol = SymbolRow[i] /\ snaps[1].seq = last_snapshot_seq_num)'
      BY <1>10, <1>15, <2>1 DEF Taking, Starts
    <2>4. (snaps[1].from > 0 =>
             Partly(awaited, snapshot_buffer, snaps[1].symbol, snaps[1].row, snaps[1].from))'
      BY <1>10, <1>15, <2>1 DEF Taking
    <2>5. QED
      BY <2>2, <2>3, <2>4 DEF Taking
  <1>16. Taken_ => Taken_'
    BY <1>11, <1>14 DEF Taken_
  <1>17. StreamOK'
    BY <1>1, <1>10, <1>11, <1>12, <1>13, <1>15, <1>16 DEF StreamOK
  <1>18. QED
    BY <1>2, <1>6, <1>17 DEF RecoveryInv

-----------------------------------------------------------------------------
(* The client starts to wait. *)

\* Nothing has begun when nothing is awaited.
LEMMA NothingBegun ==
    ASSUME NothingAwaited
    PROVE  /\ awaited' \in [Symbols -> [Side -> Int]] /\ snapshot_complete' \in [Symbols -> BOOLEAN]
           /\ \A symbol \in Symbols : ~(Begun(awaited, snapshot_complete, symbol))'
  BY DEF NothingAwaited, Begun

\* wait_for_snapshot begins: everything that is to come is not older than the last message.
LEMMA WaitBegins ==
    ASSUME ExchangeOK, Grows, mode' = "waiting", NothingAwaited,
           \A a \in DOMAIN live_buffer' : live_buffer'[a] >= last_md_seq_num',
           \A i \in DOMAIN live' : \A a \in DOMAIN live'[i] : live'[i][a] >= last_md_seq_num'
    PROVE  WaitOK' /\ (AtStart(snaps') => Skipping') /\ BooksOK'
  <1>1. \A symbol \in Symbols : ~(Begun(awaited, snapshot_complete, symbol))'
    BY NothingBegun
  <1>2. WaitOK'
    BY <1>1 DEF WaitOK
  <1>3. AtStart(snaps') => Skipping'
    BY <1>1 DEF Skipping, AtStart, Starts
  <1>4. BooksOK'
    BY DEF BooksOK
  <1>5. QED
    BY <1>2, <1>3, <1>4

LEMMA StartKeepsData ==
    ASSUME DataInv, Start, UNCHANGED scenario
    PROVE  DataInv' /\ (StreamOK => StreamOK') /\ BooksOK'
  <1>1. /\ mode = "off" /\ mode' = "waiting" /\ NothingAwaited
        /\ UNCHANGED <<feed, truth, service, live, snaps, nested, live_buffer, snapshot_buffer,
                       last_snapshot_seq_num, last_md_seq_num, symbol_to_order_book, order_to_symbol>>
    BY DEF Start, exchange, books
  <1>2. ExchangeOK /\ ServiceOK /\ LiveOK /\ SnapsOK /\ ClientOK /\ Grows /\ ExchangeOK'
    BY <1>1, SameFeedGrows DEF DataInv
  <1>3. Numbers' = Numbers /\ Entry' = Entry
    BY <1>1, <1>2, GrowTypes DEF Numbers
  <1>4. LiveOK'
    BY <1>1, <1>2, <1>3 DEF LiveOK, Growing
  <1>5. ClientOK'
    <2>1. Counted(last_snapshot_seq_num)' /\ Counted(last_md_seq_num)'
      BY <1>1, <1>2 DEF ClientOK, Counted
    <2>2. QED
      BY <1>1, <1>2, <1>3, <2>1, NothingBegun DEF ClientOK, Kept
  <1>6. last_md_seq_num' = 0
    BY <1>1, <1>2 DEF ClientOK
  <1>7. /\ \A a \in DOMAIN live_buffer' : live_buffer'[a] >= last_md_seq_num'
        /\ \A i \in DOMAIN live' : \A a \in DOMAIN live'[i] : live'[i][a] >= last_md_seq_num'
    <2>1. \A s \in Seq(Numbers) : \A a \in DOMAIN s : s[a] >= 0
      BY <1>2, OrdersNow DEF Numbers
    <2>2. live_buffer' \in Seq(Numbers) /\ \A i \in DOMAIN live' : live'[i] \in Seq(Numbers)
      BY <1>1, <1>2 DEF LiveOK
    <2>3. QED
      BY <1>6, <2>1, <2>2
  <1>8. WaitOK' /\ (AtStart(snaps') => Skipping') /\ BooksOK'
    BY <1>1, <1>2, <1>7, WaitBegins
  <1>9. StreamOK => StreamOK'
    <2>1. SUFFICES ASSUME StreamOK PROVE StreamOK'
      OBVIOUS
    <2>2. AtStart(snaps') /\ WholeStream(snaps')
      BY <1>1, <2>1 DEF StreamOK
    <2>3. (WholeStream(snaps))'
      BY <2>2 DEF WholeStream, Succeeds, Final, Ends
    <2>4. QED
      BY <1>1, <1>8, <2>2, <2>3 DEF StreamOK
  <1>10. QED
    BY <1>1, <1>2, <1>4, <1>5, <1>8, <1>9, GrowService, GrowSnaps DEF DataInv

-----------------------------------------------------------------------------
(* Orders of a snapshot are taken one by one. *)

\* What wait_for_snapshot keeps.
Wait == [seq : Nat, awaited : [Symbols -> [Side -> Int]], buffer : [Symbols -> Seq(Entry)],
         complete : [Symbols -> BOOLEAN]]

\* v differs from w in one symbol.
SameBut(w, v, symbol) ==
    \A x \in Symbols : x # symbol =>
        v.awaited[x] = w.awaited[x] /\ v.buffer[x] = w.buffer[x] /\ v.complete[x] = w.complete[x]

\* The order o of the symbol has been taken.
OrderTaken(w, v, o) ==
    /\ v \in Wait /\ v.seq = w.seq /\ SameBut(w, v, o.symbol)
    /\ \A side \in Side : v.awaited[o.symbol][side] =
          IF side = o.side THEN w.awaited[o.symbol][side] - 1 ELSE w.awaited[o.symbol][side]
    /\ v.buffer[o.symbol] = Append(w.buffer[o.symbol], o)
    /\ v.complete[o.symbol] <=> w.complete[o.symbol] \/ \A side \in Side : v.awaited[o.symbol][side] = 0

LEMMA WaitFields ==
    ASSUME NEW w \in Wait
    PROVE  /\ w.seq \in Nat /\ w.awaited \in [Symbols -> [Side -> Int]] /\ w.buffer \in [Symbols -> Seq(Entry)]
           /\ w.complete \in [Symbols -> BOOLEAN]
           /\ w = [seq |-> w.seq, awaited |-> w.awaited, buffer |-> w.buffer, complete |-> w.complete]
  BY DEF Wait

LEMMA TakeOrderTakes ==
    ASSUME NEW w \in Wait, NEW o \in Entry, NEW v, v = TakeOrder(w, o)
    PROVE  OrderTaken(w, v, o)
  <1>1. PICK q, aw, bu, co : q = w.seq /\ aw = w.awaited /\ bu = w.buffer /\ co = w.complete
    OBVIOUS
  <1>2. /\ q \in Nat /\ aw \in [Symbols -> [Side -> Int]] /\ bu \in [Symbols -> Seq(Entry)]
        /\ co \in [Symbols -> BOOLEAN] /\ w = [seq |-> q, awaited |-> aw, buffer |-> bu, complete |-> co]
    BY <1>1, WaitFields
  <1>3. PICK x, s : x = o.symbol /\ s = o.side
    OBVIOUS
  <1>4. x \in Symbols /\ s \in Side
    BY <1>3 DEF Entry
  <1>5. PICK missing : missing = [aw EXCEPT ![x][s] = @ - 1]
    OBVIOUS
  <1>6. /\ missing \in [Symbols -> [Side -> Int]]
        /\ \A y \in Symbols : y # x => missing[y] = aw[y]
        /\ \A side \in Side : missing[x][side] = IF side = s THEN aw[x][side] - 1 ELSE aw[x][side]
    BY <1>2, <1>4, <1>5
  <1>7. PICK done : done = \A side \in Side : missing[x][side] = 0
    OBVIOUS
  <1>8. PICK bu2, co2 : bu2 = [bu EXCEPT ![x] = Append(bu[x], o)] /\ co2 = [co EXCEPT ![x] = co[x] \/ done]
    OBVIOUS
  <1>9. v = [seq |-> q, awaited |-> missing, buffer |-> bu2, complete |-> co2]
    <2>1. v = [w EXCEPT !.awaited = missing, !.buffer[x] = Append(@, o), !.complete[x] = @ \/ done]
      BY <1>1, <1>3, <1>5, <1>7 DEF TakeOrder
    <2>2. QED
      BY <1>2, <1>8, <2>1
  <1>10. bu2 \in [Symbols -> Seq(Entry)] /\ bu2[x] = Append(bu[x], o) /\ \A y \in Symbols : y # x => bu2[y] = bu[y]
    <2>1. Append(bu[x], o) \in Seq(Entry)
      BY <1>2, <1>4
    <2>2. QED
      BY <1>2, <1>4, <1>8, <2>1
  <1>11. co2 \in [Symbols -> BOOLEAN] /\ (co2[x] <=> co[x] \/ done) /\ \A y \in Symbols : y # x => co2[y] = co[y]
    BY <1>2, <1>4, <1>7, <1>8
  <1>12. v.seq = q /\ v.awaited = missing /\ v.buffer = bu2 /\ v.complete = co2 /\ v \in Wait
    BY <1>2, <1>6, <1>9, <1>10, <1>11 DEF Wait
  <1>13. SameBut(w, v, x)
    BY <1>1, <1>6, <1>10, <1>11, <1>12 DEF SameBut
  <1>14. QED
    BY <1>1, <1>3, <1>6, <1>7, <1>10, <1>11, <1>12, <1>13 DEF OrderTaken

\* The first datagram of a symbol has been seen: its snapshot starts anew.
InfoTaken(w, v, d) ==
    /\ v \in Wait /\ v.seq = d.seq /\ SameBut(w, v, d.symbol)
    /\ \A side \in Side : v.awaited[d.symbol][side] = CountAfter(d.row, 0, side)
    /\ v.buffer[d.symbol] = <<>>
    /\ v.complete[d.symbol] <=> w.complete[d.symbol] \/ \A side \in Side : CountAfter(d.row, 0, side) = 0

\* The orders of a row that are still to come are finitely many.
LEMMA CountIsNumber ==
    ASSUME NEW row \in Seq(Entry), NEW k \in Nat, NEW side
    PROVE  CountAfter(row, k, side) \in Nat
  <1>1. PICK l, S : l = Len(row) /\ S = {i \in (k + 1)..Len(row) : row[i].side = side}
    OBVIOUS
  <1>2. l \in Nat /\ S \subseteq (k + 1)..l
    BY <1>1
  <1>3. IsFiniteSet((k + 1)..l)
    BY <1>2, FS_Interval
  <1>4. IsFiniteSet(S)
    BY <1>2, <1>3, FS_Subset
  <1>5. Cardinality(S) \in Nat
    BY <1>4, FS_CardinalityType
  <1>6. QED
    BY <1>1, <1>5 DEF CountAfter

\* An order less is to come on the side of the next order, and none when the row is over.
LEMMA CountsDown ==
    ASSUME NEW row \in Seq(Entry), NEW k \in 0..(Len(row) - 1), NEW side
    PROVE  CountAfter(row, k + 1, side) =
              IF side = row[k + 1].side THEN CountAfter(row, k, side) - 1 ELSE CountAfter(row, k, side)
  <1>1. PICK l, S, T : /\ l = Len(row) /\ S = {i \in (k + 1)..Len(row) : row[i].side = side}
                       /\ T = {i \in ((k + 1) + 1)..Len(row) : row[i].side = side}
    OBVIOUS
  <1>2. l \in Nat /\ k \in Nat /\ k + 1 \in 1..l /\ S \subseteq (k + 1)..l
    BY <1>1
  <1>3. IsFiniteSet(S)
    <2>1. IsFiniteSet((k + 1)..l)
      BY <1>2, FS_Interval
    <2>2. QED
      BY <1>2, <2>1, FS_Subset
  <1>4. \A i \in Int : i \in S <=> i >= k + 1 /\ i <= l /\ row[i].side = side
    BY <1>1, <1>2
  <1>5. \A i \in Int : i \in T <=> i >= k + 2 /\ i <= l /\ row[i].side = side
    BY <1>1, <1>2
  <1>6. S \subseteq Int /\ T \subseteq Int
    BY <1>1, <1>2
  <1>7. CASE side = row[k + 1].side
    <2>1. T = S \ {k + 1} /\ k + 1 \in S
      <3>1. k + 1 \in S
        BY <1>2, <1>4, <1>7
      <3>2. \A i \in Int : i \in T <=> i \in S /\ i # k + 1
        BY <1>2, <1>4, <1>5
      <3>3. QED
        BY <1>6, <3>1, <3>2
    <2>2. Cardinality(T) = Cardinality(S) - 1
      BY <1>3, <2>1, FS_RemoveElement
    <2>3. QED
      BY <1>1, <1>7, <2>2 DEF CountAfter
  <1>8. CASE side # row[k + 1].side
    <2>1. T = S
      <3>1. k + 1 \notin S
        BY <1>2, <1>4, <1>8
      <3>2. \A i \in Int : i \in T <=> i \in S /\ i # k + 1
        BY <1>2, <1>4, <1>5
      <3>3. QED
        BY <1>6, <3>1, <3>2
    <2>2. QED
      BY <1>1, <1>8, <2>1 DEF CountAfter
  <1>9. QED
    BY <1>7, <1>8

LEMMA CountsOut ==
    ASSUME NEW row \in Seq(Entry), NEW k \in 0..Len(row)
    PROVE  (\A side \in Side : CountAfter(row, k, side) = 0) <=> k = Len(row)
  <1>1. PICK l : l = Len(row)
    OBVIOUS
  <1>2. l \in Nat /\ k \in Nat
    BY <1>1
  <1>3. CASE k = l
    <2>1. ASSUME NEW side \in Side PROVE CountAfter(row, k, side) = 0
      <3>1. PICK S : S = {i \in (k + 1)..Len(row) : row[i].side = side}
        OBVIOUS
      <3>2. S = {}
        BY <1>1, <1>2, <1>3, <3>1
      <3>3. Cardinality(S) = 0
        BY <3>2, FS_EmptySet
      <3>4. QED
        BY <3>1, <3>3 DEF CountAfter
    <2>2. QED
      BY <1>1, <1>3, <2>1
  <1>4. CASE k # l
    <2>1. k \in 0..(Len(row) - 1) /\ k + 1 \in 1..Len(row)
      BY <1>1, <1>2, <1>4
    <2>2. PICK side : side = row[k + 1].side
      OBVIOUS
    <2>3. side \in Side
      <3>1. row[k + 1] \in Entry
        BY <2>1
      <3>2. QED
        BY <2>2, <3>1 DEF Entry
    <2>4. CountAfter(row, k + 1, side) = CountAfter(row, k, side) - 1
      BY <2>1, <2>2, CountsDown
    <2>5. CountAfter(row, k + 1, side) \in Nat /\ CountAfter(row, k, side) \in Nat
      BY <1>2, CountIsNumber
    <2>6. CountAfter(row, k, side) # 0
      BY <2>4, <2>5
    <2>7. QED
      BY <1>1, <1>4, <2>3, <2>6
  <1>5. QED
    BY <1>3, <1>4

LEMMA TakeInfoTakes ==
    ASSUME NEW w \in Wait, NEW d \in Datagram, NEW v, v = TakeInfo(w, d)
    PROVE  InfoTaken(w, v, d)
  <1>1. PICK q, aw, bu, co : q = w.seq /\ aw = w.awaited /\ bu = w.buffer /\ co = w.complete
    OBVIOUS
  <1>2. /\ q \in Nat /\ aw \in [Symbols -> [Side -> Int]] /\ bu \in [Symbols -> Seq(Entry)]
        /\ co \in [Symbols -> BOOLEAN] /\ w = [seq |-> q, awaited |-> aw, buffer |-> bu, complete |-> co]
    BY <1>1, WaitFields
  <1>3. PICK x, n : x = d.symbol /\ n = d.seq
    OBVIOUS
  <1>4. x \in Symbols /\ n \in Nat /\ d.row \in Seq(Entry)
    BY <1>3 DEF Datagram
  <1>5. PICK counts : counts = [side \in Side |-> CountAfter(d.row, 0, side)]
    OBVIOUS
  <1>6. PICK done : done = \A side \in Side : CountAfter(d.row, 0, side) = 0
    OBVIOUS
  <1>7. counts \in [Side -> Int] /\ \A side \in Side : counts[side] = CountAfter(d.row, 0, side)
    BY <1>4, <1>5, CountIsNumber
  <1>8. PICK aw2, bu2, co2 : /\ aw2 = [aw EXCEPT ![x] = counts] /\ bu2 = [bu EXCEPT ![x] = <<>>]
                             /\ co2 = [co EXCEPT ![x] = co[x] \/ done]
    OBVIOUS
  <1>9. v = [seq |-> n, awaited |-> aw2, buffer |-> bu2, complete |-> co2]
    <2>1. v = [w EXCEPT !.seq = n, !.awaited[x] = counts, !.buffer[x] = <<>>, !.complete[x] = @ \/ done]
      BY <1>3, <1>5, <1>6 DEF TakeInfo
    <2>2. QED
      BY <1>2, <1>8, <2>1
  <1>10. /\ aw2 \in [Symbols -> [Side -> Int]] /\ aw2[x] = counts /\ \A y \in Symbols : y # x => aw2[y] = aw[y]
         /\ bu2[x] = <<>> /\ \A y \in Symbols : y # x => bu2[y] = bu[y]
    BY <1>2, <1>4, <1>7, <1>8
  <1>11. bu2 \in [Symbols -> Seq(Entry)]
    BY <1>2, <1>4, <1>8
  <1>12. co2 \in [Symbols -> BOOLEAN] /\ (co2[x] <=> co[x] \/ done) /\ \A y \in Symbols : y # x => co2[y] = co[y]
    BY <1>2, <1>4, <1>6, <1>8
  <1>13. v.seq = n /\ v.awaited = aw2 /\ v.buffer = bu2 /\ v.complete = co2 /\ v \in Wait
    BY <1>4, <1>9, <1>10, <1>11, <1>12 DEF Wait
  <1>14. SameBut(w, v, x)
    BY <1>1, <1>10, <1>12, <1>13 DEF SameBut
  <1>15. QED
    BY <1>1, <1>3, <1>6, <1>7, <1>10, <1>12, <1>13, <1>14 DEF InfoTaken

\* As many orders of the datagram have been taken, and the symbol is complete with the last one
\* of its row.
PartTaken(v, d, k) ==
    /\ Partly(v.awaited, v.buffer, d.symbol, d.row, d.from + k)
    /\ v.complete[d.symbol] <=> d.from + k = Len(d.row)

\* v is what base has become with the first k orders of the datagram.
Progress(base, v, d, k) ==
    /\ v \in Wait /\ v.seq = base.seq /\ SameBut(base, v, d.symbol)
    /\ Begun(v.awaited, v.complete, d.symbol) => Begun(base.awaited, base.complete, d.symbol)
    /\ PartTaken(base, d, 0) => PartTaken(v, d, k)

LEMMA ProgressOfOne ==
    ASSUME NEW base \in Wait, NEW w, NEW v, NEW d \in Good, NEW k \in Nat, d.from + k < Len(d.row), Progress(base, w, d, k),
           v = TakeOrder(w, d.row[d.from + (k + 1)])
    PROVE  Progress(base, v, d, k + 1)
  <1>1. PICK x, row, j, l : x = d.symbol /\ row = d.row /\ j = d.from + k /\ l = Len(row)
    OBVIOUS
  <1>2. PICK o : o = row[j + 1]
    OBVIOUS
  <1>3. /\ x \in Symbols /\ row \in Seq(Entry) /\ d.from \in Nat /\ l \in Nat /\ j \in Nat /\ j < l
        /\ \A i \in DOMAIN row : row[i].symbol = x
    BY <1>1 DEF Good, Datagram, DatagramOK
  <1>4. d.from + (k + 1) = j + 1 /\ d.from + 0 = d.from /\ j + 1 \in 1..l /\ j \in 0..(l - 1) /\ j + 1 \in 0..l
    <2>1. PICK a : a = d.from
      OBVIOUS
    <2>2. a \in Nat /\ k \in Nat /\ j = a + k /\ l \in Nat /\ j < l /\ j \in Nat
      BY <1>1, <1>3, <2>1
    <2>3. a + (k + 1) = j + 1 /\ a + 0 = a /\ j + 1 \in 1..l /\ j \in 0..(l - 1) /\ j + 1 \in 0..l
      BY <2>2
    <2>4. QED
      BY <2>1, <2>3
  <1>5. o \in Entry /\ o.symbol = x /\ o.side \in Side
    <2>1. o \in Entry /\ o.symbol = x
      BY <1>1, <1>2, <1>3, <1>4
    <2>2. QED
      BY <2>1 DEF Entry
  <1>6. w \in Wait /\ v = TakeOrder(w, o)
    BY <1>1, <1>2, <1>4 DEF Progress
  <1>7. OrderTaken(w, v, o)
    BY <1>5, <1>6, TakeOrderTakes
  <1>8. PICK wa, wb, wc, va, vb, vc : /\ wa = w.awaited[x] /\ wb = w.buffer[x] /\ wc = w.complete[x]
                                      /\ va = v.awaited[x] /\ vb = v.buffer[x] /\ vc = v.complete[x]
    OBVIOUS
  <1>9. /\ v \in Wait /\ v.seq = w.seq /\ SameBut(w, v, x)
        /\ \A side \in Side : va[side] = IF side = o.side THEN wa[side] - 1 ELSE wa[side]
        /\ vb = Append(wb, o)
        /\ vc <=> wc \/ \A side \in Side : va[side] = 0
    BY <1>5, <1>7, <1>8 DEF OrderTaken
  <1>10. wa \in [Side -> Int] /\ va \in [Side -> Int] /\ wb \in Seq(Entry)
    BY <1>3, <1>6, <1>8, <1>9, WaitFields
  <1>11. v.seq = base.seq /\ SameBut(base, v, x)
    BY <1>1, <1>9 DEF Progress, SameBut
  <1>12. Begun(v.awaited, v.complete, x) => Begun(base.awaited, base.complete, x)
    <2>1. SUFFICES ASSUME Begun(v.awaited, v.complete, x) PROVE Begun(w.awaited, w.complete, x)
      BY <1>1 DEF Progress
    <2>2. \A side \in Side : va[side] >= 0 => wa[side] >= 0
      BY <1>9, <1>10
    <2>3. (\E side \in Side : va[side] >= 0) \/ wc
      <3>1. CASE \A side \in Side : va[side] = 0
        <4>1. o.side \in Side /\ va[o.side] = 0
          BY <1>5, <3>1
        <4>2. va[o.side] >= 0
          BY <4>1
        <4>3. QED
          BY <4>1, <4>2
      <3>2. CASE vc /\ ~(\A side \in Side : va[side] = 0)
        BY <1>9, <3>2
      <3>3. CASE \E side \in Side : va[side] >= 0
        BY <3>3
      <3>4. v.complete[x] \/ \E side \in Side : v.awaited[x][side] >= 0
        BY <2>1 DEF Begun
      <3>5. CASE v.complete[x]
        BY <1>8, <3>1, <3>2, <3>5
      <3>6. CASE \E side \in Side : v.awaited[x][side] >= 0
        BY <1>8, <3>3, <3>6
      <3>7. QED
        BY <3>4, <3>5, <3>6
    <2>4. QED
      BY <1>8, <2>2, <2>3 DEF Begun
  <1>13. PartTaken(base, d, 0) => PartTaken(v, d, k + 1)
    <2>1. SUFFICES ASSUME PartTaken(w, d, k) PROVE PartTaken(v, d, k + 1)
      BY DEF Progress
    <2>2. /\ Len(wb) = j /\ \A i \in 1..j : wb[i] = row[i]
          /\ \A side \in Side : wa[side] = CountAfter(row, j, side)
          /\ wc <=> j = l
      BY <1>1, <1>8, <2>1 DEF PartTaken, Partly
    <2>3. \A side \in Side : va[side] = CountAfter(row, j + 1, side)
      <3>1. ASSUME NEW side \in Side PROVE va[side] = CountAfter(row, j + 1, side)
        <4>1. CountAfter(row, j + 1, side) =
                 IF side = o.side THEN CountAfter(row, j, side) - 1 ELSE CountAfter(row, j, side)
          BY <1>1, <1>2, <1>3, <1>4, CountsDown
        <4>2. QED
          BY <1>9, <2>2, <4>1
      <3>2. QED
        BY <3>1
    <2>4. Len(vb) = j + 1 /\ \A i \in 1..(j + 1) : vb[i] = row[i]
      <3>1. Len(vb) = j + 1 /\ vb[j + 1] = o /\ \A i \in 1..j : vb[i] = wb[i]
        BY <1>5, <1>9, <1>10, <2>2
      <3>2. \A i \in 1..(j + 1) : i = j + 1 \/ i \in 1..j
        <4>1. j \in Nat
          BY <1>3
        <4>2. QED
          BY <4>1
      <3>3. QED
        BY <1>2, <2>2, <3>1, <3>2
    <2>5. vc <=> j + 1 = l
      <3>1. j + 1 \in 0..Len(row)
        BY <1>1, <1>4
      <3>2. (\A side \in Side : CountAfter(row, j + 1, side) = 0) <=> j + 1 = Len(row)
        BY <1>3, <3>1, CountsOut
      <3>3. ~wc
        BY <1>3, <2>2
      <3>4. QED
        BY <1>1, <1>9, <2>3, <3>2, <3>3
    <2>6. QED
      BY <1>1, <1>4, <1>8, <2>3, <2>4, <2>5 DEF PartTaken, Partly
  <1>14. QED
    BY <1>1, <1>9, <1>11, <1>12, <1>13 DEF Progress

\* How much a datagram holds.
LEMMA InDatagramIs ==
    ASSUME NEW d \in Good
    PROVE  /\ InDatagram(d) \in Nat /\ d.from + InDatagram(d) <= Len(d.row)
           /\ Final(d) <=> d.from + InDatagram(d) = Len(d.row)
           /\ ~Final(d) => InDatagram(d) = OrdersPerDatagram
  <1>1. PICK a, l, P : a = d.from /\ l = Len(d.row) /\ P = OrdersPerDatagram
    OBVIOUS
  <1>2. a \in Nat /\ l \in Nat /\ P \in Nat /\ P >= 1 /\ (a = 0 \/ a < l)
    BY <1>1, Constants DEF Good, Datagram, DatagramOK
  <1>3. InDatagram(d) = IF a + P < l THEN P ELSE l - a
    BY <1>1 DEF InDatagram
  <1>4. Final(d) <=> a + P >= l
    BY <1>1 DEF Final
  <1>5. QED
    BY <1>1, <1>2, <1>3, <1>4

\* A whole datagram.
LEMMA TakesAll ==
    ASSUME NEW w \in Wait, NEW d \in Good, NEW v, v = TakeAll(w, d), NEW base,
           base = IF HasInfo(d) THEN TakeInfo(w, d) ELSE w, base \in Wait
    PROVE  Progress(base, v, d, InDatagram(d))
  <1>1. PICK c : c = InDatagram(d)
    OBVIOUS
  <1>2. c \in Nat /\ d.from \in Nat /\ d.from + c <= Len(d.row) /\ Len(d.row) \in Nat
    BY <1>1, InDatagramIs DEF Good, Datagram
  <1>3. PICK f : TakenBy(f, w, d, c) /\ v = f[c]
    BY <1>1, <1>2, TakenStepwise
  <1> DEFINE N == {k \in 0..c : Progress(base, f[k], d, k)}
  <1>4. 0 \in N
    <2>1. f[0] = base
      BY <1>2, <1>3 DEF TakenBy
    <2>2. Progress(base, base, d, 0)
      BY DEF Progress, SameBut
    <2>3. QED
      BY <1>2, <2>1, <2>2
  <1>5. ASSUME NEW k \in 0..(c - 1), k \in N PROVE k + 1 \in N
    <2>1. k \in Nat /\ k + 1 \in 0..c /\ k + 1 # 0 /\ (k + 1) - 1 = k /\ d.from + k < Len(d.row)
      BY <1>2
    <2>2. PICK u, t : u = f[k] /\ t = f[k + 1]
      OBVIOUS
    <2>3. t = TakeOrder(u, d.row[d.from + (k + 1)])
      BY <1>3, <2>1, <2>2 DEF TakenBy
    <2>4. Progress(base, u, d, k)
      BY <1>5, <2>2
    <2>5. Progress(base, t, d, k + 1)
      BY <2>1, <2>3, <2>4, ProgressOfOne
    <2>6. QED
      BY <2>1, <2>2, <2>5
  <1>6. 0..c \subseteq N
    <2> HIDE DEF N
    <2>1. QED
      BY <1>2, <1>4, <1>5, CountUp
  <1>7. c \in 0..c
    BY <1>2
  <1>8. QED
    BY <1>1, <1>3, <1>6, <1>7

\* What a datagram does to the symbol whose snapshot it is part of.
DatagramTaken(w, v, d) ==
    /\ v \in Wait /\ v.seq = (IF d.from = 0 THEN d.seq ELSE w.seq) /\ SameBut(w, v, d.symbol)
    /\ d.from > 0 /\ Begun(v.awaited, v.complete, d.symbol) => Begun(w.awaited, w.complete, d.symbol)
    /\ ~w.complete[d.symbol] /\ (d.from > 0 => Partly(w.awaited, w.buffer, d.symbol, d.row, d.from))
         => PartTaken(v, d, InDatagram(d))

LEMMA TakeAllTakes ==
    ASSUME NEW w \in Wait, NEW d \in Good, NEW v, v = TakeAll(w, d)
    PROVE  DatagramTaken(w, v, d)
  <1>1. d \in Datagram /\ d.from \in Nat /\ d.row \in Seq(Entry) /\ (d.from = 0 \/ d.from < Len(d.row)) /\ Len(d.row) \in Nat
    BY DEF Good, Datagram, DatagramOK
  <1>2. CASE d.from = 0
    <2>1. PICK base : base = TakeInfo(w, d)
      OBVIOUS
    <2>2. InfoTaken(w, base, d)
      BY <1>1, <2>1, TakeInfoTakes
    <2>3. base \in Wait /\ HasInfo(d) /\ base = IF HasInfo(d) THEN TakeInfo(w, d) ELSE w
      BY <1>2, <2>1, <2>2 DEF InfoTaken, HasInfo
    <2>4. Progress(base, v, d, InDatagram(d))
      BY <2>3, TakesAll
    <2>5. v \in Wait /\ v.seq = d.seq /\ SameBut(w, v, d.symbol)
      BY <2>2, <2>4 DEF Progress, InfoTaken, SameBut
    <2>6. ~w.complete[d.symbol] => PartTaken(base, d, 0)
      <3>1. (\A side \in Side : CountAfter(d.row, 0, side) = 0) <=> 0 = Len(d.row)
        BY <1>1, CountsOut
      <3>2. d.from + 0 = 0 /\ Len(<<>>) = 0
        BY <1>2
      <3>3. SUFFICES ASSUME ~w.complete[d.symbol] PROVE PartTaken(base, d, 0)
        OBVIOUS
      <3>4. base.complete[d.symbol] <=> 0 = Len(d.row)
        BY <2>2, <3>1, <3>3 DEF InfoTaken
      <3>5. Partly(base.awaited, base.buffer, d.symbol, d.row, 0)
        BY <2>2, <3>2 DEF InfoTaken, Partly
      <3>6. QED
        BY <3>2, <3>4, <3>5 DEF PartTaken
    <2>7. QED
      BY <1>2, <2>4, <2>5, <2>6 DEF DatagramTaken, Progress
  <1>3. CASE d.from # 0
    <2>1. ~HasInfo(d) /\ d.from > 0 /\ d.from # Len(d.row) /\ d.from + 0 = d.from
      BY <1>1, <1>3 DEF HasInfo
    <2>2. Progress(w, v, d, InDatagram(d))
      BY <2>1, TakesAll
    <2>3. ~w.complete[d.symbol] /\ Partly(w.awaited, w.buffer, d.symbol, d.row, d.from) => PartTaken(w, d, 0)
      BY <2>1 DEF PartTaken
    <2>4. QED
      BY <1>3, <2>1, <2>2, <2>3 DEF DatagramTaken, Progress
  <1>4. QED
    BY <1>2, <1>3

-----------------------------------------------------------------------------
(* A packet is received while the client waits. *)

LEMMA TailIs ==
    ASSUME NEW S, NEW s \in Seq(S), s # <<>>
    PROVE  /\ Tail(s) \in Seq(S) /\ Len(s) \in Nat /\ Len(s) >= 1 /\ Len(Tail(s)) = Len(s) - 1 /\ Head(s) = s[1]
           /\ \A i \in 1..(Len(s) - 1) : Tail(s)[i] = s[i + 1]
  <1>1. Len(s) \in Nat /\ Len(s) # 0
    BY EmptySeq
  <1>2. QED
    BY <1>1, HeadTailProperties

\* The client's sockets and its buffer, in the next state.
LEMMA LiveIs ==
    ASSUME UNCHANGED feed, NEW l, NEW b, l = live', b = live_buffer',
           l \in Seq(Seq(Numbers)), b \in Seq(Numbers),
           \A i \in DOMAIN l : l[i] # <<>> /\ Growing(l[i]),
           \A i, j \in DOMAIN l : i < j => \A x \in DOMAIN l[i], y \in DOMAIN l[j] : l[i][x] < l[j][y],
           Growing(b),
           \A x \in DOMAIN b, j \in DOMAIN l : \A y \in DOMAIN l[j] : b[x] < l[j][y]
    PROVE  LiveOK'
  <1>1. Numbers' = Numbers
    BY DEF Numbers
  <1>2. QED
    BY <1>1 DEF LiveOK, Growing

\* The socket without its first packet.
LEMMA RestOfLive ==
    ASSUME LiveOK, live # <<>>, NEW l, l = Tail(live), NEW c, c = Len(live)
    PROVE  /\ l \in Seq(Seq(Numbers)) /\ c \in Nat /\ c >= 1 /\ DOMAIN l = 1..(c - 1) /\ DOMAIN live = 1..c
           /\ \A i \in DOMAIN l : l[i] = live[i + 1] /\ i + 1 \in DOMAIN live /\ 1 < i + 1
           /\ \A i \in DOMAIN l : l[i] # <<>> /\ Growing(l[i])
           /\ \A i, j \in DOMAIN l : i < j => \A x \in DOMAIN l[i], y \in DOMAIN l[j] : l[i][x] < l[j][y]
  <1>1. live \in Seq(Seq(Numbers))
    BY DEF LiveOK
  <1>2. /\ l \in Seq(Seq(Numbers)) /\ c \in Nat /\ c >= 1 /\ Len(l) = c - 1
        /\ \A i \in 1..(c - 1) : l[i] = live[i + 1]
    BY <1>1, TailIs
  <1>3. DOMAIN l = 1..(c - 1) /\ DOMAIN live = 1..c
    BY <1>1, <1>2
  <1>4. \A i \in 1..(c - 1) : i + 1 \in 1..c /\ 1 < i + 1
    BY <1>2
  <1>5. \A i, j \in 1..(c - 1) : i < j => i + 1 < j + 1
    BY <1>2
  <1>6. ASSUME NEW i \in 1..(c - 1) PROVE l[i] # <<>> /\ Growing(l[i])
    BY <1>2, <1>3, <1>4, <1>6 DEF LiveOK
  <1>7. ASSUME NEW i \in 1..(c - 1), NEW j \in 1..(c - 1), i < j
        PROVE  \A x \in DOMAIN l[i], y \in DOMAIN l[j] : l[i][x] < l[j][y]
    <2>1. l[i] = live[i + 1] /\ l[j] = live[j + 1] /\ i + 1 \in DOMAIN live /\ j + 1 \in DOMAIN live /\ i + 1 < j + 1
      BY <1>2, <1>3, <1>4, <1>5, <1>7
    <2>2. QED
      BY <2>1 DEF LiveOK
  <1>8. QED
    BY <1>2, <1>3, <1>4, <1>6, <1>7

\* The first packet moves from the socket to the buffer.
LEMMA ReceiveKeepsLive ==
    ASSUME ExchangeOK, LiveOK, live # <<>>, live_buffer' = live_buffer \o Head(live), live' = Tail(live), UNCHANGED feed,
           NEW low \in Nat, \A a \in DOMAIN live_buffer : live_buffer[a] >= low,
           \A i \in DOMAIN live : \A a \in DOMAIN live[i] : live[i][a] >= low
    PROVE  /\ LiveOK' /\ live_buffer' # <<>> /\ live_buffer'[1] \in Nat
           /\ live_buffer # <<>> => live_buffer'[1] = live_buffer[1]
           /\ \A a \in DOMAIN live_buffer' : live_buffer'[a] >= low
           /\ \A i \in DOMAIN live' : \A a \in DOMAIN live'[i] : live'[i][a] >= low
  <1>1. PICK l, b, h, c, p, q : l = Tail(live) /\ b = live_buffer \o Head(live) /\ h = Head(live) /\ c = Len(live)
                                /\ p = Len(live_buffer) /\ q = Len(h)
    OBVIOUS
  <1>2. /\ l \in Seq(Seq(Numbers)) /\ c \in Nat /\ c >= 1 /\ DOMAIN l = 1..(c - 1) /\ DOMAIN live = 1..c
        /\ \A i \in DOMAIN l : l[i] = live[i + 1] /\ i + 1 \in DOMAIN live /\ 1 < i + 1
        /\ \A i \in DOMAIN l : l[i] # <<>> /\ Growing(l[i])
        /\ \A i, j \in DOMAIN l : i < j => \A x \in DOMAIN l[i], y \in DOMAIN l[j] : l[i][x] < l[j][y]
    BY <1>1, RestOfLive
  <1>3. h = live[1] /\ 1 \in DOMAIN live
    BY <1>1, <1>2, TailIs DEF LiveOK
  <1>4. h \in Seq(Numbers) /\ h # <<>> /\ Growing(h) /\ live_buffer \in Seq(Numbers) /\ Growing(live_buffer)
        /\ \A a \in DOMAIN live_buffer, x \in DOMAIN h : live_buffer[a] < h[x]
    BY <1>3 DEF LiveOK
  <1>5. /\ b \in Seq(Numbers) /\ p \in Nat /\ q \in Nat /\ q >= 1 /\ DOMAIN b = 1..(p + q)
        /\ DOMAIN live_buffer = 1..p /\ DOMAIN h = 1..q
    <2>1. q \in Nat /\ q # 0 /\ p \in Nat
      BY <1>1, <1>4, EmptySeq
    <2>2. b \in Seq(Numbers) /\ Len(b) = p + q
      BY <1>1, <1>4
    <2>3. QED
      BY <1>1, <1>4, <2>1, <2>2
  <1>6. (\A i \in 1..p : b[i] = live_buffer[i]) /\ \A i \in 1..q : b[p + i] = h[i]
    <2>1. IsJoin(Numbers, live_buffer, h, b)
      BY <1>1, <1>4, Joined
    <2>2. QED
      BY <1>1, <2>1 DEF IsJoin
  <1>7. \A i \in 1..(p + q) : i \in 1..p \/ (i - p \in 1..q /\ i = p + (i - p))
    BY <1>5
  <1>8. ASSUME NEW x \in 1..(p + q), NEW y \in 1..(p + q), x < y PROVE b[x] < b[y]
    <2>1. CASE x \in 1..p /\ y \in 1..p
      BY <1>4, <1>5, <1>6, <1>8, <2>1 DEF Growing
    <2>2. CASE x \in 1..p /\ y \notin 1..p
      <3>1. y - p \in 1..q /\ b[y] = h[y - p] /\ b[x] = live_buffer[x]
        BY <1>6, <1>7, <2>2
      <3>2. QED
        BY <1>4, <1>5, <2>2, <3>1
    <2>3. CASE x \notin 1..p
      <3>1. y \notin 1..p
        BY <1>5, <1>8, <2>3
      <3>2. PICK r, s : r = x - p /\ s = y - p
        OBVIOUS
      <3>3. r \in 1..q /\ s \in 1..q /\ r < s /\ b[x] = h[r] /\ b[y] = h[s]
        <4>1. r \in 1..q /\ s \in 1..q /\ b[x] = h[r] /\ b[y] = h[s]
          BY <1>6, <1>7, <2>3, <3>1, <3>2
        <4>2. r < s
          BY <1>5, <1>8, <3>2
        <4>3. QED
          BY <4>1, <4>2
      <3>4. QED
        BY <1>4, <1>5, <3>3 DEF Growing
    <2>4. QED
      BY <2>1, <2>2, <2>3
  <1>9. ASSUME NEW x \in 1..(p + q), NEW j \in DOMAIN l, NEW y \in DOMAIN l[j] PROVE b[x] < l[j][y]
    <2>1. l[j] = live[j + 1] /\ j + 1 \in DOMAIN live /\ 1 < j + 1
      BY <1>2
    <2>2. CASE x \in 1..p
      BY <1>5, <1>6, <1>9, <2>1, <2>2 DEF LiveOK
    <2>3. CASE x \notin 1..p
      <3>1. x - p \in 1..q /\ b[x] = live[1][x - p]
        BY <1>3, <1>6, <1>7, <2>3
      <3>2. \A v \in DOMAIN live[1], z \in DOMAIN live[j + 1] : live[1][v] < live[j + 1][z]
        BY <1>3, <2>1 DEF LiveOK
      <3>3. QED
        BY <1>3, <1>5, <1>9, <2>1, <3>1, <3>2
    <2>4. QED
      BY <2>2, <2>3
  <1>10. LiveOK'
    <2>1. l = live' /\ b = live_buffer'
      BY <1>1
    <2>2. Growing(b)
      BY <1>5, <1>8 DEF Growing
    <2>3. \A x \in DOMAIN b, j \in DOMAIN l : \A y \in DOMAIN l[j] : b[x] < l[j][y]
      BY <1>5, <1>9
    <2>4. QED
      BY <1>2, <1>5, <2>1, <2>2, <2>3, LiveIs
  <1>11. b # <<>> /\ b[1] \in Nat
    <2>1. 1 \in 1..(p + q) /\ Len(feed) \in Nat
      BY <1>5, OrdersNow
    <2>2. b # <<>> /\ b[1] \in Numbers
      BY <1>5, <2>1
    <2>3. QED
      BY <2>1, <2>2 DEF Numbers
  <1>12. live_buffer # <<>> => b[1] = live_buffer[1]
    <2>1. SUFFICES ASSUME live_buffer # <<>> PROVE b[1] = live_buffer[1]
      OBVIOUS
    <2>2. p # 0
      BY <1>1, <1>4, <2>1, EmptySeq
    <2>3. 1 \in 1..p
      BY <1>5, <2>2
    <2>4. QED
      BY <1>6, <2>3
  <1>13. ASSUME NEW x \in 1..(p + q) PROVE b[x] >= low
    <2>1. CASE x \in 1..p
      BY <1>5, <1>6, <2>1
    <2>2. CASE x \notin 1..p
      <3>1. x - p \in 1..q /\ b[x] = live[1][x - p]
        BY <1>3, <1>6, <1>7, <2>2
      <3>2. QED
        BY <1>3, <1>5, <3>1
    <2>3. QED
      BY <2>1, <2>2
  <1>14. \A i \in DOMAIN l : \A a \in DOMAIN l[i] : l[i][a] >= low
    BY <1>2
  <1>15. QED
    BY <1>1, <1>5, <1>10, <1>11, <1>12, <1>13, <1>14

\* What the client has of a snapshot.
Waiting == [seq |-> last_snapshot_seq_num, awaited |-> awaited, buffer |-> snapshot_buffer, complete |-> snapshot_complete]

\* The client reads the next snapshot datagram, if there is one; one that starts a snapshot
\* that is too old is skipped.
DatagramRead(w, v, first) ==
    \/ snaps = <<>> /\ snaps' = snaps /\ v = w
    \/ /\ snaps # <<>> /\ snaps[1] \in Good /\ snaps' = Tail(snaps)
       /\ \/ snaps[1].from = 0 /\ snaps[1].seq <= first /\ v = w
          \/ ~(snaps[1].from = 0 /\ snaps[1].seq <= first) /\ DatagramTaken(w, v, snaps[1])

LEMMA Received ==
    ASSUME DataInv, ReceiveWhileWaiting, NEW w, w = Waiting, NEW v, v = Waiting'
    PROVE  w \in Wait /\ v \in Wait /\ DatagramRead(w, v, live_buffer'[1])
  <1>1. w \in Wait
    BY DEF DataInv, ClientOK, Counted, Waiting, Wait
  <1>2. CASE snaps = <<>>
    <2>1. v = w /\ snaps' = snaps
      BY <1>2 DEF ReceiveWhileWaiting, Waiting
    <2>2. QED
      BY <1>1, <1>2, <2>1 DEF DatagramRead
  <1>3. CASE snaps # <<>>
    <2>1. PICK d, first : d = snaps[1] /\ first = live_buffer'[1]
      OBVIOUS
    <2>2. d \in Good /\ Head(snaps) = d
      <3>1. snaps \in Seq(Good)
        BY SnapsAreGood DEF DataInv
      <3>2. QED
        BY <1>3, <2>1, <3>1, TailIs
    <2>3. PICK u : u = TakeDatagram(w, d, first)
      OBVIOUS
    <2>4. /\ last_snapshot_seq_num' = u.seq /\ awaited' = u.awaited /\ snapshot_buffer' = u.buffer
          /\ snapshot_complete' = u.complete /\ snaps' = Tail(snaps)
      BY <1>3, <2>1, <2>2, <2>3 DEF ReceiveWhileWaiting, Waiting
    <2>5. u \in Wait /\ \/ d.from = 0 /\ d.seq <= first /\ u = w
                        \/ ~(d.from = 0 /\ d.seq <= first) /\ DatagramTaken(w, u, d)
      <3>1. CASE d.from = 0 /\ d.seq <= first
        BY <1>1, <2>3, <3>1 DEF TakeDatagram, HasInfo
      <3>2. CASE ~(d.from = 0 /\ d.seq <= first)
        <4>1. u = TakeAll(w, d)
          BY <2>3, <3>2 DEF TakeDatagram, HasInfo
        <4>2. DatagramTaken(w, u, d)
          BY <1>1, <2>2, <4>1, TakeAllTakes
        <4>3. QED
          BY <3>2, <4>2 DEF DatagramTaken
      <3>3. QED
        BY <3>1, <3>2
    <2>6. v = u
      <3>1. u = [seq |-> u.seq, awaited |-> u.awaited, buffer |-> u.buffer, complete |-> u.complete]
        BY <2>5, WaitFields
      <3>2. QED
        BY <2>4, <3>1 DEF Waiting
    <2>7. QED
      BY <1>1, <1>3, <2>1, <2>2, <2>4, <2>5, <2>6 DEF DatagramRead
  <1>4. QED
    BY <1>2, <1>3

\* Receiving a packet keeps everything.
LEMMA ReceiveKeepsData ==
    ASSUME DataInv, ReceiveWhileWaiting, UNCHANGED scenario
    PROVE  DataInv' /\ BooksOK'
  <1>1. /\ mode = "waiting" /\ live # <<>> /\ live_buffer' = live_buffer \o Head(live) /\ live' = Tail(live)
        /\ UNCHANGED <<feed, truth, service, mode, nested, last_md_seq_num, symbol_to_order_book, order_to_symbol>>
    BY DEF ReceiveWhileWaiting, exchange, books
  <1>2. /\ ExchangeOK /\ ServiceOK /\ LiveOK /\ SnapsOK /\ ClientOK /\ WaitOK /\ Grows /\ ExchangeOK'
        /\ ServiceOK' /\ Entry' = Entry
    BY <1>1, SameFeedGrows, GrowService, GrowTypes DEF DataInv
  <1>3. PICK low : low = last_md_seq_num
    OBVIOUS
  <1>4. low \in Nat /\ (\A a \in DOMAIN live_buffer : live_buffer[a] >= low)
        /\ \A i \in DOMAIN live : \A a \in DOMAIN live[i] : live[i][a] >= low
    BY <1>1, <1>2, <1>3 DEF WaitOK, ClientOK, Counted
  <1>5. /\ LiveOK' /\ live_buffer' # <<>> /\ live_buffer'[1] \in Nat
        /\ live_buffer # <<>> => live_buffer'[1] = live_buffer[1]
        /\ \A a \in DOMAIN live_buffer' : live_buffer'[a] >= low
        /\ \A i \in DOMAIN live' : \A a \in DOMAIN live'[i] : live'[i][a] >= low
    BY <1>1, <1>2, <1>4, ReceiveKeepsLive
  <1>6. PICK w, v, d, first : w = Waiting /\ v = Waiting' /\ d = snaps[1] /\ first = live_buffer'[1]
    OBVIOUS
  <1>7. w \in Wait /\ v \in Wait /\ DatagramRead(w, v, first)
    BY <1>6, Received
  <1>8. /\ w.seq = last_snapshot_seq_num /\ w.awaited = awaited /\ w.complete = snapshot_complete
        /\ v.seq = last_snapshot_seq_num' /\ v.awaited = awaited' /\ v.buffer = snapshot_buffer'
        /\ v.complete = snapshot_complete'
    BY <1>6 DEF Waiting
  <1>9. v = w \/ (d \in Good /\ ~(d.from = 0 /\ d.seq <= first) /\ DatagramTaken(w, v, d))
    BY <1>6, <1>7 DEF DatagramRead
  <1>10. ClientOK'
    <2>1. Counted(v.seq)
      <3>1. Counted(w.seq)
        BY <1>2, <1>8 DEF ClientOK
      <3>2. d \in Good => Counted(d.seq)
        BY DEF Good, DatagramOK
      <3>3. QED
        BY <1>9, <3>1, <3>2 DEF DatagramTaken
    <2>2. (Counted(last_snapshot_seq_num) /\ Counted(last_md_seq_num))'
      BY <1>1, <1>2, <1>8, <2>1 DEF Counted, ClientOK
    <2>3. /\ awaited' \in [Symbols -> [Side -> Int]] /\ snapshot_complete' \in [Symbols -> BOOLEAN]
          /\ snapshot_buffer' \in [Symbols -> Seq(Entry)]
      BY <1>7, <1>8, WaitFields
    <2>4. QED
      BY <1>1, <1>2, <2>2, <2>3 DEF ClientOK, Kept
  <1>11. WaitOK'
    <2>1. ASSUME NEW symbol \in Symbols, Begun(v.awaited, v.complete, symbol) PROVE v.seq > first
      <3>1. Begun(w.awaited, w.complete, symbol) => w.seq > first
        BY <1>1, <1>2, <1>5, <1>6, <1>8 DEF WaitOK
      <3>2. CASE v = w
        BY <2>1, <3>1, <3>2
      <3>3. CASE d \in Good /\ ~(d.from = 0 /\ d.seq <= first) /\ DatagramTaken(w, v, d)
        <4>1. d.from \in Nat /\ d.seq \in Nat /\ first \in Nat
          BY <1>5, <1>6, <3>3 DEF Good, Datagram
        <4>2. CASE d.from = 0
          <5>1. v.seq = d.seq
            BY <3>3, <4>2 DEF DatagramTaken
          <5>2. QED
            BY <3>3, <4>1, <4>2, <5>1
        <4>3. CASE d.from # 0
          <5>1. d.from > 0
            BY <4>1, <4>3
          <5>2. v.seq = w.seq /\ Begun(w.awaited, w.complete, symbol)
            BY <2>1, <3>3, <4>3, <5>1 DEF DatagramTaken, SameBut, Begun
          <5>3. QED
            BY <3>1, <5>2
        <4>4. QED
          BY <4>2, <4>3
      <3>4. QED
        BY <1>9, <3>2, <3>3
    <2>2. QED
      BY <1>1, <1>3, <1>5, <1>6, <1>8, <2>1 DEF WaitOK, Begun
  <1>12. SnapsOK'
    <2>1. snaps \in Seq(Good)
      BY <1>2, SnapsAreGood
    <2>2. snaps' \in Seq(Good)
      BY <1>7, <2>1, TailIs DEF DatagramRead
    <2>3. QED
      BY <1>2, <2>2, GoodSnaps
  <1>13. BooksOK'
    BY <1>1 DEF BooksOK
  <1>14. QED
    BY <1>2, <1>5, <1>10, <1>11, <1>12, <1>13 DEF DataInv

\* The datagrams after the first one.
LEMMA Onward ==
    ASSUME NEW s \in Seq(Good), s # <<>>, WholeStream(s), NEW d, d = s[1], NEW t, t = Tail(s),
           NEW i \in 1..Len(SymbolRow), d.symbol = SymbolRow[i]
    PROVE  /\ WholeStream(t)
           /\ ~Final(d) => /\ t # <<>> /\ t[1].symbol = d.symbol /\ t[1].seq = d.seq /\ t[1].row = d.row
                           /\ t[1].from = d.from + OrdersPerDatagram
           /\ Final(d) /\ i < Len(SymbolRow) => /\ t # <<>> /\ t[1].from = 0 /\ t[1].symbol = SymbolRow[i + 1]
                                                /\ t[1].seq = d.seq
           /\ Final(d) /\ i = Len(SymbolRow) => AtStart(t)
  <1>1. PICK l, n : l = Len(s) /\ n = Len(SymbolRow)
    OBVIOUS
  <1>2. /\ t \in Seq(Good) /\ l \in Nat /\ l >= 1 /\ Len(t) = l - 1 /\ \A j \in 1..(l - 1) : t[j] = s[j + 1]
        /\ n \in Nat /\ n >= 1 /\ i \in 1..n
    BY <1>1, TailIs, Constants
  <1>3. t = <<>> <=> l = 1
    <2>1. t = <<>> <=> Len(t) = 0
      BY <1>2, EmptySeq
    <2>2. QED
      BY <1>2, <2>1
  <1>4. t = <<>> => Ends(d)
    BY <1>1, <1>3 DEF WholeStream
  <1>5. t # <<>> => t[1] = s[2] /\ Succeeds(d, s[2])
    <2>1. SUFFICES ASSUME t # <<>> PROVE t[1] = s[2] /\ Succeeds(d, s[2])
      OBVIOUS
    <2>2. 1 \in 1..(l - 1) /\ 1 + 1 = 2
      BY <1>2, <1>3, <2>1
    <2>3. QED
      BY <1>1, <1>2, <2>2 DEF WholeStream
  <1>6. WholeStream(t)
    <2>1. ASSUME NEW j \in 1..(Len(t) - 1) PROVE Succeeds(t[j], t[j + 1])
      <3>1. j \in 1..(l - 1) /\ j + 1 \in 1..(l - 1)
        BY <1>2
      <3>2. t[j] = s[j + 1] /\ t[j + 1] = s[(j + 1) + 1]
        BY <1>2, <3>1
      <3>3. QED
        BY <1>1, <3>1, <3>2 DEF WholeStream
    <2>2. t # <<>> => Ends(t[Len(t)])
      <3>1. SUFFICES ASSUME t # <<>> PROVE Ends(t[Len(t)])
        OBVIOUS
      <3>2. l - 1 \in 1..(l - 1) /\ (l - 1) + 1 = l /\ Len(t) = l - 1
        BY <1>2, <1>3, <3>1
      <3>3. t[Len(t)] = s[l]
        BY <1>2, <3>2
      <3>4. QED
        BY <1>1, <3>3 DEF WholeStream
    <2>3. QED
      BY <2>1, <2>2 DEF WholeStream
  <1>7. Ends(d) => Final(d) /\ i = n
    <2>1. SUFFICES ASSUME Ends(d) PROVE Final(d) /\ i = n
      OBVIOUS
    <2>2. Final(d) /\ SymbolRow[i] = SymbolRow[n] /\ n \in 1..n
      BY <1>1, <1>2, <2>1 DEF Ends
    <2>3. QED
      BY <1>1, <1>2, <2>2, SameSymbol, Constants
  <1>8. PICK e : e = s[2]
    OBVIOUS
  <1>9. CASE ~Final(d)
    BY <1>4, <1>5, <1>6, <1>7, <1>8, <1>9 DEF Succeeds
  <1>10. CASE Final(d)
    <2>1. t # <<>> => /\ t[1] = e /\ e.from = 0
                      /\ IF i < Len(SymbolRow) THEN e.symbol = SymbolRow[i + 1] /\ e.seq = d.seq
                         ELSE e.symbol = SymbolRow[1]
      <3>1. i \in DOMAIN SymbolRow
        BY Constants
      <3>2. QED
        BY <1>5, <1>8, <1>10, <3>1 DEF Succeeds
    <2>2. i < n => t # <<>>
      BY <1>2, <1>4, <1>7
    <2>3. i = n => ~(i < Len(SymbolRow))
      BY <1>1, <1>2
    <2>4. QED
      BY <1>1, <1>6, <1>10, <2>1, <2>2, <2>3 DEF AtStart, Starts
  <1>11. QED
    BY <1>9, <1>10

\* Taking(i) and Taken_, of a client that has v and the datagrams t still to read.
TakingWith(v, t, i) ==
    /\ t # <<>> /\ ~Starts(t[1]) /\ t[1].symbol = SymbolRow[i] /\ t[1].seq = v.seq
    /\ CompleteTo(v.complete, v.buffer, v.seq, i)
    /\ t[1].from > 0 => Partly(v.awaited, v.buffer, t[1].symbol, t[1].row, t[1].from)
TakenWith(v, t) == CompleteTo(v.complete, v.buffer, v.seq, Len(SymbolRow) + 1) /\ AtStart(t)

\* A datagram of the snapshot that is being taken is followed by another one, or is the last.
LEMMA TakingAdvances ==
    ASSUME NEW s \in Seq(Good), s # <<>>, WholeStream(s), NEW d, d = s[1], d.seq > 0, NEW t, t = Tail(s),
           NEW i \in 1..Len(SymbolRow), d.symbol = SymbolRow[i],
           NEW w \in Wait, NEW v \in Wait, CompleteTo(w.complete, w.buffer, d.seq, i), v.seq = d.seq,
           SameBut(w, v, d.symbol), PartTaken(v, d, InDatagram(d))
    PROVE  (\E j \in DOMAIN SymbolRow : TakingWith(v, t, j)) \/ TakenWith(v, t)
  <1>1. PICK n, q, x, row : n = Len(SymbolRow) /\ q = d.seq /\ x = d.symbol /\ row = d.row
    OBVIOUS
  <1>2. n \in Nat /\ n >= 1 /\ i \in 1..n /\ DOMAIN SymbolRow = 1..n /\ \A j \in 1..n : SymbolRow[j] \in Symbols
    BY <1>1, Constants
  <1>3. d \in Good /\ row \in Seq(Entry) /\ d.from \in Nat /\ q \in Nat /\ x \in Symbols
    <2>1. d \in Good
      BY TailIs
    <2>2. QED
      BY <1>1, <2>1 DEF Good, Datagram
  <1>4. \A j \in 1..n : j # i => /\ SymbolRow[j] # x /\ v.complete[SymbolRow[j]] = w.complete[SymbolRow[j]]
                                 /\ v.buffer[SymbolRow[j]] = w.buffer[SymbolRow[j]]
    <2>1. ASSUME NEW j \in 1..n, j # i PROVE SymbolRow[j] # x
      BY <1>1, <1>2, <2>1, SameSymbol
    <2>2. QED
      BY <1>1, <1>2, <2>1 DEF SameBut
  <1>5. /\ \A j \in 1..(i - 1) : w.complete[SymbolRow[j]] /\ RowOf(w.buffer[SymbolRow[j]], truth[q + 1], SymbolRow[j])
        /\ \A j \in i..n : ~w.complete[SymbolRow[j]]
    BY <1>1 DEF CompleteTo
  <1>6. \A j \in 1..(i - 1) : v.complete[SymbolRow[j]] /\ RowOf(v.buffer[SymbolRow[j]], truth[q + 1], SymbolRow[j])
    <2>1. \A j \in 1..(i - 1) : j \in 1..n /\ j # i
      BY <1>2
    <2>2. QED
      BY <1>4, <1>5, <2>1
  <1>7. \A j \in (i + 1)..n : ~v.complete[SymbolRow[j]]
    <2>1. \A j \in (i + 1)..n : j \in 1..n /\ j # i /\ j \in i..n
      BY <1>2
    <2>2. QED
      BY <1>4, <1>5, <2>1
  <1>8. /\ InDatagram(d) \in Nat
        /\ Final(d) <=> d.from + InDatagram(d) = Len(d.row)
        /\ ~Final(d) => InDatagram(d) = OrdersPerDatagram
    BY <1>3, InDatagramIs
  <1>9. Partly(v.awaited, v.buffer, x, row, d.from + InDatagram(d)) /\ (v.complete[x] <=> Final(d))
    BY <1>1, <1>8 DEF PartTaken
  <1>10. CASE ~Final(d)
    <2>1. PICK e : e = t[1]
      OBVIOUS
    <2>2. t # <<>> /\ e.symbol = x /\ e.seq = q /\ e.row = row /\ e.from = d.from + OrdersPerDatagram
      BY <1>1, <1>10, <2>1, Onward
    <2>3. e.from # 0
      BY <1>3, <2>2, Constants
    <2>4. ~Starts(e)
      BY <2>3 DEF Starts
    <2>5. Partly(v.awaited, v.buffer, x, row, e.from)
      BY <1>8, <1>9, <1>10, <2>2
    <2>6. CompleteTo(v.complete, v.buffer, q, i)
      <3>1. \A j \in i..n : ~v.complete[SymbolRow[j]]
        <4>1. \A j \in i..n : j = i \/ j \in (i + 1)..n
          BY <1>2
        <4>2. QED
          BY <1>1, <1>7, <1>9, <1>10, <4>1
      <3>2. QED
        BY <1>1, <1>6, <3>1 DEF CompleteTo
    <2>7. TakingWith(v, t, i)
      BY <1>1, <2>1, <2>2, <2>4, <2>5, <2>6 DEF TakingWith
    <2>8. QED
      BY <1>2, <2>7
  <1>11. CASE Final(d)
    <2>1. v.buffer[x] = row
      <3>1. PICK b : b = v.buffer[x]
        OBVIOUS
      <3>2. b \in Seq(Entry) /\ Len(b) = Len(row) /\ \A j \in 1..Len(row) : b[j] = row[j]
        BY <1>1, <1>3, <1>8, <1>9, <1>11, <3>1, WaitFields DEF Partly
      <3>3. b = row
        BY <1>3, <3>2, SeqEqual
      <3>4. QED
        BY <3>1, <3>3
    <2>2. RowOf(row, truth[q + 1], x)
      BY <1>1, <1>3 DEF Good, DatagramOK
    <2>3. CompleteTo(v.complete, v.buffer, q, i + 1)
      <3>1. \A j \in 1..((i + 1) - 1) : j = i \/ j \in 1..(i - 1)
        BY <1>2
      <3>2. v.complete[SymbolRow[i]] /\ RowOf(v.buffer[SymbolRow[i]], truth[q + 1], SymbolRow[i])
        BY <1>1, <1>9, <1>11, <2>1, <2>2
      <3>3. QED
        BY <1>1, <1>6, <1>7, <3>1, <3>2 DEF CompleteTo
    <2>4. CASE i = n
      <3>1. AtStart(t)
        BY <1>1, <1>11, <2>4, Onward
      <3>2. QED
        BY <1>1, <2>3, <2>4, <3>1 DEF TakenWith
    <2>5. CASE i # n
      <3>1. PICK e : e = t[1]
        OBVIOUS
      <3>2. i < Len(SymbolRow) /\ i + 1 \in 1..n /\ i + 1 # 1 /\ 1 \in 1..n
        BY <1>1, <1>2, <2>5
      <3>3. t # <<>> /\ e.from = 0 /\ e.symbol = SymbolRow[i + 1] /\ e.seq = q
        BY <1>1, <1>11, <3>1, <3>2, Onward
      <3>4. ~Starts(e)
        BY <1>2, <3>2, <3>3, SameSymbol DEF Starts
      <3>5. TakingWith(v, t, i + 1)
        <4>1. ~(t[1].from > 0)
          BY <3>1, <3>3
        <4>2. QED
          BY <1>1, <2>3, <3>1, <3>3, <3>4, <4>1 DEF TakingWith
      <3>6. QED
        BY <1>2, <3>2, <3>5
    <2>6. QED
      BY <2>4, <2>5
  <1>12. QED
    BY <1>10, <1>11

\* The datagrams of an old snapshot are followed by others of it, or by a new snapshot.
LEMMA OldFollowsOld ==
    ASSUME NEW s \in Seq(Good), s # <<>>, WholeStream(s), NEW t, t = Tail(s)
    PROVE  AtStart(t) \/ t[1].seq = s[1].seq
  <1>1. PICK d : d = s[1]
    OBVIOUS
  <1>2. d \in Good
    BY <1>1, TailIs
  <1>3. d.symbol \in Symbols
    BY <1>2 DEF Good, Datagram
  <1>4. PICK i \in 1..Len(SymbolRow) : d.symbol = SymbolRow[i]
    BY <1>3, Constants
  <1>5. i < Len(SymbolRow) \/ i = Len(SymbolRow)
    <2>1. Len(SymbolRow) \in Nat
      BY Constants
    <2>2. QED
      BY <1>4, <2>1
  <1>6. CASE ~Final(d)
    BY <1>1, <1>4, <1>6, Onward
  <1>7. CASE Final(d) /\ i < Len(SymbolRow)
    BY <1>1, <1>4, <1>7, Onward
  <1>8. CASE Final(d) /\ i = Len(SymbolRow)
    BY <1>1, <1>4, <1>8, Onward
  <1>9. QED
    BY <1>5, <1>6, <1>7, <1>8

\* A datagram is skipped, or goes on with the snapshot that is being taken, or starts one.
LEMMA ReceiveTakes ==
    ASSUME NEW w \in Wait, NEW v \in Wait, NEW first \in Nat, DatagramRead(w, v, first), snaps # <<>>,
           SnapsOK, WholeStream(snaps), NEW t, t = Tail(snaps),
           \/ /\ \A symbol \in Symbols : ~Begun(w.awaited, w.complete, symbol)
              /\ Starts(snaps[1]) \/ snaps[1].seq <= first
           \/ /\ w.seq > 0 /\ \E i \in DOMAIN SymbolRow : TakingWith(w, snaps, i)
              /\ \A symbol \in Symbols : Begun(w.awaited, w.complete, symbol) => w.seq > first
    PROVE  \/ /\ \A symbol \in Symbols : ~Begun(v.awaited, v.complete, symbol)
              /\ AtStart(t) \/ t[1].seq <= first
           \/ v.seq > 0 /\ \E i \in DOMAIN SymbolRow : TakingWith(v, t, i)
           \/ v.seq > 0 /\ TakenWith(v, t)
  <1>1. PICK d : d = snaps[1]
    OBVIOUS
  <1>2. snaps \in Seq(Good) /\ d \in Good
    BY <1>1, SnapsAreGood, TailIs
  <1>3. d.from \in Nat /\ d.seq \in Nat /\ d.symbol \in Symbols
    BY <1>2 DEF Good, Datagram
  <1>4. \/ d.from = 0 /\ d.seq <= first /\ v = w
        \/ ~(d.from = 0 /\ d.seq <= first) /\ DatagramTaken(w, v, d)
    BY <1>1 DEF DatagramRead
  <1>5. AtStart(t) \/ t[1].seq = d.seq
    BY <1>1, <1>2, OldFollowsOld
  <1>6. CASE /\ \A symbol \in Symbols : ~Begun(w.awaited, w.complete, symbol)
             /\ Starts(d) \/ d.seq <= first
    <2>1. CASE d.from = 0 /\ d.seq <= first
      BY <1>4, <1>5, <1>6, <2>1
    <2>2. CASE d.from # 0
      <3>1. d.from > 0 /\ DatagramTaken(w, v, d)
        BY <1>3, <1>4, <2>2
      <3>2. \A symbol \in Symbols : ~Begun(v.awaited, v.complete, symbol)
        BY <1>6, <3>1 DEF DatagramTaken, SameBut, Begun
      <3>3. d.seq <= first
        BY <1>6, <2>2 DEF Starts
      <3>4. QED
        BY <1>5, <3>2, <3>3
    <2>3. CASE d.from = 0 /\ ~(d.seq <= first)
      <3>1. DatagramTaken(w, v, d) /\ Starts(d) /\ d.seq > 0
        BY <1>3, <1>4, <1>6, <2>3
      <3>2. d.symbol = SymbolRow[1] /\ 1 \in 1..Len(SymbolRow)
        BY <3>1, Constants DEF Starts
      <3>3. \A symbol \in Symbols : ~w.complete[symbol]
        BY <1>6 DEF Begun
      <3>4. CompleteTo(w.complete, w.buffer, d.seq, 1)
        <4>1. \A j \in 1..(1 - 1) : FALSE
          OBVIOUS
        <4>2. QED
          BY <3>3, <4>1, Constants DEF CompleteTo
      <3>5. ~(d.from > 0)
        BY <2>3
      <3>6. v.seq = d.seq /\ SameBut(w, v, d.symbol) /\ PartTaken(v, d, InDatagram(d))
        BY <1>3, <2>3, <3>1, <3>3, <3>5 DEF DatagramTaken
      <3>7. (\E j \in DOMAIN SymbolRow : TakingWith(v, t, j)) \/ TakenWith(v, t)
        BY <1>1, <1>2, <3>1, <3>2, <3>4, <3>6, TakingAdvances
      <3>8. QED
        BY <3>1, <3>6, <3>7
    <2>4. QED
      BY <2>1, <2>2, <2>3
  <1>7. ASSUME w.seq > 0, NEW i \in DOMAIN SymbolRow, TakingWith(w, snaps, i),
               \A symbol \in Symbols : Begun(w.awaited, w.complete, symbol) => w.seq > first
        PROVE  v.seq > 0 /\ ((\E j \in DOMAIN SymbolRow : TakingWith(v, t, j)) \/ TakenWith(v, t))
    <2>1. /\ ~Starts(d) /\ d.symbol = SymbolRow[i] /\ d.seq = w.seq /\ CompleteTo(w.complete, w.buffer, w.seq, i)
          /\ d.from > 0 => Partly(w.awaited, w.buffer, d.symbol, d.row, d.from)
      BY <1>1, <1>7 DEF TakingWith
    <2>2. i \in 1..Len(SymbolRow) /\ Len(SymbolRow) \in Nat
      BY <1>7, Constants
    <2>3. d.from = 0 => d.seq > first
      <3>1. SUFFICES ASSUME d.from = 0 PROVE d.seq > first
        OBVIOUS
      <3>2. i # 1
        BY <2>1, <3>1 DEF Starts
      <3>3. 1 \in 1..(i - 1) /\ 1 \in 1..Len(SymbolRow)
        BY <2>2, <3>2
      <3>4. w.complete[SymbolRow[1]] /\ SymbolRow[1] \in Symbols
        BY <2>1, <3>3, Constants DEF CompleteTo
      <3>5. QED
        BY <1>7, <2>1, <3>4 DEF Begun
    <2>4. DatagramTaken(w, v, d)
      BY <1>3, <1>4, <2>3
    <2>5. ~w.complete[d.symbol]
      <3>1. i \in i..Len(SymbolRow)
        BY <2>2
      <3>2. QED
        BY <2>1, <3>1 DEF CompleteTo
    <2>6. v.seq = d.seq /\ SameBut(w, v, d.symbol) /\ PartTaken(v, d, InDatagram(d))
      BY <2>1, <2>4, <2>5 DEF DatagramTaken
    <2>7. (\E j \in DOMAIN SymbolRow : TakingWith(v, t, j)) \/ TakenWith(v, t)
      <3>1. d.seq > 0 /\ CompleteTo(w.complete, w.buffer, d.seq, i)
        BY <1>7, <2>1
      <3>2. QED
        BY <1>1, <1>2, <2>1, <2>2, <2>6, <3>1, TakingAdvances
    <2>8. QED
      BY <1>7, <2>1, <2>6, <2>7
  <1>8. QED
    BY <1>1, <1>6, <1>7

\* Receiving a packet keeps the stream of snapshots.
LEMMA ReceiveKeeps ==
    ASSUME RecoveryInv, ReceiveWhileWaiting, UNCHANGED scenario
    PROVE  RecoveryInv'
  <1>1. DataInv /\ StreamOK /\ DataInv' /\ BooksOK'
    BY ReceiveKeepsData DEF RecoveryInv
  <1>2. /\ mode = "waiting" /\ mode' = "waiting" /\ ~AllComplete /\ UNCHANGED <<feed, truth>>
        /\ live # <<>> /\ live_buffer' = live_buffer \o Head(live) /\ live' = Tail(live)
    BY DEF ReceiveWhileWaiting, exchange
  <1>3. PICK w, v, t, first : w = Waiting /\ v = Waiting' /\ t = Tail(snaps) /\ first = live_buffer'[1]
    OBVIOUS
  <1>4. w \in Wait /\ v \in Wait /\ DatagramRead(w, v, first)
    BY <1>1, <1>3, Received
  <1>5. first \in Nat /\ live_buffer' # <<>> /\ (live_buffer # <<>> => first = live_buffer[1])
    <2>1. PICK low : low = 0
      OBVIOUS
    <2>2. ExchangeOK /\ LiveOK /\ Len(feed) \in Nat
      BY <1>1, OrdersNow DEF DataInv
    <2>3. \A s \in Seq(Numbers) : \A a \in DOMAIN s : s[a] >= low
      BY <2>1, <2>2 DEF Numbers
    <2>4. (\A a \in DOMAIN live_buffer : live_buffer[a] >= low) /\ \A i \in DOMAIN live : \A a \in DOMAIN live[i] : live[i][a] >= low
      BY <2>2, <2>3 DEF LiveOK
    <2>5. low \in Nat
      BY <2>1
    <2>6. live_buffer' # <<>> /\ live_buffer'[1] \in Nat /\ (live_buffer # <<>> => live_buffer'[1] = live_buffer[1])
      BY <1>2, <2>2, <2>4, <2>5, ReceiveKeepsLive
    <2>7. QED
      BY <1>3, <2>6
  <1>6. /\ w.seq = last_snapshot_seq_num /\ w.awaited = awaited /\ w.complete = snapshot_complete
        /\ w.buffer = snapshot_buffer
        /\ v.seq = last_snapshot_seq_num' /\ v.awaited = awaited' /\ v.buffer = snapshot_buffer'
        /\ v.complete = snapshot_complete'
    BY <1>3 DEF Waiting
  <1>7. SnapsOK /\ WaitOK /\ WholeStream(snaps)
    BY <1>1 DEF DataInv, StreamOK
  <1>8. ~Taken_
    <2>1. PICK symbol \in Symbols : ~snapshot_complete[symbol]
      BY <1>2 DEF AllComplete
    <2>2. PICK i \in 1..Len(SymbolRow) : symbol = SymbolRow[i]
      BY Constants
    <2>3. i \in 1..((Len(SymbolRow) + 1) - 1)
      BY <2>2, Constants
    <2>4. QED
      BY <2>1, <2>2, <2>3 DEF Taken_, CompleteTo
  <1>9. CASE snaps = <<>>
    <2>1. snaps' = snaps /\ v = w
      BY <1>4, <1>9 DEF DatagramRead
    <2>2. Skipping
      BY <1>1, <1>2, <1>8, <1>9 DEF StreamOK, Taking
    <2>3. \A symbol \in Symbols : ~(Begun(awaited, snapshot_complete, symbol))'
      BY <1>6, <2>1, <2>2 DEF Skipping, Begun
    <2>4. Skipping'
      BY <1>9, <2>1, <2>3 DEF Skipping, AtStart
    <2>5. (WholeStream(snaps))'
      BY <1>7, <2>1 DEF WholeStream, Succeeds, Final, Ends
    <2>6. StreamOK'
      BY <1>2, <2>4, <2>5 DEF StreamOK
    <2>7. QED
      BY <1>1, <2>6 DEF RecoveryInv
  <1>10. CASE snaps # <<>>
    <2>1. snaps' = t
      BY <1>3, <1>4, <1>10 DEF DatagramRead
    <2>2. WholeStream(t)
      <3>1. snaps \in Seq(Good)
        BY <1>7, SnapsAreGood
      <3>2. snaps[1] \in Good
        BY <1>10, <3>1, TailIs
      <3>3. snaps[1].symbol \in Symbols
        BY <3>2 DEF Good, Datagram
      <3>4. PICK i \in 1..Len(SymbolRow) : snaps[1].symbol = SymbolRow[i]
        BY <3>3, Constants
      <3>5. QED
        BY <1>3, <1>7, <1>10, <3>1, <3>4, Onward
    <2>3. \/ /\ \A symbol \in Symbols : ~Begun(w.awaited, w.complete, symbol)
             /\ Starts(snaps[1]) \/ snaps[1].seq <= first
          \/ /\ w.seq > 0 /\ \E i \in DOMAIN SymbolRow : TakingWith(w, snaps, i)
             /\ \A symbol \in Symbols : Begun(w.awaited, w.complete, symbol) => w.seq > first
      <3>1. CASE Skipping
        BY <1>5, <1>6, <1>10, <3>1 DEF Skipping, AtStart
      <3>2. CASE last_snapshot_seq_num > 0 /\ \E i \in DOMAIN SymbolRow : Taking(i)
        <4>1. PICK i \in DOMAIN SymbolRow : Taking(i)
          BY <3>2
        <4>2. TakingWith(w, snaps, i)
          BY <1>6, <4>1 DEF Taking, TakingWith
        <4>3. \A symbol \in Symbols : Begun(w.awaited, w.complete, symbol) => w.seq > first
          BY <1>2, <1>5, <1>6, <1>7 DEF WaitOK
        <4>4. QED
          BY <1>6, <3>2, <4>2, <4>3
      <3>3. QED
        BY <1>1, <1>2, <1>8, <3>1, <3>2 DEF StreamOK
    <2>4. \/ /\ \A symbol \in Symbols : ~Begun(v.awaited, v.complete, symbol)
             /\ AtStart(t) \/ t[1].seq <= first
          \/ v.seq > 0 /\ \E i \in DOMAIN SymbolRow : TakingWith(v, t, i)
          \/ v.seq > 0 /\ TakenWith(v, t)
      BY <1>3, <1>4, <1>5, <1>7, <1>10, <2>3, ReceiveTakes
    <2>5. \A i : CompleteTo(v.complete, v.buffer, v.seq, i)
                    => (CompleteTo(snapshot_complete, snapshot_buffer, last_snapshot_seq_num, i))'
      BY <1>2, <1>6 DEF CompleteTo, RowOf
    <2>6. AtStart(t) => AtStart(snaps')
      BY <2>1
    <2>11. (WholeStream(snaps))'
      BY <2>1, <2>2 DEF WholeStream, Succeeds, Final, Ends
    <2>7. CASE /\ \A symbol \in Symbols : ~Begun(v.awaited, v.complete, symbol)
               /\ AtStart(t) \/ t[1].seq <= first
      <3>1. \A symbol \in Symbols : ~(Begun(awaited, snapshot_complete, symbol))'
        BY <1>6, <2>7 DEF Begun
      <3>2. Skipping'
        BY <1>3, <1>5, <2>1, <2>7, <3>1 DEF Skipping, AtStart, Starts
      <3>3. StreamOK'
        BY <1>2, <2>11, <3>2 DEF StreamOK
      <3>4. QED
        BY <1>1, <3>3 DEF RecoveryInv
    <2>8. CASE v.seq > 0 /\ \E i \in DOMAIN SymbolRow : TakingWith(v, t, i)
      <3>1. PICK i \in DOMAIN SymbolRow : TakingWith(v, t, i)
        BY <2>8
      <3>2. (CompleteTo(snapshot_complete, snapshot_buffer, last_snapshot_seq_num, i))'
        BY <2>5, <3>1 DEF TakingWith
      <3>3. (snaps # <<>> /\ ~Starts(snaps[1]) /\ snaps[1].symbol = SymbolRow[i] /\ snaps[1].seq = last_snapshot_seq_num)'
        BY <1>6, <2>1, <3>1 DEF TakingWith, Starts
      <3>4. (snaps[1].from > 0 => Partly(awaited, snapshot_buffer, snaps[1].symbol, snaps[1].row, snaps[1].from))'
        BY <1>6, <2>1, <3>1 DEF TakingWith, Partly
      <3>5. (Taking(i))'
        BY <3>2, <3>3, <3>4 DEF Taking
      <3>6. StreamOK'
        BY <1>2, <1>6, <2>8, <2>11, <3>5 DEF StreamOK
      <3>7. QED
        BY <1>1, <3>6 DEF RecoveryInv
    <2>9. CASE v.seq > 0 /\ TakenWith(v, t)
      <3>1. (CompleteTo(snapshot_complete, snapshot_buffer, last_snapshot_seq_num, Len(SymbolRow) + 1))'
        BY <2>5, <2>9 DEF TakenWith
      <3>2. Taken_'
        BY <2>6, <2>9, <3>1 DEF Taken_, TakenWith, AtStart, Starts
      <3>3. StreamOK'
        BY <1>2, <1>6, <2>9, <2>11, <3>2 DEF StreamOK
      <3>4. QED
        BY <1>1, <3>3 DEF RecoveryInv
    <2>10. QED
      BY <2>4, <2>7, <2>8, <2>9
  <1>11. QED
    BY <1>9, <1>10

-----------------------------------------------------------------------------
(* process_message. *)

\* The orders of a symbol, one by one.
LEMMA PartHas ==
    ASSUME NEW T, NEW D, NEW symbol
    PROVE  /\ \A x : x \in DOMAIN Part(T, D, symbol) <=> x \in D /\ T[x].symbol = symbol
           /\ \A x \in DOMAIN Part(T, D, symbol) : Part(T, D, symbol)[x] = AsInBook(T[x])
           /\ Part(T, D, symbol) = [x \in DOMAIN Part(T, D, symbol) |-> Part(T, D, symbol)[x]]
  BY DEF Part

LEMMA PartIs ==
    ASSUME NEW T, NEW D, NEW symbol, NEW f, f = [x \in DOMAIN f |-> f[x]],
           \A x : x \in DOMAIN f <=> x \in D /\ T[x].symbol = symbol,
           \A x \in DOMAIN f : f[x] = AsInBook(T[x])
    PROVE  f = Part(T, D, symbol)
  <1>1. DOMAIN f = {x \in D : T[x].symbol = symbol}
    OBVIOUS
  <1>2. PICK E : E = DOMAIN f
    OBVIOUS
  <1>3. f = [x \in E |-> AsInBook(T[x])]
    BY <1>2
  <1>4. QED
    BY <1>1, <1>2, <1>3 DEF Part

\* One book changes.
LEMMA BookChanges ==
    ASSUME NEW B, NEW S, NEW T, NEW D, Holds(B, S, T, D), NEW x \in Symbols, NEW b, NEW C, C = With(B, x, b),
           NEW R, NEW U, NEW E, b.orders = Part(U, E, x),
           \A symbol \in Symbols : symbol # x => Part(U, E, symbol) = Part(T, D, symbol),
           \A id \in E : id \in DOMAIN R /\ R[id] = U[id].symbol /\ U[id].symbol \in DOMAIN B \cup {x}
    PROVE  Holds(C, R, U, E)
  <1>1. DOMAIN C = DOMAIN B \cup {x} /\ C[x] = b /\ \A y \in DOMAIN B : y # x => C[y] = B[y]
    BY DEF With
  <1>2. ASSUME NEW symbol \in Symbols PROVE OrdersIn(C, symbol) = Part(U, E, symbol)
    <2>1. CASE symbol = x
      BY <1>1, <2>1 DEF OrdersIn
    <2>2. CASE symbol # x
      <3>1. OrdersIn(C, symbol) = OrdersIn(B, symbol)
        BY <1>1, <2>2 DEF OrdersIn
      <3>2. OrdersIn(B, symbol) = Part(T, D, symbol)
        BY DEF Holds
      <3>3. QED
        BY <2>2, <3>1, <3>2
    <2>3. QED
      BY <2>1, <2>2
  <1>3. QED
    BY <1>1, <1>2 DEF Holds

\* A client's books and the message number that they are at.
State(st) ==
    /\ st = [seq |-> st.seq, books |-> st.books, symbols |-> st.symbols, status |-> st.status]
    /\ Kept(st.books, st.symbols)

\* The orders of T in D and those of U in E agree on all but one id, of symbol x.
DifferIn(T, D, U, E, id, x) ==
    /\ \A y : y # id => (y \in D <=> y \in E)
    /\ \A y \in D : y # id => U[y] = T[y]
    /\ id \in D => T[id].symbol = x
    /\ id \in E => U[id].symbol = x

LEMMA OtherParts ==
    ASSUME NEW T, NEW D, NEW U, NEW E, NEW id, NEW x, DifferIn(T, D, U, E, id, x)
    PROVE  \A symbol : symbol # x => Part(U, E, symbol) = Part(T, D, symbol)
  <1> USE DEF DifferIn
  <1>1. SUFFICES ASSUME NEW symbol, symbol # x PROVE Part(U, E, symbol) = Part(T, D, symbol)
    OBVIOUS
  <1>2. PICK f : f = Part(T, D, symbol)
    OBVIOUS
  <1>3. f = [y \in DOMAIN f |-> f[y]]
    BY <1>2, PartHas
  <1>4. \A y : y \in DOMAIN f <=> y \in D /\ T[y].symbol = symbol
    BY <1>2, PartHas
  <1>5. \A y \in DOMAIN f : f[y] = AsInBook(T[y])
    BY <1>2, PartHas
  <1>6. ASSUME NEW y PROVE y \in DOMAIN f <=> y \in E /\ U[y].symbol = symbol
    <2>1. CASE y = id
      BY <1>1, <1>4, <2>1
    <2>2. CASE y # id
      BY <1>4, <2>2
    <2>3. QED
      BY <2>1, <2>2
  <1>7. ASSUME NEW y \in DOMAIN f PROVE f[y] = AsInBook(U[y])
    <2>1. y # id /\ y \in D
      BY <1>1, <1>4, <1>7
    <2>2. U[y] = T[y]
      BY <2>1
    <2>3. QED
      BY <1>5, <2>2
  <1>8. f = Part(U, E, symbol)
    BY <1>3, <1>6, <1>7, PartIs
  <1>9. QED
    BY <1>2, <1>8

\* An order is added to its book.
LEMMA WithOrderKept ==
    ASSUME NEW st, State(st), NEW o, o.symbol \in Symbols, NEW v, v = WithOrder(st, o)
    PROVE  /\ State(v) /\ v.seq = st.seq /\ v.status = st.status
           /\ v.symbols = With(st.symbols, o.id, o.symbol)
           /\ v.books = With(st.books, o.symbol,
                Book!new_order(IF o.symbol \in DOMAIN st.books THEN st.books[o.symbol] ELSE Book!Empty,
                               o.id, o.side, o.quantity, 1))
  <1>1. PICK q, B, S, z : q = st.seq /\ B = st.books /\ S = st.symbols /\ z = st.status
    OBVIOUS
  <1>2. st = [seq |-> q, books |-> B, symbols |-> S, status |-> z] /\ Kept(B, S)
    BY <1>1 DEF State
  <1>3. PICK b : b = Book!new_order(IF o.symbol \in DOMAIN B THEN B[o.symbol] ELSE Book!Empty, o.id, o.side, o.quantity, 1)
    OBVIOUS
  <1>4. PICK C, R : C = With(B, o.symbol, b) /\ R = With(S, o.id, o.symbol)
    OBVIOUS
  <1>5. v = [st EXCEPT !.books = C, !.symbols = R]
    BY <1>1, <1>3, <1>4 DEF WithOrder
  <1>6. v = [seq |-> q, books |-> C, symbols |-> R, status |-> z]
    BY <1>2, <1>5
  <1>7. Kept(C, R)
    <2>1. DOMAIN C \subseteq Symbols
      BY <1>2, <1>4 DEF Kept, With
    <2>2. R \in [DOMAIN R -> Symbols \cup {0}]
      BY <1>2, <1>4 DEF Kept, With
    <2>3. QED
      BY <2>1, <2>2 DEF Kept
  <1>8. v.seq = q /\ v.books = C /\ v.symbols = R /\ v.status = z
    BY <1>6
  <1>9. State(v)
    BY <1>6, <1>7, <1>8 DEF State
  <1>10. QED
    BY <1>1, <1>3, <1>4, <1>8, <1>9

\* The orders of U in E are those of T in D, and o.
OneOrderMore(T, D, U, E, o) ==
    /\ E = D \cup {o.id} /\ o.id \notin D /\ \A id \in D : U[id] = T[id]
    /\ U[o.id].symbol = o.symbol /\ U[o.id].side = o.side /\ U[o.id].quantity = o.quantity

LEMMA WithOrderHolds ==
    ASSUME NEW st, State(st), NEW o, o.symbol \in Symbols, NEW v, v = WithOrder(st, o),
           NEW T, NEW D, Holds(st.books, st.symbols, T, D), NEW U, NEW E, OneOrderMore(T, D, U, E, o)
    PROVE  Holds(v.books, v.symbols, U, E)
  <1> USE DEF OneOrderMore
  <1>1. PICK B, S, x, id : B = st.books /\ S = st.symbols /\ x = o.symbol /\ id = o.id
    OBVIOUS
  <1>2. PICK a : a = IF x \in DOMAIN B THEN B[x] ELSE Book!Empty
    OBVIOUS
  <1>3. PICK b : b = Book!new_order(a, id, o.side, o.quantity, 1)
    OBVIOUS
  <1>4. v.books = With(B, x, b) /\ v.symbols = With(S, id, x)
    BY <1>1, <1>2, <1>3, WithOrderKept
  <1>5. a.orders = Part(T, D, x)
    <2>1. Book!Empty.orders = Nothing
      BY DEF Book!Empty, Nothing
    <2>2. a.orders = OrdersIn(B, x)
      BY <1>2, <2>1 DEF OrdersIn
    <2>3. QED
      BY <1>1, <2>2 DEF Holds
  <1>6. PICK f, g, n : f = a.orders /\ g = b.orders /\ n = AsInBook(U[id])
    OBVIOUS
  <1>7. \A y : y \in DOMAIN f <=> y \in D /\ T[y].symbol = x
    BY <1>5, <1>6, PartHas
  <1>8. \A y \in DOMAIN f : f[y] = AsInBook(T[y])
    BY <1>5, <1>6, PartHas
  <1>9. g = [y \in DOMAIN f \cup {id} |-> IF y = id THEN n ELSE f[y]]
    <2>1. ~Book!Known(a, id)
      BY <1>1, <1>6, <1>7 DEF Book!Known
    <2>2. n = [side |-> o.side, price |-> 1, quantity |-> o.quantity]
      BY <1>1, <1>6 DEF AsInBook
    <2>3. b.orders = Book!OrdersWith(a, id, [side |-> o.side, price |-> 1, quantity |-> o.quantity])
      BY <1>3, <2>1 DEF Book!new_order
    <2>4. QED
      BY <1>6, <2>2, <2>3 DEF Book!OrdersWith
  <1>10. g = Part(U, E, x)
    <2>1. DOMAIN g = DOMAIN f \cup {id} /\ g = [y \in DOMAIN g |-> g[y]]
      BY <1>9
    <2>2. ASSUME NEW y PROVE y \in DOMAIN g <=> y \in E /\ U[y].symbol = x
      <3>1. CASE y = id
        BY <1>1, <2>1, <3>1
      <3>2. CASE y # id
        BY <1>1, <1>7, <2>1, <3>2
      <3>3. QED
        BY <3>1, <3>2
    <2>3. ASSUME NEW y \in DOMAIN g PROVE g[y] = AsInBook(U[y])
      <3>1. CASE y = id
        BY <1>6, <1>9, <2>1, <3>1
      <3>2. CASE y # id
        <4>1. y \in DOMAIN f /\ g[y] = f[y]
          BY <1>9, <2>1, <2>3, <3>2
        <4>2. U[y] = T[y]
          BY <1>7, <4>1
        <4>3. QED
          BY <1>8, <4>1, <4>2
      <3>3. QED
        BY <3>1, <3>2
    <2>4. QED
      BY <2>1, <2>2, <2>3, PartIs
  <1>11. \A symbol \in Symbols : symbol # x => Part(U, E, symbol) = Part(T, D, symbol)
    <2>1. DifferIn(T, D, U, E, id, x)
      BY <1>1 DEF DifferIn
    <2>2. QED
      BY <2>1, OtherParts
  <1>12. ASSUME NEW y \in E
         PROVE  y \in DOMAIN v.symbols /\ v.symbols[y] = U[y].symbol /\ U[y].symbol \in DOMAIN B \cup {x}
    <2>1. CASE y = id
      BY <1>1, <1>4, <2>1 DEF With
    <2>2. CASE y # id
      <3>1. y \in D /\ U[y] = T[y]
        BY <1>1, <1>12, <2>2
      <3>2. y \in DOMAIN S /\ S[y] = T[y].symbol /\ T[y].symbol \in DOMAIN B
        BY <1>1, <3>1 DEF Holds
      <3>3. QED
        BY <1>4, <2>2, <3>1, <3>2 DEF With
    <2>3. QED
      BY <2>1, <2>2
  <1>13. Holds(B, S, T, D) /\ x \in Symbols /\ b.orders = Part(U, E, x)
    BY <1>1, <1>6, <1>10
  <1>14. QED
    BY <1>4, <1>11, <1>12, <1>13, BookChanges

\* The book b has the orders f, but for id, which is as in U or, unless E has it, gone.
BookAfter(b, f, U, E, id) ==
    /\ id \in E => b.orders = [y \in DOMAIN f \cup {id} |-> IF y = id THEN AsInBook(U[id]) ELSE f[y]]
    /\ id \notin E => b.orders = [y \in DOMAIN f \ {id} |-> f[y]]

\* An order that the books have changes, or goes.
LEMMA OrderChanges ==
    ASSUME NEW B, NEW S, NEW T, NEW D, Holds(B, S, T, D), NEW id \in D, NEW x \in Symbols, x = T[id].symbol,
           NEW U, NEW E, DifferIn(T, D, U, E, id, x), NEW f, f = B[x].orders, NEW b, NEW C, C = With(B, x, b),
           BookAfter(b, f, U, E, id)
    PROVE  Holds(C, S, U, E)
  <1>1. x \in DOMAIN B /\ S[id] = x /\ id \in DOMAIN S
    BY DEF Holds
  <1>2. f = Part(T, D, x)
    BY <1>1 DEF Holds, OrdersIn
  <1>3. \A y : y \in DOMAIN f <=> y \in D /\ T[y].symbol = x
    BY <1>2, PartHas
  <1>4. \A y \in DOMAIN f : f[y] = AsInBook(T[y])
    BY <1>2, PartHas
  <1>5. PICK g : g = b.orders
    OBVIOUS
  <1>6. g = [y \in DOMAIN g |-> g[y]] /\ \A y : y # id => (y \in DOMAIN g <=> y \in DOMAIN f)
    BY <1>5 DEF BookAfter
  <1>7. (id \in DOMAIN g <=> id \in E) /\ (id \in E => g[id] = AsInBook(U[id]))
    BY <1>5 DEF BookAfter
  <1>8. \A y \in DOMAIN g : y # id => g[y] = f[y]
    BY <1>5 DEF BookAfter
  <1>9. g = Part(U, E, x)
    <2>1. ASSUME NEW y PROVE y \in DOMAIN g <=> y \in E /\ U[y].symbol = x
      <3>1. CASE y = id
        BY <1>7, <3>1 DEF DifferIn
      <3>2. CASE y # id
        BY <1>3, <1>6, <3>2 DEF DifferIn
      <3>3. QED
        BY <3>1, <3>2
    <2>2. ASSUME NEW y \in DOMAIN g PROVE g[y] = AsInBook(U[y])
      <3>1. CASE y = id
        BY <1>7, <2>2, <3>1
      <3>2. CASE y # id
        <4>1. y \in DOMAIN f /\ g[y] = f[y]
          BY <1>6, <1>8, <2>2, <3>2
        <4>2. U[y] = T[y]
          BY <1>3, <3>2, <4>1 DEF DifferIn
        <4>3. QED
          BY <1>4, <4>1, <4>2
      <3>3. QED
        BY <3>1, <3>2
    <2>3. QED
      BY <1>6, <2>1, <2>2, PartIs
  <1>10. \A symbol : symbol # x => Part(U, E, symbol) = Part(T, D, symbol)
    BY OtherParts
  <1>11. ASSUME NEW y \in E PROVE y \in DOMAIN S /\ S[y] = U[y].symbol /\ U[y].symbol \in DOMAIN B \cup {x}
    <2>1. CASE y = id
      BY <1>1, <1>11, <2>1 DEF DifferIn
    <2>2. CASE y # id
      <3>1. y \in D /\ U[y] = T[y]
        BY <1>11, <2>2 DEF DifferIn
      <3>2. QED
        BY <3>1 DEF Holds
    <2>3. QED
      BY <2>1, <2>2
  <1>12. b.orders = Part(U, E, x)
    BY <1>5, <1>9
  <1>13. QED
    BY <1>10, <1>11, <1>12, BookChanges

\* One book of a client is replaced.
Replaced(st, x, b, v) == v = [st EXCEPT !.books[x] = b]

LEMMA OneBook ==
    ASSUME NEW st, State(st), NEW x, x \in DOMAIN st.books, NEW b, NEW v, Replaced(st, x, b, v)
    PROVE  /\ State(v) /\ v.seq = st.seq /\ v.status = st.status /\ v.symbols = st.symbols
           /\ v.books = With(st.books, x, b)
  <1>1. PICK q, B, S, z : q = st.seq /\ B = st.books /\ S = st.symbols /\ z = st.status
    OBVIOUS
  <1>2. st = [seq |-> q, books |-> B, symbols |-> S, status |-> z] /\ Kept(B, S) /\ x \in DOMAIN B
    BY <1>1 DEF State
  <1>3. PICK C : C = [B EXCEPT ![x] = b]
    OBVIOUS
  <1>4. C = With(B, x, b) /\ DOMAIN C = DOMAIN B
    <2>1. DOMAIN B \cup {x} = DOMAIN B
      BY <1>2
    <2>2. C = [y \in DOMAIN B |-> IF y = x THEN b ELSE B[y]]
      BY <1>2, <1>3
    <2>3. QED
      BY <2>1, <2>2 DEF With
  <1>5. v = [seq |-> q, books |-> C, symbols |-> S, status |-> z]
    BY <1>1, <1>2, <1>3 DEF Replaced
  <1>6. v.seq = q /\ v.books = C /\ v.symbols = S /\ v.status = z /\ Kept(C, S)
    BY <1>2, <1>4, <1>5 DEF Kept
  <1>7. QED
    BY <1>1, <1>4, <1>5, <1>6 DEF State

\* The book of an order after a message about it.
Changed(book, m) ==
    IF m.type = "DELETE_ORDER" THEN Book!delete_order(book, m.id)
    ELSE IF m.type = "MODIFY_ORDER" THEN Book!modify_order(book, m.id, m.side, m.quantity, 1)
    ELSE Book!order_trade(book, m.id, m.quantity)

LEMMA AppliedIs ==
    ASSUME NEW st, State(st), NEW m \in Message, Addressed(st, m), NEW v, v = Applied(st, m)
    PROVE  /\ State(v) /\ v.seq = st.seq /\ v.status = st.status
           /\ m.type = "NEW_ORDER" => v = WithOrder(st, m)
           /\ m.type \in {"DELETE_ORDER", "MODIFY_ORDER", "TRADE"} =>
                 LET x == st.symbols[m.id] IN
                 v.symbols = st.symbols /\ v.books = With(st.books, x, Changed(st.books[x], m))
           /\ m.type \in {"TRADE_SUMMARY", "HEARTBEAT"} => v = st
  <1>1. CASE m.type = "NEW_ORDER"
    <2>1. v = WithOrder(st, m) /\ m.symbol \in Symbols
      BY <1>1, MessageFields DEF Applied
    <2>2. QED
      BY <1>1, <2>1, WithOrderKept
  <1>2. CASE m.type \in {"DELETE_ORDER", "MODIFY_ORDER", "TRADE"}
    <2>1. PICK x : x = st.symbols[m.id]
      OBVIOUS
    <2>2. x \in DOMAIN st.books
      BY <1>2, <2>1 DEF Addressed
    <2>3. PICK b : b = Changed(st.books[x], m)
      OBVIOUS
    <2>4. Replaced(st, x, b, v)
      <3>1. CASE m.type = "DELETE_ORDER"
        BY <2>1, <2>2, <2>3, <3>1 DEF Applied, Changed, Replaced
      <3>2. CASE m.type = "MODIFY_ORDER"
        BY <2>1, <2>2, <2>3, <3>2 DEF Applied, Changed, Replaced
      <3>3. CASE m.type = "TRADE"
        BY <2>1, <2>2, <2>3, <3>3 DEF Applied, Changed, Replaced
      <3>4. QED
        BY <1>2, <3>1, <3>2, <3>3
    <2>5. State(v) /\ v.seq = st.seq /\ v.status = st.status /\ v.symbols = st.symbols /\ v.books = With(st.books, x, b)
      BY <2>2, <2>4, OneBook
    <2>6. QED
      BY <1>2, <2>1, <2>3, <2>5
  <1>3. CASE m.type \in {"TRADE_SUMMARY", "HEARTBEAT"}
    <2>1. v = st
      BY <1>3 DEF Applied
    <2>2. QED
      BY <1>3, <2>1
  <1>4. QED
    BY <1>1, <1>2, <1>3, MessageFields

\* A message does to the books what it does to the exchange's orders.
LEMMA BooksFollow ==
    ASSUME NEW st, State(st), NEW T, IsOrders(T), NEW m \in Message, Fits(m, T), NEW U, Turns(T, m, U),
           Holds(st.books, st.symbols, T, DOMAIN T), NEW v, v = Applied(st, m)
    PROVE  Addressed(st, m) /\ Holds(v.books, v.symbols, U, DOMAIN U)
  <1>1. PICK B, S, D, id : B = st.books /\ S = st.symbols /\ D = DOMAIN T /\ id = m.id
    OBVIOUS
  <1>2. Holds(B, S, T, D)
    BY <1>1
  <1>3. \A y \in D : /\ T[y].symbol \in Symbols /\ T[y].quantity \in Nat
                     /\ y \in DOMAIN S /\ S[y] = T[y].symbol /\ T[y].symbol \in DOMAIN B
    <2>1. \A y \in D : T[y] \in Resting
      BY <1>1 DEF IsOrders
    <2>2. QED
      BY <1>2, <2>1 DEF Holds, Resting, Positive
  <1>4. CASE m.type = "NEW_ORDER"
    <2>1. Addressed(st, m) /\ v = WithOrder(st, m) /\ m.symbol \in Symbols /\ id \notin D
      <3>1. Addressed(st, m)
        BY <1>4 DEF Addressed
      <3>2. QED
        BY <1>1, <1>4, <3>1, AppliedIs, MessageFields DEF Fits
    <2>2. PICK E : E = DOMAIN U
      OBVIOUS
    <2>3. E = D \cup {m.id} /\ U[m.id] = [symbol |-> m.symbol, side |-> m.side, quantity |-> m.quantity]
          /\ \A y \in D : U[y] = T[y]
      BY <1>1, <1>4, <2>2 DEF Turns
    <2>4. OneOrderMore(T, D, U, E, m)
      BY <1>1, <2>1, <2>3 DEF OneOrderMore
    <2>5. Holds(v.books, v.symbols, U, E)
      BY <1>1, <1>2, <2>1, <2>4, WithOrderHolds
    <2>6. QED
      BY <2>1, <2>2, <2>5
  <1>5. CASE m.type \in {"DELETE_ORDER", "MODIFY_ORDER", "TRADE"}
    <2>1. id \in D /\ (m.type = "TRADE" => m.quantity <= T[id].quantity /\ m.quantity \in Positive)
      BY <1>1, <1>5, MessageFields DEF Fits
    <2>2. PICK x, E, b, a, f : x = S[id] /\ E = DOMAIN U /\ b = Changed(B[x], m) /\ a = B[x] /\ f = B[x].orders
      OBVIOUS
    <2>3. x \in Symbols /\ x = T[id].symbol /\ x \in DOMAIN B /\ id \in DOMAIN S
      BY <1>3, <2>1, <2>2
    <2>4. Addressed(st, m)
      BY <1>1, <1>5, <2>2, <2>3 DEF Addressed
    <2>5. v.symbols = S /\ v.books = With(B, x, b)
      BY <1>1, <1>5, <2>2, <2>4, AppliedIs
    <2>6. f = Part(T, D, x)
      BY <1>2, <2>2, <2>3 DEF Holds, OrdersIn
    <2>7. id \in DOMAIN f /\ f[id] = AsInBook(T[id])
      BY <2>1, <2>3, <2>6, PartHas
    <2>8. Book!Known(a, id) /\ a.orders = f
      BY <2>2, <2>7 DEF Book!Known
    <2>9. Book!OrdersWithout(a, id) = [y \in DOMAIN f \ {id} |-> f[y]]
      BY <2>8 DEF Book!OrdersWithout, Book!Restrict
    <2>10. \A o : Book!OrdersWith(a, id, o) = [y \in DOMAIN f \cup {id} |-> IF y = id THEN o ELSE f[y]]
      BY <2>8 DEF Book!OrdersWith
    <2>11. CASE m.type = "DELETE_ORDER"
      <3>1. E = D \ {id} /\ \A y \in E : U[y] = T[y]
        BY <1>1, <2>2, <2>11 DEF Turns
      <3>2. DifferIn(T, D, U, E, id, x)
        BY <2>3, <3>1 DEF DifferIn
      <3>6. b = Book!delete_order(a, id)
        BY <1>1, <2>2, <2>11 DEF Changed
      <3>7. b.orders = Book!OrdersWithout(a, id)
        BY <2>8, <3>6 DEF Book!delete_order
      <3>3. BookAfter(b, f, U, E, id)
        BY <2>9, <3>1, <3>7 DEF BookAfter
      <3>4. Holds(v.books, S, U, E)
        BY <1>2, <2>1, <2>2, <2>3, <2>5, <3>2, <3>3, OrderChanges
      <3>5. QED
        BY <2>2, <2>4, <2>5, <3>4
    <2>12. CASE m.type = "MODIFY_ORDER"
      <3>1. E = D /\ (\A y \in D : y # id => U[y] = T[y])
            /\ U[id] = [symbol |-> T[id].symbol, side |-> m.side, quantity |-> m.quantity]
        BY <1>1, <2>2, <2>12 DEF Turns
      <3>2. DifferIn(T, D, U, E, id, x)
        BY <2>3, <3>1 DEF DifferIn
      <3>3. PICK o : o = AsInBook(U[id])
        OBVIOUS
      <3>4. o = [side |-> m.side, price |-> 1, quantity |-> m.quantity]
        BY <3>1, <3>3 DEF AsInBook
      <3>5. b.orders = Book!OrdersWith(a, id, o)
        <4>1. b = Book!modify_order(a, id, m.side, m.quantity, 1)
          BY <1>1, <2>2, <2>12 DEF Changed
        <4>2. QED
          BY <2>8, <3>4, <4>1 DEF Book!modify_order
      <3>6. BookAfter(b, f, U, E, id)
        BY <2>1, <2>10, <3>1, <3>3, <3>5 DEF BookAfter
      <3>7. Holds(v.books, S, U, E)
        BY <1>2, <2>1, <2>2, <2>3, <2>5, <3>2, <3>6, OrderChanges
      <3>8. QED
        BY <2>2, <2>4, <2>5, <3>7
    <2>13. CASE m.type = "TRADE"
      <3>1. PICK r, q : r = f[id] /\ q = m.quantity
        OBVIOUS
      <3>2. r = [side |-> T[id].side, price |-> 1, quantity |-> T[id].quantity] /\ r.quantity = T[id].quantity
        BY <2>7, <3>1 DEF AsInBook
      <3>3. q <= r.quantity /\ q \in Nat /\ r.quantity \in Nat
        BY <1>3, <2>1, <2>13, <3>1, <3>2 DEF Positive
      <3>4. ~(r.quantity < q)
        BY <3>3
      <3>5. b.orders = IF r.quantity = q THEN Book!OrdersWithout(a, id)
                       ELSE Book!OrdersWith(a, id, [r EXCEPT !.quantity = @ - q])
        <4>1. b = Book!order_trade(a, id, q)
          BY <1>1, <2>2, <2>13, <3>1 DEF Changed
        <4>2. a.orders[id] = r
          BY <2>8, <3>1
        <4>3. QED
          BY <2>8, <3>4, <4>1, <4>2 DEF Book!order_trade
      <3>6. CASE r.quantity = q
        <4>1. E = D \ {id} /\ \A y \in E : U[y] = T[y]
          BY <1>1, <2>2, <2>13, <3>1, <3>2, <3>6 DEF Turns
        <4>2. DifferIn(T, D, U, E, id, x)
          BY <2>3, <4>1 DEF DifferIn
        <4>3. BookAfter(b, f, U, E, id)
          BY <2>9, <3>5, <3>6, <4>1 DEF BookAfter
        <4>4. Holds(v.books, S, U, E)
          BY <1>2, <2>1, <2>2, <2>3, <2>5, <4>2, <4>3, OrderChanges
        <4>5. QED
          BY <2>2, <2>4, <2>5, <4>4
      <3>7. CASE r.quantity # q
        <4>1. E = D /\ (\A y \in D : y # id => U[y] = T[y])
              /\ U[id] = [symbol |-> T[id].symbol, side |-> T[id].side, quantity |-> T[id].quantity - q]
          BY <1>1, <2>2, <2>13, <3>1, <3>2, <3>7 DEF Turns
        <4>2. DifferIn(T, D, U, E, id, x)
          BY <2>3, <4>1 DEF DifferIn
        <4>3. [r EXCEPT !.quantity = @ - q] = AsInBook(U[id])
          <5>1. AsInBook(U[id]) = [side |-> T[id].side, price |-> 1, quantity |-> T[id].quantity - q]
            BY <4>1 DEF AsInBook
          <5>2. [r EXCEPT !.quantity = @ - q] = [side |-> T[id].side, price |-> 1, quantity |-> T[id].quantity - q]
            BY <3>2
          <5>3. QED
            BY <5>1, <5>2
        <4>4. BookAfter(b, f, U, E, id)
          BY <2>1, <2>10, <3>5, <3>7, <4>1, <4>3 DEF BookAfter
        <4>5. Holds(v.books, S, U, E)
          BY <1>2, <2>1, <2>2, <2>3, <2>5, <4>2, <4>4, OrderChanges
        <4>6. QED
          BY <2>2, <2>4, <2>5, <4>5
      <3>8. QED
        BY <3>6, <3>7
    <2>14. QED
      BY <1>5, <2>11, <2>12, <2>13
  <1>6. CASE m.type = "TRADE_SUMMARY" \/ m.type = "HEARTBEAT"
    <2>1. U = T
      BY <1>6 DEF Turns
    <2>2. Addressed(st, m)
      <3>1. CASE m.type = "HEARTBEAT"
        BY <3>1 DEF Addressed
      <3>2. CASE m.type = "TRADE_SUMMARY"
        <4>1. PICK y \in D : T[y].symbol = m.symbol
          BY <1>1, <3>2 DEF Fits
        <4>2. m.symbol \in DOMAIN st.books
          BY <1>1, <1>3, <4>1
        <4>3. QED
          BY <3>2, <4>2 DEF Addressed
      <3>3. QED
        BY <1>6, <3>1, <3>2
    <2>3. v = st
      BY <1>6, <2>2, AppliedIs
    <2>4. QED
      BY <2>1, <2>2, <2>3
  <1>7. QED
    BY <1>4, <1>5, <1>6, MessageFields

\* The books are the exchange's after the last message.
Tracks(st) ==
    st.seq < Len(feed) /\ Holds(st.books, st.symbols, truth[st.seq + 1], DOMAIN truth[st.seq + 1])

StateOK(st) == State(st) /\ Counted(st.seq) /\ st.status \in {"reading", "returned", "gap"}

\* Message n has been processed: nothing is forgotten, and a gap is before a message that is later
\* than the books.
Processed(st, n, v) ==
    /\ StateOK(v) /\ v.seq >= st.seq
    /\ v.status = "gap" => v.seq = st.seq /\ (st.status = "gap" \/ n > v.seq)
    /\ Tracks(st) => Tracks(v)

\* A message that cannot be applied.
LEMMA ReturnedState ==
    ASSUME NEW st, StateOK(st), NEW n \in Numbers, NEW v, v = Returned(st, n)
    PROVE  State(v) /\ v.seq = n /\ v.status = "returned"
  <1>1. PICK q, B, S, z, R : /\ q = st.seq /\ B = st.books /\ S = st.symbols /\ z = st.status
                             /\ R = IF feed[n + 1].type \in {"DELETE_ORDER", "MODIFY_ORDER"}
                                       /\ feed[n + 1].id \notin DOMAIN st.symbols
                                    THEN With(st.symbols, feed[n + 1].id, 0) ELSE st.symbols
    OBVIOUS
  <1>2. st = [seq |-> q, books |-> B, symbols |-> S, status |-> z] /\ Kept(B, S)
    BY <1>1 DEF StateOK, State
  <1>3. v = [st EXCEPT !.seq = n, !.status = "returned", !.symbols = R]
    BY <1>1 DEF Returned
  <1>4. v = [seq |-> n, books |-> B, symbols |-> R, status |-> "returned"]
    BY <1>2, <1>3
  <1>5. Kept(B, R)
    <2>1. S \in [DOMAIN S -> Symbols \cup {0}]
      BY <1>2 DEF Kept
    <2>2. R \in [DOMAIN R -> Symbols \cup {0}]
      <3>1. CASE R = S
        BY <2>1, <3>1
      <3>2. CASE R = With(S, feed[n + 1].id, 0)
        BY <2>1, <3>2 DEF With
      <3>3. QED
        BY <1>1, <3>1, <3>2
    <2>3. QED
      BY <1>2, <2>2 DEF Kept
  <1>6. v.seq = n /\ v.books = B /\ v.symbols = R /\ v.status = "returned"
    BY <1>4
  <1>7. QED
    BY <1>4, <1>5, <1>6 DEF State

LEMMA MessageProcessed ==
    ASSUME ExchangeOK, NEW st, StateOK(st), NEW n \in Numbers, NEW v, v = ProcessMessage(st, n)
    PROVE  Processed(st, n, v)
  <1>1. PICK q, l : q = st.seq /\ l = Len(feed)
    OBVIOUS
  <1>2. /\ q \in Nat /\ l \in Nat /\ n \in Nat /\ n < l /\ n + 1 \in 1..l
        /\ st.status \in {"reading", "returned", "gap"} /\ State(st)
    <2>1. q \in Nat /\ l \in Nat /\ st.status \in {"reading", "returned", "gap"} /\ State(st)
      BY <1>1, OrdersNow DEF StateOK, Counted
    <2>2. n \in 0..(l - 1)
      BY <1>1 DEF Numbers
    <2>3. QED
      BY <2>1, <2>2
  <1>3. Counted(n)
    BY <1>1, <1>2 DEF Counted
  <1>4. CASE v = st
    <2>1. v.seq >= st.seq
      BY <1>1, <1>2, <1>4
    <2>2. CASE st.status = "gap"
      BY <1>4, <2>1, <2>2 DEF Processed
    <2>3. CASE st.status # "gap"
      BY <1>4, <2>1, <2>3 DEF Processed
    <2>4. QED
      BY <2>2, <2>3
  <1>5. CASE st.status = "reading" /\ n > q + 1
    <2>1. v = [st EXCEPT !.status = "gap"]
      BY <1>1, <1>5 DEF ProcessMessage
    <2>2. PICK B, S : B = st.books /\ S = st.symbols
      OBVIOUS
    <2>3. st = [seq |-> q, books |-> B, symbols |-> S, status |-> "reading"] /\ Kept(B, S)
      BY <1>1, <1>2, <1>5, <2>2 DEF State
    <2>4. v = [seq |-> q, books |-> B, symbols |-> S, status |-> "gap"]
      BY <2>1, <2>3
    <2>5. v.seq = q /\ v.books = B /\ v.symbols = S /\ v.status = "gap"
      BY <2>4
    <2>6. StateOK(v)
      BY <1>1, <2>3, <2>4, <2>5 DEF StateOK, State
    <2>7. n > v.seq /\ v.seq >= st.seq
      BY <1>1, <1>2, <1>5, <2>5
    <2>8. Tracks(st) => Tracks(v)
      BY <1>1, <2>2, <2>5 DEF Tracks
    <2>9. QED
      BY <1>1, <2>5, <2>6, <2>7, <2>8 DEF Processed
  <1>6. CASE st.status = "reading" /\ n = q + 1
    <2>1. PICK m : m = feed[n + 1]
      OBVIOUS
    <2>2. ~(n > q + 1) /\ ~(n <= q)
      BY <1>2, <1>6
    <2>3. v = IF ~Addressed(st, m) THEN Returned(st, n) ELSE [Applied(st, m) EXCEPT !.seq = n]
      BY <1>1, <1>6, <2>1, <2>2 DEF ProcessMessage
    <2>4. m \in Message
      BY <1>1, <1>2, <2>1, OrdersNow DEF ExchangeOK
    <2>5. PICK w : w = Applied(st, m)
      OBVIOUS
    <2>6. Tracks(st) => Addressed(st, m) /\ Holds(w.books, w.symbols, truth[n + 1], DOMAIN truth[n + 1])
      <3>1. SUFFICES ASSUME Tracks(st) PROVE Addressed(st, m) /\ Holds(w.books, w.symbols, truth[n + 1], DOMAIN truth[n + 1])
        OBVIOUS
      <3>2. PICK T, U : T = Was(n) /\ U = truth[n + 1]
        OBVIOUS
      <3>3. T = truth[st.seq + 1]
        BY <1>1, <1>2, <1>6, <3>2 DEF Was
      <3>4. Holds(st.books, st.symbols, T, DOMAIN T)
        BY <3>1, <3>3 DEF Tracks
      <3>5. U = After(T, m) /\ Fits(m, T)
        <4>1. (n + 1) - 1 = n
          BY <1>2
        <4>2. QED
          BY <1>1, <1>2, <2>1, <3>2, <4>1 DEF ExchangeOK
      <3>6. n \in 0..Len(feed)
        BY <1>1, <1>2
      <3>7. IsOrders(T)
        BY <3>2, <3>6, OrdersNow
      <3>8. Turns(T, m, U)
        BY <2>4, <3>5, <3>7, AfterOrders
      <3>9. QED
        BY <1>2, <2>4, <2>5, <3>2, <3>4, <3>5, <3>7, <3>8, BooksFollow
    <2>7. CASE ~Addressed(st, m)
      <3>1. v = Returned(st, n)
        BY <2>3, <2>7
      <3>2. State(v) /\ v.seq = n /\ v.status = "returned"
        BY <3>1, ReturnedState
      <3>3. StateOK(v) /\ v.seq >= st.seq
        BY <1>1, <1>2, <1>3, <1>6, <3>2 DEF StateOK
      <3>4. QED
        BY <2>6, <2>7, <3>2, <3>3 DEF Processed
    <2>8. CASE Addressed(st, m)
      <3>1. State(w) /\ w.status = st.status
        BY <1>2, <2>4, <2>5, <2>8, AppliedIs
      <3>2. PICK B, S : B = w.books /\ S = w.symbols
        OBVIOUS
      <3>3. w = [seq |-> w.seq, books |-> B, symbols |-> S, status |-> "reading"] /\ Kept(B, S)
        BY <1>6, <3>1, <3>2 DEF State
      <3>4. v = [w EXCEPT !.seq = n]
        BY <2>3, <2>5, <2>8
      <3>5. v = [seq |-> n, books |-> B, symbols |-> S, status |-> "reading"]
        BY <3>3, <3>4
      <3>6. v.seq = n /\ v.books = B /\ v.symbols = S /\ v.status = "reading"
        BY <3>5
      <3>7. StateOK(v) /\ v.seq >= st.seq
        BY <1>1, <1>2, <1>3, <1>6, <3>3, <3>5, <3>6 DEF StateOK, State
      <3>8. Tracks(st) => Tracks(v)
        BY <1>1, <1>2, <2>6, <3>2, <3>6 DEF Tracks
      <3>9. QED
        BY <3>6, <3>7, <3>8 DEF Processed
    <2>9. QED
      BY <2>7, <2>8
  <1>7. st.status # "reading" \/ n <= q => v = st
    <2>1. n <= q => ~(n > q + 1)
      BY <1>2
    <2>2. QED
      BY <1>1, <2>1 DEF ProcessMessage
  <1>8. n <= q \/ n > q + 1 \/ n = q + 1
    BY <1>2
  <1>9. QED
    BY <1>4, <1>5, <1>6, <1>7, <1>8

\* The first k messages of a packet, or of the buffer, have been processed.
DoneTo(s, packet, v, k) ==
    /\ StateOK(v) /\ v.seq >= s.seq
    /\ v.status = "gap" => \E j \in 1..k : packet[j] > v.seq
    /\ Tracks(s) => Tracks(v)

LEMMA OneMore ==
    ASSUME NEW s, NEW packet, NEW u, NEW v, NEW k \in Nat, s.seq \in Nat, DoneTo(s, packet, u, k),
           Processed(u, packet[k + 1], v)
    PROVE  DoneTo(s, packet, v, k + 1)
  <1>1. u.seq \in Nat /\ v.seq \in Nat
    BY DEF DoneTo, Processed, StateOK, Counted
  <1>2. v.seq >= s.seq
    BY <1>1 DEF DoneTo, Processed
  <1>3. v.status = "gap" => \E j \in 1..(k + 1) : packet[j] > v.seq
    <2>1. SUFFICES ASSUME v.status = "gap" PROVE \E j \in 1..(k + 1) : packet[j] > v.seq
      OBVIOUS
    <2>2. v.seq = u.seq /\ (u.status = "gap" \/ packet[k + 1] > v.seq)
      BY <2>1 DEF Processed
    <2>3. k + 1 \in 1..(k + 1) /\ \A j \in 1..k : j \in 1..(k + 1)
      OBVIOUS
    <2>4. CASE u.status = "gap"
      <3>1. PICK j \in 1..k : packet[j] > u.seq
        BY <2>4 DEF DoneTo
      <3>2. QED
        BY <2>2, <2>3, <3>1
    <2>5. CASE packet[k + 1] > v.seq
      BY <2>3, <2>5
    <2>6. QED
      BY <2>2, <2>4, <2>5
  <1>4. QED
    BY <1>2, <1>3 DEF DoneTo, Processed

\* process_message, on a whole packet.
LEMMA PacketDone ==
    ASSUME ExchangeOK, NEW s, s = BookState, StateOK(s), NEW packet \in Seq(Numbers), NEW v, v = PacketProcessed(packet)
    PROVE  DoneTo(s, packet, v, Len(packet))
  <1>1. PICK c : c = Len(packet)
    OBVIOUS
  <1>2. c \in Nat /\ s.seq \in Nat /\ \A k \in 1..c : packet[k] \in Numbers
    BY <1>1 DEF StateOK, Counted
  <1>3. PICK f : PacketBy(f, packet, c) /\ v = f[c]
    BY <1>1, <1>2, PacketStepwise
  <1> DEFINE N == {k \in 0..c : DoneTo(s, packet, f[k], k)}
  <1>4. 0 \in N
    <2>1. f[0] = s
      BY <1>2, <1>3 DEF PacketBy
    <2>2. s.status = "reading" /\ s.seq >= s.seq
      BY <1>2 DEF BookState
    <2>3. DoneTo(s, packet, s, 0)
      BY <2>2 DEF DoneTo
    <2>4. QED
      BY <1>2, <2>1, <2>3
  <1>5. ASSUME NEW k \in 0..(c - 1), k \in N PROVE k + 1 \in N
    <2>1. k \in Nat /\ k + 1 \in 0..c /\ k + 1 # 0 /\ (k + 1) - 1 = k /\ k + 1 \in 1..c
      BY <1>2
    <2>2. PICK u, t, n : u = f[k] /\ t = f[k + 1] /\ n = packet[k + 1]
      OBVIOUS
    <2>3. t = ProcessMessage(u, n)
      BY <1>3, <2>1, <2>2 DEF PacketBy
    <2>4. DoneTo(s, packet, u, k)
      BY <1>5, <2>2
    <2>5. n \in Numbers /\ StateOK(u)
      BY <1>2, <2>1, <2>2, <2>4 DEF DoneTo
    <2>6. Processed(u, n, t)
      BY <2>3, <2>5, MessageProcessed
    <2>7. DoneTo(s, packet, t, k + 1)
      BY <1>2, <2>1, <2>2, <2>4, <2>6, OneMore
    <2>8. QED
      BY <2>1, <2>2, <2>7
  <1>6. 0..c \subseteq N
    <2> HIDE DEF N
    <2>1. QED
      BY <1>2, <1>4, <1>5, CountUp
  <1>7. c \in 0..c
    BY <1>2
  <1>8. QED
    BY <1>1, <1>3, <1>6, <1>7

\* One message of the buffer.
LEMMA BufferedProcessed ==
    ASSUME ExchangeOK, NEW st, StateOK(st), NEW n \in Numbers, NEW v, v = ProcessBuffered(st, n)
    PROVE  Processed(st, n, v)
  <1>1. st.seq \in Nat
    BY DEF StateOK, Counted
  <1>2. CASE n <= last_snapshot_seq_num \/ st.status = "gap"
    <2>1. v = st
      BY <1>2 DEF ProcessBuffered
    <2>2. st.seq >= st.seq
      BY <1>1
    <2>3. CASE st.status = "gap"
      BY <2>1, <2>2, <2>3 DEF Processed
    <2>4. CASE st.status # "gap"
      BY <2>1, <2>2, <2>4 DEF Processed
    <2>5. QED
      BY <2>3, <2>4
  <1>3. CASE ~(n <= last_snapshot_seq_num \/ st.status = "gap")
    <2>1. PICK r : r = [st EXCEPT !.status = "reading"]
      OBVIOUS
    <2>2. v = ProcessMessage(r, n)
      BY <1>3, <2>1 DEF ProcessBuffered
    <2>3. r = [seq |-> st.seq, books |-> st.books, symbols |-> st.symbols, status |-> "reading"]
      <3>1. PICK q, B, S, z : st = [seq |-> q, books |-> B, symbols |-> S, status |-> z]
        BY DEF StateOK, State
      <3>2. r = [seq |-> q, books |-> B, symbols |-> S, status |-> "reading"]
        BY <2>1, <3>1
      <3>3. QED
        BY <3>1, <3>2
    <2>4. r.seq = st.seq /\ r.books = st.books /\ r.symbols = st.symbols /\ r.status = "reading"
      BY <2>3
    <2>5. StateOK(r)
      BY <2>3, <2>4 DEF StateOK, State
    <2>6. Tracks(st) => Tracks(r)
      BY <2>4 DEF Tracks
    <2>7. Processed(r, n, v)
      BY <2>2, <2>5, MessageProcessed
    <2>8. QED
      BY <2>4, <2>6, <2>7 DEF Processed
  <1>4. QED
    BY <1>2, <1>3

\* The whole buffer.
LEMMA BufferDone ==
    ASSUME ExchangeOK, NEW s, s = SnapshotState, StateOK(s), s.status = "reading", live_buffer \in Seq(Numbers),
           NEW v, v = BufferProcessed
    PROVE  DoneTo(s, live_buffer, v, Len(live_buffer))
  <1>1. PICK c : c = Len(live_buffer)
    OBVIOUS
  <1>2. c \in Nat /\ s.seq \in Nat /\ \A k \in 1..c : live_buffer[k] \in Numbers
    BY <1>1 DEF StateOK, Counted
  <1>3. PICK f : BufferBy(f, c) /\ v = f[c]
    BY <1>1, <1>2, BufferStepwise
  <1> DEFINE N == {k \in 0..c : DoneTo(s, live_buffer, f[k], k)}
  <1>4. 0 \in N
    <2>1. f[0] = s
      BY <1>2, <1>3 DEF BufferBy
    <2>2. s.status = "reading" /\ s.seq >= s.seq
      BY <1>2
    <2>3. DoneTo(s, live_buffer, s, 0)
      BY <2>2 DEF DoneTo
    <2>4. QED
      BY <1>2, <2>1, <2>3
  <1>5. ASSUME NEW k \in 0..(c - 1), k \in N PROVE k + 1 \in N
    <2>1. k \in Nat /\ k + 1 \in 0..c /\ k + 1 # 0 /\ (k + 1) - 1 = k /\ k + 1 \in 1..c
      BY <1>2
    <2>2. PICK u, t, n : u = f[k] /\ t = f[k + 1] /\ n = live_buffer[k + 1]
      OBVIOUS
    <2>3. t = ProcessBuffered(u, n)
      BY <1>3, <2>1, <2>2 DEF BufferBy
    <2>4. DoneTo(s, live_buffer, u, k)
      BY <1>5, <2>2
    <2>5. n \in Numbers /\ StateOK(u)
      BY <1>2, <2>1, <2>2, <2>4 DEF DoneTo
    <2>6. Processed(u, n, t)
      BY <2>3, <2>5, BufferedProcessed
    <2>7. DoneTo(s, live_buffer, t, k + 1)
      BY <1>2, <2>1, <2>2, <2>4, <2>6, OneMore
    <2>8. QED
      BY <2>1, <2>2, <2>7
  <1>6. 0..c \subseteq N
    <2> HIDE DEF N
    <2>1. QED
      BY <1>2, <1>4, <1>5, CountUp
  <1>7. c \in 0..c
    BY <1>2
  <1>8. QED
    BY <1>1, <1>3, <1>6, <1>7

-----------------------------------------------------------------------------
(* The snapshot becomes the books. *)

\* The orders of one symbol's snapshot are put into the books.
LEMMA BufferKept ==
    ASSUME NEW st, State(st), NEW buffer \in Seq(Entry), NEW v, v = WithBuffer(st, buffer)
    PROVE  State(v) /\ v.seq = st.seq /\ v.status = st.status
  <1>1. PICK c : c = Len(buffer)
    OBVIOUS
  <1>2. c \in Nat /\ \A k \in 1..c : buffer[k] \in Entry
    BY <1>1
  <1>3. PICK f : PutBy(f, st, buffer, c) /\ v = f[c]
    BY <1>1, <1>2, PutStepwise
  <1> DEFINE N == {k \in 0..c : State(f[k]) /\ f[k].seq = st.seq /\ f[k].status = st.status}
  <1>4. 0 \in N
    <2>1. f[0] = st
      BY <1>2, <1>3 DEF PutBy
    <2>2. QED
      BY <1>2, <2>1
  <1>5. ASSUME NEW k \in 0..(c - 1), k \in N PROVE k + 1 \in N
    <2>1. k + 1 \in 0..c /\ k + 1 # 0 /\ (k + 1) - 1 = k /\ k + 1 \in 1..c
      BY <1>2
    <2>2. PICK u, t, o : u = f[k] /\ t = f[k + 1] /\ o = buffer[k + 1]
      OBVIOUS
    <2>3. t = WithOrder(u, o)
      BY <1>3, <2>1, <2>2 DEF PutBy
    <2>4. o \in Entry
      BY <1>2, <2>1, <2>2
    <2>5. o.symbol \in Symbols
      BY <2>4 DEF Entry
    <2>6. State(u) /\ u.seq = st.seq /\ u.status = st.status
      BY <1>5, <2>2
    <2>7. State(t) /\ t.seq = u.seq /\ t.status = u.status
      BY <2>3, <2>5, <2>6, WithOrderKept
    <2>8. QED
      BY <2>1, <2>2, <2>6, <2>7
  <1>6. 0..c \subseteq N
    <2> HIDE DEF N
    <2>1. QED
      BY <1>2, <1>4, <1>5, CountUp
  <1>7. c \in 0..c
    BY <1>2
  <1>8. QED
    BY <1>3, <1>6, <1>7

\* The ids of the first k orders of a buffer.
IdsTo(buffer, k) == {buffer[j].id : j \in 1..k}

\* The orders of a symbol, and ids that are of other symbols.
OfSymbol(T, x) == {id \in DOMAIN T : T[id].symbol = x}
NoneOf(T, D, x) == \A id \in D : T[id].symbol # x

LEMMA BufferHolds ==
    ASSUME NEW st, State(st), NEW buffer \in Seq(Entry), NEW v, v = WithBuffer(st, buffer),
           NEW T, NEW D, Holds(st.books, st.symbols, T, D), NEW x, RowOf(buffer, T, x),
           NoneOf(T, D, x), NEW E, E = D \cup OfSymbol(T, x)
    PROVE  Holds(v.books, v.symbols, T, E)
  <1>1. PICK c : c = Len(buffer)
    OBVIOUS
  <1>2. c \in Nat /\ (\A k \in 1..c : buffer[k] \in Entry) /\ DOMAIN buffer = 1..c
    BY <1>1
  <1>3. PICK f : PutBy(f, st, buffer, c) /\ v = f[c]
    BY <1>1, <1>2, PutStepwise
  <1> DEFINE N == {k \in 0..c : State(f[k]) /\ Holds(f[k].books, f[k].symbols, T, D \cup IdsTo(buffer, k))}
  <1>4. 0 \in N
    <2>1. f[0] = st
      BY <1>2, <1>3 DEF PutBy
    <2>2. PICK A : A = D \cup IdsTo(buffer, 0)
      OBVIOUS
    <2>3. A = D
      BY <2>2 DEF IdsTo
    <2>4. Holds(f[0].books, f[0].symbols, T, A)
      BY <2>1, <2>3
    <2>5. 0 \in 0..c
      BY <1>2
    <2>6. QED
      BY <2>1, <2>2, <2>4, <2>5
  <1>5. ASSUME NEW k \in 0..(c - 1), k \in N PROVE k + 1 \in N
    <2>1. k \in Nat /\ k + 1 \in 0..c /\ k + 1 # 0 /\ (k + 1) - 1 = k /\ k + 1 \in 1..c
      BY <1>2
    <2>2. PICK u, t, o, A, C : /\ u = f[k] /\ t = f[k + 1] /\ o = buffer[k + 1]
                               /\ A = D \cup IdsTo(buffer, k) /\ C = D \cup IdsTo(buffer, k + 1)
      OBVIOUS
    <2>3. t = WithOrder(u, o)
      BY <1>3, <2>1, <2>2 DEF PutBy
    <2>4. o \in Entry /\ k + 1 \in DOMAIN buffer
      BY <1>2, <2>1, <2>2
    <2>5. o.symbol \in Symbols
      BY <2>4 DEF Entry
    <2>6. State(u) /\ Holds(u.books, u.symbols, T, A)
      BY <1>5, <2>2
    <2>7. o.symbol = x /\ T[o.id].symbol = o.symbol /\ T[o.id].side = o.side /\ T[o.id].quantity = o.quantity
      BY <2>2, <2>4 DEF RowOf
    <2>8. C = A \cup {o.id}
      <3>1. \A j \in 1..(k + 1) : j = k + 1 \/ j \in 1..k
        BY <2>1
      <3>2. (\A j \in 1..k : j \in 1..(k + 1)) /\ k + 1 \in 1..(k + 1)
        BY <2>1
      <3>3. QED
        BY <2>2, <3>1, <3>2 DEF IdsTo
    <2>9. o.id \notin A
      <3>1. o.id \notin D
        BY <2>7 DEF NoneOf
      <3>2. ASSUME NEW j \in 1..k, o.id = buffer[j].id PROVE FALSE
        <4>1. j \in DOMAIN buffer /\ j # k + 1
          BY <1>2, <2>1
        <4>2. QED
          BY <2>2, <2>4, <3>2, <4>1 DEF RowOf
      <3>3. QED
        BY <2>2, <3>1, <3>2 DEF IdsTo
    <2>13. OneOrderMore(T, A, T, C, o)
      BY <2>7, <2>8, <2>9 DEF OneOrderMore
    <2>10. Holds(t.books, t.symbols, T, C)
      BY <2>3, <2>5, <2>6, <2>13, WithOrderHolds
    <2>11. State(t)
      BY <2>3, <2>5, <2>6, WithOrderKept
    <2>12. QED
      BY <2>1, <2>2, <2>10, <2>11
  <1>6. 0..c \subseteq N
    <2> HIDE DEF N
    <2>1. QED
      BY <1>2, <1>4, <1>5, CountUp
  <1>7. c \in 0..c
    BY <1>2
  <1>8. D \cup IdsTo(buffer, c) = E
    BY <1>2 DEF IdsTo, RowOf, OfSymbol
  <1>9. Holds(v.books, v.symbols, T, D \cup IdsTo(buffer, c))
    BY <1>3, <1>6, <1>7
  <1>10. QED
    BY <1>8, <1>9

\* The orders of the first i symbols.
OrdersTo(T, i) == {id \in DOMAIN T : \E j \in 1..i : T[id].symbol = SymbolRow[j]}

\* The books of the snapshots: at the number of the snapshot and, when they are complete, the
\* exchange's.
LEMMA SnapshotBooks ==
    ASSUME ExchangeOK, ClientOK, mode = "waiting", NEW v, v = SnapshotState
    PROVE  /\ StateOK(v) /\ v.seq = last_snapshot_seq_num /\ v.status = "reading"
           /\ last_snapshot_seq_num > 0 /\ Taken_ => Tracks(v)
  <1>1. PICK n, q, T : n = Len(SymbolRow) /\ q = last_snapshot_seq_num /\ T = truth[q + 1]
    OBVIOUS
  <1>2. n \in Nat /\ n >= 1 /\ q \in Nat /\ Counted(q) /\ \A i \in 1..n : SymbolRow[i] \in Symbols
    BY <1>1, Constants DEF ClientOK, Counted
  <1>3. PICK f : SnapshotBy(f, n) /\ v = f[n]
    BY <1>1, <1>2, SnapshotStepwise
  <1>4. PICK s : s = [seq |-> q, books |-> Nothing, symbols |-> Nothing, status |-> "reading"]
    OBVIOUS
  <1>5. f[0] = s
    <2>1. f[0] = [BookState EXCEPT !.seq = last_snapshot_seq_num]
      BY <1>2, <1>3 DEF SnapshotBy
    <2>2. symbol_to_order_book = Nothing /\ order_to_symbol = Nothing
      BY DEF ClientOK
    <2>3. BookState = [seq |-> last_md_seq_num, books |-> Nothing, symbols |-> Nothing, status |-> "reading"]
      BY <2>2 DEF BookState
    <2>4. QED
      BY <1>1, <1>4, <2>1, <2>3
  <1>6. s.seq = q /\ s.books = Nothing /\ s.symbols = Nothing /\ s.status = "reading"
    BY <1>4
  <1>7. State(s)
    <2>1. Kept(Nothing, Nothing)
      BY NothingIsEmpty DEF Kept
    <2>2. QED
      BY <1>4, <1>6, <2>1 DEF State
  <1>8. \A i \in 1..n : snapshot_buffer[SymbolRow[i]] \in Seq(Entry)
    BY <1>2 DEF ClientOK
  <1> DEFINE G == last_snapshot_seq_num > 0 /\ Taken_
             N == {i \in 0..n : /\ State(f[i]) /\ f[i].seq = q /\ f[i].status = "reading"
                                /\ G => Holds(f[i].books, f[i].symbols, T, OrdersTo(T, i))}
  <1>9. 0 \in N
    <2>1. OrdersTo(T, 0) = {}
      BY DEF OrdersTo
    <2>2. ASSUME NEW symbol \in Symbols PROVE OrdersIn(Nothing, symbol) = Part(T, {}, symbol)
      <3>1. OrdersIn(Nothing, symbol) = Nothing
        BY NothingIsEmpty DEF OrdersIn
      <3>2. PICK g : g = Part(T, {}, symbol)
        OBVIOUS
      <3>6. \A x : x \notin DOMAIN g
        BY <3>2, PartHas
      <3>7. g = [x \in DOMAIN g |-> g[x]]
        BY <3>2, PartHas
      <3>8. DOMAIN g = {}
        BY <3>6
      <3>3. g = [x \in DOMAIN g |-> g[x]] /\ DOMAIN g = {}
        BY <3>7, <3>8
      <3>4. g = Nothing
        BY <3>3, NothingIsEmpty
      <3>5. QED
        BY <3>1, <3>2, <3>4
    <2>3. Holds(Nothing, Nothing, T, {})
      BY <2>2 DEF Holds
    <2>4. QED
      BY <1>2, <1>5, <1>6, <1>7, <2>1, <2>3
  <1>10. ASSUME NEW i \in 0..(n - 1), i \in N PROVE i + 1 \in N
    <2>1. i \in Nat /\ i + 1 \in 0..n /\ i + 1 # 0 /\ (i + 1) - 1 = i /\ i + 1 \in 1..n
      BY <1>2
    <2>2. PICK u, t, x, b : u = f[i] /\ t = f[i + 1] /\ x = SymbolRow[i + 1] /\ b = snapshot_buffer[x]
      OBVIOUS
    <2>3. t = WithBuffer(u, b)
      BY <1>3, <2>1, <2>2 DEF SnapshotBy
    <2>4. b \in Seq(Entry)
      BY <1>8, <2>1, <2>2
    <2>5. State(u) /\ u.seq = q /\ u.status = "reading"
      BY <1>10, <2>2
    <2>6. State(t) /\ t.seq = q /\ t.status = "reading"
      BY <2>3, <2>4, <2>5, BufferKept
    <2>7. ASSUME G PROVE Holds(t.books, t.symbols, T, OrdersTo(T, i + 1))
      <3>1. RowOf(b, T, x)
        <4>1. CompleteTo(snapshot_complete, snapshot_buffer, q, n + 1)
          BY <1>1, <2>7 DEF Taken_
        <4>2. i + 1 \in 1..((n + 1) - 1)
          BY <1>2, <2>1
        <4>3. QED
          BY <1>1, <2>2, <4>1, <4>2 DEF CompleteTo
      <3>2. PICK D, E : D = OrdersTo(T, i) /\ E = OrdersTo(T, i + 1)
        OBVIOUS
      <3>3. Holds(u.books, u.symbols, T, D)
        BY <1>10, <2>2, <2>7, <3>2
      <3>4. NoneOf(T, D, x)
        <4>1. SUFFICES ASSUME NEW j \in 1..i, SymbolRow[j] = x PROVE FALSE
          BY <3>2 DEF OrdersTo, NoneOf
        <4>2. j \in 1..n /\ j # i + 1
          BY <1>2, <2>1
        <4>3. QED
          BY <1>1, <2>1, <2>2, <4>1, <4>2, SameSymbol, Constants
      <3>5. E = D \cup OfSymbol(T, x)
        <4>1. \A j \in 1..(i + 1) : j = i + 1 \/ j \in 1..i
          BY <2>1
        <4>2. (\A j \in 1..i : j \in 1..(i + 1)) /\ i + 1 \in 1..(i + 1)
          BY <2>1
        <4>3. QED
          BY <2>2, <3>2, <4>1, <4>2 DEF OrdersTo, OfSymbol
      <3>6. Holds(t.books, t.symbols, T, E)
        BY <2>3, <2>4, <2>5, <3>1, <3>3, <3>4, <3>5, BufferHolds
      <3>7. QED
        BY <3>2, <3>6
    <2>8. QED
      BY <2>1, <2>2, <2>6, <2>7
  <1>11. 0..n \subseteq N
    <2> HIDE DEF N
    <2>1. QED
      BY <1>2, <1>9, <1>10, CountUp
  <1>12. n \in 0..n
    BY <1>2
  <1>13. State(v) /\ v.seq = q /\ v.status = "reading" /\ (G => Holds(v.books, v.symbols, T, OrdersTo(T, n)))
    BY <1>3, <1>11, <1>12
  <1>14. G => Tracks(v)
    <2>1. SUFFICES ASSUME G PROVE Tracks(v)
      OBVIOUS
    <2>2. q < Len(feed) /\ q + 1 \in 0..Len(feed) /\ q + 1 # 0
      BY <1>1, <1>2, <2>1, OrdersNow DEF Counted
    <2>3. IsOrders(T)
      BY <1>1, <2>2, OrdersNow DEF Was
    <2>4. \A id \in DOMAIN T : T[id].symbol \in Symbols
      BY <2>3 DEF IsOrders, Resting
    <2>5. OrdersTo(T, n) = DOMAIN T
      BY <1>1, <2>4, Constants DEF OrdersTo
    <2>6. QED
      BY <1>1, <1>13, <2>1, <2>2, <2>5 DEF Tracks
  <1>15. QED
    BY <1>1, <1>2, <1>13, <1>14 DEF StateOK

-----------------------------------------------------------------------------
(* The client goes live, and processes packets. *)

\* A packet less in the socket, or nothing more in the buffer.
LEMMA LiveShrinks ==
    ASSUME LiveOK, UNCHANGED feed, live' = live \/ (live # <<>> /\ live' = Tail(live)),
           live_buffer' = live_buffer \/ live_buffer' = <<>>
    PROVE  LiveOK'
  <1>1. PICK l, b : l = live' /\ b = live_buffer'
    OBVIOUS
  <1>2. /\ l \in Seq(Seq(Numbers))
        /\ \A i \in DOMAIN l : \E k \in DOMAIN live : l[i] = live[k]
        /\ \A i \in DOMAIN l : l[i] # <<>> /\ Growing(l[i])
        /\ \A i, j \in DOMAIN l : i < j => \A x \in DOMAIN l[i], y \in DOMAIN l[j] : l[i][x] < l[j][y]
    <2>1. CASE l = live
      BY <2>1 DEF LiveOK
    <2>2. CASE live # <<>> /\ l = Tail(live)
      <3>1. PICK c : c = Len(live)
        OBVIOUS
      <3>2. /\ l \in Seq(Seq(Numbers)) /\ c \in Nat /\ c >= 1 /\ DOMAIN l = 1..(c - 1) /\ DOMAIN live = 1..c
            /\ \A i \in DOMAIN l : l[i] = live[i + 1] /\ i + 1 \in DOMAIN live /\ 1 < i + 1
            /\ \A i \in DOMAIN l : l[i] # <<>> /\ Growing(l[i])
            /\ \A i, j \in DOMAIN l : i < j => \A x \in DOMAIN l[i], y \in DOMAIN l[j] : l[i][x] < l[j][y]
        BY <2>2, <3>1, RestOfLive
      <3>3. \A i \in DOMAIN l : \E k \in DOMAIN live : l[i] = live[k]
        BY <3>2
      <3>4. QED
        BY <3>2, <3>3
    <2>3. QED
      BY <1>1, <2>1, <2>2
  <1>3. /\ b \in Seq(Numbers) /\ Growing(b)
        /\ \A x \in DOMAIN b, j \in DOMAIN l : \A y \in DOMAIN l[j] : b[x] < l[j][y]
    <2>1. CASE b = live_buffer
      <3>1. ASSUME NEW x \in DOMAIN b, NEW j \in DOMAIN l, NEW y \in DOMAIN l[j] PROVE b[x] < l[j][y]
        <4>1. PICK k \in DOMAIN live : l[j] = live[k]
          BY <1>2
        <4>2. QED
          BY <2>1, <3>1, <4>1 DEF LiveOK
      <3>2. QED
        BY <2>1, <3>1 DEF LiveOK
    <2>2. CASE b = <<>>
      BY <2>2 DEF Growing
    <2>3. QED
      BY <1>1, <2>1, <2>2
  <1>4. QED
    BY <1>1, <1>2, <1>3, LiveIs

\* The snapshots that remain, of a client that has begun to wait or is live.
LEMMA StreamBegins ==
    ASSUME WholeStream(snaps'), AtStart(snaps'), mode' # "waiting" \/ (mode' = "waiting" /\ Skipping')
    PROVE  StreamOK'
  <1>1. (WholeStream(snaps))' /\ (AtStart(snaps))'
    BY DEF WholeStream, Succeeds, Final, Ends, AtStart, Starts
  <1>2. QED
    BY <1>1 DEF StreamOK

\* process_message found a gap: everything is forgotten, but not the number of the last message.
LEMMA RestartKeeps ==
    ASSUME DataInv, NEW q, Counted(q), Restart(q), UNCHANGED <<scenario, feed, truth, service, snaps>>,
           nested' \in BOOLEAN, LiveOK', \A i \in DOMAIN live' : \A a \in DOMAIN live'[i] : live'[i][a] >= q
    PROVE  /\ DataInv' /\ BooksOK'
           /\ WholeStream(snaps) /\ AtStart(snaps) => StreamOK'
  <1>1. /\ mode' = "waiting" /\ NothingAwaited /\ last_md_seq_num' = q /\ live_buffer' = <<>>
        /\ symbol_to_order_book' = Nothing /\ order_to_symbol' = Nothing
        /\ snapshot_buffer' = [symbol \in Symbols |-> <<>>] /\ last_snapshot_seq_num' = 0
    BY DEF Restart
  <1>2. ExchangeOK /\ ServiceOK /\ SnapsOK /\ Grows /\ ExchangeOK'
    BY SameFeedGrows DEF DataInv
  <1>3. ServiceOK' /\ SnapsOK'
    BY <1>2, GrowService, GrowSnaps
  <1>4. ClientOK'
    <2>1. (Counted(last_snapshot_seq_num) /\ Counted(last_md_seq_num))'
      BY <1>1 DEF Counted
    <2>2. (Kept(symbol_to_order_book, order_to_symbol))'
      BY <1>1, NothingIsEmpty DEF Kept
    <2>3. snapshot_buffer' \in [Symbols -> Seq(Entry')]
      BY <1>1
    <2>4. QED
      BY <1>1, <2>1, <2>2, <2>3, NothingBegun DEF ClientOK
  <1>5. /\ \A a \in DOMAIN live_buffer' : live_buffer'[a] >= last_md_seq_num'
        /\ \A i \in DOMAIN live' : \A a \in DOMAIN live'[i] : live'[i][a] >= last_md_seq_num'
    BY <1>1
  <1>6. WaitOK' /\ (AtStart(snaps') => Skipping') /\ BooksOK'
    BY <1>1, <1>2, <1>5, WaitBegins
  <1>7. WholeStream(snaps) /\ AtStart(snaps) => StreamOK'
    BY <1>1, <1>6, StreamBegins
  <1>8. QED
    BY <1>2, <1>3, <1>4, <1>6, <1>7 DEF DataInv

\* The client's books become those of st.
LEMMA BecomeKeeps ==
    ASSUME DataInv, NEW st, StateOK(st), Become(st), UNCHANGED <<scenario, feed, truth, service, nested>>,
           UNCHANGED <<snapshot_buffer, snapshot_complete, awaited, last_snapshot_seq_num>>,
           mode' \in {"live", "undefined"}, LiveOK', snaps' = snaps \/ snaps' = <<>>
    PROVE  /\ DataInv'
           /\ WholeStream(snaps) /\ AtStart(snaps) => StreamOK'
           /\ (mode' = "live" => Tracks(st)) => BooksOK'
  <1>1. last_md_seq_num' = st.seq /\ symbol_to_order_book' = st.books /\ order_to_symbol' = st.symbols
    BY DEF Become
  <1>2. ExchangeOK /\ ServiceOK /\ SnapsOK /\ ClientOK /\ Grows /\ ExchangeOK' /\ Entry' = Entry
    BY SameFeedGrows, GrowTypes DEF DataInv
  <1>3. ServiceOK'
    BY <1>2, GrowService
  <1>4. SnapsOK'
    <2>1. snaps \in Seq(Good)
      BY <1>2, SnapsAreGood
    <2>4. \A S : <<>> \in Seq(S)
      OBVIOUS
    <2>2. snaps' \in Seq(Good)
      BY <2>1, <2>4
    <2>3. QED
      BY <1>2, <2>2, GoodSnaps
  <1>5. ClientOK'
    <2>1. (Counted(last_snapshot_seq_num) /\ Counted(last_md_seq_num))'
      BY <1>1, <1>2 DEF Counted, ClientOK, StateOK
    <2>2. Kept(symbol_to_order_book, order_to_symbol)'
      BY <1>1 DEF StateOK, State, Kept
    <2>3. QED
      BY <1>2, <2>1, <2>2 DEF ClientOK
  <1>6. WaitOK'
    BY DEF WaitOK
  <1>7. WholeStream(snaps) /\ AtStart(snaps) => StreamOK'
    <2>1. SUFFICES ASSUME WholeStream(snaps), AtStart(snaps) PROVE StreamOK'
      OBVIOUS
    <2>2. CASE snaps' = snaps
      BY <2>1, <2>2, StreamBegins
    <2>3. CASE snaps' = <<>>
      <3>1. AtStart(snaps') /\ WholeStream(snaps')
        BY <2>3 DEF AtStart, WholeStream
      <3>2. QED
        BY <3>1, StreamBegins
    <2>4. QED
      BY <2>2, <2>3
  <1>8. (mode' = "live" => Tracks(st)) => BooksOK'
    <2>1. SUFFICES ASSUME mode' = "live", Tracks(st) PROVE BooksOK'
      BY DEF BooksOK
    <2>2. PICK T : T = truth[st.seq + 1]
      OBVIOUS
    <2>3. st.seq < Len(feed) /\ Holds(st.books, st.symbols, T, DOMAIN T)
      BY <2>1, <2>2 DEF Tracks
    <2>4. truth'[last_md_seq_num' + 1] = T /\ last_md_seq_num' < Len(feed')
      BY <1>1, <2>2, <2>3
    <2>5. Holds(symbol_to_order_book', order_to_symbol', T, DOMAIN T)
      BY <1>1, <2>3
    <2>6. (Holds(symbol_to_order_book, order_to_symbol, truth[last_md_seq_num + 1], DOMAIN truth[last_md_seq_num + 1]))'
      BY <2>4, <2>5
    <2>7. QED
      BY <2>4, <2>6 DEF BooksOK
  <1>9. QED
    BY <1>2, <1>3, <1>4, <1>5, <1>6, <1>7, <1>8 DEF DataInv

\* A snapshot that is complete is newer than the first message of the buffer, and so than the books.
LEMMA SnapshotIsNewer ==
    ASSUME DataInv, mode = "waiting", AllComplete
    PROVE  last_snapshot_seq_num > last_md_seq_num
  <1>1. SymbolRow[1] \in Symbols
    BY Constants
  <1>2. Begun(awaited, snapshot_complete, SymbolRow[1])
    BY <1>1 DEF AllComplete, Begun
  <1>3. live_buffer # <<>> /\ last_snapshot_seq_num > live_buffer[1] /\ \A a \in DOMAIN live_buffer : live_buffer[a] >= last_md_seq_num
    BY <1>1, <1>2 DEF DataInv, WaitOK
  <1>4. live_buffer \in Seq(Numbers) /\ Len(feed) \in Nat /\ last_md_seq_num \in Nat /\ last_snapshot_seq_num \in Nat
    BY OrdersNow DEF DataInv, LiveOK, ClientOK, Counted
  <1>5. Len(live_buffer) \in Nat /\ Len(live_buffer) # 0
    BY <1>3, <1>4, EmptySeq
  <1>6. 1 \in DOMAIN live_buffer
    BY <1>4, <1>5
  <1>7. live_buffer[1] \in Numbers
    BY <1>4, <1>6
  <1>8. live_buffer[1] \in Int
    BY <1>4, <1>7 DEF Numbers
  <1>9. QED
    BY <1>3, <1>4, <1>6, <1>8

\* The client's books, before the snapshot and after the buffer.
LEMMA WaitIsOver ==
    ASSUME DataInv, mode = "waiting", NEW st, st = BufferProcessed
    PROVE  /\ StateOK(st) /\ st.seq >= last_snapshot_seq_num
           /\ st.status = "gap" => \E j \in DOMAIN live_buffer : live_buffer[j] > st.seq
           /\ last_snapshot_seq_num > 0 /\ Taken_ => Tracks(st)
  <1>1. PICK s : s = SnapshotState
    OBVIOUS
  <1>2. ExchangeOK /\ ClientOK /\ live_buffer \in Seq(Numbers)
    BY DEF DataInv, LiveOK
  <1>3. /\ StateOK(s) /\ s.seq = last_snapshot_seq_num /\ s.status = "reading"
        /\ last_snapshot_seq_num > 0 /\ Taken_ => Tracks(s)
    BY <1>1, <1>2, SnapshotBooks
  <1>4. DoneTo(s, live_buffer, st, Len(live_buffer))
    BY <1>1, <1>2, <1>3, BufferDone
  <1>5. DOMAIN live_buffer = 1..Len(live_buffer)
    BY <1>2
  <1>6. QED
    BY <1>3, <1>4, <1>5 DEF DoneTo

\* wait_for_snapshot ends.
LEMMA FinishKeeps ==
    ASSUME DataInv, FinishWaiting, UNCHANGED scenario
    PROVE  /\ DataInv' /\ last_md_seq_num' >= last_md_seq_num
           /\ StreamOK => StreamOK' /\ BooksOK'
  <1>1. PICK st : st = BufferProcessed
    OBVIOUS
  <1>2. /\ mode = "waiting" /\ AllComplete /\ UNCHANGED <<feed, truth, service, live>>
        /\ IF st.status = "gap" /\ recover_on_drops
           THEN Restart(st.seq) /\ nested' = TRUE /\ UNCHANGED snaps
           ELSE /\ mode' = IF nested THEN "undefined" ELSE "live"
                /\ Become(st) /\ live_buffer' = <<>>
                /\ snaps' = IF recover_on_drops THEN snaps ELSE <<>>
                /\ UNCHANGED <<nested, snapshot_buffer, snapshot_complete, awaited, last_snapshot_seq_num>>
    BY <1>1 DEF FinishWaiting, exchange
  <1>3. /\ StateOK(st) /\ st.seq >= last_snapshot_seq_num
        /\ st.status = "gap" => \E j \in DOMAIN live_buffer : live_buffer[j] > st.seq
        /\ last_snapshot_seq_num > 0 /\ Taken_ => Tracks(st)
    BY <1>1, <1>2, WaitIsOver
  <1>4. last_snapshot_seq_num > last_md_seq_num
    BY <1>2, SnapshotIsNewer
  <1>5. st.seq \in Nat /\ last_md_seq_num \in Nat /\ last_snapshot_seq_num \in Nat /\ Counted(st.seq)
    BY <1>3 DEF StateOK, Counted, DataInv, ClientOK
  <1>6. st.seq >= last_md_seq_num
    BY <1>3, <1>4, <1>5
  <1>7. StreamOK => WholeStream(snaps) /\ last_snapshot_seq_num > 0 /\ Taken_ /\ AtStart(snaps)
    <2>1. SUFFICES ASSUME StreamOK PROVE WholeStream(snaps) /\ last_snapshot_seq_num > 0 /\ Taken_ /\ AtStart(snaps)
      OBVIOUS
    <2>2. ~Skipping
      <3>1. SymbolRow[1] \in Symbols
        BY Constants
      <3>2. Begun(awaited, snapshot_complete, SymbolRow[1])
        BY <1>2, <3>1 DEF AllComplete, Begun
      <3>3. QED
        BY <3>1, <3>2 DEF Skipping
    <2>3. ASSUME NEW i \in DOMAIN SymbolRow, Taking(i) PROVE FALSE
      <3>1. i \in i..Len(SymbolRow) /\ SymbolRow[i] \in Symbols
        BY <2>3, Constants
      <3>2. QED
        BY <1>2, <2>3, <3>1 DEF Taking, CompleteTo, AllComplete
    <2>4. QED
      BY <1>2, <2>1, <2>2, <2>3 DEF StreamOK, Taken_
  <1>8. live_buffer' = <<>>
    BY <1>2 DEF Restart
  <1>9. LiveOK /\ LiveOK'
    BY <1>2, <1>8, LiveShrinks DEF DataInv
  <1>10. CASE st.status = "gap" /\ recover_on_drops
    <2>1. Restart(st.seq) /\ nested' = TRUE /\ UNCHANGED snaps
      BY <1>2, <1>10
    <2>2. ASSUME NEW i \in DOMAIN live', NEW a \in DOMAIN live'[i] PROVE live'[i][a] >= st.seq
      <3>1. PICK j \in DOMAIN live_buffer : live_buffer[j] > st.seq
        BY <1>3, <1>10
      <3>2. live_buffer[j] < live[i][a] /\ live' = live
        BY <1>2, <1>9, <2>2 DEF LiveOK
      <3>3. live_buffer[j] \in Int /\ live[i][a] \in Int
        <4>1. Numbers \subseteq Int
          BY OrdersNow DEF Numbers, DataInv
        <4>2. live_buffer \in Seq(Numbers) /\ live[i] \in Seq(Numbers)
          BY <1>9, <2>2, <3>2 DEF LiveOK
        <4>3. a \in DOMAIN live[i]
          BY <2>2, <3>2
        <4>4. live_buffer[j] \in Numbers /\ live[i][a] \in Numbers
          BY <3>1, <4>2, <4>3
        <4>5. QED
          BY <4>1, <4>4
      <3>4. QED
        BY <1>5, <3>1, <3>2, <3>3
    <2>3. nested' \in BOOLEAN
      BY <2>1
    <2>4. DataInv' /\ BooksOK' /\ (WholeStream(snaps) /\ AtStart(snaps) => StreamOK')
      BY <1>2, <1>5, <1>9, <2>1, <2>2, <2>3, RestartKeeps
    <2>5. last_md_seq_num' = st.seq
      BY <2>1 DEF Restart
    <2>6. QED
      BY <1>6, <1>7, <2>4, <2>5
  <1>11. CASE ~(st.status = "gap" /\ recover_on_drops)
    <2>1. /\ mode' \in {"live", "undefined"} /\ Become(st) /\ (snaps' = snaps \/ snaps' = <<>>)
          /\ UNCHANGED <<nested, snapshot_buffer, snapshot_complete, awaited, last_snapshot_seq_num>>
      BY <1>2, <1>11
    <2>2. /\ DataInv'
          /\ WholeStream(snaps) /\ AtStart(snaps) => StreamOK'
          /\ (mode' = "live" => Tracks(st)) => BooksOK'
      BY <1>2, <1>3, <1>9, <2>1, BecomeKeeps
    <2>3. last_md_seq_num' = st.seq
      BY <2>1 DEF Become
    <2>4. QED
      BY <1>3, <1>6, <1>7, <2>2, <2>3
  <1>12. QED
    BY <1>10, <1>11

\* A packet is processed.
LEMMA ProcessKeeps ==
    ASSUME DataInv, Process, UNCHANGED scenario
    PROVE  /\ DataInv' /\ last_md_seq_num' >= last_md_seq_num
           /\ StreamOK /\ BooksOK => StreamOK' /\ BooksOK'
  <1>1. PICK packet, st, s : packet = Head(live) /\ st = PacketProcessed(packet) /\ s = BookState
    OBVIOUS
  <1>2. /\ mode = "live" /\ live # <<>> /\ live' = Tail(live) /\ UNCHANGED <<feed, truth, service, snaps, nested>>
        /\ IF st.status = "gap" /\ recover_on_drops THEN Restart(st.seq)
           ELSE Become(st) /\ UNCHANGED <<mode, live_buffer, snapshot_buffer, snapshot_complete, awaited, last_snapshot_seq_num>>
    BY <1>1 DEF Process, exchange, recovery
  <1>3. ExchangeOK /\ ClientOK /\ LiveOK
    BY DEF DataInv
  <1>4. packet = live[1] /\ packet \in Seq(Numbers) /\ 1 \in DOMAIN live
    <2>1. live \in Seq(Seq(Numbers))
      BY <1>3 DEF LiveOK
    <2>2. Len(live) \in Nat /\ Len(live) >= 1 /\ packet = live[1]
      BY <1>1, <1>2, <2>1, TailIs
    <2>3. 1 \in DOMAIN live
      BY <2>1, <2>2
    <2>4. QED
      BY <2>1, <2>2, <2>3
  <1>5. /\ s = [seq |-> last_md_seq_num, books |-> symbol_to_order_book, symbols |-> order_to_symbol, status |-> "reading"]
        /\ s.seq = last_md_seq_num /\ s.books = symbol_to_order_book /\ s.symbols = order_to_symbol /\ s.status = "reading"
    BY <1>1 DEF BookState
  <1>6. StateOK(s)
    BY <1>3, <1>5 DEF StateOK, State, ClientOK
  <1>7. DoneTo(s, packet, st, Len(packet))
    BY <1>1, <1>3, <1>4, <1>6, PacketDone
  <1>8. BooksOK => Tracks(st)
    BY <1>2, <1>5, <1>7 DEF BooksOK, Tracks, DoneTo
  <1>9. StateOK(st) /\ st.seq >= last_md_seq_num /\ Counted(st.seq) /\ st.seq \in Nat
    BY <1>5, <1>7 DEF DoneTo, StateOK, Counted
  <1>10. StreamOK => WholeStream(snaps) /\ AtStart(snaps)
    BY <1>2 DEF StreamOK
  <1>11. live_buffer' = live_buffer \/ live_buffer' = <<>>
    BY <1>2 DEF Restart
  <1>12. LiveOK'
    BY <1>2, <1>3, <1>11, LiveShrinks
  <1>13. CASE st.status = "gap" /\ recover_on_drops
    <2>1. Restart(st.seq)
      BY <1>2, <1>13
    <2>2. PICK l : l = live'
      OBVIOUS
    <2>3. PICK c : c = Len(live)
      OBVIOUS
    <2>4. \A i \in DOMAIN l : l[i] = live[i + 1] /\ i + 1 \in DOMAIN live /\ 1 < i + 1
      BY <1>2, <1>3, <2>2, <2>3, RestOfLive
    <2>5. ASSUME NEW i \in DOMAIN l, NEW a \in DOMAIN l[i] PROVE l[i][a] >= st.seq
      <3>1. PICK j \in 1..Len(packet) : packet[j] > st.seq
        BY <1>7, <1>13 DEF DoneTo
      <3>2. j \in DOMAIN packet /\ l[i] = live[i + 1] /\ i + 1 \in DOMAIN live /\ 1 < i + 1
        BY <1>4, <2>4, <3>1
      <3>3. packet[j] < l[i][a]
        BY <1>3, <1>4, <2>5, <3>2 DEF LiveOK
      <3>4. packet[j] \in Int /\ l[i][a] \in Int
        <4>1. Numbers \subseteq Int
          BY <1>3, OrdersNow DEF Numbers
        <4>2. live[i + 1] \in Seq(Numbers)
          BY <1>3, <3>2 DEF LiveOK
        <4>3. packet[j] \in Numbers /\ l[i][a] \in Numbers
          BY <1>4, <2>5, <3>2, <4>2
        <4>4. QED
          BY <4>1, <4>3
      <3>5. QED
        BY <1>9, <3>1, <3>3, <3>4
    <2>6. \A i \in DOMAIN live' : \A a \in DOMAIN live'[i] : live'[i][a] >= st.seq
      BY <2>2, <2>5
    <2>7. nested' \in BOOLEAN
      BY <1>2, <1>3 DEF ClientOK
    <2>8. DataInv' /\ BooksOK' /\ (WholeStream(snaps) /\ AtStart(snaps) => StreamOK')
      BY <1>2, <1>9, <1>12, <2>1, <2>6, <2>7, RestartKeeps
    <2>9. last_md_seq_num' = st.seq
      BY <2>1 DEF Restart
    <2>10. QED
      BY <1>9, <1>10, <2>8, <2>9
  <1>14. CASE ~(st.status = "gap" /\ recover_on_drops)
    <2>1. Become(st) /\ mode' \in {"live", "undefined"}
          /\ UNCHANGED <<snapshot_buffer, snapshot_complete, awaited, last_snapshot_seq_num>>
      BY <1>2, <1>14
    <2>2. /\ DataInv'
          /\ WholeStream(snaps) /\ AtStart(snaps) => StreamOK'
          /\ (mode' = "live" => Tracks(st)) => BooksOK'
      BY <1>2, <1>9, <1>12, <2>1, BecomeKeeps
    <2>3. last_md_seq_num' = st.seq
      BY <2>1 DEF Become
    <2>4. QED
      BY <1>8, <1>9, <1>10, <2>2, <2>3
  <1>15. QED
    BY <1>13, <1>14

-----------------------------------------------------------------------------
(* The theorems. *)

LEMMA FeedBegins == ASSUME FeedInit PROVE RecoveryInv
  <1>1. /\ scenario \in Scenarios /\ feed = <<>> /\ truth = <<>>
        /\ heard = 0 /\ listed = [side \in Side |-> Nothing] /\ written_seq = 0
        /\ live = <<>> /\ snaps = <<>> /\ mode = "off" /\ nested = FALSE /\ live_buffer = <<>>
        /\ snapshot_buffer = [symbol \in Symbols |-> <<>>]
        /\ snapshot_complete = [symbol \in Symbols |-> FALSE]
        /\ awaited = [symbol \in Symbols |-> [side \in Side |-> -1]]
        /\ last_snapshot_seq_num = 0 /\ last_md_seq_num = 0
        /\ symbol_to_order_book = Nothing /\ order_to_symbol = Nothing
    BY DEF FeedInit
  <1>2. Orders = Nothing /\ DOMAIN Nothing = {}
    BY <1>1 DEF Orders, Nothing
  <1>3. ExchangeOK
    BY <1>1, <1>2 DEF ExchangeOK
  <1>4. ServiceOK
    <2>1. Was(0) = Nothing
      BY DEF Was
    <2>2. \A side \in Side : SideOf(Nothing, side) = Nothing
      BY <1>2 DEF SideOf, Nothing
    <2>3. Mirrors(listed, Nothing)
      BY <1>1, <2>2 DEF Mirrors
    <2>4. Serves([orders |-> listed, seq |-> written_seq], 0)
      BY <1>1, <2>1, <2>3 DEF Serves
    <2>5. QED
      BY <1>1, <2>4 DEF ServiceOK
  <1>5. LiveOK
    BY <1>1 DEF LiveOK, Growing
  <1>6. SnapsOK
    BY <1>1 DEF SnapsOK
  <1>7. ClientOK
    <2>1. Kept(symbol_to_order_book, order_to_symbol)
      BY <1>1, <1>2 DEF Kept, Nothing
    <2>2. awaited \in [Symbols -> [Side -> Int]]
      BY <1>1
    <2>3. snapshot_complete \in [Symbols -> BOOLEAN] /\ snapshot_buffer \in [Symbols -> Seq(Entry)]
      BY <1>1
    <2>4. QED
      BY <1>1, <2>1, <2>2, <2>3 DEF ClientOK, Counted
  <1>8. WaitOK
    BY <1>1 DEF WaitOK
  <1>9. StreamOK
    BY <1>1 DEF StreamOK, WholeStream, AtStart
  <1>10. BooksOK
    BY <1>1 DEF BooksOK
  <1>11. QED
    BY <1>3, <1>4, <1>5, <1>6, <1>7, <1>8, <1>9, <1>10 DEF RecoveryInv, DataInv

\* The steps that the lemmas are about.
LEMMA StepsAre ==
    ASSUME [FeedNext]_feedVars
    PROVE  \/ UNCHANGED feedVars
           \/ UNCHANGED scenario /\ (\/ Publishing \/ \E n \in heard..Len(feed) : WriteSnapshot(n)
                                     \/ Start \/ ReceiveWhileWaiting \/ FinishWaiting \/ Process)
  BY DEF FeedNext, FeedStep, Publishing

\* Nothing changes.
LEMMA StutterKeeps ==
    ASSUME UNCHANGED feedVars
    PROVE  /\ DataInv' = DataInv /\ StreamOK' = StreamOK /\ BooksOK' = BooksOK
           /\ last_md_seq_num' = last_md_seq_num
  <1>1. /\ UNCHANGED <<scenario, feed, truth, drops, heard, listed, written_seq, cycles, live, snaps, mode, nested>>
        /\ UNCHANGED <<live_buffer, snapshot_buffer, snapshot_complete, awaited, last_snapshot_seq_num>>
        /\ UNCHANGED <<last_md_seq_num, symbol_to_order_book, order_to_symbol>>
    BY DEF feedVars, exchange, service, recovery, books, client
  <1>2. Ids' = Ids /\ Orders' = Orders /\ Numbers' = Numbers /\ recover_on_drops' = recover_on_drops
    BY <1>1 DEF Ids, NewOrders, Orders, Numbers, recover_on_drops
  <1>3. Message' = Message /\ Books' = Books /\ Entry' = Entry /\ Datagram' = Datagram
    BY <1>2 DEF Message, Books, Entry, Datagram
  <1>4. ExchangeOK' = ExchangeOK
    BY <1>1, <1>2, <1>3 DEF ExchangeOK, Was
  <1>5. ServiceOK' = ServiceOK
    BY <1>1 DEF ServiceOK, Serves, Was
  <1>6. LiveOK' = LiveOK
    BY <1>1, <1>2 DEF LiveOK
  <1>7. SnapsOK' = SnapsOK
    BY <1>1, <1>3 DEF SnapsOK, DatagramOK, Counted
  <1>8. ClientOK' = ClientOK
    BY <1>1, <1>3 DEF ClientOK, Counted
  <1>9. WaitOK' = WaitOK
    BY <1>1 DEF WaitOK
  <1>10. StreamOK' = StreamOK
    BY <1>1 DEF StreamOK, Skipping, Taking, Taken_, CompleteTo
  <1>11. BooksOK' = BooksOK
    BY <1>1 DEF BooksOK
  <1>12. QED
    BY <1>1, <1>4, <1>5, <1>6, <1>7, <1>8, <1>9, <1>10, <1>11 DEF DataInv

\* Every step keeps what holds whatever is lost, and takes no client back.
LEMMA StepKeepsData ==
    ASSUME DataInv, [FeedNext]_feedVars
    PROVE  DataInv' /\ last_md_seq_num' >= last_md_seq_num
  <1>1. last_md_seq_num \in Nat
    BY DEF DataInv, ClientOK, Counted
  <1>2. CASE UNCHANGED feedVars
    BY <1>1, <1>2, StutterKeeps
  <1>3. CASE UNCHANGED scenario /\ Publishing
    <2>1. DataInv' /\ UNCHANGED client
      BY <1>3, PublishKeepsData
    <2>2. last_md_seq_num' = last_md_seq_num
      BY <2>1 DEF client, books
    <2>3. QED
      BY <1>1, <2>1, <2>2
  <1>4. CASE UNCHANGED scenario /\ \E n \in heard..Len(feed) : WriteSnapshot(n)
    <2>1. PICK n \in heard..Len(feed) : WriteSnapshot(n)
      BY <1>4
    <2>2. DataInv'
      BY <1>4, <2>1, WriteKeepsData
    <2>3. last_md_seq_num' = last_md_seq_num
      BY <2>1 DEF WriteSnapshot, client, books
    <2>4. QED
      BY <1>1, <2>2, <2>3
  <1>5. CASE UNCHANGED scenario /\ Start
    <2>1. DataInv'
      BY <1>5, StartKeepsData
    <2>2. last_md_seq_num' = last_md_seq_num
      BY <1>5 DEF Start, books
    <2>3. QED
      BY <1>1, <2>1, <2>2
  <1>6. CASE UNCHANGED scenario /\ ReceiveWhileWaiting
    <2>1. DataInv'
      BY <1>6, ReceiveKeepsData
    <2>2. last_md_seq_num' = last_md_seq_num
      BY <1>6 DEF ReceiveWhileWaiting, books
    <2>3. QED
      BY <1>1, <2>1, <2>2
  <1>7. CASE UNCHANGED scenario /\ FinishWaiting
    BY <1>7, FinishKeeps
  <1>8. CASE UNCHANGED scenario /\ Process
    BY <1>8, ProcessKeeps
  <1>9. QED
    BY <1>2, <1>3, <1>4, <1>5, <1>6, <1>7, <1>8, StepsAre

\* Every step keeps the whole invariant when no part of a snapshot is lost.
LEMMA StepKeeps ==
    ASSUME RecoveryInv, ~LoseSnapshots, [FeedNext]_feedVars
    PROVE  RecoveryInv'
  <1>1. DataInv /\ StreamOK /\ BooksOK
    BY DEF RecoveryInv
  <1>2. CASE UNCHANGED feedVars
    BY <1>1, <1>2, StutterKeeps DEF RecoveryInv
  <1>3. CASE UNCHANGED scenario /\ Publishing
    BY <1>3, PublishKeeps
  <1>4. CASE UNCHANGED scenario /\ \E n \in heard..Len(feed) : WriteSnapshot(n)
    BY <1>4, WriteKeeps
  <1>5. CASE UNCHANGED scenario /\ Start
    BY <1>1, <1>5, StartKeepsData DEF RecoveryInv
  <1>6. CASE UNCHANGED scenario /\ ReceiveWhileWaiting
    BY <1>6, ReceiveKeeps
  <1>7. CASE UNCHANGED scenario /\ FinishWaiting
    BY <1>1, <1>7, FinishKeeps DEF RecoveryInv
  <1>8. CASE UNCHANGED scenario /\ Process
    BY <1>1, <1>8, ProcessKeeps DEF RecoveryInv
  <1>9. QED
    BY <1>2, <1>3, <1>4, <1>5, <1>6, <1>7, <1>8, StepsAre

\* Whatever is lost and whenever the service writes: the published messages fit the orders
\* they are about (MDMcast), the service lists the exchange's book (SnapshotWriter), packets
\* and datagrams are parts of the feed and of its snapshots, and nothing that a waiting
\* client (wait_for_snapshot) has still to read is older than the books it gave up.
THEOREM DataConsistent == FeedSpec => []DataInv
  <1>1. FeedInit => DataInv
    BY FeedBegins DEF RecoveryInv
  <1>2. DataInv /\ [FeedNext]_feedVars => DataInv'
    BY StepKeepsData
  <1>3. QED
    BY <1>1, <1>2, PTL DEF FeedSpec

\* Every variable of feed, service and client stays within its type: a packet that write_msg
\* numbers holds numbers of published messages only, and process_message makes no books but
\* those of known symbols.
THEOREM FeedTypeCorrect == FeedSpec => []FeedTypeOK
  <1>1. DataInv => FeedTypeOK
    <2>1. SUFFICES ASSUME DataInv PROVE FeedTypeOK
      OBVIOUS
    <2>2. ExchangeOK /\ ServiceOK /\ LiveOK /\ ClientOK
      BY <2>1 DEF DataInv
    <2>3. Len(truth) = Len(feed) /\ heard \in 0..Len(feed)
      BY <2>2 DEF ExchangeOK, ServiceOK
    <2>4. live_buffer \in Seq(Numbers) /\ \A i \in DOMAIN live : live[i] \in Seq(Numbers)
      BY <2>2 DEF LiveOK
    <2>5. /\ mode \in {"off", "waiting", "live", "undefined"} /\ nested \in BOOLEAN
          /\ DOMAIN symbol_to_order_book \subseteq Symbols
          /\ order_to_symbol \in [DOMAIN order_to_symbol -> Symbols \cup {0}]
      BY <2>2 DEF ClientOK, Kept
    <2>6. \A side \in Side, symbol \in Symbols : awaited[symbol][side] \in Int
      BY <2>2 DEF ClientOK
    <2>7. QED
      BY <2>3, <2>4, <2>5, <2>6 DEF FeedTypeOK
  <1>2. QED
    BY <1>1, DataConsistent, PTL

\* What SnapshotWriter::process has listed is the exchange's book at the number that it
\* writes with it, wherever in a packet it stops.
THEOREM SnapshotsAreCurrent == FeedSpec => []SnapshotIsCurrent
  <1>1. DataInv => SnapshotIsCurrent
    <2>1. SUFFICES ASSUME DataInv, written_seq > 0 PROVE SnapshotIsCurrent
      BY DEF SnapshotIsCurrent
    <2>2. Serves([orders |-> listed, seq |-> written_seq], heard)
      BY <2>1 DEF DataInv, ServiceOK
    <2>3. PICK orders : orders = truth[written_seq + 1]
      OBVIOUS
    <2>4. Mirrors(listed, orders)
      BY <2>1, <2>2, <2>3 DEF Serves
    <2>5. \A side \in Side : listed[side] = SideOf(orders, side)
      BY <2>4 DEF Mirrors
    <2>6. QED
      BY <2>3, <2>5 DEF SnapshotIsCurrent, SideOf
  <1>2. QED
    BY <1>1, DataConsistent, PTL

\* No step takes a client's book back in the feed: neither process_message nor the snapshot
\* that wait_for_snapshot recovers from, also when packets and parts of snapshots are lost.
THEOREM BooksNeverGoBack == FeedSpec => NeverBack
  <1>1. DataInv /\ [FeedNext]_feedVars => [last_md_seq_num' >= last_md_seq_num]_feedVars
    BY StepKeepsData
  <1>2. QED
    BY <1>1, DataConsistent, PTL DEF FeedSpec, NeverBack

\* When no snapshot datagram is lost, a live client has the exchange's orders as of the last
\* message it counts as applied (process_message, wait_for_snapshot): whichever live packets
\* were lost, whenever it joined and wherever in the feed its snapshot was taken.
THEOREM BooksRecovered == ASSUME ~LoseSnapshots PROVE FeedSpec => []RecoveredBook
  <1>1. FeedInit => RecoveryInv
    BY FeedBegins
  <1>2. RecoveryInv /\ [FeedNext]_feedVars => RecoveryInv'
    BY StepKeeps
  <1>3. RecoveryInv => RecoveredBook
    <2>1. SUFFICES ASSUME RecoveryInv, mode = "live", NEW symbol \in Symbols
                   PROVE  OrdersSeen(symbol) = OrdersAt(last_md_seq_num, symbol)
      BY DEF RecoveredBook
    <2>2. PICK T : T = truth[last_md_seq_num + 1]
      OBVIOUS
    <2>3. Holds(symbol_to_order_book, order_to_symbol, T, DOMAIN T)
      BY <2>1, <2>2 DEF RecoveryInv, BooksOK
    <2>4. OrdersIn(symbol_to_order_book, symbol) = Part(T, DOMAIN T, symbol)
      BY <2>1, <2>3 DEF Holds
    <2>5. OrdersAt(last_md_seq_num, symbol) = Part(T, DOMAIN T, symbol)
      BY <2>2 DEF OrdersAt, Part, AsInBook
    <2>6. QED
      BY <2>4, <2>5 DEF OrdersSeen, OrdersIn
  <1>4. QED
    BY <1>1, <1>2, <1>3, PTL DEF FeedSpec
=============================================================================
