------------------------ MODULE PositionLedgerProofs ------------------------
(***************************************************************************)
(* The clearing consumers and the ETF service's ledger, for any clients,   *)
(* symbols, fills, threads and amounts and any width of the machine word.  *)
(*                                                                         *)
(* The accounts are sums over the datagrams that were counted; each        *)
(* delivery adds one summand.  The C++ client counts in machine words, so  *)
(* its totals are known up to multiples of Word only.                      *)
(***************************************************************************)
EXTENDS PositionLedger, SumProofs

-----------------------------------------------------------------------------
(* Machine words. *)

\* Division with remainder.
LEMMA Division ==
    ASSUME NEW W \in Nat \ {0}, NEW a \in Int
    PROVE  \E q \in Int, u \in 0..W - 1 : a = q * W + u /\ a % W = u
  <1>1. a % W \in 0..W - 1 /\ a \div W \in Int
    OBVIOUS
  <1>2. a = (a \div W) * W + (a % W)
    BY SMT
  <1>3. WITNESS (a \div W) \in Int, (a % W) \in 0..W - 1
  <1>4. QED
    BY <1>2

\* The only multiple of W between -W and W is 0.
LEMMA SmallMultiple ==
    ASSUME NEW W \in Nat \ {0}, NEW d \in Int, d * W > -W, d * W < W
    PROVE  d = 0
  <1>1. CASE d < 0
    <2>1. (-d) * W >= W
      BY <1>1
    <2>2. QED
      BY <2>1
  <1>2. CASE d > 0
    <2>1. d * W >= W
      BY <1>2
    <2>2. QED
      BY <2>1
  <1>3. QED
    BY <1>1, <1>2

\* Remainders are unique.
LEMMA Remainder ==
    ASSUME NEW W \in Nat \ {0}, NEW q \in Int, NEW r \in Int, NEW k \in Int,
           NEW u \in 0..W - 1, NEW v \in 0..W - 1, q * W + u = r * W + v + k * W
    PROVE  u = v
  <1>1. (r + k - q) * W = u - v
    OBVIOUS
  <1>2. r + k - q \in Int /\ (r + k - q) * W > -W /\ (r + k - q) * W < W
    BY <1>1
  <1>3. r + k - q = 0
    BY <1>2, SmallMultiple
  <1>4. QED
    BY <1>1, <1>3

\* Numbers that differ by whole words have the same remainder.
LEMMA Congruent ==
    ASSUME NEW W \in Nat \ {0}, NEW a \in Int, NEW b \in Int, NEW k \in Int, a = b + k * W
    PROVE  a % W = b % W
  <1>1. PICK q \in Int, u \in 0..W - 1 : a = q * W + u /\ a % W = u
    BY Division
  <1>2. PICK r \in Int, v \in 0..W - 1 : b = r * W + v /\ b % W = v
    BY Division
  <1>3. q * W + u = r * W + v + k * W
    BY <1>1, <1>2
  <1>4. u = v
    BY <1>3, Remainder
  <1>5. QED
    BY <1>1, <1>2, <1>4

\* They have the same value in a signed word, too.
LEMMA SignedCongruent ==
    ASSUME NEW a \in Int, NEW b \in Int, NEW k \in Int, a = b + k * Word
    PROVE  Signed(a) = Signed(b)
  <1>1. a % Word = b % Word
    BY Congruent, ClearingAssumption
  <1>2. QED
    BY <1>1 DEF Signed

\* A signed word differs from the number it holds by whole words.
LEMMA SignedIs ==
    ASSUME NEW a \in Int
    PROVE  Signed(a) \in Int /\ \E k \in Int : Signed(a) = a + k * Word
  <1>0. Word \in Nat \ {0} /\ Word \div 2 \in Int
    BY ClearingAssumption
  <1>1. PICK q \in Int, u \in 0..Word - 1 : a = q * Word + u /\ a % Word = u
    BY <1>0, Division
  <1>2. CASE u >= Word \div 2
    <2>1. Signed(a) = u - Word
      BY <1>1, <1>2 DEF Signed
    <2>2. Signed(a) = a + (-q - 1) * Word
      BY <1>0, <1>1, <2>1
    <2>3. -q - 1 \in Int /\ Signed(a) \in Int
      BY <1>0, <2>1
    <2>4. QED
      BY <2>2, <2>3
  <1>3. CASE ~(u >= Word \div 2)
    <2>1. Signed(a) = u
      BY <1>1, <1>3 DEF Signed
    <2>2. Signed(a) = a + (-q) * Word
      BY <1>0, <1>1, <2>1
    <2>3. -q \in Int /\ Signed(a) \in Int
      BY <1>0, <2>1
    <2>4. QED
      BY <2>2, <2>3
  <1>4. QED
    BY <1>2, <1>3

\* A number that fits into a signed word is held exactly.
LEMMA SignedFits ==
    ASSUME NEW a \in -(Word \div 2)..(Word \div 2 - 1)
    PROVE  Signed(a) = a
  <1>0. Word \in Nat \ {0} /\ Word = 2 * (Word \div 2) /\ Word \div 2 \in Nat
    BY ClearingAssumption
  <1>1. CASE a >= 0
    <2>1. a % Word = a
      BY <1>0, <1>1
    <2>2. QED
      BY <1>0, <2>1 DEF Signed
  <1>2. CASE a < 0
    <2>1. a + Word \in Int /\ a + Word = a + 1 * Word
      BY <1>0
    <2>2. (a + Word) % Word = a + Word
      BY <1>0, <1>2
    <2>3. a % Word = a + Word
      BY <1>0, <2>1, <2>2, Congruent
    <2>4. QED
      BY <1>0, <1>2, <2>3 DEF Signed
  <1>3. QED
    BY <1>1, <1>2

\* A word is counted up modulo Word: what wrapped before does not matter.
LEMMA WordAdd ==
    ASSUME NEW a \in Int, NEW b \in Int
    PROVE  /\ ((a % Word) + b) % Word = (a + b) % Word
           /\ Signed(Signed(a) + b) = Signed(a + b)
  <1>0. Word \in Nat \ {0}
    BY ClearingAssumption
  <1>1. PICK q \in Int, u \in 0..Word - 1 : a = q * Word + u /\ a % Word = u
    BY <1>0, Division
  <1>2. u + b = (a + b) + (-q) * Word
    BY <1>0, <1>1
  <1>3. (u + b) % Word = (a + b) % Word
    <2>1. PICK k \in Int : k = -q
      OBVIOUS
    <2>2. u + b \in Int /\ a + b \in Int /\ u + b = (a + b) + k * Word
      BY <1>0, <1>2, <2>1
    <2>3. QED
      BY <1>0, <2>2, Congruent
  <1>4. PICK k \in Int : Signed(a) = a + k * Word
    BY SignedIs
  <1>5. Signed(a) \in Int
    BY SignedIs
  <1>6. Signed(a) + b = (a + b) + k * Word
    BY <1>0, <1>4, <1>5
  <1>7. Signed(Signed(a) + b) = Signed(a + b)
    BY <1>5, <1>6, SignedCongruent
  <1>8. QED
    BY <1>1, <1>3, <1>7

-----------------------------------------------------------------------------
(* What a fill does to the accounts. *)

Accounts == [positions : [Pairs -> Int], total_buy : [Pairs -> Int],
             total_sell : [Pairs -> Int], volume : [Pairs -> Int], raw_pnl : [Pairs -> Int]]

\* The terms of the sums are integers.
LEMMA Terms ==
    ASSUME NEW f \in Fills, NEW p \in Pairs
    PROVE  /\ Bought(p, f) \in Int /\ Sold(p, f) \in Int /\ f.price \in Int
           /\ Bought(p, f) - Sold(p, f) \in Int /\ Bought(p, f) + Sold(p, f) \in Int
           /\ (Sold(p, f) - Bought(p, f)) * f.price \in Int
  <1>1. Bought(p, f) \in Int /\ Sold(p, f) \in Int /\ f.price \in Int
    BY ClearingAssumption DEF Bought, Sold
  <1>2. QED
    BY <1>1

\* A fill changes the accounts of its client and symbol by its quantity, and no others.
LEMMA FilledAt ==
    ASSUME NEW a \in Accounts, NEW f \in Fills, NEW p \in Pairs
    PROVE  /\ Filled(a, f) \in Accounts
           /\ Filled(a, f).positions[p] = a.positions[p] + (Bought(p, f) - Sold(p, f))
           /\ Filled(a, f).volume[p] = a.volume[p] + (Bought(p, f) + Sold(p, f))
           /\ Filled(a, f).total_sell[p] - Filled(a, f).total_buy[p]
                = a.total_sell[p] - a.total_buy[p] + (Sold(p, f) - Bought(p, f)) * f.price
           /\ Filled(a, f).raw_pnl[p] = IF Concerns(p, f)
                                        THEN Filled(a, f).total_sell[p] - Filled(a, f).total_buy[p]
                                        ELSE a.raw_pnl[p]
           /\ ~Concerns(p, f) => (Sold(p, f) - Bought(p, f)) * f.price = 0
  <1> DEFINE c == <<f.client, f.symbol>>
             m == f.quantity * f.price
             buy == a.total_buy[c] + IF f.side = "BUY" THEN m ELSE 0
             sell == a.total_sell[c] + IF f.side = "SELL" THEN m ELSE 0
  <1>1. c \in Pairs /\ f.side \in {"BUY", "SELL"} /\ f.quantity \in Int /\ f.price \in Int
    BY ClearingAssumption DEF Pairs
  <1>2. /\ a.positions \in [Pairs -> Int] /\ a.total_buy \in [Pairs -> Int]
        /\ a.total_sell \in [Pairs -> Int] /\ a.volume \in [Pairs -> Int]
        /\ a.raw_pnl \in [Pairs -> Int]
    BY DEF Accounts
  <1>3. m \in Int
    BY <1>1
  <1>4. PICK n \in Int : n = m
    BY <1>3
  <1>5. buy \in Int /\ sell \in Int
    BY <1>1, <1>2, <1>3
  <1>6. Filled(a, f) =
          [positions |-> [a.positions EXCEPT ![c] = IF f.side = "BUY" THEN @ + f.quantity ELSE @ - f.quantity],
           total_buy |-> [a.total_buy EXCEPT ![c] = buy],
           total_sell |-> [a.total_sell EXCEPT ![c] = sell],
           volume |-> [a.volume EXCEPT ![c] = @ + f.quantity],
           raw_pnl |-> [a.raw_pnl EXCEPT ![c] = sell - buy]]
    BY DEF Filled
  <1>7. (Sold(p, f) - Bought(p, f)) * f.price
           = IF p = c THEN IF f.side = "BUY" THEN -n ELSE n ELSE 0
    <2>1. (0 - f.quantity) * f.price = -n /\ (f.quantity - 0) * f.price = n /\ (0 - 0) * f.price = 0
      BY <1>1, <1>4
    <2>2. QED
      BY <1>1, <2>1 DEF Bought, Sold, Concerns
  <1>8. PICK b, s : b = buy /\ s = sell
    OBVIOUS
  <1>9. s - b = a.total_sell[c] - a.total_buy[c] + IF f.side = "BUY" THEN -n ELSE n
    BY <1>1, <1>2, <1>4, <1>8
  <1> HIDE DEF buy, sell, m
  <1>10. Filled(a, f) \in Accounts
    BY <1>1, <1>2, <1>5, <1>6 DEF Accounts
  <1>11. /\ Filled(a, f).positions[p] = a.positions[p] + (Bought(p, f) - Sold(p, f))
         /\ Filled(a, f).volume[p] = a.volume[p] + (Bought(p, f) + Sold(p, f))
    BY <1>1, <1>2, <1>6 DEF Bought, Sold, Concerns
  <1>12. Filled(a, f).total_sell[p] = (IF p = c THEN s ELSE a.total_sell[p])
         /\ Filled(a, f).total_buy[p] = (IF p = c THEN b ELSE a.total_buy[p])
         /\ Filled(a, f).raw_pnl[p] = IF p = c THEN s - b ELSE a.raw_pnl[p]
    BY <1>1, <1>2, <1>6, <1>8
  <1>13. Filled(a, f).total_sell[p] - Filled(a, f).total_buy[p]
                = a.total_sell[p] - a.total_buy[p] + (Sold(p, f) - Bought(p, f)) * f.price
    <2>1. CASE p = c
      BY <1>7, <1>9, <1>12, <2>1
    <2>2. CASE p # c
      BY <1>2, <1>7, <1>12, <2>2
    <2>3. QED
      BY <2>1, <2>2
  <1>14. QED
    BY <1>7, <1>10, <1>11, <1>12, <1>13 DEF Concerns

-----------------------------------------------------------------------------
(* What the fills add up to.  The sums are stated for any sequence of fills *)
(* and any set of positions in it.                                          *)

PositionTerms(fs, p) == [j \in DOMAIN fs |-> Bought(p, fs[j]) - Sold(p, fs[j])]
VolumeTerms(fs, p) == [j \in DOMAIN fs |-> Bought(p, fs[j]) + Sold(p, fs[j])]
PnlTerms(fs, p) == [j \in DOMAIN fs |-> (Sold(p, fs[j]) - Bought(p, fs[j])) * fs[j].price]

Position(fs, S, p) == Total(PositionTerms(fs, p), S)
Volume(fs, S, p) == Total(VolumeTerms(fs, p), S)
Pnl(fs, S, p) == Total(PnlTerms(fs, p), S)

\* These are the sums that the properties are stated with.
LEMMA SumsAre ==
    ASSUME NEW S, NEW p \in Pairs
    PROVE  /\ PositionsOf(S)[p] = Position(fills, S, p)
           /\ VolumeOf(S)[p] = Volume(fills, S, p)
           /\ PnlOf(S)[p] = Pnl(fills, S, p)
  BY DEF PositionsOf, VolumeOf, PnlOf, SumOver, Position, Volume, Pnl,
         PositionTerms, VolumeTerms, PnlTerms

\* The terms of the sums are integers.
LEMMA TermTypes ==
    ASSUME NEW fs \in Seq(Fills), NEW j \in DOMAIN fs, NEW p \in Pairs
    PROVE  PositionTerms(fs, p)[j] \in Int /\ VolumeTerms(fs, p)[j] \in Int /\ PnlTerms(fs, p)[j] \in Int
  <1>1. fs[j] \in Fills
    OBVIOUS
  <1>2. QED
    BY <1>1, Terms DEF PositionTerms, VolumeTerms, PnlTerms

\* The sums are integers.
LEMMA SumTypes ==
    ASSUME NEW fs \in Seq(Fills), NEW S, IsFiniteSet(S), S \subseteq DOMAIN fs, NEW p \in Pairs
    PROVE  Position(fs, S, p) \in Int /\ Volume(fs, S, p) \in Int /\ Pnl(fs, S, p) \in Int
  <1>1. \A j \in S : /\ PositionTerms(fs, p)[j] \in Int /\ VolumeTerms(fs, p)[j] \in Int
                     /\ PnlTerms(fs, p)[j] \in Int
    BY TermTypes
  <1>2. QED
    BY <1>1, TotalType DEF Position, Volume, Pnl

\* One more datagram adds its fill.
LEMMA OneMore ==
    ASSUME NEW fs \in Seq(Fills), NEW S, IsFiniteSet(S), S \subseteq DOMAIN fs,
           NEW i \in DOMAIN fs, i \notin S, NEW p \in Pairs
    PROVE  LET f == fs[i]  T == S \cup {i} IN
           /\ Position(fs, T, p) = Position(fs, S, p) + (Bought(p, f) - Sold(p, f))
           /\ Volume(fs, T, p) = Volume(fs, S, p) + (Bought(p, f) + Sold(p, f))
           /\ Pnl(fs, T, p) = Pnl(fs, S, p) + (Sold(p, f) - Bought(p, f)) * f.price
  <1>1. \A j \in S \cup {i} : /\ PositionTerms(fs, p)[j] \in Int /\ VolumeTerms(fs, p)[j] \in Int
                              /\ PnlTerms(fs, p)[j] \in Int
    BY TermTypes
  <1>2. /\ Position(fs, S \cup {i}, p) = Position(fs, S, p) + PositionTerms(fs, p)[i]
        /\ Volume(fs, S \cup {i}, p) = Volume(fs, S, p) + VolumeTerms(fs, p)[i]
        /\ Pnl(fs, S \cup {i}, p) = Pnl(fs, S, p) + PnlTerms(fs, p)[i]
    BY <1>1, TotalWith DEF Position, Volume, Pnl
  <1>3. QED
    BY <1>2 DEF PositionTerms, VolumeTerms, PnlTerms

\* Nothing adds up to nothing.
LEMMA NoneCounted ==
    ASSUME NEW fs, NEW p
    PROVE  Position(fs, {}, p) = 0 /\ Volume(fs, {}, p) = 0 /\ Pnl(fs, {}, p) = 0
  BY TotalEmpty DEF Position, Volume, Pnl

\* A fill that is published later changes no sum.
LEMMA PublishKeepsSums ==
    ASSUME NEW fs \in Seq(Fills), NEW f \in Fills, NEW S, IsFiniteSet(S), S \subseteq DOMAIN fs,
           NEW p
    PROVE  /\ Position(Append(fs, f), S, p) = Position(fs, S, p)
           /\ Volume(Append(fs, f), S, p) = Volume(fs, S, p)
           /\ Pnl(Append(fs, f), S, p) = Pnl(fs, S, p)
  <1> DEFINE gs == Append(fs, f)
  <1>1. \A j \in S : j \in DOMAIN fs /\ j \in DOMAIN gs /\ gs[j] = fs[j]
    OBVIOUS
  <1> HIDE DEF gs
  <1>2. \A j \in S : /\ PositionTerms(gs, p)[j] = PositionTerms(fs, p)[j]
                     /\ VolumeTerms(gs, p)[j] = VolumeTerms(fs, p)[j]
                     /\ PnlTerms(gs, p)[j] = PnlTerms(fs, p)[j]
    BY <1>1 DEF PositionTerms, VolumeTerms, PnlTerms
  <1>3. /\ Position(gs, S, p) = Position(fs, S, p)
        /\ Volume(gs, S, p) = Volume(fs, S, p)
        /\ Pnl(gs, S, p) = Pnl(fs, S, p)
    BY <1>2, TotalSame DEF Position, Volume, Pnl
  <1>4. QED
    BY <1>3 DEF gs

-----------------------------------------------------------------------------
(* The accounts of the two consumers after the fills of S. *)

\* The C++ accounts are right up to whole words.
CppRight(a, fs, S) ==
    \A p \in Pairs :
        /\ a.positions[p] = Signed(Position(fs, S, p))
        /\ a.volume[p] = Volume(fs, S, p) % Word
        /\ a.raw_pnl[p] = Signed(Pnl(fs, S, p))
        /\ \E k \in Int : a.total_sell[p] - a.total_buy[p] = Pnl(fs, S, p) + k * Word

\* The Python accounts are exact.
PyRight(a, fs, S) ==
    \A p \in Pairs :
        /\ a.positions[p] = Position(fs, S, p)
        /\ a.volume[p] = Volume(fs, S, p)
        /\ a.raw_pnl[p] = Pnl(fs, S, p)
        /\ a.total_sell[p] - a.total_buy[p] = Pnl(fs, S, p)

\* No fill, no accounts.
LEMMA StartsRight ==
    ASSUME NEW fs
    PROVE  /\ NoAccounts \in Accounts
           /\ CppRight(NoAccounts, fs, {}) /\ PyRight(NoAccounts, fs, {})
  <1>1. NoAccounts \in Accounts
    BY DEF NoAccounts, Accounts
  <1>2. Word \in Nat \ {0} /\ Word % 2 = 0
    BY ClearingAssumption
  <1>3. Signed(0) = 0 /\ 0 % Word = 0
    BY <1>2 DEF Signed
  <1>4. 0 \in Int /\ 0 - 0 = 0 + 0 * Word
    BY <1>2
  <1>5. CppRight(NoAccounts, fs, {})
    BY <1>3, <1>4, NoneCounted DEF CppRight, NoAccounts
  <1>6. PyRight(NoAccounts, fs, {})
    BY NoneCounted DEF PyRight, NoAccounts
  <1>7. QED
    BY <1>1, <1>5, <1>6

\* A fill that is published later changes nothing.
LEMMA PublishKeepsRight ==
    ASSUME NEW a, NEW fs \in Seq(Fills), NEW f \in Fills, NEW S, IsFiniteSet(S), S \subseteq DOMAIN fs
    PROVE  /\ CppRight(a, fs, S) => CppRight(a, Append(fs, f), S)
           /\ PyRight(a, fs, S) => PyRight(a, Append(fs, f), S)
  BY PublishKeepsSums DEF CppRight, PyRight

\* The Python client counts one more fill.
LEMMA PyAddsFill ==
    ASSUME NEW a \in Accounts, NEW fs \in Seq(Fills), NEW S, IsFiniteSet(S), S \subseteq DOMAIN fs,
           NEW i \in DOMAIN fs, i \notin S, PyRight(a, fs, S)
    PROVE  Filled(a, fs[i]) \in Accounts /\ PyRight(Filled(a, fs[i]), fs, S \cup {i})
  <1>1. fs[i] \in Fills /\ <<fs[i].client, fs[i].symbol>> \in Pairs
    BY ClearingAssumption DEF Pairs
  <1>2. \A p \in Pairs :
          /\ Bought(p, fs[i]) - Sold(p, fs[i]) \in Int
          /\ Bought(p, fs[i]) + Sold(p, fs[i]) \in Int
          /\ (Sold(p, fs[i]) - Bought(p, fs[i])) * fs[i].price \in Int
    BY <1>1, Terms
  <1>3. PICK b \in Accounts : b = Filled(a, fs[i])
    BY <1>1, FilledAt
  <1>4. ASSUME NEW p \in Pairs
        PROVE  /\ b.positions[p] = Position(fs, S \cup {i}, p)
               /\ b.volume[p] = Volume(fs, S \cup {i}, p)
               /\ b.raw_pnl[p] = Pnl(fs, S \cup {i}, p)
               /\ b.total_sell[p] - b.total_buy[p] = Pnl(fs, S \cup {i}, p)
    <2> DEFINE d == (Sold(p, fs[i]) - Bought(p, fs[i])) * fs[i].price
    <2>1. /\ b.positions[p] = a.positions[p] + (Bought(p, fs[i]) - Sold(p, fs[i]))
          /\ b.volume[p] = a.volume[p] + (Bought(p, fs[i]) + Sold(p, fs[i]))
          /\ b.total_sell[p] - b.total_buy[p] = a.total_sell[p] - a.total_buy[p] + d
          /\ b.raw_pnl[p] = IF Concerns(p, fs[i]) THEN b.total_sell[p] - b.total_buy[p] ELSE a.raw_pnl[p]
          /\ ~Concerns(p, fs[i]) => d = 0
      BY <1>1, <1>3, FilledAt
    <2>2. /\ Position(fs, S \cup {i}, p) = Position(fs, S, p) + (Bought(p, fs[i]) - Sold(p, fs[i]))
          /\ Volume(fs, S \cup {i}, p) = Volume(fs, S, p) + (Bought(p, fs[i]) + Sold(p, fs[i]))
          /\ Pnl(fs, S \cup {i}, p) = Pnl(fs, S, p) + d
      BY OneMore
    <2>3. Pnl(fs, S, p) \in Int /\ d \in Int
      BY <1>2, SumTypes
    <2> HIDE DEF d
    <2>4. QED
      BY <2>1, <2>2, <2>3 DEF PyRight
  <1>5. QED
    BY <1>3, <1>4 DEF PyRight

\* The C++ client counts one more fill: rounding to words before and after adding it is the
\* same as rounding after adding it.
LEMMA CppAddsFill ==
    ASSUME NEW a \in Accounts, NEW fs \in Seq(Fills), NEW S, IsFiniteSet(S), S \subseteq DOMAIN fs,
           NEW i \in DOMAIN fs, i \notin S, CppRight(a, fs, S)
    PROVE  Narrow(Filled(a, fs[i])) \in Accounts /\ CppRight(Narrow(Filled(a, fs[i])), fs, S \cup {i})
  <1>0. Word \in Nat \ {0}
    BY ClearingAssumption
  <1>1. fs[i] \in Fills /\ <<fs[i].client, fs[i].symbol>> \in Pairs
    BY ClearingAssumption DEF Pairs
  <1>2. \A p \in Pairs :
          /\ Bought(p, fs[i]) - Sold(p, fs[i]) \in Int
          /\ Bought(p, fs[i]) + Sold(p, fs[i]) \in Int
          /\ (Sold(p, fs[i]) - Bought(p, fs[i])) * fs[i].price \in Int
    BY <1>1, Terms
  <1>3. PICK b \in Accounts : b = Filled(a, fs[i])
    BY <1>1, FilledAt
  <1>4. PICK c : c = Narrow(b)
    OBVIOUS
  <1>5. ASSUME NEW p \in Pairs
        PROVE  /\ b.positions[p] \in Int /\ b.volume[p] \in Int /\ b.raw_pnl[p] \in Int
               /\ b.total_buy[p] \in Int /\ b.total_sell[p] \in Int
               /\ a.positions[p] \in Int /\ a.volume[p] \in Int /\ a.raw_pnl[p] \in Int
               /\ a.total_buy[p] \in Int /\ a.total_sell[p] \in Int
    BY DEF Accounts
  <1>6. c \in Accounts
    <2>1. \A p \in Pairs : Signed(b.positions[p]) \in Int /\ Signed(b.raw_pnl[p]) \in Int
      BY <1>5, SignedIs
    <2>2. \A n \in Int : n % Word \in Int
      BY <1>0
    <2>3. \A p \in Pairs : /\ b.volume[p] % Word \in Int
                           /\ b.total_buy[p] % Word \in Int /\ b.total_sell[p] % Word \in Int
      BY <1>5, <2>2
    <2>4. QED
      BY <1>4, <2>1, <2>3 DEF Narrow, Accounts
  <1>7. ASSUME NEW p \in Pairs
        PROVE  /\ c.positions[p] = Signed(Position(fs, S \cup {i}, p))
               /\ c.volume[p] = Volume(fs, S \cup {i}, p) % Word
               /\ c.raw_pnl[p] = Signed(Pnl(fs, S \cup {i}, p))
               /\ \E k \in Int : c.total_sell[p] - c.total_buy[p] = Pnl(fs, S \cup {i}, p) + k * Word
    <2>1. PICK x \in Int, y \in Int, z \in Int :
            /\ x = Bought(p, fs[i]) - Sold(p, fs[i])
            /\ y = Bought(p, fs[i]) + Sold(p, fs[i])
            /\ z = (Sold(p, fs[i]) - Bought(p, fs[i])) * fs[i].price
      BY <1>2
    <2>2. /\ b.positions[p] = a.positions[p] + x
          /\ b.volume[p] = a.volume[p] + y
          /\ b.total_sell[p] - b.total_buy[p] = a.total_sell[p] - a.total_buy[p] + z
          /\ b.raw_pnl[p] = IF Concerns(p, fs[i]) THEN b.total_sell[p] - b.total_buy[p] ELSE a.raw_pnl[p]
          /\ ~Concerns(p, fs[i]) => z = 0
      BY <1>1, <1>3, <2>1, FilledAt
    <2>3. PICK P \in Int, V \in Int, L \in Int :
            /\ P = Position(fs, S, p) /\ V = Volume(fs, S, p) /\ L = Pnl(fs, S, p)
      BY SumTypes
    <2>4. /\ Position(fs, S \cup {i}, p) = P + x
          /\ Volume(fs, S \cup {i}, p) = V + y
          /\ Pnl(fs, S \cup {i}, p) = L + z
      BY <2>1, <2>3, OneMore
    <2>5. /\ c.positions[p] = Signed(b.positions[p]) /\ c.volume[p] = b.volume[p] % Word
          /\ c.raw_pnl[p] = Signed(b.raw_pnl[p])
          /\ c.total_buy[p] = b.total_buy[p] % Word /\ c.total_sell[p] = b.total_sell[p] % Word
      BY <1>4 DEF Narrow
    <2>6. PICK k \in Int : a.total_sell[p] - a.total_buy[p] = L + k * Word
      BY <2>3 DEF CppRight
    <2>7. a.positions[p] = Signed(P) /\ a.volume[p] = V % Word /\ a.raw_pnl[p] = Signed(L)
      BY <2>3 DEF CppRight
    <2>8. c.positions[p] = Signed(P + x)
      BY <2>2, <2>5, <2>7, WordAdd
    <2>9. c.volume[p] = (V + y) % Word
      BY <2>2, <2>5, <2>7, WordAdd
    <2>10. b.total_sell[p] - b.total_buy[p] = (L + z) + k * Word
      BY <1>0, <2>2, <2>6
    <2>11. c.raw_pnl[p] = Signed(L + z)
      <3>1. CASE Concerns(p, fs[i])
        <4>1. b.raw_pnl[p] = (L + z) + k * Word
          BY <2>2, <2>10, <3>1
        <4>2. QED
          BY <1>5, <2>5, <4>1, SignedCongruent
      <3>2. CASE ~Concerns(p, fs[i])
        <4>1. b.raw_pnl[p] = Signed(L) + 0 /\ z = 0
          BY <1>5, <2>2, <2>7, <3>2
        <4>2. Signed(b.raw_pnl[p]) = Signed(L + 0)
          BY <4>1, WordAdd
        <4>3. QED
          BY <2>5, <4>1, <4>2
      <3>3. QED
        BY <3>1, <3>2
    <2>12. \E m \in Int : c.total_sell[p] - c.total_buy[p] = (L + z) + m * Word
      <3>1. PICK q \in Int, u \in 0..Word - 1 : b.total_sell[p] = q * Word + u /\ b.total_sell[p] % Word = u
        BY <1>0, <1>5, Division
      <3>2. PICK r \in Int, v \in 0..Word - 1 : b.total_buy[p] = r * Word + v /\ b.total_buy[p] % Word = v
        BY <1>0, <1>5, Division
      <3>3. u - v = (L + z) + (k - q + r) * Word
        BY <1>0, <2>10, <3>1, <3>2
      <3>4. k - q + r \in Int /\ c.total_sell[p] - c.total_buy[p] = u - v
        BY <2>5, <3>1, <3>2
      <3>5. QED
        BY <3>3, <3>4
    <2>13. QED
      BY <2>4, <2>8, <2>9, <2>11, <2>12
  <1>8. QED
    BY <1>3, <1>4, <1>6, <1>7 DEF CppRight

-----------------------------------------------------------------------------
(* The datagrams that the C++ client counts. *)

\* The datagrams of S from the first to the last one counted.
CountsTo(S, first, last) ==
    /\ first \in S /\ last \in S /\ first <= last
    /\ \A j \in S : first <= j
    /\ first..last \subseteq S /\ last + 1 \notin S

\* The last one counted is the number that the client remembers.
Remembers(S, last) == IF S = {} THEN last = 0 ELSE \E first \in S : CountsTo(S, first, last)

\* The members of S before the first number that S lacks since its first member.
Prefix(S) ==
    LET first == CHOOSE i \in S : \A j \in S : i <= j
    IN  IF S = {} THEN {} ELSE {i \in S : first..i \subseteq S}

\* Such a prefix is an interval.
LEMMA PrefixIs ==
    ASSUME NEW S \in SUBSET Nat, NEW first \in Nat, NEW last \in Nat, CountsTo(S, first, last)
    PROVE  Prefix(S) = first..last
  <1>1. (CHOOSE i \in S : \A j \in S : i <= j) = first
    <2>1. \A i \in S : (\A j \in S : i <= j) => i = first
      BY DEF CountsTo
    <2>2. first \in S /\ \A j \in S : first <= j
      BY DEF CountsTo
    <2>3. QED
      BY <2>1, <2>2
  <1>2. Prefix(S) = {i \in S : first..i \subseteq S}
    BY <1>1 DEF Prefix, CountsTo
  <1>3. ASSUME NEW i \in S, first..i \subseteq S PROVE i \in first..last
    <2>1. i \in Nat /\ i >= first /\ last + 1 \notin first..i /\ first <= last
      BY <1>3 DEF CountsTo
    <2>2. QED
      BY <2>1
  <1>4. ASSUME NEW i \in first..last PROVE i \in S /\ first..i \subseteq S
    BY <1>4 DEF CountsTo
  <1>5. QED
    BY <1>2, <1>3, <1>4

\* The next datagram is noticed to follow a gap, or is counted.
LEMMA NextDatagram ==
    ASSUME NEW n \in Nat, NEW S \in SUBSET (1..n), NEW last \in Nat, Remembers(S, last)
    PROVE  LET i == n + 1  T == S \cup {n + 1} IN
           IF last # 0 /\ i # last + 1
           THEN Remembers(T, last) /\ Prefix(T) = Prefix(S)
           ELSE Remembers(T, i) /\ Prefix(T) = Prefix(S) \cup {i}
  <1> DEFINE i == n + 1
             T == S \cup {n + 1}
  <1>1. S \in SUBSET Nat /\ T \in SUBSET Nat /\ i \in Nat /\ i \notin S /\ T # {}
    OBVIOUS
  <1>2. CASE S = {}
    <2>1. last = 0 /\ Prefix(S) = {}
      BY <1>2 DEF Remembers, Prefix
    <2>2. CountsTo(T, i, i)
      BY <1>2 DEF CountsTo
    <2>3. Prefix(T) = i..i
      BY <1>1, <2>2, PrefixIs
    <2>4. QED
      BY <1>1, <2>1, <2>2, <2>3 DEF Remembers
  <1>3. CASE S # {}
    <2>1. PICK first \in S : CountsTo(S, first, last)
      BY <1>3 DEF Remembers
    <2>2. first \in Nat /\ last \in 1..n /\ last # 0 /\ Prefix(S) = first..last /\ first <= last
      BY <1>1, <2>1, PrefixIs DEF CountsTo
    <2>3. CASE i # last + 1
      <3>1. CountsTo(T, first, last)
        BY <2>1, <2>2, <2>3 DEF CountsTo
      <3>2. Prefix(T) = first..last
        BY <1>1, <2>2, <3>1, PrefixIs
      <3>3. QED
        BY <2>2, <2>3, <3>1, <3>2 DEF Remembers
    <2>4. CASE i = last + 1
      <3>1. CountsTo(T, first, i)
        BY <2>1, <2>2, <2>4 DEF CountsTo
      <3>2. Prefix(T) = first..i
        BY <1>1, <2>2, <3>1, PrefixIs
      <3>3. first..i = (first..last) \cup {i}
        BY <2>2, <2>4
      <3>4. QED
        BY <2>2, <2>4, <3>1, <3>2, <3>3 DEF Remembers
    <2>5. QED
      BY <2>3, <2>4
  <1>4. QED
    BY <1>2, <1>3

-----------------------------------------------------------------------------
(* The consumers. *)

\* The feed and both sockets.
FeedOK ==
    /\ fills \in Seq(Fills) /\ Len(fills) <= MaxFills
    /\ joined \subseteq Consumers
    /\ read \in [Consumers -> Nat]
    /\ arrived \in [Consumers -> SUBSET Nat]
    /\ last_seq_num \in [Consumers -> Nat]
    /\ accounts \in [Consumers -> Accounts]
    /\ \A k \in Consumers : read[k] <= Len(fills) /\ arrived[k] \subseteq 1..read[k]

CppOK ==
    LET S == arrived["web_data"] IN
    /\ Remembers(S, last_seq_num["web_data"])
    /\ CppRight(accounts["web_data"], fills, Prefix(S))

PyOK == PyRight(accounts["etf_service"], fills, arrived["etf_service"])

\* The inductive invariant of the feed and its consumers.
ClearingInv == FeedOK /\ CppOK /\ PyOK

\* What has arrived is finite and was sent.
LEMMA ArrivedFinite ==
    ASSUME FeedOK, NEW k \in Consumers
    PROVE  LET S == arrived[k] IN
           /\ S \subseteq DOMAIN fills /\ IsFiniteSet(S)
           /\ Prefix(S) \subseteq S /\ IsFiniteSet(Prefix(S))
  <1>1. arrived[k] \subseteq 1..read[k] /\ read[k] \in Nat /\ read[k] <= Len(fills) /\ fills \in Seq(Fills)
    BY DEF FeedOK
  <1>2. IsFiniteSet(1..read[k])
    BY <1>1, FS_Interval
  <1>3. Prefix(arrived[k]) \subseteq arrived[k]
    BY DEF Prefix
  <1>4. QED
    BY <1>1, <1>2, <1>3, FS_Subset

\* The consumers start with nothing.
LEMMA InitClearing == ClearingInit => ClearingInv
  <1> SUFFICES ASSUME ClearingInit PROVE ClearingInv
    OBVIOUS
  <1>1. FeedOK
    BY StartsRight, ClearingAssumption DEF ClearingInit, FeedOK, Consumers
  <1>2. Prefix({}) = {}
    BY DEF Prefix
  <1>3. CppOK /\ PyOK
    BY <1>2, StartsRight DEF ClearingInit, Consumers, CppOK, PyOK, Remembers
  <1>4. QED
    BY <1>1, <1>3 DEF ClearingInv

\* Publishing concerns no consumer.
LEMMA PublishStep ==
    ASSUME ClearingInv, NEW f \in Fills, PublishFill(f)
    PROVE  ClearingInv'
  <1>1. FeedOK'
    <2>1. MaxFills \in Nat /\ fills \in Seq(Fills) /\ Len(fills) \in Nat
      BY ClearingAssumption DEF ClearingInv, FeedOK
    <2>2. fills' \in Seq(Fills) /\ Len(fills') = Len(fills) + 1 /\ Len(fills') <= MaxFills
      BY <2>1 DEF PublishFill
    <2>3. \A k \in Consumers : read[k] \in Nat /\ read[k] <= Len(fills')
      BY <2>1, <2>2 DEF ClearingInv, FeedOK
    <2>4. QED
      BY <2>2, <2>3 DEF ClearingInv, FeedOK, PublishFill
  <1>2. \A k \in Consumers : LET S == arrived[k] IN
           /\ S \subseteq DOMAIN fills /\ IsFiniteSet(S)
           /\ Prefix(S) \subseteq S /\ IsFiniteSet(Prefix(S))
    BY ArrivedFinite DEF ClearingInv
  <1>3. CppOK'
    BY <1>2, PublishKeepsRight DEF ClearingInv, FeedOK, CppOK, PublishFill, Consumers
  <1>4. PyOK'
    BY <1>2, PublishKeepsRight DEF ClearingInv, FeedOK, PyOK, PublishFill, Consumers
  <1>5. QED
    BY <1>1, <1>3, <1>4 DEF ClearingInv

\* Joining and losing a datagram count nothing.
LEMMA NothingCounted ==
    ASSUME ClearingInv, NEW k \in Consumers, Join(k) \/ Lose(k)
    PROVE  ClearingInv'
  <1>1. FeedOK'
    <2>1. CASE Join(k)
      BY <2>1 DEF ClearingInv, FeedOK, Join
    <2>2. CASE Lose(k)
      BY <2>2 DEF ClearingInv, FeedOK, Lose
    <2>3. QED
      BY <2>1, <2>2
  <1>2. UNCHANGED <<fills, arrived, last_seq_num, accounts>>
    BY DEF Join, Lose
  <1>3. CppOK' /\ PyOK'
    BY <1>2 DEF ClearingInv, CppOK, PyOK
  <1>4. QED
    BY <1>1, <1>3 DEF ClearingInv

\* The C++ client counts a datagram or refuses it.
LEMMA ProcessStep ==
    ASSUME ClearingInv, Process
    PROVE  ClearingInv'
  <1> DEFINE k == "web_data"
             n == read[k]
             i == read[k] + 1
             S == arrived[k]
             last == last_seq_num[k]
  <1>1. /\ k \in Consumers /\ "etf_service" \in Consumers /\ k # "etf_service"
        /\ n \in Nat /\ S \in SUBSET (1..n) /\ last \in Nat /\ n < Len(fills)
        /\ fills \in Seq(Fills) /\ i \in DOMAIN fills /\ accounts[k] \in Accounts
        /\ Remembers(S, last) /\ CppRight(accounts[k], fills, Prefix(S))
    BY DEF ClearingInv, FeedOK, CppOK, Process, Deliver, Consumers
  <1>2. S \subseteq DOMAIN fills /\ IsFiniteSet(S) /\ Prefix(S) \subseteq S /\ IsFiniteSet(Prefix(S))
    BY <1>1, ArrivedFinite DEF ClearingInv
  <1>3. i \notin S /\ i \notin Prefix(S)
    BY <1>1, <1>2
  <1>4. /\ fills' = fills /\ joined' = joined
        /\ read' = [read EXCEPT ![k] = i]
        /\ arrived' = [arrived EXCEPT ![k] = S \cup {i}]
    BY DEF Process, Deliver
  <1>5. CASE last # 0 /\ i # last + 1
    <2>1. UNCHANGED <<last_seq_num, accounts>>
      BY <1>5 DEF Process, Gap, Number
    <2>2. Remembers(S \cup {i}, last) /\ Prefix(S \cup {i}) = Prefix(S)
      BY <1>1, <1>5, NextDatagram
    <2>3. FeedOK'
      BY <1>1, <1>4, <2>1 DEF ClearingInv, FeedOK
    <2>4. CppOK' /\ PyOK'
      BY <1>1, <1>4, <2>1, <2>2 DEF ClearingInv, FeedOK, CppOK, PyOK
    <2>5. QED
      BY <2>3, <2>4 DEF ClearingInv
  <1>6. CASE ~(last # 0 /\ i # last + 1)
    <2> DEFINE a == Narrow(Filled(accounts[k], fills[i]))
    <2>1. /\ last_seq_num' = [last_seq_num EXCEPT ![k] = i]
          /\ accounts' = [accounts EXCEPT ![k] = a]
      BY <1>1, <1>6 DEF Process, Gap, Number, ClearingInv, FeedOK
    <2>2. Remembers(S \cup {i}, i) /\ Prefix(S \cup {i}) = Prefix(S) \cup {i}
      BY <1>1, <1>6, NextDatagram
    <2>3. a \in Accounts /\ CppRight(a, fills, Prefix(S) \cup {i})
      BY <1>1, <1>2, <1>3, CppAddsFill
    <2> HIDE DEF a
    <2>4. FeedOK'
      BY <1>1, <1>4, <2>1, <2>3 DEF ClearingInv, FeedOK
    <2>5. CppOK'
      BY <1>1, <1>4, <2>1, <2>2, <2>3 DEF ClearingInv, FeedOK, CppOK
    <2>6. PyOK'
      BY <1>1, <1>4, <2>1 DEF ClearingInv, FeedOK, PyOK
    <2>7. QED
      BY <2>4, <2>5, <2>6 DEF ClearingInv
  <1>7. QED
    BY <1>5, <1>6

\* The Python client counts every datagram.
LEMMA ProcessMessageStep ==
    ASSUME ClearingInv, ProcessMessage
    PROVE  ClearingInv'
  <1> DEFINE k == "etf_service"
             n == read[k]
             i == read[k] + 1
             S == arrived[k]
             a == Filled(accounts[k], fills[i])
  <1>1. /\ k \in Consumers /\ "web_data" \in Consumers /\ k # "web_data"
        /\ n \in Nat /\ S \in SUBSET (1..n) /\ n < Len(fills)
        /\ fills \in Seq(Fills) /\ i \in DOMAIN fills /\ accounts[k] \in Accounts
        /\ PyRight(accounts[k], fills, S)
    BY DEF ClearingInv, FeedOK, PyOK, ProcessMessage, Deliver, Consumers
  <1>2. S \subseteq DOMAIN fills /\ IsFiniteSet(S) /\ i \notin S
    BY <1>1, ArrivedFinite DEF ClearingInv
  <1>3. /\ fills' = fills /\ joined' = joined
        /\ read' = [read EXCEPT ![k] = i]
        /\ arrived' = [arrived EXCEPT ![k] = S \cup {i}]
        /\ last_seq_num' = [last_seq_num EXCEPT ![k] = i]
        /\ accounts' = [accounts EXCEPT ![k] = a]
    BY <1>1 DEF ProcessMessage, Deliver, Number, ClearingInv, FeedOK
  <1>4. a \in Accounts /\ PyRight(a, fills, S \cup {i})
    BY <1>1, <1>2, PyAddsFill
  <1> HIDE DEF a
  <1>5. FeedOK'
    BY <1>1, <1>3, <1>4 DEF ClearingInv, FeedOK
  <1>6. PyOK'
    BY <1>1, <1>3, <1>4 DEF ClearingInv, FeedOK, PyOK
  <1>7. CppOK'
    BY <1>1, <1>3 DEF ClearingInv, FeedOK, CppOK
  <1>8. QED
    BY <1>5, <1>6, <1>7 DEF ClearingInv

\* Every step of the feed keeps the invariant.
LEMMA NextClearing == ClearingInv /\ [ClearingNext]_clearingVars => ClearingInv'
  <1>1. ASSUME ClearingInv, UNCHANGED clearingVars PROVE ClearingInv'
    BY <1>1 DEF clearingVars, ClearingInv, FeedOK, CppOK, PyOK
  <1>2. QED
    BY <1>1, PublishStep, NothingCounted, ProcessStep, ProcessMessageStep DEF ClearingNext

\* The invariant says what the dashboard and the ETF service show.
LEMMA ClearingShows == ClearingInv => CppFollowsFeed /\ PyCountsArrivals
  <1> SUFFICES ASSUME ClearingInv PROVE CppFollowsFeed /\ PyCountsArrivals
    OBVIOUS
  <1>1. UpToGap("web_data") = Prefix(arrived["web_data"])
    BY DEF UpToGap, Prefix
  <1>2. CppFollowsFeed
    <2> DEFINE S == Prefix(arrived["web_data"])
    <2>1. S \subseteq DOMAIN fills /\ IsFiniteSet(S) /\ fills \in Seq(Fills)
      BY ArrivedFinite DEF ClearingInv, FeedOK, Consumers
    <2>2. ASSUME NEW p \in Pairs
          PROVE  Pnl(fills, S, p) \in -(Word \div 2)..(Word \div 2 - 1)
                   => Signed(Pnl(fills, S, p)) = Pnl(fills, S, p)
      BY SignedFits
    <2>3. CppRight(accounts["web_data"], fills, S)
      BY DEF ClearingInv, CppOK
    <2> HIDE DEF S
    <2>4. QED
      BY <1>1, <2>2, <2>3, SumsAre DEF CppFollowsFeed, CppRight, S
  <1>3. PyCountsArrivals
    <2> DEFINE a == accounts["etf_service"]
               S == arrived["etf_service"]
    <2>1. a \in Accounts
      BY DEF ClearingInv, FeedOK, Consumers
    <2>2. a.positions \in [Pairs -> Int] /\ a.volume \in [Pairs -> Int] /\ a.raw_pnl \in [Pairs -> Int]
      BY <2>1 DEF Accounts
    <2>3. \A p \in Pairs : /\ a.positions[p] = PositionsOf(S)[p] /\ a.volume[p] = VolumeOf(S)[p]
                           /\ a.raw_pnl[p] = PnlOf(S)[p]
      BY SumsAre DEF ClearingInv, PyOK, PyRight
    <2>4. /\ PositionsOf(S) = [p \in Pairs |-> PositionsOf(S)[p]]
          /\ VolumeOf(S) = [p \in Pairs |-> VolumeOf(S)[p]]
          /\ PnlOf(S) = [p \in Pairs |-> PnlOf(S)[p]]
      BY DEF PositionsOf, VolumeOf, PnlOf, SumOver
    <2>5. QED
      BY <2>2, <2>3, <2>4 DEF PyCountsArrivals
  <1>4. QED
    BY <1>2, <1>3

-----------------------------------------------------------------------------
(* The ledger. *)

\* What a request has found sufficient stays so until it finishes.
Holds(r, i) ==
    LET p == <<r.client, Needed(r.op)[i]>> IN etf_adjustments[p] + peak[p] >= r.amount

\* A request is handled under the lock, and everything it has looked at and not refused can
\* be paid for from positions that the client had.
HandlersOK ==
    \A t \in Threads :
        LET r == request[t] IN
        r # Idle => /\ lock = t
                    /\ r.checked <= Len(Needed(r.op))
                    /\ ~r.insufficient => \A i \in 1..r.checked : Holds(r, i)

PeakOK == peak \in [Pairs -> Int] /\ \A p \in Pairs : peak[p] >= ClearingPosition(p)

LedgerTypeOK ==
    /\ request \in [Threads -> Requests \cup {Idle}]
    /\ lock \in Threads \cup {NoThread}
    /\ etf_adjustments \in [Pairs -> Int]

\* The inductive invariant.
ServiceInv ==
    /\ ClearingInv /\ LedgerTypeOK /\ PeakOK /\ HandlersOK
    /\ AdjustmentsBalance /\ NothingSpentTwice

\* The larger of two numbers.
LEMMA MaxOfTwo ==
    ASSUME NEW a \in Int, NEW b \in Int
    PROVE  /\ FSets!Max({a, b}) \in Int
           /\ FSets!Max({a, b}) >= a /\ FSets!Max({a, b}) >= b
  <1>1. \E x \in {a, b} : \A y \in {a, b} : x >= y
    OBVIOUS
  <1>2. FSets!Max({a, b}) \in {a, b} /\ \A y \in {a, b} : FSets!Max({a, b}) >= y
    BY <1>1 DEF FSets!Max
  <1>3. QED
    BY <1>2

\* The positions that a request needs, and which symbols are what.
LEMMA NeededSymbols ==
    ASSUME NEW op \in {"create", "redeem"}
    PROVE  /\ Needed(op) \in Seq(Symbols) /\ Len(Needed(op)) \in Nat
           /\ ETF_SYMBOL \in Symbols /\ ETF_SYMBOL \notin Underlyings
           /\ Underlyings \subseteq Symbols
           /\ \A i \in 1..Len(Needed(op)) : Needed(op)[i] \in Symbols
           /\ \A u \in Underlyings : \E i \in 1..Len(Needed("create")) : Needed("create")[i] = u
           /\ Len(Needed("redeem")) = 1 /\ Needed("redeem")[1] = ETF_SYMBOL
  <1>1. /\ UNDERLYING_SYMBOLS \in Seq(Symbols) /\ ETF_SYMBOL \in Symbols
        /\ ETF_SYMBOL \notin Underlyings
    BY LedgerAssumption
  <1>2. Needed("create") = UNDERLYING_SYMBOLS /\ Needed("redeem") = <<ETF_SYMBOL>>
    BY DEF Needed
  <1>3. Underlyings = {UNDERLYING_SYMBOLS[i] : i \in 1..Len(UNDERLYING_SYMBOLS)}
    BY <1>1 DEF Underlyings
  <1>4. \A i \in 1..Len(UNDERLYING_SYMBOLS) : UNDERLYING_SYMBOLS[i] \in Symbols
    BY <1>1
  <1>5. Underlyings \subseteq Symbols
    BY <1>3, <1>4
  <1>6. CASE op = "create"
    BY <1>1, <1>2, <1>3, <1>4, <1>5, <1>6
  <1>7. CASE op = "redeem"
    BY <1>1, <1>2, <1>3, <1>4, <1>5, <1>7, SMTT(40)
  <1>8. QED
    BY <1>6, <1>7

\* The service starts idle.
LEMMA InitService == ServiceInit => ServiceInv
  <1> SUFFICES ASSUME ServiceInit PROVE ServiceInv
    OBVIOUS
  <1>1. ClearingInv
    BY InitClearing DEF ServiceInit
  <1>2. LedgerTypeOK /\ HandlersOK
    BY DEF ServiceInit, LedgerTypeOK, HandlersOK
  <1>3. PeakOK
    BY DEF ServiceInit, ClearingInit, Consumers, NoAccounts, PeakOK, ClearingPosition
  <1>4. AdjustmentsBalance /\ NothingSpentTwice
    BY LedgerAssumption DEF ServiceInit, AdjustmentsBalance, NothingSpentTwice, Pairs
  <1>5. QED
    BY <1>1, <1>2, <1>3, <1>4 DEF ServiceInv

\* A fill changes no adjustment, and a peak never falls.
LEMMA FeedStep ==
    ASSUME ServiceInv, Feed
    PROVE  ServiceInv'
  <1>1. ClearingInv'
    BY NextClearing DEF ServiceInv, Feed
  <1>2. LedgerTypeOK'
    BY DEF ServiceInv, LedgerTypeOK, Feed
  <1>3. ASSUME NEW p \in Pairs
        PROVE  /\ peak[p] \in Int /\ peak'[p] \in Int
               /\ peak'[p] >= peak[p] /\ peak'[p] >= ClearingPosition(p)'
    <2>1. ClearingPosition(p)' = accounts'["etf_service"].positions[p]
      BY DEF ClearingPosition
    <2>2. accounts' \in [Consumers -> Accounts] /\ "etf_service" \in Consumers
      BY <1>1 DEF ClearingInv, FeedOK, Consumers
    <2>3. accounts'["etf_service"].positions[p] \in Int /\ peak[p] \in Int
      BY <2>2 DEF Accounts, ServiceInv, PeakOK
    <2>4. peak'[p] = FSets!Max({peak[p], accounts'["etf_service"].positions[p]})
      BY DEF Feed
    <2>5. QED
      BY <2>1, <2>3, <2>4, MaxOfTwo
  <1>4. PeakOK'
    <2>1. peak' \in [Pairs -> Int]
      BY <1>3 DEF Feed
    <2>2. QED
      BY <1>3, <2>1 DEF PeakOK
  <1>5. etf_adjustments' = etf_adjustments /\ request' = request /\ lock' = lock
    BY DEF Feed
  <1>6. HandlersOK'
    <2> SUFFICES ASSUME NEW t \in Threads, request[t] # Idle
                 PROVE  /\ lock = t
                        /\ request[t].checked <= Len(Needed(request[t].op))
                        /\ ~request[t].insufficient =>
                              \A i \in 1..request[t].checked : Holds(request[t], i)'
      BY <1>5 DEF HandlersOK, Holds
    <2>1. lock = t /\ request[t].checked <= Len(Needed(request[t].op))
      BY DEF ServiceInv, HandlersOK
    <2>2. request[t] \in Requests
      BY DEF ServiceInv, LedgerTypeOK
    <2>3. PICK r \in Requests : r = request[t]
      BY <2>2
    <2>4. ASSUME ~r.insufficient, NEW i \in 1..r.checked PROVE Holds(request[t], i)'
      <3> DEFINE p == <<r.client, Needed(r.op)[i]>>
      <3>1. r.checked \in Nat /\ r.client \in Clients /\ r.op \in {"create", "redeem"} /\ r.amount \in Int
        BY LedgerAssumption DEF Requests
      <3>2. i \in 1..Len(Needed(r.op))
        BY <2>1, <2>3, <3>1, NeededSymbols
      <3>3. p \in Pairs
        BY <3>1, <3>2, NeededSymbols DEF Pairs
      <3>4. etf_adjustments[p] + peak[p] >= r.amount
        BY <2>3, <2>4 DEF ServiceInv, HandlersOK, Holds
      <3>5. etf_adjustments[p] \in Int
        BY <3>3 DEF ServiceInv, LedgerTypeOK
      <3>6. etf_adjustments'[p] + peak'[p] >= r.amount
        BY <1>3, <1>5, <3>1, <3>3, <3>4, <3>5
      <3>7. QED
        BY <1>5, <2>3, <3>6 DEF Holds
    <2>5. QED
      BY <2>1, <2>3, <2>4
  <1>7. AdjustmentsBalance'
    BY <1>5 DEF ServiceInv, AdjustmentsBalance
  <1>8. NothingSpentTwice'
    <2>1. \A p \in Pairs : etf_adjustments[p] \in Int
      BY DEF ServiceInv, LedgerTypeOK
    <2>2. QED
      BY <1>3, <1>5, <2>1 DEF ServiceInv, NothingSpentTwice
  <1>9. QED
    BY <1>1, <1>2, <1>4, <1>6, <1>7, <1>8 DEF ServiceInv

\* A request enters when no other holds the lock, and has looked at nothing.
LEMMA BeginStep ==
    ASSUME ServiceInv, NEW t \in Threads, NEW op \in {"create", "redeem"}, NEW client \in Clients,
           NEW amount \in Amounts, Begin(t, op, client, amount)
    PROVE  ServiceInv'
  <1> DEFINE r == [op |-> op, client |-> client, amount |-> amount, checked |-> 0,
                   insufficient |-> FALSE]
  <1>1. /\ lock = NoThread /\ lock' = t
        /\ request' = [request EXCEPT ![t] = r]
        /\ UNCHANGED <<clearingVars, etf_adjustments, peak>>
    BY DEF Begin, MayEnter
  <1>2. r \in Requests
    BY DEF Begin, ValidAmount, Requests
  <1>3. ClearingInv' /\ PeakOK' /\ AdjustmentsBalance' /\ NothingSpentTwice'
    BY <1>1 DEF ServiceInv, ClearingInv, FeedOK, CppOK, PyOK, clearingVars, PeakOK,
                ClearingPosition, AdjustmentsBalance, NothingSpentTwice
  <1>4. LedgerTypeOK'
    BY <1>1, <1>2 DEF ServiceInv, LedgerTypeOK
  <1>5. HandlersOK'
    <2>1. ASSUME NEW u \in Threads, u # t PROVE request'[u] = Idle
      BY <1>1, <2>1, LedgerAssumption DEF ServiceInv, LedgerTypeOK, HandlersOK
    <2>2. request'[t] = r
      BY <1>1 DEF ServiceInv, LedgerTypeOK
    <2>3. r.checked <= Len(Needed(r.op)) /\ 1..r.checked = {}
      BY NeededSymbols
    <2> HIDE DEF r
    <2>4. QED
      BY <1>1, <2>1, <2>2, <2>3 DEF HandlersOK
  <1>6. QED
    BY <1>3, <1>4, <1>5 DEF ServiceInv

\* A position that suffices now is at most the highest one, whatever fills come later.
LEMMA CheckStep ==
    ASSUME ServiceInv, NEW t \in Threads, CheckPosition(t)
    PROVE  ServiceInv'
  <1>1. UNCHANGED <<clearingVars, lock, etf_adjustments, peak>>
    BY DEF CheckPosition
  <1>2. ClearingInv' /\ PeakOK' /\ AdjustmentsBalance' /\ NothingSpentTwice'
    BY <1>1 DEF ServiceInv, ClearingInv, FeedOK, CppOK, PyOK, clearingVars, PeakOK,
                ClearingPosition, AdjustmentsBalance, NothingSpentTwice
  <1>3. PICK r \in Requests : r = request[t]
    BY DEF ServiceInv, LedgerTypeOK, CheckPosition
  <1>4. /\ r.op \in {"create", "redeem"} /\ r.client \in Clients /\ r.amount \in Int
        /\ r.checked \in Nat /\ r.insufficient \in BOOLEAN
    BY LedgerAssumption DEF Requests
  <1> DEFINE p == <<r.client, Needed(r.op)[r.checked + 1]>>
             e == r.insufficient \/ EffectivePosition(p) < r.amount
  <1>5. PICK s : s = [r EXCEPT !.checked = r.checked + 1, !.insufficient = e]
    OBVIOUS
  <1>6. /\ s \in Requests /\ s.op = r.op /\ s.client = r.client /\ s.amount = r.amount
        /\ s.checked = r.checked + 1
        /\ ~s.insufficient => ~r.insufficient /\ ~(EffectivePosition(p) < r.amount)
    <2>1. e \in BOOLEAN
      OBVIOUS
    <2> HIDE DEF e
    <2>2. s.insufficient = e
      BY <1>5 DEF Requests
    <2>3. s = [op |-> r.op, client |-> r.client, amount |-> r.amount, checked |-> r.checked + 1,
               insufficient |-> e]
      BY <1>5 DEF Requests
    <2>4. r.amount \in {n \in Amounts : n > 0} /\ r.checked + 1 \in Nat
      BY DEF Requests
    <2>5. s \in Requests
      BY <1>4, <2>1, <2>3, <2>4 DEF Requests
    <2>6. s.op = r.op /\ s.client = r.client /\ s.amount = r.amount /\ s.checked = r.checked + 1
      BY <2>3
    <2>7. QED
      BY <2>2, <2>5, <2>6 DEF e
  <1>7. r.checked < Len(Needed(r.op)) /\ request' = [request EXCEPT ![t] = s]
    BY <1>3, <1>5 DEF CheckPosition, ServiceInv, LedgerTypeOK
  <1>8. p \in Pairs
    BY <1>4, <1>7, NeededSymbols DEF Pairs
  <1>9. ~(EffectivePosition(p) < r.amount) => etf_adjustments[p] + peak[p] >= r.amount
    <2>1. /\ etf_adjustments[p] \in Int /\ peak[p] \in Int /\ peak[p] >= ClearingPosition(p)
          /\ ClearingPosition(p) \in Int
      BY <1>8 DEF ServiceInv, LedgerTypeOK, PeakOK, ClearingInv, FeedOK, Accounts, Consumers,
                  ClearingPosition
    <2>2. QED
      BY <1>4, <2>1 DEF EffectivePosition
  <1> HIDE DEF e
  <1>10. LedgerTypeOK'
    BY <1>1, <1>7, <1>6 DEF ServiceInv, LedgerTypeOK
  <1>11. HandlersOK'
    <2>1. lock = t /\ ~r.insufficient => \A i \in 1..r.checked : Holds(r, i)
      BY <1>3 DEF ServiceInv, HandlersOK, CheckPosition
    <2>2. ASSUME NEW u \in Threads, u # t PROVE request'[u] = Idle
      BY <1>7, <2>2, <1>3 DEF ServiceInv, LedgerTypeOK, HandlersOK, CheckPosition
    <2>3. request'[t] = s /\ lock' = t
      BY <1>1, <1>3, <1>7 DEF ServiceInv, LedgerTypeOK, HandlersOK, CheckPosition
    <2>4. s.checked <= Len(Needed(s.op))
      BY <1>4, <1>7, <1>6, NeededSymbols
    <2>5. ASSUME ~s.insufficient, NEW i \in 1..s.checked
          PROVE  Holds(s, i)'
      <3>1. CASE i \in 1..r.checked
        <4>1. Holds(r, i)
          BY <1>6, <2>1, <2>5, <3>1, <1>3 DEF ServiceInv, HandlersOK, CheckPosition
        <4>2. QED
          BY <1>1, <1>6, <4>1 DEF Holds
      <3>2. CASE i = r.checked + 1
        BY <1>1, <1>6, <1>9, <2>5, <3>2 DEF Holds
      <3>3. QED
        BY <1>4, <1>6, <3>1, <3>2
    <2>6. QED
      BY <2>2, <2>3, <2>4, <2>5 DEF HandlersOK, Holds
  <1>12. QED
    BY <1>2, <1>10, <1>11 DEF ServiceInv

\* Creating or redeeming: what is debited was found sufficient.
LEMMA FinishStep ==
    ASSUME ServiceInv, NEW t \in Threads, Finish(t)
    PROVE  ServiceInv'
  <1>1. UNCHANGED <<clearingVars, peak>> /\ lock' = NoThread /\ request' = [request EXCEPT ![t] = Idle]
    BY DEF Finish
  <1>2. ClearingInv' /\ PeakOK'
    BY <1>1 DEF ServiceInv, ClearingInv, FeedOK, CppOK, PyOK, clearingVars, PeakOK, ClearingPosition
  <1>3. PICK r \in Requests : r = request[t]
    BY DEF ServiceInv, LedgerTypeOK, Finish
  <1>4. /\ r.op \in {"create", "redeem"} /\ r.client \in Clients /\ r.amount \in Int /\ r.amount > 0
        /\ r.checked = Len(Needed(r.op)) /\ lock = t
        /\ ~r.insufficient => \A i \in 1..r.checked : Holds(r, i)
    BY <1>3, LedgerAssumption DEF Requests, Finish, ServiceInv, HandlersOK
  <1>5. HandlersOK'
    BY <1>1, <1>4 DEF ServiceInv, LedgerTypeOK, HandlersOK
  <1>6. CASE r.insufficient
    <2>1. etf_adjustments' = etf_adjustments
      BY <1>3, <1>6 DEF Finish
    <2>2. LedgerTypeOK' /\ AdjustmentsBalance' /\ NothingSpentTwice'
      BY <1>1, <2>1 DEF ServiceInv, LedgerTypeOK, AdjustmentsBalance, NothingSpentTwice
    <2>3. QED
      BY <1>2, <1>5, <2>2 DEF ServiceInv
  <1>7. CASE ~r.insufficient
    <2> DEFINE n == IF r.op = "create" THEN r.amount ELSE -r.amount
               Change(p) == CASE p[1] # r.client -> 0
                              [] p = <<r.client, ETF_SYMBOL>> -> n
                              [] p[2] \in Underlyings /\ p[1] = r.client -> -n
                              [] OTHER -> 0
    <2>1. n \in Int
      BY <1>4
    <2>2. etf_adjustments' = [p \in Pairs |-> etf_adjustments[p] + Change(p)]
      BY <1>3, <1>7 DEF Finish, Adjusted
    <2>3. ASSUME NEW client \in Clients, NEW symbol \in Symbols
          PROVE  /\ <<client, symbol>> \in Pairs
                 /\ Change(<<client, symbol>>) =
                       IF client # r.client THEN 0
                       ELSE IF symbol = ETF_SYMBOL THEN n
                       ELSE IF symbol \in Underlyings THEN -n ELSE 0
      <3>1. ETF_SYMBOL \notin Underlyings /\ <<client, symbol>>[1] = client /\ <<client, symbol>>[2] = symbol
        BY LedgerAssumption
      <3>2. <<client, symbol>> = <<r.client, ETF_SYMBOL>> <=> client = r.client /\ symbol = ETF_SYMBOL
        OBVIOUS
      <3> HIDE DEF n
      <3>3. QED
        BY <3>1, <3>2 DEF Pairs
    <2> HIDE DEF Change
    <2>4. ASSUME NEW p \in Pairs
          PROVE  \E client \in Clients, symbol \in Symbols : p = <<client, symbol>>
      BY DEF Pairs
    <2>5. ASSUME NEW p \in Pairs PROVE Change(p) \in Int /\ etf_adjustments[p] \in Int
      BY <2>1, <2>3, <2>4 DEF ServiceInv, LedgerTypeOK
    <2>6. LedgerTypeOK'
      BY <1>1, <2>2, <2>5 DEF ServiceInv, LedgerTypeOK
    <2>7. AdjustmentsBalance'
      <3> SUFFICES ASSUME NEW client \in Clients, NEW symbol \in Symbols \ {ETF_SYMBOL}
                   PROVE  etf_adjustments'[<<client, symbol>>] =
                            IF symbol \in Underlyings THEN -etf_adjustments'[<<client, ETF_SYMBOL>>] ELSE 0
        BY DEF AdjustmentsBalance
      <3>1. ETF_SYMBOL \in Symbols
        BY LedgerAssumption
      <3>2. etf_adjustments[<<client, symbol>>] =
              IF symbol \in Underlyings THEN -etf_adjustments[<<client, ETF_SYMBOL>>] ELSE 0
        BY DEF ServiceInv, AdjustmentsBalance
      <3>3. /\ etf_adjustments'[<<client, symbol>>]
                 = etf_adjustments[<<client, symbol>>] + Change(<<client, symbol>>)
            /\ etf_adjustments'[<<client, ETF_SYMBOL>>]
                 = etf_adjustments[<<client, ETF_SYMBOL>>] + Change(<<client, ETF_SYMBOL>>)
        BY <2>2, <2>3, <3>1
      <3>4. /\ Change(<<client, symbol>>) =
                 IF client # r.client THEN 0 ELSE IF symbol \in Underlyings THEN -n ELSE 0
            /\ Change(<<client, ETF_SYMBOL>>) = IF client # r.client THEN 0 ELSE n
        BY <2>3, <3>1
      <3>5. etf_adjustments[<<client, ETF_SYMBOL>>] \in Int
        BY <2>3, <2>5, <3>1
      <3> HIDE DEF n
      <3>6. QED
        BY <2>1, <3>2, <3>3, <3>4, <3>5
    <2>8. NothingSpentTwice'
      <3> SUFFICES ASSUME NEW p \in Pairs
                   PROVE  etf_adjustments'[p] + peak[p] >= 0
        BY <1>1 DEF NothingSpentTwice
      <3>1. PICK client \in Clients, symbol \in Symbols : p = <<client, symbol>>
        BY <2>4
      <3>2. /\ etf_adjustments[p] \in Int /\ peak[p] \in Int /\ etf_adjustments[p] + peak[p] >= 0
            /\ etf_adjustments'[p] = etf_adjustments[p] + Change(p)
        BY <2>2, <2>5 DEF ServiceInv, PeakOK, NothingSpentTwice
      <3>3. CASE client = r.client /\ symbol \in Underlyings /\ r.op = "create"
        <4>1. PICK i \in 1..r.checked : Needed(r.op)[i] = symbol
          BY <1>4, <3>3, NeededSymbols
        <4>2. etf_adjustments[p] + peak[p] >= r.amount
          BY <1>4, <1>7, <3>1, <3>3, <4>1 DEF Holds
        <4>3. Change(p) = -r.amount
          BY <2>3, <3>1, <3>3, NeededSymbols
        <4>4. QED
          BY <1>4, <3>2, <4>2, <4>3
      <3>4. CASE client = r.client /\ symbol = ETF_SYMBOL /\ r.op = "redeem"
        <4>1. 1 \in 1..r.checked /\ Needed(r.op)[1] = symbol
          BY <1>4, <3>4, NeededSymbols
        <4>2. etf_adjustments[p] + peak[p] >= r.amount
          BY <1>4, <1>7, <3>1, <3>4, <4>1 DEF Holds
        <4>3. Change(p) = -r.amount
          BY <2>3, <3>1, <3>4
        <4>4. QED
          BY <1>4, <3>2, <4>2, <4>3
      <3>5. CASE /\ ~(client = r.client /\ symbol \in Underlyings /\ r.op = "create")
                 /\ ~(client = r.client /\ symbol = ETF_SYMBOL /\ r.op = "redeem")
        <4>1. Change(p) >= 0 /\ Change(p) \in Int
          BY <1>4, <2>3, <3>1, <3>5
        <4>2. QED
          BY <3>2, <4>1
      <3>6. QED
        BY <3>3, <3>4, <3>5
    <2>9. QED
      BY <1>2, <1>5, <2>6, <2>7, <2>8 DEF ServiceInv
  <1>8. QED
    BY <1>6, <1>7, <1>4 DEF Requests

\* The inductive invariant holds in every reachable state.
THEOREM ServiceInvariant == ServiceSpec => []ServiceInv
  <1>1. ServiceInv /\ [ServiceNext]_serviceVars => ServiceInv'
    <2> SUFFICES ASSUME ServiceInv, [ServiceNext]_serviceVars PROVE ServiceInv'
      OBVIOUS
    <2>1. CASE Feed
      BY <2>1, FeedStep
    <2>2. ASSUME NEW t \in Threads, Handler(t) PROVE ServiceInv'
      BY <2>2, BeginStep, CheckStep, FinishStep DEF Handler
    <2>3. CASE UNCHANGED serviceVars
      BY <2>3 DEF serviceVars, ledgerVars, clearingVars, ServiceInv, ClearingInv, FeedOK, CppOK,
                  PyOK, LedgerTypeOK, PeakOK, ClearingPosition, HandlersOK, Holds,
                  AdjustmentsBalance, NothingSpentTwice
    <2>4. QED
      BY <2>1, <2>2, <2>3 DEF ServiceNext
  <1>2. QED
    BY <1>1, InitService, PTL DEF ServiceSpec

\* ServiceTypeOK in every reachable state: a request that is being handled asks for a
\* positive amount of something, whatever amounts arrive (create_etf, redeem_etf).
THEOREM ServiceTypes == ServiceSpec => []ServiceTypeOK
  <1>1. ServiceInv => ServiceTypeOK
    <2> SUFFICES ASSUME ServiceInv PROVE ServiceTypeOK
      OBVIOUS
    <2>1. /\ fills \in Seq(Fills) /\ Len(fills) \in Nat /\ Len(fills) <= MaxFills
          /\ MaxFills \in Nat /\ read \in [Consumers -> Nat]
          /\ \A k \in Consumers : read[k] <= Len(fills)
      BY ClearingAssumption DEF ServiceInv, ClearingInv, FeedOK
    <2>2. \A k \in Consumers : read[k] \in 0..MaxFills
      BY <2>1
    <2>3. read \in [Consumers -> 0..MaxFills]
      BY <2>1, <2>2
    <2>4. QED
      BY <2>1, <2>3 DEF ServiceTypeOK, ServiceInv, LedgerTypeOK
  <1>2. QED
    BY <1>1, ServiceInvariant, PTL

\* The C++ dashboard's accounts, for every width of its words (ClearingClient::process).
THEOREM CppFollows == ServiceSpec => []CppFollowsFeed
  <1>1. ServiceInv => CppFollowsFeed
    BY ClearingShows DEF ServiceInv
  <1>2. QED
    BY <1>1, ServiceInvariant, PTL

\* The ETF service's accounts (_process_message, _process_fill).
THEOREM PyCounts == ServiceSpec => []PyCountsArrivals
  <1>1. ServiceInv => PyCountsArrivals
    BY ClearingShows DEF ServiceInv
  <1>2. QED
    BY <1>1, ServiceInvariant, PTL

\* Creation and redemption balance (create_etf, redeem_etf).
THEOREM LedgerBalances == ServiceSpec => []AdjustmentsBalance
  <1>1. ServiceInv => AdjustmentsBalance
    BY DEF ServiceInv
  <1>2. QED
    BY <1>1, ServiceInvariant, PTL

\* However many threads handle requests and whatever fills come between two of their
\* steps, no position is spent twice (create_etf, redeem_etf).
THEOREM LedgerNeverOverspends == ServiceSpec => []NothingSpentTwice
  <1>1. ServiceInv => NothingSpentTwice
    BY DEF ServiceInv
  <1>2. QED
    BY <1>1, ServiceInvariant, PTL
=============================================================================
