------------------------- MODULE MarketMakerProofs --------------------------
(***************************************************************************)
(* That a market making bot keeps sight of its orders: what it lists, what *)
(* its order entry client knows, what is on the connection and what the    *)
(* exchange has fit together, for any number of orders, any depth of the   *)
(* stack and any prices.                                                   *)
(***************************************************************************)
EXTENDS MarketMaker, SumProofs

-----------------------------------------------------------------------------
(* The inductive invariant. *)

IdsOf(S) == {o.id : o \in S}

Request == [type : {"NEW_ORDER", "MODIFY_ORDER"}, id : Ids, side : Side, price : Int]
           \cup [type : {"DELETE_ORDER"}, id : Ids]

ReportType == [type : {"FILL"}, id : Ids, quantity : Nat] \cup [type : {"CLOSE"}, id : Ids]
              \cup [type : {"ERROR"}]

MakerTypes ==
    /\ maker \in {"stack", "pair"} /\ mode \in {"off", "running", "ended"}
    /\ sent \in BOOLEAN /\ session \in BOOLEAN
    /\ last_order_id \in 1..(MaxOrders + 1)
    /\ orders \in [Side -> SUBSET Orders] /\ \A side \in Side : IsFiniteSet(orders[side])
    /\ DOMAIN open_orders \subseteq Ids
    /\ open_orders \in [DOMAIN open_orders -> Side \cup {"unknown"}]
    /\ positions \in [{0, 1} -> Int]
    /\ requests \in Seq(Request) /\ reports \in Seq(ReportType)
    /\ DOMAIN open \subseteq Ids /\ open \in [DOMAIN open -> [side : Side, price : Int]]
    /\ filled \in [Side -> Nat] /\ unsent \subseteq Ids

\* What the bot lists: one order per price and no more than there is room for, each order
\* once and on one side.
ListsOK ==
    /\ \A side \in Side :
         /\ Cardinality(orders[side]) <= IF maker = "stack" THEN stack_depth ELSE 1
         /\ \A o, p \in orders[side] : o.price = p.price \/ o.id = p.id => o = p
    /\ IdsOf(orders["BUY"]) \cap IdsOf(orders["SELL"]) = {}
    /\ StackUncrossed

\* An order id that has not been used is nowhere.
FreshOK ==
    /\ \A id \in Listed \cup DOMAIN open_orders \cup unsent : id < last_order_id
    /\ \A i \in DOMAIN requests : requests[i].id < last_order_id
    /\ \A i \in DOMAIN reports : reports[i].type # "ERROR" => reports[i].id < last_order_id

\* The client knows an order from before it is sent until after its last report.
KnownOK ==
    /\ \A id \in DOMAIN open :
         /\ id \in DOMAIN open_orders /\ open_orders[id] = open[id].side
         /\ \A i \in DOMAIN reports : reports[i].type = "CLOSE" => reports[i].id # id
    /\ \A i \in DOMAIN reports : reports[i].type = "FILL" =>
         /\ reports[i].id \in DOMAIN open_orders /\ open_orders[reports[i].id] \in Side
         /\ \A j \in DOMAIN reports : reports[j].type = "CLOSE" /\ reports[j].id = reports[i].id => i < j
    /\ \A i \in DOMAIN requests : requests[i].type = "NEW_ORDER" =>
         /\ requests[i].id \in DOMAIN open_orders /\ open_orders[requests[i].id] = requests[i].side
         /\ requests[i].id \notin DOMAIN open
         /\ \A j \in DOMAIN reports : reports[j].type # "ERROR" => reports[j].id # requests[i].id
         /\ \A j \in DOMAIN requests :
              requests[j].type = "NEW_ORDER" /\ requests[j].id = requests[i].id => i = j

\* An order on its way to the exchange is listed, or its cancel follows it.
OrphanOK ==
    /\ NoOrphans
    /\ \A i \in DOMAIN requests :
         requests[i].type = "NEW_ORDER" /\ requests[i].id \notin unsent =>
             \/ requests[i].id \in Listed
             \/ \E j \in Pending(requests[i].id) : i < j /\ requests[j].type = "DELETE_ORDER"

\* The last request about a listed order has the price at which it is listed.
PriceOK ==
    \A side \in Side : \A o \in orders[side] : o.id \notin unsent =>
        /\ \A i \in Pending(o.id) :
             /\ requests[i].type # "DELETE_ORDER" /\ requests[i].side = side
             /\ (\A j \in Pending(o.id) : j <= i) => requests[i].price = o.price
        /\ o.id \in DOMAIN open =>
             /\ open[o.id].side = side
             /\ Pending(o.id) = {} => open[o.id].price = o.price

BookedOK ==
    /\ positions[1] + FillsInFlight("BUY") - FillsInFlight("SELL") = filled["BUY"] - filled["SELL"]
    /\ positions[0] = 0

MakerInv == MakerTypes /\ ListsOK /\ FreshOK /\ KnownOK /\ OrphanOK /\ PriceOK /\ BookedOK

-----------------------------------------------------------------------------
(* Sets in a row. *)

\* A finite set of integers that is not empty has a greatest element.
LEMMA GreatestElement ==
    ASSUME NEW S, S \subseteq Int, IsFiniteSet(S), S # {}
    PROVE  \E m \in S : \A n \in S : n <= m
  <1> DEFINE B == {s \in SUBSET S : s # {} /\ ~\E m \in s : \A n \in s : n <= m}
  <1>1. SUFFICES ASSUME B # {} PROVE FALSE
    OBVIOUS
  <1>2. PICK s \in B : \A r \in B : r \subseteq s => r = s
    <2>1. B \subseteq SUBSET S
      OBVIOUS
    <2> HIDE DEF B
    <2>2. HasSmallest(B)
      BY <1>1, <2>1, Smallest
    <2>3. QED
      BY <2>2 DEF HasSmallest
  <1>3. PICK x \in s : TRUE
    OBVIOUS
  <1>4. x \in Int /\ s \subseteq Int
    OBVIOUS
  <1>5. CASE s \ {x} = {}
    BY <1>3, <1>4, <1>5
  <1>6. CASE s \ {x} # {}
    <2>1. s \ {x} \notin B
      BY <1>2, <1>3
    <2>2. PICK m \in s \ {x} : \A n \in s \ {x} : n <= m
      BY <1>6, <2>1
    <2>3. m \in Int
      BY <1>4
    <2>4. CASE x <= m
      BY <1>2, <2>2, <2>4
    <2>5. CASE m < x
      <3>1. \A n \in s : n <= x
        BY <1>4, <2>2, <2>3, <2>5
      <3>2. QED
        BY <1>2, <1>3, <3>1
    <2>6. QED
      BY <1>4, <2>3, <2>4, <2>5
  <1>7. QED
    BY <1>5, <1>6

\* The elements of a set of numbers in their order.
Ascending(f, S) ==
    /\ f \in [1..Cardinality(S) -> S]
    /\ Seqs!ToSet(f) = S
    /\ \A i, j \in DOMAIN f : i < j => f[i] < f[j]

\* Every finite set of integers can be put in order.
LEMMA AscendingExists ==
    ASSUME NEW S, S \subseteq Int, IsFiniteSet(S)
    PROVE  \E f : Ascending(f, S)
  <1> DEFINE B == {s \in SUBSET S : ~\E f : Ascending(f, s)}
  <1>1. SUFFICES ASSUME B # {} PROVE FALSE
    OBVIOUS
  <1>2. PICK s \in B : \A r \in B : r \subseteq s => r = s
    <2>1. B \subseteq SUBSET S
      OBVIOUS
    <2> HIDE DEF B
    <2>2. HasSmallest(B)
      BY <1>1, <2>1, Smallest
    <2>3. QED
      BY <2>2 DEF HasSmallest
  <1>3. IsFiniteSet(s) /\ s \subseteq Int
    BY <1>2, FS_Subset
  <1>4. CASE s = {}
    <2>1. Ascending(<<>>, s)
      BY <1>4, FS_EmptySet DEF Ascending, Seqs!ToSet
    <2>2. QED
      BY <1>2, <2>1
  <1>5. CASE s # {}
    <2>1. PICK m \in s : \A n \in s : n <= m
      BY <1>3, <1>5, GreatestElement
    <2>2. PICK r : r = s \ {m}
      OBVIOUS
    <2>3. PICK f : Ascending(f, r)
      BY <1>2, <2>1, <2>2
    <2>4. PICK c : c = Cardinality(r)
      OBVIOUS
    <2>5. c \in Nat /\ Cardinality(s) = c + 1
      BY <1>3, <2>1, <2>2, <2>4, FS_RemoveElement, FS_CardinalityType, FS_Subset
    <2>6. DEFINE g == [i \in 1..(c + 1) |-> IF i = c + 1 THEN m ELSE f[i]]
    <2>7. f \in [1..c -> r] /\ {f[i] : i \in 1..c} = r /\ \A i, j \in 1..c : i < j => f[i] < f[j]
      BY <2>3, <2>4 DEF Ascending, Seqs!ToSet
    <2>8. g \in [1..(c + 1) -> s]
      BY <2>1, <2>2, <2>5, <2>7
    <2>9. Seqs!ToSet(g) = s
      <3>1. \A x \in s : \E i \in 1..(c + 1) : g[i] = x
        <4>1. TAKE x \in s
        <4>2. CASE x = m
          BY <2>5, <4>2
        <4>3. CASE x # m
          <5>1. PICK i \in 1..c : f[i] = x
            BY <2>2, <2>7, <4>3
          <5>2. i \in 1..(c + 1) /\ g[i] = x
            BY <2>5, <5>1
          <5>3. QED
            BY <5>2
        <4>4. QED
          BY <4>2, <4>3
      <3>2. QED
        BY <2>8, <3>1 DEF Seqs!ToSet
    <2>10. \A i, j \in DOMAIN g : i < j => g[i] < g[j]
      <3>1. TAKE i, j \in DOMAIN g
      <3>2. SUFFICES ASSUME i < j PROVE g[i] < g[j]
        OBVIOUS
      <3>3. i \in 1..c /\ g[i] = f[i] /\ f[i] \in r
        BY <2>5, <2>7, <3>2
      <3>4. CASE j = c + 1
        <4>1. f[i] <= m /\ f[i] # m /\ f[i] \in Int /\ m \in Int
          BY <1>3, <2>1, <2>2, <3>3
        <4>2. QED
          BY <3>3, <3>4, <4>1
      <3>5. CASE j # c + 1
        BY <2>5, <2>7, <3>2, <3>3, <3>5
      <3>6. QED
        BY <3>4, <3>5
    <2>11. Ascending(g, s)
      BY <2>5, <2>8, <2>9, <2>10 DEF Ascending
    <2>12. QED
      BY <1>2, <2>11
  <1>6. QED
    BY <1>4, <1>5

\* The messages of w but for those at some places, each once.
Remainder(v, w, failed) ==
    \E row \in [1..Len(v) -> DOMAIN w \ failed] :
       /\ \A i \in 1..Len(v) : v[i] = w[row[i]]
       /\ \A i, j \in 1..Len(v) : i # j => row[i] # row[j]
       /\ \A k \in DOMAIN w \ failed : \E i \in 1..Len(v) : row[i] = k

\* What is written are the messages whose write does not fail, each once.
LEMMA WrittenFacts ==
    ASSUME NEW M, NEW w \in Seq(M), NEW failed \in SUBSET DOMAIN w, NEW v, v = Written(w, failed)
    PROVE  v \in Seq(M) /\ Remainder(v, w, failed)
  <1>1. PICK kept : kept = DOMAIN w \ failed
    OBVIOUS
  <1>2. DOMAIN w = 1..Len(w) /\ Len(w) \in Nat
    OBVIOUS
  <1>3. IsFiniteSet(kept) /\ kept \subseteq Int
    <2>1. IsFiniteSet(1..Len(w))
      BY <1>2, FS_Interval
    <2>2. kept \in SUBSET (1..Len(w))
      BY <1>1, <1>2
    <2>3. IsFiniteSet(kept)
      BY <2>1, <2>2, FS_Subset
    <2>4. QED
      BY <2>2, <2>3
  <1>4. PICK c \in Nat : c = Cardinality(kept)
    BY <1>3, FS_CardinalityType
  <1>5. PICK row : row = CHOOSE f \in [1..Cardinality(kept) -> kept] :
                  /\ Seqs!ToSet(f) = kept
                  /\ \A i, j \in DOMAIN f : i < j => f[i] < f[j]
    OBVIOUS
  <1>6. Ascending(row, kept)
    <2>1. PICK f : Ascending(f, kept)
      BY <1>3, AscendingExists
    <2>2. \E g \in [1..Cardinality(kept) -> kept] :
                  /\ Seqs!ToSet(g) = kept
                  /\ \A i, j \in DOMAIN g : i < j => g[i] < g[j]
      BY <2>1 DEF Ascending
    <2>3. QED
      BY <1>5, <2>2 DEF Ascending
  <1>7. v = [i \in 1..c |-> w[row[i]]]
    BY <1>1, <1>4, <1>5 DEF Written
  <1>8. row \in [1..c -> kept] /\ {row[i] : i \in 1..c} = kept /\ \A i, j \in 1..c : i < j => row[i] < row[j]
    BY <1>4, <1>6 DEF Ascending, Seqs!ToSet
  <1>9. \A i \in 1..c : w[row[i]] \in M
    BY <1>1, <1>2, <1>8
  <1>10. v \in Seq(M) /\ Len(v) = c
    BY <1>7, <1>9
  <1>11. \A i, j \in 1..c : i # j => row[i] # row[j]
    <2>1. TAKE i, j \in 1..c
    <2>2. row[i] \in Int /\ row[j] \in Int
      BY <1>3, <1>8
    <2>3. (i < j => row[i] < row[j]) /\ (j < i => row[j] < row[i])
      BY <1>8
    <2>4. QED
      BY <2>2, <2>3
  <1>12. \A k \in kept : \E i \in 1..c : row[i] = k
    BY <1>8
  <1>13. QED
    BY <1>1, <1>7, <1>8, <1>10, <1>11, <1>12, ZenonT(60) DEF Remainder

\* The instance counts like the module.
LEMMA SameCardinality == ASSUME NEW S PROVE Seqs!Cardinality(S) = Cardinality(S)
  BY DEF Seqs!Cardinality, Cardinality

\* The cancels of a set of orders: one for each.
LEMMA CancelsFacts ==
    ASSUME NEW S, S \subseteq Orders, IsFiniteSet(S), \A o, p \in S : o.id = p.id => o = p,
           NEW w, w = Cancels(S)
    PROVE  /\ w \in Seq(Request)
           /\ \A i \in DOMAIN w : w[i].type = "DELETE_ORDER" /\ w[i].id \in IdsOf(S)
           /\ \A o \in S : \E i \in DOMAIN w : w[i].id = o.id
           /\ \A i, j \in DOMAIN w : w[i].id = w[j].id => i = j
  <1>1. PICK c \in Nat : c = Cardinality(S)
    BY FS_CardinalityType
  <1>2. PICK row : row = Seqs!SetToSeq(S)
    OBVIOUS
  <1>3. row \in Injection(1..c, S)
    <2>1. ExistsBijection(1..c, S)
      BY <1>1, FS_CardinalityType
    <2>2. PICK g \in [1..c -> S] : \A a, b \in DOMAIN g : g[a] = g[b] => a = b
      BY <2>1 DEF ExistsBijection, Bijection, Injection, IsInjective
    <2>3. row = CHOOSE f \in [1..c -> S] : \A a, b \in DOMAIN f : f[a] = f[b] => a = b
      BY <1>1, <1>2, SameCardinality DEF Seqs!SetToSeq, Seqs!IsInjective
    <2>5. row \in [1..c -> S] /\ \A a, b \in DOMAIN row : row[a] = row[b] => a = b
      BY <2>2, <2>3
    <2>4. QED
      BY <2>5 DEF Injection, IsInjective
  <1>4. row \in Surjection(1..c, S)
    <2>1. Cardinality(1..c) = c
      BY <1>1, FS_Interval
    <2>2. QED
      BY <1>1, <1>3, <2>1, FS_Injection
  <1>5. /\ row \in [1..c -> S] /\ DOMAIN row = 1..c
        /\ \A i, j \in 1..c : row[i] = row[j] => i = j
        /\ \A o \in S : \E i \in 1..c : row[i] = o
    BY <1>3, <1>4 DEF Injection, Surjection, IsInjective
  <1>6. w = [i \in 1..c |-> CancelOrder(row[i].id)]
    BY <1>2, <1>5 DEF Cancels
  <1>7. \A i \in 1..c : /\ CancelOrder(row[i].id) \in Request
                        /\ w[i].type = "DELETE_ORDER" /\ w[i].id = row[i].id
    BY <1>5, <1>6 DEF CancelOrder, Request, Orders
  <1>8. w \in Seq(Request) /\ DOMAIN w = 1..c
    BY <1>6, <1>7
  <1>9. \A i \in 1..c : w[i].id \in IdsOf(S)
    BY <1>5, <1>7 DEF IdsOf
  <1>10. \A i, j \in 1..c : w[i].id = w[j].id => i = j
    BY <1>5, <1>7
  <1>11. QED
    BY <1>5, <1>7, <1>8, <1>9, <1>10

-----------------------------------------------------------------------------
(* One side of a turn. *)

\* The listed orders of a side: distinct ids below the next one, distinct prices.
Listing(S, id) ==
    /\ S \subseteq Orders /\ IsFiniteSet(S)
    /\ \A o, p \in S : o.price = p.price \/ o.id = p.id => o = p
    /\ \A o \in S : o.id < id

Message == [type : {"NEW_ORDER", "MODIFY_ORDER"}, id : Int, side : Side, price : Int]
           \cup [type : {"DELETE_ORDER"}, id : Int]

\* The messages w turn the listed orders S of a side into T: an order that is no longer
\* listed is cancelled, one at a new price is modified, and a new one is sent under the
\* id that was next.
Answers(side, S, T, w, id, next) ==
    /\ w \in Seq(Message)
    /\ \A i, j \in DOMAIN w : w[i].id = w[j].id => i = j
    /\ \A i \in DOMAIN w :
         \/ w[i].type = "DELETE_ORDER" /\ w[i].id \in IdsOf(S) \ IdsOf(T)
         \/ /\ w[i].type = "MODIFY_ORDER" /\ w[i].side = side /\ w[i].id \in IdsOf(S)
            /\ [id |-> w[i].id, price |-> w[i].price] \in T
         \/ /\ w[i].type = "NEW_ORDER" /\ w[i].side = side /\ w[i].id = id /\ next = id + 1
            /\ [id |-> w[i].id, price |-> w[i].price] \in T
    /\ \A o \in S : o.id \in IdsOf(T) \/ \E i \in DOMAIN w : w[i].type = "DELETE_ORDER" /\ w[i].id = o.id
    /\ \A o \in T : o \in S \/ \E i \in DOMAIN w : w[i].type # "DELETE_ORDER" /\ w[i].id = o.id
    /\ \A o, p \in T : o.price = p.price \/ o.id = p.id => o = p
    /\ \A o \in T : o.id \in IdsOf(S) \/ (o.id = id /\ next = id + 1)
    /\ next \in {id, id + 1}
    /\ IsFiniteSet(T) /\ T \subseteq [id : Int, price : Int]

\* Of two orders at different prices one is ahead.
LEMMA AheadTotal ==
    ASSUME NEW side, NEW a \in Int, NEW b \in Int, NEW c \in Int
    PROVE  /\ a = b \/ Ahead(side, a, b) \/ Ahead(side, b, a)
           /\ Ahead(side, a, b) /\ Ahead(side, b, c) => Ahead(side, a, c)
  BY DEF Ahead

\* A side that is not empty has an order nearest to the market.
LEMMA LastIsListed ==
    ASSUME NEW S, S \subseteq Orders, IsFiniteSet(S), NEW side, S # {},
           \A o, p \in S : o.price = p.price => o = p
    PROVE  LastOf(S, side) \in S
  <1> DEFINE IsLast(o, s) == \A p \in s : p = o \/ Ahead(side, o.price, p.price)
             B == {s \in SUBSET S : s # {} /\ ~\E o \in s : IsLast(o, s)}
  <1>0. \A o \in S : o.price \in Int
    BY DEF Orders
  <1>1. ASSUME B # {} PROVE FALSE
    <2>1. PICK s \in B : \A r \in B : r \subseteq s => r = s
      <3>1. B \subseteq SUBSET S
        OBVIOUS
      <3> HIDE DEF B
      <3>2. HasSmallest(B)
        BY <1>1, <3>1, Smallest
      <3>3. QED
        BY <3>2 DEF HasSmallest
    <2>2. s \subseteq S /\ s # {} /\ ~\E o \in s : IsLast(o, s)
      OBVIOUS
    <2>3. PICK x \in s : TRUE
      BY <2>2
    <2>4. CASE s \ {x} = {}
      <3>1. IsLast(x, s)
        BY <2>4
      <3>2. QED
        BY <2>2, <2>3, <3>1
    <2>5. CASE s \ {x} # {}
      <3>1. s \ {x} \notin B
        BY <2>1, <2>3
      <3>2. PICK m \in s \ {x} : IsLast(m, s \ {x})
        BY <2>2, <2>5, <3>1
      <3>3. m \in S /\ x \in S /\ m.price \in Int /\ x.price \in Int /\ m.price # x.price
        BY <1>0, <2>2, <2>3
      <3>4. CASE Ahead(side, m.price, x.price)
        <4>1. IsLast(m, s)
          BY <3>2, <3>4
        <4>2. QED
          BY <2>2, <4>1
      <3>5. CASE Ahead(side, x.price, m.price)
        <4>1. ASSUME NEW p \in s, p # x, p # m PROVE Ahead(side, x.price, p.price)
          <5>1. Ahead(side, m.price, p.price) /\ p.price \in Int
            BY <1>0, <2>2, <3>2, <4>1
          <5>2. QED
            BY <3>3, <3>5, <5>1, AheadTotal
        <4>2. IsLast(x, s)
          BY <3>5, <4>1
        <4>3. QED
          BY <2>2, <2>3, <4>2
      <3>6. QED
        BY <3>3, <3>4, <3>5, AheadTotal
    <2>6. QED
      BY <2>4, <2>5
  <1>2. \E o \in S : IsLast(o, S)
    BY <1>1
  <1>3. QED
    BY <1>2 DEF LastOf

\* Cancels alone.
LEMMA AnswersCancels ==
    ASSUME NEW side \in Side, NEW id \in Int, NEW S, Listing(S, id), NEW A \in SUBSET S
    PROVE  /\ Answers(side, S, S \ A, Cancels(A), id, id)
           /\ IdsOf(A) \cap IdsOf(S \ A) = {}
           /\ \A i \in DOMAIN Cancels(A) : Cancels(A)[i].type = "DELETE_ORDER" /\ Cancels(A)[i].id \in IdsOf(A)
  <1>1. /\ S \subseteq Orders /\ IsFiniteSet(S) /\ \A o, p \in S : o.price = p.price \/ o.id = p.id => o = p
    BY DEF Listing
  <1>2. A \subseteq Orders /\ IsFiniteSet(A) /\ \A o, p \in A : o.id = p.id => o = p
    BY <1>1, FS_Subset
  <1>3. PICK w : w = Cancels(A)
    OBVIOUS
  <1>4. /\ w \in Seq(Request)
        /\ \A i \in DOMAIN w : w[i].type = "DELETE_ORDER" /\ w[i].id \in IdsOf(A)
        /\ \A o \in A : \E i \in DOMAIN w : w[i].id = o.id
        /\ \A i, j \in DOMAIN w : w[i].id = w[j].id => i = j
    BY <1>2, <1>3, CancelsFacts
  <1>5. w \in Seq(Message)
    <2>1. Request \subseteq Message
      BY MarketMakerAssumption DEF Request, Message, Ids
    <2>2. QED
      BY <1>4, <2>1
  <1>6. IdsOf(A) \cap IdsOf(S \ A) = {} /\ IdsOf(A) \subseteq IdsOf(S)
    BY <1>1 DEF IdsOf
  <1>7. IsFiniteSet(S \ A) /\ S \ A \subseteq [id : Int, price : Int]
    <2>1. IsFiniteSet(S \ A)
      BY <1>1, FS_Difference
    <2>2. Orders \subseteq [id : Int, price : Int]
      BY MarketMakerAssumption DEF Orders, Ids
    <2>3. QED
      BY <1>1, <2>1, <2>2
  <1>8. \A o \in S : o.id \in IdsOf(S \ A) \/ \E i \in DOMAIN w : w[i].type = "DELETE_ORDER" /\ w[i].id = o.id
    BY <1>4 DEF IdsOf
  <1>9. \A o \in S \ A : o.id \in IdsOf(S)
    BY DEF IdsOf
  <1>10. \A i \in DOMAIN w : w[i].type = "DELETE_ORDER" /\ w[i].id \in IdsOf(S) \ IdsOf(S \ A)
    BY <1>4, <1>6
  <1>11. Answers(side, S, S \ A, w, id, id)
    BY <1>1, <1>4, <1>5, <1>7, <1>8, <1>9, <1>10 DEF Answers
  <1>12. QED
    BY <1>3, <1>4, <1>6, <1>11

\* Cancels, and then the message that puts an order where there is none.
LEMMA AnswersOne ==
    ASSUME NEW side \in Side, NEW id \in Int, NEW S, Listing(S, id), NEW A \in SUBSET S,
           NEW R \in SUBSET (S \ A), NEW o \in [id : Int, price : Int], NEW next \in {id, id + 1},
           \A p \in R : p.price # o.price /\ p.id # o.id,
           NEW m \in Message, m.id = o.id, m.price = o.price, m.side = side,
           \/ m.type = "MODIFY_ORDER" /\ next = id /\ o.id \in IdsOf(S \ A)
           \/ m.type = "NEW_ORDER" /\ next = id + 1 /\ o.id = id,
           \A p \in S \ A : p \in R \/ p.id = o.id
    PROVE  Answers(side, S, R \cup {o}, Cancels(A) \o <<m>>, id, next)
  <1>1. PICK c : c = Cancels(A)
    OBVIOUS
  <1>2. Answers(side, S, S \ A, c, id, id) /\ IdsOf(A) \cap IdsOf(S \ A) = {}
        /\ \A i \in DOMAIN c : c[i].type = "DELETE_ORDER" /\ c[i].id \in IdsOf(A)
    <2>1. /\ Answers(side, S, S \ A, Cancels(A), id, id)
          /\ IdsOf(A) \cap IdsOf(S \ A) = {}
          /\ \A i \in DOMAIN Cancels(A) : Cancels(A)[i].type = "DELETE_ORDER" /\ Cancels(A)[i].id \in IdsOf(A)
      BY AnswersCancels, Zenon
    <2>2. QED
      BY <1>1, <2>1
  <1>3. PICK n \in Nat : n = Len(c)
    BY <1>2 DEF Answers
  <1>4. PICK w : w = c \o <<m>>
    OBVIOUS
  <1>5. /\ w \in Seq(Message) /\ DOMAIN w = 1..(n + 1) /\ DOMAIN c = 1..n
        /\ \A i \in 1..n : w[i] = c[i]
        /\ w[n + 1] = m
    BY <1>2, <1>3, <1>4 DEF Answers
  <1>6. PICK T : T = R \cup {o}
    OBVIOUS
  <1>7. /\ \A p \in S : p.id < id /\ p.id \in Int
        /\ \A p, q \in S : p.price = q.price \/ p.id = q.id => p = q
        /\ S \subseteq [id : Int, price : Int] /\ IsFiniteSet(S)
    BY MarketMakerAssumption DEF Listing, Orders, Ids
  <1>8. o.id \notin IdsOf(A)
    <2>1. CASE o.id \in IdsOf(S \ A)
      BY <1>2, <2>1
    <2>2. CASE o.id = id
      BY <1>7, <2>2 DEF IdsOf
    <2>3. QED
      BY <2>1, <2>2
  <1>9. IdsOf(T) \cap IdsOf(A) = {}
    <2>1. IdsOf(T) \subseteq IdsOf(S \ A) \cup {o.id}
      BY <1>6 DEF IdsOf
    <2>2. QED
      BY <1>2, <1>8, <2>1
  <1>10. \A i, j \in DOMAIN w : w[i].id = w[j].id => i = j
    <2>1. \A i \in 1..n : w[i].id # m.id
      BY <1>2, <1>5, <1>8
    <2>2. \A i, j \in 1..n : w[i].id = w[j].id => i = j
      BY <1>2, <1>5, SMTT(60) DEF Answers
    <2>3. \A i \in DOMAIN w : i \in 1..n \/ i = n + 1
      BY <1>5
    <2>4. QED
      BY <1>5, <2>1, <2>2, <2>3
  <1>11. o = [id |-> m.id, price |-> m.price]
    OBVIOUS
  <1>12. ASSUME NEW i \in DOMAIN w
         PROVE  \/ w[i].type = "DELETE_ORDER" /\ w[i].id \in IdsOf(S) \ IdsOf(T)
                \/ /\ w[i].type = "MODIFY_ORDER" /\ w[i].side = side /\ w[i].id \in IdsOf(S)
                   /\ [id |-> w[i].id, price |-> w[i].price] \in T
                \/ /\ w[i].type = "NEW_ORDER" /\ w[i].side = side /\ w[i].id = id /\ next = id + 1
                   /\ [id |-> w[i].id, price |-> w[i].price] \in T
    <2>1. CASE i \in 1..n
      <3>1. w[i].type = "DELETE_ORDER" /\ w[i].id \in IdsOf(A)
        BY <1>2, <1>5, <2>1
      <3>2. w[i].id \in IdsOf(S) \ IdsOf(T)
        BY <1>9, <3>1 DEF IdsOf
      <3>3. QED
        BY <3>1, <3>2
    <2>2. CASE i = n + 1
      <3>1. IdsOf(S \ A) \subseteq IdsOf(S)
        BY DEF IdsOf
      <3>2. QED
        BY <1>5, <1>6, <1>11, <2>2, <3>1
    <2>3. QED
      BY <1>5, <2>1, <2>2
  <1>13. ASSUME NEW p \in S
         PROVE  p.id \in IdsOf(T) \/ \E i \in DOMAIN w : w[i].type = "DELETE_ORDER" /\ w[i].id = p.id
    <2>1. CASE p \in A
      <3>1. p.id \notin IdsOf(S \ A)
        BY <1>2, <2>1 DEF IdsOf
      <3>2. PICK i \in DOMAIN c : c[i].type = "DELETE_ORDER" /\ c[i].id = p.id
        BY <1>2, <3>1 DEF Answers
      <3>3. i \in DOMAIN w /\ w[i] = c[i]
        BY <1>5
      <3>4. QED
        BY <3>2, <3>3
    <2>2. CASE p \notin A
      BY <1>6, <2>2 DEF IdsOf
    <2>3. QED
      BY <2>1, <2>2
  <1>14. \A p \in T : p \in S \/ \E i \in DOMAIN w : w[i].type # "DELETE_ORDER" /\ w[i].id = p.id
    <2>1. n + 1 \in DOMAIN w /\ w[n + 1].type # "DELETE_ORDER" /\ w[n + 1].id = o.id
      BY <1>5
    <2>2. QED
      BY <1>6, <2>1
  <1>15. \A p, q \in T : p.price = q.price \/ p.id = q.id => p = q
    <2>1. \A p, q \in R : p.price = q.price \/ p.id = q.id => p = q
      BY <1>7
    <2>2. QED
      BY <1>6, <2>1
  <1>16. \A p \in T : p.id \in IdsOf(S) \/ (p.id = id /\ next = id + 1)
    BY <1>6 DEF IdsOf
  <1>17. IsFiniteSet(T) /\ T \subseteq [id : Int, price : Int]
    <2>1. IsFiniteSet(R)
      BY <1>7, FS_Subset
    <2>2. IsFiniteSet(T)
      BY <1>6, <2>1, FS_AddElement
    <2>3. QED
      BY <1>6, <1>7, <2>2
  <1>18. Answers(side, S, T, w, id, next)
    BY <1>5, <1>10, <1>12, <1>13, <1>14, <1>15, <1>16, <1>17 DEF Answers
  <1>19. QED
    BY <1>1, <1>4, <1>6, <1>18

\* A side is stacked: the messages turn the old list into the new one, the stack keeps its
\* depth, and no order stays ahead of the price.
LEMMA StackSideAnswers ==
    ASSUME NEW side \in Side, NEW id \in Int, NEW S, Listing(S, id), Cardinality(S) <= stack_depth,
           NEW price \in Int, NEW was_sent \in BOOLEAN, NEW waited \in BOOLEAN,
           NEW r, r = stack_side(price, S, side, id, was_sent, waited)
    PROVE  /\ Answers(side, S, r.orders, r.messages, id, r.next)
           /\ Cardinality(r.orders) <= stack_depth
           /\ \A o \in r.orders : ~Ahead(side, o.price, price)
           /\ r.sent \in BOOLEAN
  <1>1. PICK A : A = AheadOf(S, side, price)
    OBVIOUS
  <1>2. PICK left : left = S \ A
    OBVIOUS
  <1>3. A \in SUBSET S /\ \A o \in left : ~Ahead(side, o.price, price)
    BY <1>1, <1>2 DEF AheadOf
  <1>4. /\ S \subseteq Orders /\ IsFiniteSet(S)
        /\ \A o, p \in S : o.price = p.price \/ o.id = p.id => o = p
        /\ \A o \in S : o.id < id
    BY DEF Listing
  <1>5. /\ left \subseteq S /\ IsFiniteSet(left) /\ Cardinality(left) \in Nat /\ Cardinality(S) \in Nat
        /\ Cardinality(left) <= Cardinality(S) /\ stack_depth \in Nat \ {0}
    <2>1. left \in SUBSET S
      BY <1>2
    <2>2. IsFiniteSet(left) /\ Cardinality(left) <= Cardinality(S)
      BY <1>4, <2>1, FS_Subset
    <2>3. QED
      BY <1>4, <2>1, <2>2, FS_CardinalityType, MarketMakerAssumption
  <1>6. \A o \in S : o \in [id : Int, price : Int] /\ o = [id |-> o.id, price |-> o.price]
    BY <1>4, MarketMakerAssumption DEF Orders, Ids
  <1>7. ~Ahead(side, price, price)
    BY DEF Ahead
  <1>8. CASE ~Stacked(left, price) /\ Full(left)
    <2>1. PICK last : last = LastOf(left, side)
      OBVIOUS
    <2>2. left # {}
      BY <1>5, <1>8, FS_EmptySet DEF Full
    <2>3. last \in left
      <3>1. left \subseteq Orders /\ \A o, p \in left : o.price = p.price => o = p
        BY <1>4, <1>5
      <3>2. LastOf(left, side) \in left
        BY <1>5, <2>2, <3>1, LastIsListed
      <3>3. QED
        BY <2>1, <3>2
    <2>4. PICK o : o = [id |-> last.id, price |-> price]
      OBVIOUS
    <2>5. o = [last EXCEPT !.price = price] /\ o \in [id : Int, price : Int] /\ o.id = last.id /\ o.price = price
      BY <1>5, <1>6, <2>3, <2>4
    <2>6. PICK R : R = left \ {last}
      OBVIOUS
    <2>7. \A p \in R : p.price # o.price /\ p.id # o.id
      BY <1>4, <1>5, <1>8, <2>3, <2>5, <2>6 DEF Stacked
    <2>8. PICK m : m = ModifyOrder(last.id, side, price)
      OBVIOUS
    <2>9. /\ m \in Message /\ m.type = "MODIFY_ORDER" /\ m.id = o.id /\ m.price = o.price /\ m.side = side
      BY <2>5, <2>8 DEF ModifyOrder, Message
    <2>10. r = Result(Moved(left, last, price), Cancels(A) \o <<m>>, id, TRUE)
      BY <1>1, <1>2, <1>8, <2>1, <2>8 DEF stack_side
    <2>11. Moved(left, last, price) = R \cup {o}
      BY <2>5, <2>6, <2>7 DEF Moved, Insert
    <2>12. r.orders = R \cup {o} /\ r.messages = Cancels(A) \o <<m>> /\ r.next = id /\ r.sent = TRUE
      BY <2>10, <2>11 DEF Result
    <2>13. Answers(side, S, R \cup {o}, Cancels(A) \o <<m>>, id, id)
      <3>1. R \in SUBSET (S \ A) /\ o.id \in IdsOf(S \ A) /\ \A p \in S \ A : p \in R \/ p.id = o.id
        BY <1>2, <2>3, <2>5, <2>6 DEF IdsOf
      <3>2. id \in {id, id + 1}
        OBVIOUS
      <3>3. QED
        BY <1>3, <2>5, <2>7, <2>9, <3>1, <3>2, AnswersOne
    <2>14. Cardinality(R \cup {o}) <= stack_depth
      <3>1. IsFiniteSet(R) /\ Cardinality(R) = Cardinality(left) - 1
        BY <1>5, <2>3, <2>6, FS_RemoveElement
      <3>2. Cardinality(R \cup {o}) = IF o \in R THEN Cardinality(R) ELSE Cardinality(R) + 1
        BY <3>1, FS_AddElement
      <3>3. QED
        BY <1>5, <3>1, <3>2
    <2>15. \A p \in R \cup {o} : ~Ahead(side, p.price, price)
      BY <1>3, <1>7, <2>5, <2>6
    <2>16. QED
      BY <2>12, <2>13, <2>14, <2>15
  <1>9. CASE ~Stacked(left, price) /\ ~Full(left) /\ (~was_sent \/ waited)
    <2>1. PICK o : o = [id |-> id, price |-> price]
      OBVIOUS
    <2>2. o \in [id : Int, price : Int] /\ o.id = id /\ o.price = price
      BY <2>1
    <2>3. \A p \in left : p.price # o.price /\ p.id # o.id
      BY <1>4, <1>5, <1>6, <1>9, <2>2 DEF Stacked
    <2>4. PICK m : m = SendOrder(id, side, price)
      OBVIOUS
    <2>5. /\ m \in Message /\ m.type = "NEW_ORDER" /\ m.id = o.id /\ m.price = o.price /\ m.side = side
      BY <2>2, <2>4 DEF SendOrder, Message
    <2>6. r = Result(Insert(left, o), Cancels(A) \o <<m>>, id + 1, TRUE)
      BY <1>1, <1>2, <1>9, <2>1, <2>4 DEF stack_side
    <2>7. Insert(left, o) = left \cup {o}
      BY <2>3 DEF Insert
    <2>8. r.orders = left \cup {o} /\ r.messages = Cancels(A) \o <<m>> /\ r.next = id + 1 /\ r.sent = TRUE
      BY <2>6, <2>7 DEF Result
    <2>9. Answers(side, S, left \cup {o}, Cancels(A) \o <<m>>, id, id + 1)
      <3>1. left \in SUBSET (S \ A) /\ \A p \in S \ A : p \in left \/ p.id = o.id
        BY <1>2
      <3>2. id + 1 \in {id, id + 1}
        OBVIOUS
      <3>3. QED
        BY <1>3, <2>2, <2>3, <2>5, <3>1, <3>2, AnswersOne
    <2>10. Cardinality(left \cup {o}) <= stack_depth
      <3>1. Cardinality(left \cup {o}) = IF o \in left THEN Cardinality(left) ELSE Cardinality(left) + 1
        BY <1>5, FS_AddElement
      <3>2. QED
        BY <1>5, <1>9, <3>1 DEF Full
    <2>11. \A p \in left \cup {o} : ~Ahead(side, p.price, price)
      BY <1>3, <1>7, <2>2
    <2>12. QED
      BY <2>8, <2>9, <2>10, <2>11
  <1>10. CASE ~(~Stacked(left, price) /\ Full(left)) /\ ~(~Stacked(left, price) /\ ~Full(left) /\ (~was_sent \/ waited))
    <2>1. r = Result(left, Cancels(A), id, was_sent)
      BY <1>1, <1>2, <1>10 DEF stack_side
    <2>2. r.orders = S \ A /\ r.messages = Cancels(A) /\ r.next = id /\ r.sent = was_sent
      BY <1>2, <2>1 DEF Result
    <2>3. Answers(side, S, S \ A, Cancels(A), id, id)
      BY <1>3, AnswersCancels, Zenon
    <2>4. QED
      BY <1>2, <1>3, <1>5, <2>2, <2>3
  <1>11. QED
    BY <1>8, <1>9, <1>10

\* A quote is cancelled, sent or left alone.
LEMMA QuoteAnswers ==
    ASSUME NEW side \in Side, NEW id \in Int, NEW S, Listing(S, id), Cardinality(S) <= 1,
           NEW price \in Int, NEW old \in BOOLEAN, sent \in BOOLEAN,
           NEW r, r = quote(price, S, side, id, old)
    PROVE  /\ Answers(side, S, r.orders, r.messages, id, r.next)
           /\ Cardinality(r.orders) <= 1
           /\ r.sent \in BOOLEAN
           /\ r = Result(r.orders, r.messages, r.next, r.sent)
  <1>1. CASE S # {} /\ (old \/ \E o \in S : o.price # price)
    <2>1. r = Result({}, Cancels(S), id, sent)
      BY <1>1 DEF quote
    <2>2. r.orders = {} /\ r.messages = Cancels(S) /\ r.next = id /\ r.sent = sent
      BY <2>1 DEF Result
    <2>3. PICK A \in SUBSET S : A = S
      OBVIOUS
    <2>4. Answers(side, S, S \ A, Cancels(A), id, id)
      BY <2>3, AnswersCancels, Zenon
    <2>5. S \ A = {}
      BY <2>3
    <2>6. QED
      BY <2>1, <2>2, <2>3, <2>4, <2>5, FS_EmptySet
  <1>2. CASE S = {}
    <2>1. PICK o : o = [id |-> id, price |-> price]
      OBVIOUS
    <2>2. PICK m : m = SendOrder(id, side, price)
      OBVIOUS
    <2>3. o \in [id : Int, price : Int] /\ o.id = id /\ o.price = price
      BY <2>1
    <2>4. m \in Message /\ m.type = "NEW_ORDER" /\ m.id = o.id /\ m.price = o.price /\ m.side = side
      BY <2>2, <2>3 DEF SendOrder, Message
    <2>5. r = Result({o}, <<m>>, id + 1, TRUE)
      BY <1>2, <2>1, <2>2 DEF quote
    <2>6. r.orders = {o} /\ r.messages = <<m>> /\ r.next = id + 1 /\ r.sent = TRUE
      BY <2>5 DEF Result
    <2>7. PICK A, R : A = {} /\ R = {}
      OBVIOUS
    <2>8. Answers(side, S, R \cup {o}, Cancels(A) \o <<m>>, id, id + 1)
      <3>1. A \in SUBSET S /\ R \in SUBSET (S \ A) /\ id + 1 \in {id, id + 1}
        BY <2>7
      <3>2. (\A p \in R : p.price # o.price /\ p.id # o.id) /\ \A p \in S \ A : p \in R \/ p.id = o.id
        BY <1>2, <2>7
      <3>3. QED
        BY <2>3, <2>4, <3>1, <3>2, AnswersOne
    <2>9. Cancels(A) = <<>>
      <3>1. Cancels(A) \in Seq(Request) /\ \A i \in DOMAIN Cancels(A) : Cancels(A)[i].id \in IdsOf(A)
        <4>1. A \subseteq Orders /\ IsFiniteSet(A) /\ \A o1, p \in A : o1.id = p.id => o1 = p
          BY <2>7, FS_EmptySet
        <4>2. QED
          BY <4>1, CancelsFacts
      <3>2. IdsOf(A) = {}
        BY <2>7 DEF IdsOf
      <3>3. PICK c \in Seq(Request) : c = Cancels(A)
        BY <3>1
      <3>4. DOMAIN c = {} /\ DOMAIN c = 1..Len(c) /\ Len(c) \in Nat
        <4>1. \A i \in DOMAIN c : c[i].id \in {}
          BY <3>1, <3>2, <3>3
        <4>2. DOMAIN c = {}
          BY <4>1
        <4>3. DOMAIN c = 1..Len(c) /\ Len(c) \in Nat
          BY <3>3
        <4>4. QED
          BY <4>2, <4>3
      <3>5. Len(c) = 0
        BY <3>4
      <3>6. QED
        BY <3>3, <3>5
    <2>10. Cancels(A) \o <<m>> = <<m>> /\ R \cup {o} = {o}
      <3>1. <<m>> \in Seq(Message)
        BY <2>4
      <3>2. <<>> \o <<m>> = <<m>>
        BY <3>1
      <3>3. QED
        BY <2>7, <2>9, <3>2
    <2>11. Cardinality({o}) = 1
      BY FS_Singleton
    <2>12. Answers(side, S, r.orders, r.messages, id, r.next)
      BY <2>6, <2>8, <2>10
    <2>13. Cardinality(r.orders) <= 1
      BY <2>6, <2>11
    <2>14. r.sent \in BOOLEAN
      BY <2>6
    <2>15. QED
      BY <2>5, <2>6, <2>12, <2>13, <2>14
  <1>3. CASE S # {} /\ ~(old \/ \E o \in S : o.price # price)
    <2>1. r = Result(S, <<>>, id, sent)
      BY <1>3 DEF quote
    <2>2. r.orders = S /\ r.messages = <<>> /\ r.next = id /\ r.sent = sent
      BY <2>1 DEF Result
    <2>3. Answers(side, S, S, <<>>, id, id)
      BY MarketMakerAssumption DEF Answers, Listing, IdsOf, Orders, Ids
    <2>4. QED
      BY <2>1, <2>2, <2>3
  <1>4. QED
    BY <1>1, <1>2, <1>3

-----------------------------------------------------------------------------
(* A turn of the bot. *)

\* A message of a turn is a cancel of an order that is not listed any more, or tells where
\* an order is listed now.
TurnMessage(m) ==
    \E side \in Side :
       \/ m.type = "DELETE_ORDER" /\ m.id \in IdsOf(orders[side]) /\ m.id \notin Listed'
       \/ /\ m.type = "MODIFY_ORDER" /\ m.side = side /\ m.id \in IdsOf(orders[side])
          /\ [id |-> m.id, price |-> m.price] \in orders'[side]
       \/ /\ m.type = "NEW_ORDER" /\ m.side = side
          /\ m.id >= last_order_id /\ m.id < last_order_id'
          /\ [id |-> m.id, price |-> m.price] \in orders'[side]

\* The listed orders of both sides after a turn, and the messages w that make the exchange's
\* orders the same.
TurnSteps(w) ==
    /\ w \in Seq(Request)
    /\ \A i, j \in DOMAIN w : w[i].id = w[j].id => i = j
    /\ \A i \in DOMAIN w : TurnMessage(w[i])
    /\ \A id \in Listed : id \in Listed' \/ \E i \in DOMAIN w : w[i].type = "DELETE_ORDER" /\ w[i].id = id
    /\ \A side \in Side : \A o \in orders'[side] :
         o \in orders[side] \/ \E i \in DOMAIN w : w[i].type # "DELETE_ORDER" /\ w[i].id = o.id
    /\ \A side \in Side : \A o \in orders'[side] :
         o.id < last_order_id' /\ (o.id \in IdsOf(orders[side]) \/ o.id >= last_order_id)
    /\ orders' \in [Side -> SUBSET Orders] /\ \A side \in Side : IsFiniteSet(orders'[side])
    /\ \A side \in Side : \A o, p \in orders'[side] : o.price = p.price \/ o.id = p.id => o = p
    /\ IdsOf(orders'["BUY"]) \cap IdsOf(orders'["SELL"]) = {}
    /\ last_order_id' \in 1..(MaxOrders + 1) /\ last_order_id <= last_order_id'

\* Two sequences, one after the other.
LEMMA ConcatFacts ==
    ASSUME NEW M, NEW x \in Seq(M), NEW y \in Seq(M), NEW z, z = x \o y,
           NEW n, n = Len(x), NEW m, m = Len(y)
    PROVE  /\ z \in Seq(M) /\ n \in Nat /\ m \in Nat
           /\ DOMAIN z = 1..(n + m) /\ DOMAIN x = 1..n /\ DOMAIN y = 1..m
           /\ \A i \in 1..n : i \in DOMAIN z /\ z[i] = x[i]
           /\ \A i \in 1..m : n + i \in DOMAIN z /\ z[n + i] = y[i]
           /\ \A i \in DOMAIN z : (i \in 1..n /\ z[i] = x[i]) \/ (i - n \in 1..m /\ z[i] = y[i - n])
  <1>1. z \in Seq(M) /\ n \in Nat /\ m \in Nat /\ Len(z) = n + m
    OBVIOUS
  <1>2. DOMAIN z = 1..(n + m) /\ DOMAIN x = 1..n /\ DOMAIN y = 1..m
    BY <1>1
  <1>3. \A i \in 1..(n + m) : z[i] = IF i <= n THEN x[i] ELSE y[i - n]
    OBVIOUS
  <1>4. \A i \in 1..n : i \in DOMAIN z /\ z[i] = x[i]
    BY <1>1, <1>2, <1>3
  <1>5. \A i \in 1..m : n + i \in DOMAIN z /\ z[n + i] = y[i]
    <2>1. TAKE i \in 1..m
    <2>2. n + i \in 1..(n + m) /\ ~(n + i <= n) /\ (n + i) - n = i
      BY <1>1
    <2>3. QED
      BY <1>2, <1>3, <2>2
  <1>6. ASSUME NEW i \in DOMAIN z PROVE (i \in 1..n /\ z[i] = x[i]) \/ (i - n \in 1..m /\ z[i] = y[i - n])
    <2>1. i \in 1..(n + m) /\ i \in Int
      BY <1>2
    <2>2. CASE i <= n
      BY <1>1, <1>3, <2>1, <2>2
    <2>3. CASE ~(i <= n)
      <3>1. i - n \in 1..m
        BY <1>1, <2>1, <2>3
      <3>2. QED
        BY <1>3, <2>1, <2>3, <3>1
    <2>4. QED
      BY <2>2, <2>3
  <1>7. QED
    BY <1>1, <1>2, <1>4, <1>5, <1>6

\* What one message of a side says.
LEMMA AnswersAt ==
    ASSUME NEW side, NEW S, NEW T, NEW w, NEW id, NEW next, Answers(side, S, T, w, id, next),
           NEW i \in DOMAIN w, NEW k, k = w[i]
    PROVE  /\ k \in Message
           /\ \/ k.type = "DELETE_ORDER" /\ k.id \in IdsOf(S) \ IdsOf(T)
              \/ /\ k.type = "MODIFY_ORDER" /\ k.side = side /\ k.id \in IdsOf(S)
                 /\ [id |-> k.id, price |-> k.price] \in T
              \/ /\ k.type = "NEW_ORDER" /\ k.side = side /\ k.id = id /\ next = id + 1
                 /\ [id |-> k.id, price |-> k.price] \in T
           /\ k.id \in IdsOf(S) \/ (k.id = id /\ next = id + 1)
  <1>1. w \in Seq(Message)
    BY DEF Answers
  <1>2. k \in Message
    BY <1>1
  <1>3. QED
    BY <1>2 DEF Answers

\* The ids listed are those of both sides.
LEMMA ListedIds ==
    /\ Listed = IdsOf(orders["BUY"]) \cup IdsOf(orders["SELL"])
    /\ \A side \in Side : IdsOf(orders[side]) \subseteq Listed
    /\ \A id \in Listed : \E side \in Side : \E o \in orders[side] : o.id = id
  BY DEF Listed, IdsOf, Side

\* Both sides of a turn together.
LEMMA TurnAnswers ==
    ASSUME MakerTypes, ListsOK, FreshOK, NEW bids, NEW asks, Turn(bids, asks),
           Answers("BUY", orders["BUY"], bids.orders, bids.messages, last_order_id, bids.next),
           Answers("SELL", orders["SELL"], asks.orders, asks.messages, bids.next, asks.next)
    PROVE  TurnSteps(bids.messages \o asks.messages)
  <1>1. PICK b \in Nat, c \in Nat, d \in Nat :
          /\ b = last_order_id /\ c = bids.next /\ d = asks.next /\ d = last_order_id'
          /\ b > 0 /\ c \in {b, b + 1} /\ d \in {c, c + 1} /\ d <= MaxOrders + 1
    <2>1. last_order_id \in Nat /\ last_order_id > 0 /\ MaxOrders \in Nat
      BY MarketMakerAssumption, SMTT(60) DEF MakerTypes
    <2>2. /\ bids.next \in {last_order_id, last_order_id + 1} /\ asks.next \in {bids.next, bids.next + 1}
          /\ asks.next <= MaxOrders + 1 /\ last_order_id' = asks.next
      BY DEF Answers, Turn
    <2>3. QED
      BY <2>1, <2>2
  <1>2. PICK first, next, w, n, m :
          /\ first = [s \in Side |-> IF s = "BUY" THEN b ELSE c]
          /\ next = [s \in Side |-> IF s = "BUY" THEN c ELSE d]
          /\ w = [s \in Side |-> IF s = "BUY" THEN bids.messages ELSE asks.messages]
          /\ n = Len(w["BUY"]) /\ m = Len(w["SELL"])
    OBVIOUS
  <1>3. PICK z : z = bids.messages \o asks.messages
    OBVIOUS
  <1>4. orders' = [s \in Side |-> IF s = "BUY" THEN bids.orders ELSE asks.orders]
    BY DEF Turn
  <1>5. ASSUME NEW s \in Side
        PROVE  /\ Answers(s, orders[s], orders'[s], w[s], first[s], next[s])
               /\ b <= first[s] /\ next[s] <= d /\ first[s] \in Nat /\ next[s] \in Nat
    <2>1. s = "BUY" \/ s = "SELL"
      BY DEF Side
    <2>2. QED
      BY <1>1, <1>2, <1>4, <2>1 DEF Side
  <1>6. /\ z \in Seq(Message) /\ n \in Nat /\ m \in Nat
        /\ DOMAIN z = 1..(n + m) /\ DOMAIN w["BUY"] = 1..n /\ DOMAIN w["SELL"] = 1..m
        /\ \A i \in 1..n : i \in DOMAIN z /\ z[i] = w["BUY"][i]
        /\ \A i \in 1..m : n + i \in DOMAIN z /\ z[n + i] = w["SELL"][i]
        /\ \A i \in DOMAIN z : (i \in 1..n /\ z[i] = w["BUY"][i]) \/ (i - n \in 1..m /\ z[i] = w["SELL"][i - n])
    <2>1. w["BUY"] = bids.messages /\ w["SELL"] = asks.messages
      BY <1>2 DEF Side
    <2>2. PICK x \in Seq(Message), y \in Seq(Message) : x = w["BUY"] /\ y = w["SELL"]
      BY <2>1 DEF Answers
    <2>3. z = x \o y /\ n = Len(x) /\ m = Len(y)
      BY <1>2, <1>3, <2>1, <2>2
    <2>4. /\ z \in Seq(Message) /\ n \in Nat /\ m \in Nat
          /\ DOMAIN z = 1..(n + m) /\ DOMAIN x = 1..n /\ DOMAIN y = 1..m
          /\ \A i \in 1..n : i \in DOMAIN z /\ z[i] = x[i]
          /\ \A i \in 1..m : n + i \in DOMAIN z /\ z[n + i] = y[i]
          /\ \A i \in DOMAIN z : (i \in 1..n /\ z[i] = x[i]) \/ (i - n \in 1..m /\ z[i] = y[i - n])
      BY <2>3, ConcatFacts
    <2>5. QED
      BY <2>2, <2>4
  <1>7. \A s \in Side : \A o \in orders[s] : o.id < b /\ o.id \in Ids /\ o.id \in Nat /\ o.price \in Int
    <2>1. TAKE s \in Side
    <2>2. TAKE o \in orders[s]
    <2>3. o \in Orders
      BY DEF MakerTypes
    <2>4. o.id \in Ids /\ o.id \in Nat /\ o.price \in Int
      BY <2>3, MarketMakerAssumption DEF Orders, Ids
    <2>5. o.id \in Listed
      BY ListedIds DEF IdsOf
    <2>6. QED
      BY <1>1, <2>4, <2>5 DEF FreshOK
  <1>8. \A s \in Side : \A o \in orders'[s] :
          /\ o.id \in IdsOf(orders[s]) \/ (o.id = first[s] /\ next[s] = first[s] + 1)
          /\ o.id < d /\ (o.id \in IdsOf(orders[s]) \/ o.id >= b)
          /\ o \in Orders
    <2>1. TAKE s \in Side
    <2>2. TAKE o \in orders'[s]
    <2>3. o.id \in IdsOf(orders[s]) \/ (o.id = first[s] /\ next[s] = first[s] + 1)
      BY <1>5 DEF Answers
    <2>4. o \in [id : Int, price : Int]
      BY <1>5 DEF Answers
    <2>5. o.id < d /\ o.id \in Nat /\ o.id > 0 /\ (o.id \in IdsOf(orders[s]) \/ o.id >= b)
      <3>1. CASE o.id \in IdsOf(orders[s])
        <4>1. PICK p \in orders[s] : p.id = o.id
          BY <3>1 DEF IdsOf
        <4>2. p.id < b /\ p.id \in Nat /\ p.id > 0
          BY <1>7, MarketMakerAssumption DEF Ids
        <4>3. QED
          BY <1>1, <3>1, <4>1, <4>2
      <3>2. CASE o.id = first[s] /\ next[s] = first[s] + 1
        BY <1>1, <1>5, <3>2
      <3>3. QED
        BY <2>3, <3>1, <3>2
    <2>6. o.id \in Ids
      BY <1>1, <2>5, MarketMakerAssumption DEF Ids
    <2>7. o \in Orders
      BY <2>4, <2>6 DEF Orders
    <2>8. QED
      BY <2>3, <2>5, <2>7
  <1>9. IdsOf(orders'["BUY"]) \cap IdsOf(orders'["SELL"]) = {}
    <2>1. ASSUME NEW o \in orders'["BUY"], NEW p \in orders'["SELL"], o.id = p.id PROVE FALSE
      <3>1. /\ o.id \in IdsOf(orders["BUY"]) \/ (o.id = b /\ c = b + 1)
            /\ p.id \in IdsOf(orders["SELL"]) \/ (p.id = c /\ d = c + 1)
        BY <1>2, <1>8 DEF Side
      <3>2. \A x \in IdsOf(orders["BUY"]) \cup IdsOf(orders["SELL"]) : x < b /\ x \in Nat
        BY <1>7 DEF IdsOf, Side
      <3>3. IdsOf(orders["BUY"]) \cap IdsOf(orders["SELL"]) = {}
        BY DEF ListsOK
      <3>4. QED
        BY <1>1, <2>1, <3>1, <3>2, <3>3
    <2>2. QED
      BY <2>1 DEF IdsOf
  <1>10. Listed' = IdsOf(orders'["BUY"]) \cup IdsOf(orders'["SELL"])
    BY DEF Listed, IdsOf
  <1>11. ASSUME NEW s \in Side, NEW i \in DOMAIN w[s] PROVE TurnMessage(w[s][i]) /\ w[s][i] \in Request
    <2>1. PICK k : k = w[s][i]
      OBVIOUS
    <2>2. k \in Message
      <3>1. w[s] \in Seq(Message)
        BY <1>5 DEF Answers
      <3>2. QED
        BY <2>1, <3>1
    <2>3. \/ k.type = "DELETE_ORDER" /\ k.id \in IdsOf(orders[s]) \ IdsOf(orders'[s])
          \/ /\ k.type = "MODIFY_ORDER" /\ k.side = s /\ k.id \in IdsOf(orders[s])
             /\ [id |-> k.id, price |-> k.price] \in orders'[s]
          \/ /\ k.type = "NEW_ORDER" /\ k.side = s /\ k.id = first[s] /\ next[s] = first[s] + 1
             /\ [id |-> k.id, price |-> k.price] \in orders'[s]
      BY <1>5, <2>1, AnswersAt
    <2>4. CASE k.type = "DELETE_ORDER" /\ k.id \in IdsOf(orders[s]) \ IdsOf(orders'[s])
      <3>1. k.id < b /\ k.id \in Ids
        BY <1>7, <2>4 DEF IdsOf
      <3>2. k.id \notin Listed'
        <4>1. SUFFICES ASSUME NEW t \in Side, NEW o \in orders'[t], o.id = k.id PROVE FALSE
          BY <1>10 DEF IdsOf, Side
        <4>2. o.id \in IdsOf(orders[t])
          <5>1. o.id \in IdsOf(orders[t]) \/ o.id >= b
            BY <1>8
          <5>2. QED
            BY <1>1, <3>1, <4>1, <5>1, MarketMakerAssumption DEF Ids
        <4>3. t # s
          BY <2>4, <4>1 DEF IdsOf
        <4>4. QED
          BY <2>4, <4>1, <4>2, <4>3 DEF ListsOK, Side
      <3>3. k \in Request
        BY <2>2, <2>4, <3>1 DEF Message, Request
      <3>4. QED
        BY <2>1, <2>4, <3>2, <3>3 DEF TurnMessage
    <2>5. CASE /\ k.type = "MODIFY_ORDER" /\ k.side = s /\ k.id \in IdsOf(orders[s])
               /\ [id |-> k.id, price |-> k.price] \in orders'[s]
      <3>1. k.id \in Ids
        BY <1>7, <2>5 DEF IdsOf
      <3>2. k \in Request
        BY <2>2, <2>5, <3>1 DEF Message, Request
      <3>3. QED
        BY <2>1, <2>5, <3>2 DEF TurnMessage
    <2>6. CASE /\ k.type = "NEW_ORDER" /\ k.side = s /\ k.id = first[s] /\ next[s] = first[s] + 1
               /\ [id |-> k.id, price |-> k.price] \in orders'[s]
      <3>1. k.id \in Ids /\ k.id >= last_order_id /\ k.id < last_order_id'
        BY <1>1, <1>5, <2>6, MarketMakerAssumption DEF Ids
      <3>2. k \in Request
        BY <2>2, <2>6, <3>1 DEF Message, Request
      <3>3. QED
        BY <2>1, <2>6, <3>1, <3>2 DEF TurnMessage
    <2>7. QED
      BY <2>3, <2>4, <2>5, <2>6
  <1>13. \A i \in DOMAIN z : TurnMessage(z[i]) /\ z[i] \in Request
    BY <1>6, <1>11 DEF Side
  <1>14. z \in Seq(Request)
    <2>1. \A i \in 1..Len(z) : z[i] \in Request
      <3>1. DOMAIN z = 1..Len(z)
        BY <1>6
      <3>2. QED
        BY <1>13, <3>1
    <2>2. QED
      BY <1>6, <2>1
  <1>15. \A i, j \in DOMAIN z : z[i].id = z[j].id => i = j
    <2>1. ASSUME NEW i \in 1..n, NEW j \in 1..m, w["BUY"][i].id = w["SELL"][j].id PROVE FALSE
      <3>1. /\ w["BUY"][i].id \in IdsOf(orders["BUY"]) \/ (w["BUY"][i].id = b /\ c = b + 1)
            /\ w["SELL"][j].id \in IdsOf(orders["SELL"]) \/ (w["SELL"][j].id = c /\ d = c + 1)
        <4>1. Answers("BUY", orders["BUY"], orders'["BUY"], w["BUY"], b, c) /\ i \in DOMAIN w["BUY"]
          BY <1>2, <1>5, <1>6 DEF Side
        <4>2. Answers("SELL", orders["SELL"], orders'["SELL"], w["SELL"], c, d) /\ j \in DOMAIN w["SELL"]
          BY <1>2, <1>5, <1>6 DEF Side
        <4>6. PICK k, l : k = w["BUY"][i] /\ l = w["SELL"][j]
          OBVIOUS
        <4>3. k.id \in IdsOf(orders["BUY"]) \/ (k.id = b /\ c = b + 1)
          BY <4>1, <4>6 DEF Answers
        <4>4. l.id \in IdsOf(orders["SELL"]) \/ (l.id = c /\ d = c + 1)
          BY <4>2, <4>6 DEF Answers
        <4>5. QED
          BY <4>3, <4>4, <4>6
      <3>2. \A x \in IdsOf(orders["BUY"]) \cup IdsOf(orders["SELL"]) : x < b /\ x \in Nat
        BY <1>7 DEF IdsOf, Side
      <3>3. IdsOf(orders["BUY"]) \cap IdsOf(orders["SELL"]) = {}
        BY DEF ListsOK
      <3>4. QED
        BY <1>1, <2>1, <3>1, <3>2, <3>3
    <2>2. /\ \A i, j \in 1..n : w["BUY"][i].id = w["BUY"][j].id => i = j
          /\ \A i, j \in 1..m : w["SELL"][i].id = w["SELL"][j].id => i = j
      <3>1. \A s \in Side : \A i, j \in DOMAIN w[s] : w[s][i].id = w[s][j].id => i = j
        BY <1>5 DEF Answers
      <3>2. QED
        BY <1>6, <3>1 DEF Side
    <2>3. TAKE i, j \in DOMAIN z
    <2>4. SUFFICES ASSUME z[i].id = z[j].id PROVE i = j
      OBVIOUS
    <2>5. i \in Int /\ j \in Int
      BY <1>6
    <2>6. CASE i \in 1..n /\ z[i] = w["BUY"][i]
      <3>1. CASE j \in 1..n /\ z[j] = w["BUY"][j]
        BY <2>2, <2>4, <2>6, <3>1
      <3>2. CASE j - n \in 1..m /\ z[j] = w["SELL"][j - n]
        BY <2>1, <2>4, <2>6, <3>2
      <3>3. QED
        BY <1>6, <3>1, <3>2
    <2>7. CASE i - n \in 1..m /\ z[i] = w["SELL"][i - n]
      <3>1. CASE j \in 1..n /\ z[j] = w["BUY"][j]
        BY <2>1, <2>4, <2>7, <3>1
      <3>2. CASE j - n \in 1..m /\ z[j] = w["SELL"][j - n]
        <4>1. i - n = j - n
          BY <2>2, <2>4, <2>7, <3>2
        <4>2. QED
          BY <1>6, <2>5, <4>1
      <3>3. QED
        BY <1>6, <3>1, <3>2
    <2>8. QED
      BY <1>6, <2>6, <2>7
  <1>16. ASSUME NEW s \in Side, NEW i \in DOMAIN w[s] PROVE \E k \in DOMAIN z : z[k] = w[s][i]
    <2>1. CASE s = "BUY"
      BY <1>6, <2>1
    <2>2. CASE s = "SELL"
      <3>1. n + i \in DOMAIN z /\ z[n + i] = w[s][i]
        BY <1>6, <2>2
      <3>2. QED
        BY <3>1, Zenon
    <2>3. QED
      BY <2>1, <2>2 DEF Side
  <1>17. ASSUME NEW id \in Listed
         PROVE  id \in Listed' \/ \E i \in DOMAIN z : z[i].type = "DELETE_ORDER" /\ z[i].id = id
    <2>0. PICK s \in Side : \E o \in orders[s] : o.id = id
      BY ListedIds
    <2>1. PICK o \in orders[s] : o.id = id
      BY <2>0
    <2>2. CASE o.id \in IdsOf(orders'[s])
      BY <1>10, <2>1, <2>2 DEF Side
    <2>3. CASE o.id \notin IdsOf(orders'[s])
      <3>1. PICK i \in DOMAIN w[s] : w[s][i].type = "DELETE_ORDER" /\ w[s][i].id = o.id
        BY <1>5, <2>3 DEF Answers
      <3>2. QED
        BY <1>16, <2>1, <3>1
    <2>4. QED
      BY <2>2, <2>3
  <1>18. ASSUME NEW s \in Side, NEW o \in orders'[s]
         PROVE  o \in orders[s] \/ \E i \in DOMAIN z : z[i].type # "DELETE_ORDER" /\ z[i].id = o.id
    <2>1. CASE o \in orders[s]
      BY <2>1
    <2>2. CASE o \notin orders[s]
      <3>1. PICK i \in DOMAIN w[s] : w[s][i].type # "DELETE_ORDER" /\ w[s][i].id = o.id
        BY <1>5, <2>2 DEF Answers
      <3>2. QED
        BY <1>16, <3>1
    <2>3. QED
      BY <2>1, <2>2
  <1>19. orders' \in [Side -> SUBSET Orders]
    BY <1>4, <1>8
  <1>20. \A s \in Side : IsFiniteSet(orders'[s]) /\ \A o, p \in orders'[s] : o.price = p.price \/ o.id = p.id => o = p
    BY <1>5 DEF Answers
  <1>21. last_order_id' \in 1..(MaxOrders + 1) /\ last_order_id <= last_order_id'
    BY <1>1, MarketMakerAssumption
  <1>22. TurnSteps(z)
    BY <1>1, <1>8, <1>9, <1>13, <1>14, <1>15, <1>17, <1>18, <1>19, <1>20, <1>21 DEF TurnSteps
  <1>23. QED
    BY <1>3, <1>22

\* What is on the connection after the messages w were written: they follow what was there,
\* each once, but for those whose write failed.
Sent(w) ==
    /\ requests' \in Seq(Request) /\ DOMAIN requests \subseteq DOMAIN requests'
    /\ \A i \in DOMAIN requests : requests'[i] = requests[i]
    /\ \A i \in DOMAIN requests' \ DOMAIN requests :
         /\ \E k \in DOMAIN w : requests'[i] = w[k]
         /\ \A j \in DOMAIN requests : j < i
    /\ \A i, j \in DOMAIN requests' \ DOMAIN requests : requests'[i].id = requests'[j].id => i = j
    /\ \A k \in DOMAIN w :
         w[k].id \in unsent' \/ \E i \in DOMAIN requests' \ DOMAIN requests : requests'[i] = w[k]
    /\ unsent \subseteq unsent' /\ unsent' \subseteq Ids
    /\ \A id \in unsent' : id \in unsent \/ \E k \in DOMAIN w : w[k].id = id

\* The client's orders after send_order of the new ones among w.
Noted(w) ==
    /\ DOMAIN open_orders' = DOMAIN open_orders \cup {w[k].id : k \in {i \in DOMAIN w : w[i].type = "NEW_ORDER"}}
    /\ \A id \in DOMAIN open_orders : open_orders'[id] = open_orders[id]
    /\ \A k \in DOMAIN w : w[k].type = "NEW_ORDER" /\ w[k].id \notin DOMAIN open_orders =>
         open_orders'[w[k].id] = w[k].side
    /\ open_orders' \in [DOMAIN open_orders' -> Side \cup {"unknown"}] /\ DOMAIN open_orders' \subseteq Ids

\* Requests have ids, and all but cancels a side and a price.
LEMMA RequestFields ==
    ASSUME NEW m \in Request
    PROVE  /\ m.type \in {"NEW_ORDER", "MODIFY_ORDER", "DELETE_ORDER"} /\ m.id \in Ids /\ m.id \in Nat
           /\ m.type # "DELETE_ORDER" => m.side \in Side /\ m.price \in Int
  BY MarketMakerAssumption DEF Request, Ids

\* What OEClient writes.
LEMMA WriteSends ==
    ASSUME MakerTypes, NEW w \in Seq(Request), \A i, j \in DOMAIN w : w[i].id = w[j].id => i = j, Write(w)
    PROVE  Sent(w)
  <1>1. PICK failed \in SUBSET DOMAIN w :
          /\ unsent' = unsent \cup {w[i].id : i \in failed}
          /\ requests' = requests \o Written(w, failed)
    BY DEF Write
  <1>2. PICK v : v = Written(w, failed)
    OBVIOUS
  <1>3. v \in Seq(Request) /\ Remainder(v, w, failed)
    BY <1>2, WrittenFacts
  <1>4. PICK row \in [1..Len(v) -> DOMAIN w \ failed] :
                /\ \A i \in 1..Len(v) : v[i] = w[row[i]]
                /\ \A i, j \in 1..Len(v) : i # j => row[i] # row[j]
                /\ \A k \in DOMAIN w \ failed : \E i \in 1..Len(v) : row[i] = k
    BY <1>3 DEF Remainder
  <1>5. PICK n, m, z : n = Len(requests) /\ m = Len(v) /\ z = requests \o v
    OBVIOUS
  <1>6. /\ z \in Seq(Request) /\ n \in Nat /\ m \in Nat
        /\ DOMAIN z = 1..(n + m) /\ DOMAIN requests = 1..n /\ DOMAIN v = 1..m
        /\ \A i \in 1..n : i \in DOMAIN z /\ z[i] = requests[i]
        /\ \A i \in 1..m : n + i \in DOMAIN z /\ z[n + i] = v[i]
        /\ \A i \in DOMAIN z : (i \in 1..n /\ z[i] = requests[i]) \/ (i - n \in 1..m /\ z[i] = v[i - n])
    <2>1. requests \in Seq(Request)
      BY DEF MakerTypes
    <2>2. QED
      BY <1>3, <1>5, <2>1, ConcatFacts
  <1>7. requests' = z
    BY <1>1, <1>2, <1>5
  <1>8. \A i \in DOMAIN z \ 1..n : i - n \in 1..m /\ z[i] = w[row[i - n]] /\ row[i - n] \in DOMAIN w /\ i \in Int
    BY <1>4, <1>5, <1>6
  <1>9. \A i \in DOMAIN z \ 1..n : (\E k \in DOMAIN w : z[i] = w[k]) /\ \A j \in 1..n : j < i
    BY <1>6, <1>8
  <1>10. ASSUME NEW i \in DOMAIN z \ 1..n, NEW j \in DOMAIN z \ 1..n, z[i].id = z[j].id PROVE i = j
    <2>1. row[i - n] = row[j - n]
      BY <1>8, <1>10
    <2>2. i - n = j - n
      BY <1>4, <1>5, <1>8, <2>1
    <2>3. QED
      BY <1>6, <1>8, <2>2
  <1>11. ASSUME NEW k \in DOMAIN w
         PROVE  w[k].id \in unsent' \/ \E i \in DOMAIN z \ 1..n : z[i] = w[k]
    <2>1. CASE k \in failed
      BY <1>1, <2>1
    <2>2. CASE k \notin failed
      <3>1. PICK i \in 1..m : row[i] = k
        BY <1>4, <1>5, <2>2
      <3>2. n + i \in DOMAIN z /\ z[n + i] = w[k] /\ n + i \notin 1..n
        BY <1>4, <1>5, <1>6, <3>1
      <3>3. QED
        BY <3>2, Zenon
    <2>3. QED
      BY <2>1, <2>2
  <1>12. unsent \subseteq unsent' /\ unsent' \subseteq Ids
    <2>1. \A i \in DOMAIN w : w[i].id \in Ids
      <3>1. \A i \in DOMAIN w : w[i] \in Request
        OBVIOUS
      <3>2. QED
        BY <3>1, RequestFields
    <2>2. QED
      BY <1>1, <2>1 DEF MakerTypes
  <1>13. \A id \in unsent' : id \in unsent \/ \E k \in DOMAIN w : w[k].id = id
    BY <1>1
  <1>14. QED
    BY <1>6, <1>7, <1>9, <1>10, <1>11, <1>12, <1>13 DEF Sent

\* What OEClient notes.
LEMMA WriteNotes ==
    ASSUME MakerTypes, NEW w \in Seq(Request), \A i, j \in DOMAIN w : w[i].id = w[j].id => i = j, Write(w)
    PROVE  Noted(w)
  <1>1. PICK new : new = {i \in DOMAIN w : w[i].type = "NEW_ORDER"}
    OBVIOUS
  <1>2. PICK f : f = open_orders
    OBVIOUS
  <1>3. open_orders' = [id \in DOMAIN f \cup {w[i].id : i \in new} |->
                          IF id \in DOMAIN f THEN f[id] ELSE w[CHOOSE i \in new : w[i].id = id].side]
    BY <1>1, <1>2 DEF Write, Known
  <1>4. \A i \in DOMAIN w : w[i] \in Request
    OBVIOUS
  <1>5. \A i \in new : w[i].id \in Ids /\ w[i].side \in Side
    BY <1>1, <1>4, RequestFields
  <1>6. \A k \in new : (CHOOSE i \in new : w[i].id = w[k].id) = k
    BY <1>1
  <1>7. \A k \in new : w[k].id \notin DOMAIN f => open_orders'[w[k].id] = w[k].side
    BY <1>3, <1>6
  <1>8. \A id \in DOMAIN open_orders' : id \in DOMAIN f \/ \E k \in new : w[k].id = id
    BY <1>3
  <1>9. \A id \in DOMAIN open_orders' : open_orders'[id] \in Side \cup {"unknown"} /\ id \in Ids
    <2>1. TAKE id \in DOMAIN open_orders'
    <2>2. CASE id \in DOMAIN f
      BY <1>2, <1>3, <2>2 DEF MakerTypes
    <2>3. CASE id \notin DOMAIN f
      <3>1. PICK k \in new : w[k].id = id
        BY <1>8, <2>3
      <3>2. QED
        BY <1>5, <1>7, <2>3, <3>1
    <2>4. QED
      BY <2>2, <2>3
  <1>10. open_orders' \in [DOMAIN open_orders' -> Side \cup {"unknown"}] /\ DOMAIN open_orders' \subseteq Ids
    BY <1>3, <1>9
  <1>11. DOMAIN open_orders' = DOMAIN f \cup {w[i].id : i \in new} /\ \A id \in DOMAIN f : open_orders'[id] = f[id]
    BY <1>3
  <1>12. QED
    BY <1>1, <1>2, <1>7, <1>10, <1>11 DEF Noted

-----------------------------------------------------------------------------
(* A turn keeps the invariant. *)

\* The bot lists anew, writes w and notes what it sent; the other end does nothing.
TurnOf(w) ==
    /\ TurnSteps(w) /\ Sent(w) /\ Noted(w)
    /\ UNCHANGED <<maker, mode, reports, session, open, filled, positions>>

\* The ids of a turn's messages: new ones are new, the others are listed.
LEMMA TurnIds ==
    ASSUME MakerInv, NEW w, TurnOf(w), NEW k \in DOMAIN w, NEW m, m = w[k]
    PROVE  /\ m \in Request /\ TurnMessage(m) /\ m.id \in Nat /\ m.id < last_order_id'
           /\ m.type = "NEW_ORDER" => m.id >= last_order_id /\ m.id \in Listed'
           /\ m.type # "NEW_ORDER" => m.id \in Listed /\ m.id < last_order_id
           /\ m.type # "DELETE_ORDER" => m.id \in Listed'
           /\ last_order_id \in Nat /\ last_order_id' \in Nat /\ last_order_id <= last_order_id'
  <1>1. m \in Request /\ TurnMessage(m)
    BY DEF TurnOf, TurnSteps
  <1>2. m.id \in Nat /\ m.type \in {"NEW_ORDER", "MODIFY_ORDER", "DELETE_ORDER"}
    BY <1>1, RequestFields
  <1>3. last_order_id \in Nat /\ last_order_id' \in Nat /\ last_order_id <= last_order_id'
    BY MarketMakerAssumption, SMTT(60) DEF TurnOf, TurnSteps, MakerInv, MakerTypes
  <1>4. \A side \in Side : \A price : [id |-> m.id, price |-> price] \in orders'[side] => m.id \in Listed'
    BY DEF Listed, Side
  <1>5. m.type = "NEW_ORDER" => m.id >= last_order_id /\ m.id < last_order_id' /\ m.id \in Listed'
    BY <1>1, <1>4 DEF TurnMessage
  <1>6. m.type = "MODIFY_ORDER" => m.id \in Listed'
    BY <1>1, <1>4 DEF TurnMessage
  <1>7. m.type # "NEW_ORDER" => m.id \in Listed
    BY <1>1, <1>2, ListedIds DEF TurnMessage
  <1>8. \A id \in Listed : id < last_order_id
    BY DEF MakerInv, FreshOK
  <1>9. QED
    BY <1>1, <1>2, <1>3, <1>5, <1>6, <1>7, <1>8

\* Types, freshness of ids.
LEMMA TurnTypes ==
    ASSUME MakerInv, NEW w, TurnOf(w), sent' \in BOOLEAN
    PROVE  MakerTypes' /\ FreshOK'
  <1>1. MakerTypes'
    BY DEF MakerInv, MakerTypes, TurnOf, TurnSteps, Sent, Noted
  <1>2. last_order_id \in Nat /\ last_order_id' \in Nat /\ last_order_id <= last_order_id'
    BY MarketMakerAssumption, SMTT(60) DEF TurnOf, TurnSteps, MakerInv, MakerTypes
  <1>3. \A k \in DOMAIN w : w[k].id < last_order_id'
    BY TurnIds
  <1>4. ASSUME NEW id \in Listed' PROVE id < last_order_id'
    BY <1>4 DEF Listed, TurnOf, TurnSteps, Side
  <1>5. \A id \in DOMAIN open_orders \cup unsent : id \in Nat /\ id < last_order_id
    BY MarketMakerAssumption, SMTT(60) DEF MakerInv, MakerTypes, FreshOK, Ids
  <1>6. ASSUME NEW id \in DOMAIN open_orders' PROVE id < last_order_id'
    <2>1. id \in DOMAIN open_orders \/ \E k \in DOMAIN w : w[k].id = id
      BY DEF TurnOf, Noted
    <2>2. QED
      BY <1>2, <1>3, <1>5, <2>1
  <1>7. ASSUME NEW id \in unsent' PROVE id < last_order_id'
    <2>1. id \in unsent \/ \E k \in DOMAIN w : w[k].id = id
      BY DEF TurnOf, Sent
    <2>2. QED
      BY <1>2, <1>3, <1>5, <2>1
  <1>8. ASSUME NEW i \in DOMAIN requests' PROVE requests'[i].id < last_order_id'
    <2>1. CASE i \in DOMAIN requests
      <3>1. requests'[i] = requests[i] /\ requests[i] \in Request
        BY <2>1 DEF TurnOf, Sent, MakerInv, MakerTypes
      <3>2. requests[i].id \in Nat /\ requests[i].id < last_order_id
        BY <2>1, <3>1, RequestFields DEF MakerInv, FreshOK
      <3>3. QED
        BY <1>2, <3>1, <3>2
    <2>2. CASE i \notin DOMAIN requests
      <3>1. PICK k \in DOMAIN w : requests'[i] = w[k]
        BY <2>2 DEF TurnOf, Sent
      <3>2. QED
        BY <1>3, <3>1
    <2>3. QED
      BY <2>1, <2>2
  <1>9. ASSUME NEW i \in DOMAIN reports', reports'[i].type # "ERROR" PROVE reports'[i].id < last_order_id'
    <2>1. reports' = reports /\ reports[i] \in ReportType
      BY DEF TurnOf, MakerInv, MakerTypes
    <2>2. reports[i].id \in Nat
      BY <1>9, <2>1, MarketMakerAssumption DEF ReportType, Ids
    <2>3. reports[i].id < last_order_id
      BY <1>9, <2>1 DEF MakerInv, FreshOK
    <2>4. QED
      BY <1>2, <2>1, <2>2, <2>3
  <1>10. QED
    BY <1>1, <1>4, <1>6, <1>7, <1>8, <1>9 DEF FreshOK

\* A request after a turn was there before, or is one of its messages.
LEMMA TurnRequests ==
    ASSUME MakerInv, NEW w, TurnOf(w), NEW i \in DOMAIN requests', NEW m, m = requests'[i]
    PROVE  \/ i \in DOMAIN requests /\ m = requests[i] /\ m \in Request /\ m.id \in Nat /\ m.id < last_order_id
           \/ i \notin DOMAIN requests /\ \E k \in DOMAIN w : m = w[k]
  <1>1. CASE i \in DOMAIN requests
    <2>1. m = requests[i] /\ requests[i] \in Request
      BY <1>1 DEF TurnOf, Sent, MakerInv, MakerTypes
    <2>2. requests[i].id \in Nat /\ requests[i].id < last_order_id
      BY <1>1, <2>1, RequestFields DEF MakerInv, FreshOK
    <2>3. QED
      BY <1>1, <2>1, <2>2
  <1>2. CASE i \notin DOMAIN requests
    BY <1>2 DEF TurnOf, Sent
  <1>3. QED
    BY <1>1, <1>2

\* What the client knows.
LEMMA TurnKnown ==
    ASSUME MakerInv, NEW w, TurnOf(w)
    PROVE  KnownOK'
  <1>1. /\ reports' = reports /\ open' = open /\ DOMAIN open_orders \subseteq DOMAIN open_orders'
        /\ \A id \in DOMAIN open_orders : open_orders'[id] = open_orders[id]
    BY DEF TurnOf, Noted
  <1>2. \A id \in DOMAIN open_orders : id \in Nat /\ id < last_order_id
    BY MarketMakerAssumption, SMTT(60) DEF MakerInv, MakerTypes, FreshOK, Ids
  <1>3. \A id \in DOMAIN open : id \in DOMAIN open_orders
    BY DEF MakerInv, KnownOK
  <1>4. last_order_id \in Nat
    BY MarketMakerAssumption, SMTT(60) DEF MakerInv, MakerTypes
  <1>5. ASSUME NEW id \in DOMAIN open'
        PROVE  /\ id \in DOMAIN open_orders' /\ open_orders'[id] = open'[id].side
               /\ \A i \in DOMAIN reports' : reports'[i].type = "CLOSE" => reports'[i].id # id
    BY <1>1 DEF MakerInv, KnownOK
  <1>6. ASSUME NEW i \in DOMAIN reports', reports'[i].type = "FILL"
        PROVE  /\ reports'[i].id \in DOMAIN open_orders' /\ open_orders'[reports'[i].id] \in Side
               /\ \A j \in DOMAIN reports' : reports'[j].type = "CLOSE" /\ reports'[j].id = reports'[i].id => i < j
    BY <1>1, <1>6 DEF MakerInv, KnownOK
  <1>7. ASSUME NEW i \in DOMAIN requests', requests'[i].type = "NEW_ORDER"
        PROVE  /\ requests'[i].id \in DOMAIN open_orders' /\ open_orders'[requests'[i].id] = requests'[i].side
               /\ requests'[i].id \notin DOMAIN open'
               /\ \A j \in DOMAIN reports' : reports'[j].type # "ERROR" => reports'[j].id # requests'[i].id
               /\ \A j \in DOMAIN requests' :
                    requests'[j].type = "NEW_ORDER" /\ requests'[j].id = requests'[i].id => i = j
    <2>1. PICK m : m = requests'[i]
      OBVIOUS
    <2>2. CASE i \in DOMAIN requests /\ m = requests[i] /\ m \in Request /\ m.id \in Nat /\ m.id < last_order_id
      <3>1. /\ m.id \in DOMAIN open_orders /\ open_orders[m.id] = m.side /\ m.id \notin DOMAIN open
            /\ \A j \in DOMAIN reports : reports[j].type # "ERROR" => reports[j].id # m.id
            /\ \A j \in DOMAIN requests : requests[j].type = "NEW_ORDER" /\ requests[j].id = m.id => i = j
        BY <1>7, <2>1, <2>2 DEF MakerInv, KnownOK
      <3>2. ASSUME NEW j \in DOMAIN requests', requests'[j].type = "NEW_ORDER", requests'[j].id = m.id PROVE i = j
        <4>1. CASE j \in DOMAIN requests /\ requests'[j] = requests[j]
          BY <3>1, <3>2, <4>1
        <4>2. CASE \E k \in DOMAIN w : requests'[j] = w[k]
          <5>1. PICK k \in DOMAIN w : requests'[j] = w[k]
            BY <4>2
          <5>2. w[k].id >= last_order_id
            BY <3>2, <5>1, TurnIds
          <5>3. QED
            BY <1>4, <2>2, <3>2, <5>1, <5>2
        <4>3. QED
          BY <4>1, <4>2, TurnRequests
      <3>3. QED
        BY <1>1, <2>1, <3>1, <3>2
    <2>3. CASE i \notin DOMAIN requests /\ \E k \in DOMAIN w : m = w[k]
      <3>1. PICK k \in DOMAIN w : m = w[k]
        BY <2>3
      <3>2. m.id >= last_order_id /\ m.id \in Nat
        BY <1>7, <2>1, <3>1, TurnIds
      <3>3. m.id \notin DOMAIN open_orders /\ m.id \notin DOMAIN open
        BY <1>2, <1>3, <1>4, <3>2
      <3>4. m.id \in DOMAIN open_orders' /\ open_orders'[m.id] = m.side
        BY <1>7, <2>1, <3>1, <3>3 DEF TurnOf, Noted
      <3>5. ASSUME NEW j \in DOMAIN reports, reports[j].type # "ERROR" PROVE reports[j].id # m.id
        <4>1. reports[j] \in ReportType
          BY DEF MakerInv, MakerTypes
        <4>2. reports[j].id \in Nat
          BY <3>5, <4>1, MarketMakerAssumption DEF ReportType, Ids
        <4>3. reports[j].id < last_order_id
          BY <3>5 DEF MakerInv, FreshOK
        <4>4. QED
          BY <1>4, <3>2, <4>2, <4>3
      <3>6. ASSUME NEW j \in DOMAIN requests', requests'[j].type = "NEW_ORDER", requests'[j].id = m.id PROVE i = j
        <4>1. PICK q : q = requests'[j]
          OBVIOUS
        <4>2. CASE j \in DOMAIN requests /\ q.id \in Nat /\ q.id < last_order_id
          BY <1>4, <3>2, <3>6, <4>1, <4>2
        <4>3. CASE j \notin DOMAIN requests
          BY <2>1, <2>3, <3>6, <4>3 DEF TurnOf, Sent
        <4>4. QED
          BY <4>1, <4>2, <4>3, TurnRequests
      <3>7. QED
        BY <1>1, <2>1, <3>3, <3>4, <3>5, <3>6
    <2>4. QED
      BY <2>1, <2>2, <2>3, TurnRequests
  <1>8. QED
    BY <1>5, <1>6, <1>7 DEF KnownOK

\* No order is left behind.
LEMMA TurnOrphans ==
    ASSUME MakerInv, NEW w, TurnOf(w)
    PROVE  OrphanOK'
  <1>1. /\ open' = open /\ unsent \subseteq unsent' /\ DOMAIN requests \subseteq DOMAIN requests'
        /\ \A i \in DOMAIN requests : requests'[i] = requests[i]
    BY DEF TurnOf, Sent
  <1>2. \A id : Pending(id) \subseteq Pending(id)'
    BY <1>1 DEF Pending
  <1>3. ASSUME NEW id \in Listed, id \notin unsent', id \notin Listed'
        PROVE  \E j \in DOMAIN requests' \ DOMAIN requests : requests'[j].type = "DELETE_ORDER" /\ requests'[j].id = id
    <2>1. PICK k \in DOMAIN w : w[k].type = "DELETE_ORDER" /\ w[k].id = id
      BY <1>3 DEF TurnOf, TurnSteps
    <2>2. PICK j \in DOMAIN requests' \ DOMAIN requests : requests'[j] = w[k]
      BY <1>3, <2>1 DEF TurnOf, Sent
    <2>3. QED
      BY <2>1, <2>2
  <1>4. ASSUME NEW id \in DOMAIN open', id \notin unsent'
        PROVE  id \in Listed' \/ \E i \in Pending(id)' : requests'[i].type = "DELETE_ORDER"
    <2>1. id \in Listed \/ \E i \in Pending(id) : requests[i].type = "DELETE_ORDER"
      BY <1>1, <1>4 DEF MakerInv, OrphanOK, NoOrphans
    <2>2. CASE id \in Listed
      BY <1>3, <1>4, <2>2 DEF Pending
    <2>3. CASE \E i \in Pending(id) : requests[i].type = "DELETE_ORDER"
      BY <1>1, <1>2, <2>3 DEF Pending
    <2>4. QED
      BY <2>1, <2>2, <2>3
  <1>5. NoOrphans'
    BY <1>4 DEF NoOrphans
  <1>6. ASSUME NEW i \in DOMAIN requests', requests'[i].type = "NEW_ORDER", requests'[i].id \notin unsent'
        PROVE  \/ requests'[i].id \in Listed'
               \/ \E j \in DOMAIN requests' : /\ requests'[j].id = requests'[i].id
                                              /\ i < j /\ requests'[j].type = "DELETE_ORDER"
    <2>1. PICK m : m = requests'[i]
      OBVIOUS
    <2>2. CASE i \in DOMAIN requests /\ m = requests[i]
      <3>1. m.id \in Listed \/ \E j \in Pending(m.id) : i < j /\ requests[j].type = "DELETE_ORDER"
        BY <1>1, <1>6, <2>1, <2>2 DEF MakerInv, OrphanOK
      <3>2. CASE \E j \in Pending(m.id) : i < j /\ requests[j].type = "DELETE_ORDER"
        BY <1>1, <1>2, <2>1, <3>2 DEF Pending
      <3>3. CASE m.id \in Listed /\ m.id \notin Listed'
        <4>1. PICK j \in DOMAIN requests' \ DOMAIN requests : requests'[j].type = "DELETE_ORDER" /\ requests'[j].id = m.id
          BY <1>3, <1>6, <2>1, <3>3
        <4>2. i < j
          BY <2>2, <4>1 DEF TurnOf, Sent
        <4>3. QED
          BY <2>1, <4>1, <4>2 DEF Pending
      <3>4. QED
        BY <2>1, <3>1, <3>2, <3>3
    <2>3. CASE \E k \in DOMAIN w : m = w[k]
      <3>1. PICK k \in DOMAIN w : m = w[k]
        BY <2>3
      <3>2. m.id \in Listed'
        BY <1>6, <2>1, <3>1, TurnIds
      <3>3. QED
        BY <2>1, <3>2
    <2>4. QED
      BY <2>1, <2>2, <2>3, TurnRequests
  <1>7. QED
    BY <1>5, <1>6 DEF OrphanOK, Pending

\* The bot knows where its orders are.
LEMMA TurnPrices ==
    ASSUME MakerInv, NEW w, TurnOf(w)
    PROVE  PriceOK'
  <1>1. /\ open' = open /\ unsent \subseteq unsent' /\ DOMAIN requests \subseteq DOMAIN requests'
        /\ \A i \in DOMAIN requests : requests'[i] = requests[i]
    BY DEF TurnOf, Sent
  <1>2. last_order_id \in Nat /\ \A id \in DOMAIN open : id \in Nat /\ id < last_order_id
    BY MarketMakerAssumption, SMTT(60) DEF MakerInv, MakerTypes, FreshOK, KnownOK, Ids
  <1>3. SUFFICES ASSUME NEW side \in Side, NEW o \in orders'[side], o.id \notin unsent'
                 PROVE  /\ \A i \in DOMAIN requests' : requests'[i].id = o.id =>
                             /\ requests'[i].type # "DELETE_ORDER" /\ requests'[i].side = side
                             /\ (\A j \in DOMAIN requests' : requests'[j].id = o.id => j <= i) =>
                                   requests'[i].price = o.price
                        /\ o.id \in DOMAIN open =>
                             /\ open[o.id].side = side
                             /\ (\A i \in DOMAIN requests' : requests'[i].id # o.id) => open[o.id].price = o.price
    BY <1>1 DEF PriceOK, Pending
  <1>4. ASSUME NEW p \in orders[side], p.id = o.id
        PROVE  /\ \A i \in DOMAIN requests : requests[i].id = o.id =>
                    /\ requests[i].type # "DELETE_ORDER" /\ requests[i].side = side
                    /\ (\A j \in DOMAIN requests : requests[j].id = o.id => j <= i) => requests[i].price = p.price
               /\ o.id \in DOMAIN open =>
                    /\ open[o.id].side = side
                    /\ (\A i \in DOMAIN requests : requests[i].id # o.id) => open[o.id].price = p.price
    <2>1. p.id \notin unsent
      BY <1>1, <1>3, <1>4
    <2>2. QED
      BY <1>4, <2>1 DEF MakerInv, PriceOK, Pending
  <1>5. CASE \A k \in DOMAIN w : w[k].id # o.id
    <2>1. o \in orders[side]
      BY <1>5 DEF TurnOf, TurnSteps
    <2>2. \A i \in DOMAIN requests' : requests'[i].id = o.id => i \in DOMAIN requests
      BY <1>5, TurnRequests
    <2>3. QED
      BY <1>1, <1>4, <2>1, <2>2
  <1>6. ASSUME NEW k \in DOMAIN w, w[k].id = o.id
        PROVE  /\ \A i \in DOMAIN requests' : requests'[i].id = o.id =>
                    /\ requests'[i].type # "DELETE_ORDER" /\ requests'[i].side = side
                    /\ (\A j \in DOMAIN requests' : requests'[j].id = o.id => j <= i) =>
                          requests'[i].price = o.price
               /\ o.id \in DOMAIN open =>
                    /\ open[o.id].side = side
                    /\ (\A i \in DOMAIN requests' : requests'[i].id # o.id) => open[o.id].price = o.price
    <2>1. PICK m : m = w[k]
      OBVIOUS
    <2>2. /\ TurnMessage(m) /\ m \in Request /\ m.id = o.id /\ m.id \in Nat
          /\ m.type = "NEW_ORDER" => m.id >= last_order_id
      BY <1>6, <2>1, TurnIds
    <2>3. o.id \in Listed'
      BY DEF Listed, Side
    <2>4. PICK s \in Side :
            \/ /\ m.type = "MODIFY_ORDER" /\ m.side = s /\ m.id \in IdsOf(orders[s])
               /\ [id |-> m.id, price |-> m.price] \in orders'[s]
            \/ /\ m.type = "NEW_ORDER" /\ m.side = s
               /\ [id |-> m.id, price |-> m.price] \in orders'[s]
      BY <2>2, <2>3 DEF TurnMessage
    <2>5. PICK q \in orders'[s] : q = [id |-> m.id, price |-> m.price]
      BY <2>4
    <2>6. q.id = o.id /\ q.price = m.price
      BY <2>2, <2>5
    <2>7. s = side
      <3>1. o.id \in IdsOf(orders'[side]) /\ o.id \in IdsOf(orders'[s])
        BY <2>6 DEF IdsOf
      <3>2. IdsOf(orders'["BUY"]) \cap IdsOf(orders'["SELL"]) = {}
        BY DEF TurnOf, TurnSteps
      <3>3. QED
        BY <3>1, <3>2 DEF Side
    <2>8. q = o
      BY <2>6, <2>7 DEF TurnOf, TurnSteps
    <2>9. m.side = side /\ m.price = o.price /\ m.type # "DELETE_ORDER"
      BY <2>4, <2>6, <2>7, <2>8
    <2>10. PICK i \in DOMAIN requests' \ DOMAIN requests : requests'[i] = m
      BY <1>3, <1>6, <2>1 DEF TurnOf, Sent
    <2>11. \A j \in DOMAIN requests' \ DOMAIN requests : requests'[j].id = o.id => j = i
      BY <2>2, <2>10 DEF TurnOf, Sent
    <2>12. \A j \in DOMAIN requests : j < i /\ j \in Int /\ i \in Int /\ j # i
      <3>1. requests' \in Seq(Request) /\ requests \in Seq(Request)
        BY DEF TurnOf, Sent, MakerInv, MakerTypes
      <3>2. \A j \in DOMAIN requests : j \in Int /\ i \in Int
        BY <3>1
      <3>3. \A j \in DOMAIN requests : j < i
        BY <2>10 DEF TurnOf, Sent
      <3>4. QED
        BY <2>10, <3>2, <3>3
    <2>13. CASE m.type = "MODIFY_ORDER"
      <3>1. PICK p \in orders[side] : p.id = o.id
        BY <2>2, <2>4, <2>7, <2>13 DEF IdsOf
      <3>2. /\ \A j \in DOMAIN requests : requests[j].id = o.id =>
                    requests[j].type # "DELETE_ORDER" /\ requests[j].side = side
            /\ o.id \in DOMAIN open => open[o.id].side = side
        BY <1>4, <3>1
      <3>3. ASSUME NEW j \in DOMAIN requests', requests'[j].id = o.id
            PROVE  /\ requests'[j].type # "DELETE_ORDER" /\ requests'[j].side = side
                   /\ (\A l \in DOMAIN requests' : requests'[l].id = o.id => l <= j) => requests'[j].price = o.price
        <4>1. CASE j \in DOMAIN requests
          <5>1. i \in DOMAIN requests' /\ requests'[i].id = o.id /\ ~(i <= j)
            BY <2>2, <2>10, <2>12, <4>1
          <5>2. QED
            BY <1>1, <3>2, <3>3, <4>1, <5>1
        <4>2. CASE j \notin DOMAIN requests
          BY <2>9, <2>10, <2>11, <3>3, <4>2
        <4>3. QED
          BY <4>1, <4>2
      <3>4. i \in DOMAIN requests' /\ requests'[i].id = o.id
        BY <2>2, <2>10
      <3>5. QED
        BY <3>2, <3>3, <3>4
    <2>14. CASE m.type = "NEW_ORDER"
      <3>1. o.id \notin DOMAIN open
        BY <1>2, <2>2, <2>14
      <3>2. \A j \in DOMAIN requests' : requests'[j].id = o.id => j \notin DOMAIN requests
        <4>1. \A j \in DOMAIN requests : requests[j].id \in Nat /\ requests[j].id < last_order_id
          <5>1. \A j \in DOMAIN requests : requests[j] \in Request
            BY DEF MakerInv, MakerTypes
          <5>2. QED
            BY <5>1, RequestFields DEF MakerInv, FreshOK
        <4>2. QED
          BY <1>1, <1>2, <2>2, <2>14, <4>1
      <3>3. \A j \in DOMAIN requests' : requests'[j].id = o.id => requests'[j] = m
        BY <2>10, <2>11, <3>2
      <3>4. QED
        BY <2>9, <3>1, <3>3
    <2>15. QED
      BY <2>4, <2>13, <2>14
  <1>7. QED
    BY <1>5, <1>6

\* The fills on the way, and their sum, depend on the reports and on what is known of them.
LEMMA InFlightSame ==
    ASSUME MakerTypes, UNCHANGED reports,
           \A i \in DOMAIN reports : reports[i].type = "FILL" =>
              /\ reports[i].id \in DOMAIN open_orders <=> reports[i].id \in DOMAIN open_orders'
              /\ reports[i].id \in DOMAIN open_orders => open_orders'[reports[i].id] = open_orders[reports[i].id]
    PROVE  \A side \in Side : FillsInFlight(side)' = FillsInFlight(side)
  <1>1. TAKE side \in Side
  <1>2. InFlight(side)' = InFlight(side)
    BY DEF InFlight
  <1>3. QED
    BY <1>2 DEF FillsInFlight

\* The position.
LEMMA TurnBooked ==
    ASSUME MakerInv, NEW w, TurnOf(w)
    PROVE  BookedOK'
  <1>1. \A side \in Side : FillsInFlight(side)' = FillsInFlight(side)
    <2>1. \A i \in DOMAIN reports : reports[i].type = "FILL" => reports[i].id \in DOMAIN open_orders
      BY DEF MakerInv, KnownOK
    <2>2. /\ DOMAIN open_orders \subseteq DOMAIN open_orders' /\ reports' = reports
          /\ \A id \in DOMAIN open_orders : open_orders'[id] = open_orders[id]
      BY DEF TurnOf, Noted
    <2>3. MakerTypes
      BY DEF MakerInv
    <2>4. QED
      BY <2>1, <2>2, <2>3, InFlightSame
  <1>2. filled' = filled /\ positions' = positions
    BY DEF TurnOf
  <1>3. QED
    BY <1>1, <1>2 DEF MakerInv, BookedOK, Side

\* A turn keeps the invariant, if the lists keep their lengths and are not crossed.
LEMMA TurnKeeps ==
    ASSUME MakerInv, NEW w, TurnOf(w), sent' \in BOOLEAN,
           \A side \in Side : Cardinality(orders'[side]) <= IF maker = "stack" THEN stack_depth ELSE 1,
           StackUncrossed'
    PROVE  MakerInv'
  <1>1. ListsOK'
    BY DEF ListsOK, TurnOf, TurnSteps
  <1>2. MakerTypes' /\ FreshOK' /\ KnownOK' /\ OrphanOK' /\ PriceOK' /\ BookedOK'
    BY TurnTypes, TurnKnown, TurnOrphans, TurnPrices, TurnBooked
  <1>3. QED
    BY <1>1, <1>2 DEF MakerInv

\* The lists of a state are what a side starts from.
LEMMA ListedSides ==
    ASSUME MakerInv, NEW id \in Int, last_order_id <= id, NEW side \in Side
    PROVE  Listing(orders[side], id)
  <1>1. orders[side] \subseteq Orders /\ IsFiniteSet(orders[side])
    BY DEF MakerInv, MakerTypes
  <1>2. \A o, p \in orders[side] : o.price = p.price \/ o.id = p.id => o = p
    BY DEF MakerInv, ListsOK
  <1>3. ASSUME NEW o \in orders[side] PROVE o.id < id
    <2>1. o.id \in Nat
      BY <1>1, MarketMakerAssumption DEF Orders, Ids
    <2>2. o.id \in Listed
      BY ListedIds DEF IdsOf
    <2>3. o.id < last_order_id
      BY <2>2 DEF MakerInv, FreshOK
    <2>4. last_order_id \in Int
      BY MarketMakerAssumption DEF MakerInv, MakerTypes
    <2>5. QED
      BY <2>1, <2>3, <2>4
  <1>4. QED
    BY <1>1, <1>2, <1>3 DEF Listing

\* From the answers of both sides to a turn.
LEMMA TurnIsTurn ==
    ASSUME MakerInv, NEW bids, NEW asks, Turn(bids, asks), asks.sent \in BOOLEAN,
           Answers("BUY", orders["BUY"], bids.orders, bids.messages, last_order_id, bids.next),
           Answers("SELL", orders["SELL"], asks.orders, asks.messages, bids.next, asks.next)
    PROVE  TurnOf(bids.messages \o asks.messages) /\ sent' \in BOOLEAN
           /\ orders'["BUY"] = bids.orders /\ orders'["SELL"] = asks.orders
  <1>1. PICK w : w = bids.messages \o asks.messages
    OBVIOUS
  <1>2. TurnSteps(w)
    BY <1>1, TurnAnswers DEF MakerInv
  <1>3. w \in Seq(Request) /\ \A i, j \in DOMAIN w : w[i].id = w[j].id => i = j
    BY <1>2 DEF TurnSteps
  <1>4. Write(w) /\ MakerTypes
    BY <1>1 DEF Turn, MakerInv
  <1>5. Sent(w) /\ Noted(w)
    BY <1>3, <1>4, WriteSends, WriteNotes
  <1>6. UNCHANGED <<maker, mode, reports, session, open, filled, positions>>
    BY <1>4 DEF Turn, Write, exchange
  <1>7. TurnOf(w)
    BY <1>2, <1>5, <1>6 DEF TurnOf
  <1>8. sent' \in BOOLEAN /\ orders'["BUY"] = bids.orders /\ orders'["SELL"] = asks.orders
    BY DEF Turn, Side
  <1>9. QED
    BY <1>1, <1>7, <1>8

\* Rounding gives integers.
LEMMA RoundedType == ASSUME NEW n \in Int PROVE Rounded(n) \in Int
  <1>1. n \div tick_size \in Int /\ tick_size \in Int
    BY MarketMakerAssumption
  <1>2. \A x, y \in Int : x * y \in Int
    OBVIOUS
  <1>3. QED
    BY <1>1, <1>2 DEF Rounded

\* The prices of a turn are integers.
LEMMA StackPrices ==
    ASSUME NEW market \in Markets
    PROVE  /\ BidToStack(WeightedMid(market), market.bid) \in Int
           /\ AskToStack(WeightedMid(market), market.ask) \in Int
  <1>1. /\ market.bid \in Nat /\ market.ask \in Nat
        /\ market.bid_quantity \in Nat \ {0} /\ market.ask_quantity \in Nat \ {0}
        /\ width_in_ticks \in Nat /\ min_price \in Nat /\ max_price \in Nat
    BY MarketMakerAssumption
  <1>2. \A x, y \in Nat : x * y \in Nat
    OBVIOUS
  <1>3. PICK n \in Nat, d \in Nat \ {0} :
          /\ n = market.bid * market.ask_quantity + market.ask * market.bid_quantity
          /\ d = market.bid_quantity + market.ask_quantity
    <2>1. market.bid * market.ask_quantity \in Nat /\ market.ask * market.bid_quantity \in Nat
      BY <1>1, <1>2
    <2>2. QED
      BY <1>1, <2>1
  <1>4. n \div d \in Int
    BY <1>3
  <1>5. PICK mid \in Int : mid = WeightedMid(market)
    BY <1>3, <1>4, RoundedType DEF WeightedMid
  <1>6. Rounded(mid - width_in_ticks) \in Int /\ Rounded(mid + width_in_ticks - 1) \in Int
    BY <1>1, <1>5, RoundedType
  <1>7. QED
    BY <1>1, <1>5, <1>6 DEF BidToStack, AskToStack, Most, Least

\* The prices of a pair are integers.
LEMMA PairPrices ==
    ASSUME MakerInv, NEW fair_value \in FairValues
    PROVE  PairBid(Skewed(fair_value)) \in Int /\ PairAsk(Skewed(fair_value)) \in Int
  <1>1. /\ fair_value \in Nat /\ positions[1] \in Int /\ PositionLimit \in Nat /\ min_price \in Nat
        /\ tick_size \in Nat \ {0} /\ width_in_ticks \in Nat
    BY MarketMakerAssumption DEF MakerInv, MakerTypes
  <1>2. PICK v \in Int : v = Skewed(fair_value)
    <2>1. 10 * tick_size \in Int
      BY <1>1
    <2>2. QED
      BY <1>1, <2>1 DEF Skewed, Most, Least
  <1>3. PICK t \in Nat : t = width_in_ticks * tick_size
    <2>1. \A x, y \in Nat : x * y \in Nat
      OBVIOUS
    <2>2. QED
      BY <1>1, <2>1
  <1>4. \A p \in Int : p % tick_size \in Int
    BY <1>1
  <1>5. v - t \in Int /\ v + t \in Int
    BY <1>2, <1>3
  <1>6. QED
    BY <1>1, <1>2, <1>3, <1>4, <1>5 DEF PairBid, PairAsk

\* A turn of the stack keeps the invariant.
LEMMA StackKeeps ==
    ASSUME MakerInv, NEW market \in Markets, NEW waited \in [Side -> BOOLEAN], ProcessStack(market, waited)
    PROVE  MakerInv'
  <1>1. PICK buy \in Int, sell \in Int :
          buy = BidToStack(WeightedMid(market), market.bid) /\ sell = AskToStack(WeightedMid(market), market.ask)
    BY StackPrices
  <1>2. PICK bids : bids = stack_side(buy, orders["BUY"], "BUY", last_order_id, sent, waited["BUY"])
    OBVIOUS
  <1>3. PICK asks : asks = stack_side(sell, orders["SELL"], "SELL", bids.next, bids.sent, waited["SELL"])
    OBVIOUS
  <1>4. maker = "stack" /\ Quotable(buy, sell) /\ Turn(bids, asks)
    BY <1>1, <1>2, <1>3 DEF ProcessStack
  <1>5. /\ last_order_id \in Int /\ sent \in BOOLEAN /\ "BUY" \in Side /\ "SELL" \in Side
        /\ waited["BUY"] \in BOOLEAN /\ waited["SELL"] \in BOOLEAN
        /\ Cardinality(orders["BUY"]) <= stack_depth /\ Cardinality(orders["SELL"]) <= stack_depth
    BY <1>4, MarketMakerAssumption DEF MakerInv, MakerTypes, ListsOK, Side
  <1>6. /\ Answers("BUY", orders["BUY"], bids.orders, bids.messages, last_order_id, bids.next)
        /\ Cardinality(bids.orders) <= stack_depth
        /\ \A o \in bids.orders : ~Ahead("BUY", o.price, buy)
        /\ bids.sent \in BOOLEAN
    <2>1. Listing(orders["BUY"], last_order_id)
      BY <1>5, ListedSides
    <2>2. QED
      BY <1>1, <1>2, <1>5, <2>1, StackSideAnswers, ZenonT(60)
  <1>7. bids.next \in Int /\ last_order_id <= bids.next
    <2>1. bids.next \in {last_order_id, last_order_id + 1}
      BY <1>6 DEF Answers
    <2>2. QED
      BY <1>5, <2>1
  <1>8. /\ Answers("SELL", orders["SELL"], asks.orders, asks.messages, bids.next, asks.next)
        /\ Cardinality(asks.orders) <= stack_depth
        /\ \A o \in asks.orders : ~Ahead("SELL", o.price, sell)
        /\ asks.sent \in BOOLEAN
    <2>1. Listing(orders["SELL"], bids.next)
      BY <1>5, <1>7, ListedSides
    <2>2. QED
      BY <1>1, <1>3, <1>5, <1>6, <1>7, <2>1, StackSideAnswers, ZenonT(60)
  <1>9. /\ TurnOf(bids.messages \o asks.messages) /\ sent' \in BOOLEAN
        /\ orders'["BUY"] = bids.orders /\ orders'["SELL"] = asks.orders
    BY <1>4, <1>6, <1>8, TurnIsTurn
  <1>10. \A side \in Side : Cardinality(orders'[side]) <= IF maker = "stack" THEN stack_depth ELSE 1
    BY <1>4, <1>6, <1>8, <1>9 DEF Side
  <1>11. ASSUME NEW b \in orders'["BUY"], NEW a \in orders'["SELL"] PROVE b.price < a.price
    <2>1. orders'["BUY"] \subseteq Orders /\ orders'["SELL"] \subseteq Orders
      BY <1>5, <1>9 DEF TurnOf, TurnSteps
    <2>2. b.price \in Int /\ a.price \in Int
      BY <2>1 DEF Orders
    <2>3. b.price <= buy /\ sell <= a.price /\ buy < sell
      BY <1>1, <1>4, <1>6, <1>8, <1>9, <2>2 DEF Ahead, Quotable
    <2>4. QED
      BY <1>1, <2>2, <2>3
  <1>12. StackUncrossed'
    BY <1>11 DEF StackUncrossed
  <1>13. QED
    BY <1>9, <1>10, <1>12, TurnKeeps

\* A turn of the pair keeps the invariant.
LEMMA PairKeeps ==
    ASSUME MakerInv, NEW fair_value \in FairValues, NEW old \in [Side -> BOOLEAN], ProcessPair(fair_value, old)
    PROVE  MakerInv'
  <1>1. PICK buy \in Int, sell \in Int : buy = PairBid(Skewed(fair_value)) /\ sell = PairAsk(Skewed(fair_value))
    BY PairPrices
  <1>2. PICK bids : bids = quote(buy, orders["BUY"], "BUY", last_order_id, old["BUY"])
    OBVIOUS
  <1>3. PICK asks : asks = quote(sell, orders["SELL"], "SELL", bids.next, old["SELL"])
    OBVIOUS
  <1>4. PICK last : last = [asks EXCEPT !.sent = asks.sent \/ bids.sent]
    OBVIOUS
  <1>5. maker = "pair" /\ Turn(bids, last)
    BY <1>1, <1>2, <1>3, <1>4 DEF ProcessPair
  <1>6. /\ last_order_id \in Int /\ sent \in BOOLEAN /\ "BUY" \in Side /\ "SELL" \in Side
        /\ old["BUY"] \in BOOLEAN /\ old["SELL"] \in BOOLEAN
        /\ Cardinality(orders["BUY"]) <= 1 /\ Cardinality(orders["SELL"]) <= 1
    BY <1>5, MarketMakerAssumption DEF MakerInv, MakerTypes, ListsOK, Side
  <1>7. /\ Answers("BUY", orders["BUY"], bids.orders, bids.messages, last_order_id, bids.next)
        /\ Cardinality(bids.orders) <= 1 /\ bids.sent \in BOOLEAN
    <2>1. Listing(orders["BUY"], last_order_id)
      BY <1>6, ListedSides
    <2>2. QED
      BY <1>1, <1>2, <1>6, <2>1, QuoteAnswers
  <1>8. bids.next \in Int /\ last_order_id <= bids.next
    <2>1. bids.next \in {last_order_id, last_order_id + 1}
      BY <1>7 DEF Answers
    <2>2. QED
      BY <1>6, <2>1
  <1>9. /\ Answers("SELL", orders["SELL"], asks.orders, asks.messages, bids.next, asks.next)
        /\ Cardinality(asks.orders) <= 1 /\ asks.sent \in BOOLEAN
        /\ asks = Result(asks.orders, asks.messages, asks.next, asks.sent)
    <2>1. Listing(orders["SELL"], bids.next)
      BY <1>6, <1>8, ListedSides
    <2>2. QED
      BY <1>1, <1>3, <1>6, <1>8, <2>1, QuoteAnswers
  <1>10. /\ last.orders = asks.orders /\ last.messages = asks.messages /\ last.next = asks.next
         /\ last.sent \in BOOLEAN
    <2>1. PICK b \in BOOLEAN : b = (asks.sent \/ bids.sent)
      OBVIOUS
    <2>2. last = [asks EXCEPT !.sent = b]
      BY <1>4, <2>1
    <2>3. PICK S, w, n, t : asks = [orders |-> S, messages |-> w, next |-> n, sent |-> t]
      BY <1>9 DEF Result
    <2>4. last = [orders |-> S, messages |-> w, next |-> n, sent |-> b]
      BY <2>2, <2>3
    <2>5. QED
      BY <2>1, <2>3, <2>4
  <1>11. /\ TurnOf(bids.messages \o last.messages) /\ sent' \in BOOLEAN
         /\ orders'["BUY"] = bids.orders /\ orders'["SELL"] = last.orders
    <2>1. Answers("SELL", orders["SELL"], last.orders, last.messages, bids.next, last.next)
      BY <1>9, <1>10
    <2>2. QED
      BY <1>5, <1>7, <1>10, <2>1, TurnIsTurn
  <1>12. \A side \in Side : Cardinality(orders'[side]) <= IF maker = "stack" THEN stack_depth ELSE 1
    BY <1>5, <1>7, <1>9, <1>10, <1>11 DEF Side
  <1>13. StackUncrossed'
    <2>1. maker' # "stack"
      BY <1>5, <1>11 DEF TurnOf
    <2>2. QED
      BY <2>1 DEF StackUncrossed
  <1>14. QED
    BY <1>11, <1>12, <1>13, TurnKeeps

-----------------------------------------------------------------------------
(* The reports on the way. *)

\* The fields of a report.
LEMMA ReportFields ==
    ASSUME NEW r \in ReportType
    PROVE  /\ r.type \in {"FILL", "CLOSE", "ERROR"}
           /\ r.type = "FILL" => r.quantity \in Nat
           /\ r.type # "ERROR" => r.id \in Ids
  BY DEF ReportType

\* What is left of a queue when its head is taken.
LEMMA TailFacts ==
    ASSUME NEW M, NEW s \in Seq(M), s # <<>>
    PROVE  /\ Head(s) = s[1] /\ 1 \in DOMAIN s /\ s[1] \in M
           /\ Tail(s) \in Seq(M)
           /\ DOMAIN Tail(s) = {i \in Nat : i + 1 \in DOMAIN s /\ i # 0}
           /\ \A i \in DOMAIN Tail(s) : Tail(s)[i] = s[i + 1]
  OBVIOUS

\* What is in a queue when an element is put at its end.
LEMMA AppendFacts ==
    ASSUME NEW M, NEW s \in Seq(M), NEW x \in M
    PROVE  /\ Append(s, x) \in Seq(M)
           /\ DOMAIN Append(s, x) = DOMAIN s \cup {Len(s) + 1} /\ Len(s) + 1 \notin DOMAIN s
           /\ \A i \in DOMAIN s : Append(s, x)[i] = s[i] /\ i < Len(s) + 1
           /\ Append(s, x)[Len(s) + 1] = x
  OBVIOUS

\* Fills among reports s are a finite set of numbers, with quantities that have a sum.
LEMMA FillsFacts ==
    ASSUME NEW s \in Seq(ReportType), NEW S \in SUBSET DOMAIN s, \A i \in S : s[i].type = "FILL"
    PROVE  /\ IsFiniteSet(S)
           /\ \A i \in S : i \in Int /\ s[i].quantity \in Int
           /\ Total([i \in S |-> s[i].quantity], S) \in Int
  <1>1. IsFiniteSet(S)
    <2>1. DOMAIN s = 1..Len(s) /\ Len(s) \in Int
      OBVIOUS
    <2>2. IsFiniteSet(1..Len(s))
      BY <2>1, FS_Interval
    <2>3. QED
      BY <2>1, <2>2, FS_Subset
  <1>2. ASSUME NEW i \in S PROVE i \in Int /\ s[i].quantity \in Int
    <2>1. s[i] \in ReportType /\ s[i].type = "FILL" /\ i \in Int
      OBVIOUS
    <2>2. QED
      BY <2>1, ReportFields
  <1>3. Total([i \in S |-> s[i].quantity], S) \in Int
    <2>1. PICK f : f = [i \in S |-> s[i].quantity]
      OBVIOUS
    <2>2. \A x \in S : f[x] \in Int
      BY <1>2, <2>1
    <2>3. Total(f, S) \in Int
      BY ONLY <1>1, <2>2, TotalType
    <2>4. QED
      BY <2>1, <2>3
  <1>4. QED
    BY <1>1, <1>2, <1>3

\* The fills on the way.
LEMMA InFlightFacts ==
    ASSUME MakerTypes, NEW side
    PROVE  /\ IsFiniteSet(InFlight(side)) /\ InFlight(side) \subseteq DOMAIN reports
           /\ \A i \in InFlight(side) : i \in Int /\ reports[i].quantity \in Int
           /\ FillsInFlight(side) \in Int
  <1>1. PICK s, S : s = reports /\ S = InFlight(side)
    OBVIOUS
  <1>2. s \in Seq(ReportType) /\ S \in SUBSET DOMAIN s /\ \A i \in S : s[i].type = "FILL"
    BY <1>1 DEF MakerTypes, InFlight
  <1>3. /\ IsFiniteSet(S)
        /\ \A i \in S : i \in Int /\ s[i].quantity \in Int
        /\ Total([i \in S |-> s[i].quantity], S) \in Int
    BY ONLY <1>2, FillsFacts
  <1>4. QED
    BY <1>1, <1>2, <1>3 DEF FillsInFlight

\* The same after a step.
LEMMA InFlightNext ==
    ASSUME MakerTypes', NEW side
    PROVE  /\ IsFiniteSet(InFlight(side)') /\ InFlight(side)' \subseteq DOMAIN reports'
           /\ \A i \in InFlight(side)' : i \in Int /\ reports'[i].quantity \in Int
           /\ FillsInFlight(side)' \in Int
  <1>1. PICK s, S : s = reports' /\ S = InFlight(side)'
    OBVIOUS
  <1>2. s \in Seq(ReportType) /\ S \in SUBSET DOMAIN s /\ \A i \in S : s[i].type = "FILL"
    BY <1>1 DEF MakerTypes, InFlight
  <1>3. /\ IsFiniteSet(S)
        /\ \A i \in S : i \in Int /\ s[i].quantity \in Int
        /\ Total([i \in S |-> s[i].quantity], S) \in Int
    BY ONLY <1>2, FillsFacts
  <1>4. QED
    BY <1>1, <1>2, <1>3 DEF FillsInFlight

\* A report that is read is no longer on the way.
LEMMA FlightTail ==
    ASSUME MakerTypes, MakerTypes', reports # <<>>, reports' = Tail(reports), NEW side,
           \A i \in DOMAIN reports : i # 1 /\ reports[i].type = "FILL" =>
              /\ reports[i].id \in DOMAIN open_orders <=> reports[i].id \in DOMAIN open_orders'
              /\ reports[i].id \in DOMAIN open_orders => open_orders'[reports[i].id] = open_orders[reports[i].id]
    PROVE  FillsInFlight(side) =
              FillsInFlight(side)' + IF 1 \in InFlight(side) THEN reports[1].quantity ELSE 0
  <1>1. /\ IsFiniteSet(InFlight(side)) /\ \A i \in InFlight(side) : i \in Int /\ reports[i].quantity \in Int
        /\ IsFiniteSet(InFlight(side)') /\ \A i \in InFlight(side)' : i \in Int /\ reports'[i].quantity \in Int
        /\ FillsInFlight(side)' \in Int
    BY InFlightFacts, InFlightNext
  <1>2. /\ DOMAIN reports' = {i \in Nat : i + 1 \in DOMAIN reports /\ i # 0}
        /\ \A i \in DOMAIN reports' : reports'[i] = reports[i + 1]
        /\ DOMAIN reports \subseteq Nat \ {0}
    <2>1. reports \in Seq(ReportType)
      BY DEF MakerTypes
    <2>2. DOMAIN reports \subseteq Nat \ {0}
      BY <2>1
    <2>3. QED
      BY <2>1, <2>2, TailFacts
  <1>3. PICK S, f, T, g : /\ S = InFlight(side) /\ f = [i \in S |-> reports[i].quantity]
                          /\ T = InFlight(side)' /\ g = [i \in T |-> reports'[i].quantity]
    OBVIOUS
  <1>4. FillsInFlight(side) = Total(f, S) /\ FillsInFlight(side)' = Total(g, T)
    BY <1>3 DEF FillsInFlight
  <1>5. \A i \in T : i + 1 \in S \ {1} /\ reports'[i] = reports[i + 1]
    <2>1. SUFFICES ASSUME NEW i \in T PROVE i + 1 \in S \ {1} /\ reports'[i] = reports[i + 1]
      OBVIOUS
    <2>2. /\ i \in DOMAIN reports' /\ reports'[i].type = "FILL" /\ reports'[i].id \in DOMAIN open_orders'
          /\ open_orders'[reports'[i].id] = side
      BY <1>3 DEF InFlight
    <2>3. i \in Nat /\ i # 0 /\ i + 1 \in DOMAIN reports /\ reports'[i] = reports[i + 1]
      BY <1>2, <2>2
    <2>4. i + 1 # 1
      BY <2>3
    <2>5. QED
      BY <1>3, <2>2, <2>3, <2>4 DEF InFlight
  <1>6. \A k \in S : k # 1 => k - 1 \in T /\ k = (k - 1) + 1
    <2>1. SUFFICES ASSUME NEW k \in S, k # 1 PROVE k - 1 \in T /\ k = (k - 1) + 1
      OBVIOUS
    <2>2. /\ k \in DOMAIN reports /\ reports[k].type = "FILL" /\ reports[k].id \in DOMAIN open_orders
          /\ open_orders[reports[k].id] = side
      BY <1>3 DEF InFlight
    <2>3. PICK i \in Nat : i = k - 1 /\ i + 1 = k /\ i # 0
      BY <1>2, <2>1, <2>2
    <2>4. i \in DOMAIN reports' /\ reports'[i] = reports[k]
      BY <1>2, <2>2, <2>3
    <2>5. i \in T
      BY <1>3, <2>1, <2>2, <2>4 DEF InFlight
    <2>6. QED
      BY <2>3, <2>5
  <1>7. Shifted(T) = S \ {1}
    BY <1>5, <1>6 DEF Shifted
  <1>8. IsFiniteSet(S \ {1}) /\ IsFiniteSet(S) /\ IsFiniteSet(T)
    BY <1>1, <1>3, FS_RemoveElement
  <1>9. Total(g, T) = Total(f, S \ {1})
    <2>1. T \subseteq Int /\ \A x \in T : g[x] \in Int /\ f[x + 1] = g[x]
      BY <1>1, <1>3, <1>5
    <2>2. IsFiniteSet(Shifted(T))
      BY <1>7, <1>8
    <2>3. Total(g, T) = Total(f, Shifted(T))
      BY ONLY <1>8, <2>1, <2>2, TotalShifted
    <2>4. QED
      BY <1>7, <2>3
  <1>10. CASE 1 \in S
    <2>1. \A x \in S : f[x] \in Int
      BY <1>1, <1>3
    <2>2. Total(f, S) = f[1] + Total(f, S \ {1})
      BY ONLY <1>8, <1>10, <2>1, TotalWithout
    <2>3. f[1] = reports[1].quantity /\ f[1] \in Int
      BY <1>3, <1>10, <2>1
    <2>4. Total(f, S) = Total(g, T) + reports[1].quantity
      BY <1>1, <1>4, <1>9, <2>2, <2>3
    <2>5. QED
      BY <1>3, <1>4, <1>10, <2>4
  <1>11. CASE 1 \notin S
    <2>1. S \ {1} = S
      BY <1>11
    <2>2. FillsInFlight(side) = FillsInFlight(side)' /\ FillsInFlight(side)' \in Int
      BY <1>1, <1>4, <1>9, <2>1
    <2>3. 1 \notin InFlight(side)
      BY <1>3, <1>11
    <2>4. QED
      BY <2>2, <2>3
  <1>12. QED
    BY <1>10, <1>11

\* A report that is sent is on the way.
LEMMA FlightAppend ==
    ASSUME MakerTypes, NEW r \in ReportType, reports' = Append(reports, r), UNCHANGED open_orders, NEW side
    PROVE  FillsInFlight(side)' = FillsInFlight(side) +
              IF r.type = "FILL" /\ r.id \in DOMAIN open_orders /\ open_orders[r.id] = side
              THEN r.quantity ELSE 0
  <1>1. /\ IsFiniteSet(InFlight(side)) /\ \A i \in InFlight(side) : i \in Int /\ reports[i].quantity \in Int
        /\ FillsInFlight(side) \in Int /\ InFlight(side) \subseteq DOMAIN reports
    BY InFlightFacts
  <1>2. PICK n : n = Len(reports) + 1
    OBVIOUS
  <1>3. /\ DOMAIN reports' = DOMAIN reports \cup {n} /\ n \notin DOMAIN reports
        /\ \A i \in DOMAIN reports : reports'[i] = reports[i]
        /\ reports'[n] = r
    BY <1>2, AppendFacts DEF MakerTypes
  <1>4. PICK S, f, T, g : /\ S = InFlight(side) /\ f = [i \in S |-> reports[i].quantity]
                          /\ T = InFlight(side)' /\ g = [i \in T |-> reports'[i].quantity]
    OBVIOUS
  <1>5. FillsInFlight(side) = Total(f, S) /\ FillsInFlight(side)' = Total(g, T)
    BY <1>4 DEF FillsInFlight
  <1>6. CASE r.type = "FILL" /\ r.id \in DOMAIN open_orders /\ open_orders[r.id] = side
    <2>1. T = S \cup {n}
      BY <1>3, <1>4, <1>6 DEF InFlight
    <2>2. n \notin S /\ IsFiniteSet(S)
      BY <1>1, <1>3, <1>4
    <2>3. \A x \in S : g[x] = f[x] /\ f[x] \in Int
      BY <1>1, <1>3, <1>4, <2>1
    <2>4. g[n] = r.quantity /\ g[n] \in Int
      BY <1>3, <1>4, <1>6, <2>1, ReportFields
    <2>5. \A x \in S \cup {n} : g[x] \in Int
      BY <2>3, <2>4
    <2>6. Total(g, S \cup {n}) = Total(g, S) + g[n]
      BY ONLY <2>2, <2>5, TotalWith
    <2>7. Total(g, S) = Total(f, S)
      BY ONLY <2>2, <2>3, TotalSame
    <2>8. QED
      BY <1>5, <1>6, <2>1, <2>4, <2>6, <2>7
  <1>7. CASE ~(r.type = "FILL" /\ r.id \in DOMAIN open_orders /\ open_orders[r.id] = side)
    <2>1. T = S
      BY <1>3, <1>4, <1>7 DEF InFlight
    <2>2. \A x \in S : g[x] = f[x]
      BY <1>1, <1>3, <1>4, <2>1
    <2>3. IsFiniteSet(S)
      BY <1>1, <1>4
    <2>4. Total(g, S) = Total(f, S)
      BY ONLY <2>2, <2>3, TotalSame
    <2>5. QED
      BY <1>1, <1>5, <1>7, <2>1, <2>4
  <1>8. QED
    BY <1>6, <1>7

-----------------------------------------------------------------------------
(* The steps of the client. *)

\* The login keeps the invariant.
LEMMA LoginKeeps ==
    ASSUME MakerInv, NEW status, Login(status)
    PROVE  MakerInv'
  <1>1. /\ UNCHANGED <<maker, orders, last_order_id, sent, open_orders, positions, requests, reports>>
        /\ UNCHANGED <<open, filled, unsent>> /\ mode' \in {"running", "ended"} /\ session' \in BOOLEAN
    BY DEF Login, oe
  <1>2. MakerTypes'
    BY <1>1 DEF MakerInv, MakerTypes
  <1>3. ListsOK' /\ FreshOK' /\ KnownOK' /\ OrphanOK' /\ PriceOK'
    BY <1>1 DEF MakerInv, ListsOK, FreshOK, KnownOK, OrphanOK, PriceOK, StackUncrossed, Listed, NoOrphans, Pending
  <1>4. BookedOK'
    BY <1>1 DEF MakerInv, BookedOK, FillsInFlight, InFlight
  <1>5. QED
    BY <1>2, <1>3, <1>4 DEF MakerInv

\* What is left of a queue, by its places.
Taken(s, t) ==
    /\ 1 \in DOMAIN s /\ DOMAIN s \subseteq Nat \ {0}
    /\ \A i \in DOMAIN t : i \in Nat \ {0} /\ i + 1 \in DOMAIN s /\ i + 1 # 1 /\ t[i] = s[i + 1]
    /\ \A k \in DOMAIN s : k = 1 \/ (k - 1 \in DOMAIN t /\ t[k - 1] = s[k] /\ (k - 1) + 1 = k)

\* Taking the head of a queue leaves such a rest.
LEMMA TailTaken ==
    ASSUME NEW M, NEW s \in Seq(M), s # <<>>
    PROVE  Taken(s, Tail(s))
  <1>1. /\ 1 \in DOMAIN s
        /\ DOMAIN Tail(s) = {i \in Nat : i + 1 \in DOMAIN s /\ i # 0}
        /\ \A i \in DOMAIN Tail(s) : Tail(s)[i] = s[i + 1]
    BY TailFacts
  <1>2. DOMAIN s \subseteq Nat \ {0}
    OBVIOUS
  <1>3. PICK t : t = Tail(s)
    OBVIOUS
  <1>4. \A i \in DOMAIN t : i \in Nat \ {0} /\ i + 1 \in DOMAIN s /\ i + 1 # 1 /\ t[i] = s[i + 1]
    BY <1>1, <1>3
  <1>5. ASSUME NEW k \in DOMAIN s, k # 1
        PROVE  k - 1 \in DOMAIN t /\ t[k - 1] = s[k] /\ (k - 1) + 1 = k
    <2>1. PICK i \in Nat : i = k - 1 /\ i + 1 = k /\ i # 0
      BY <1>2, <1>5
    <2>2. i \in DOMAIN t
      BY <1>1, <1>3, <2>1
    <2>3. QED
      BY <1>1, <1>3, <2>1, <2>2
  <1>6. Taken(s, t)
    BY <1>1, <1>2, <1>4, <1>5 DEF Taken
  <1>7. QED
    BY <1>3, <1>6

\* What process does with a report, when every fill is of a known order.
LEMMA ReadFacts ==
    ASSUME MakerInv, ReadReport
    PROVE  /\ Taken(reports, reports') /\ reports # <<>> /\ reports' = Tail(reports)
           /\ reports[1] \in ReportType /\ reports' \in Seq(ReportType)
           /\ mode' \in {"running", "ended"}
           /\ UNCHANGED <<maker, orders, last_order_id, sent, requests, session, open, filled, unsent>>
           /\ DOMAIN open_orders' = IF reports[1].type = "CLOSE" THEN DOMAIN open_orders \ {reports[1].id}
                                    ELSE DOMAIN open_orders
           /\ open_orders' = [id \in DOMAIN open_orders' |-> open_orders[id]]
           /\ reports[1].type # "FILL" => positions' = positions
           /\ reports[1].type = "FILL" =>
                /\ reports[1].id \in DOMAIN open_orders /\ open_orders[reports[1].id] \in Side
                /\ positions' = [positions EXCEPT ![1] = IF open_orders[reports[1].id] = "BUY"
                                                         THEN @ + reports[1].quantity
                                                         ELSE @ - reports[1].quantity]
  <1>1. reports # <<>> /\ reports' = Tail(reports) /\ reports \in Seq(ReportType)
    BY DEF ReadReport, MakerInv, MakerTypes
  <1>2. Taken(reports, reports')
    BY <1>1, TailTaken
  <1>3. Head(reports) = reports[1] /\ 1 \in DOMAIN reports /\ reports[1] \in ReportType /\ reports' \in Seq(ReportType)
    BY <1>1, TailFacts
  <1>4. PICK r : r = reports[1]
    OBVIOUS
  <1>5. r.type = "FILL" => r.id \in DOMAIN open_orders /\ open_orders[r.id] \in Side
    BY <1>3, <1>4 DEF MakerInv, KnownOK
  <1>6. mode' \in {"running", "ended"}
    BY DEF ReadReport
  <1>7. UNCHANGED <<maker, orders, last_order_id, sent, requests, session, open, filled, unsent>>
    BY DEF ReadReport, exchange
  <1>8. open_orders' = CASE r.type = "CLOSE" -> Without(open_orders, r.id)
                         [] r.type = "FILL" /\ r.id \notin DOMAIN open_orders -> With(open_orders, r.id, "unknown")
                         [] OTHER -> open_orders
    BY <1>3, <1>4 DEF ReadReport
  <1>9. /\ DOMAIN open_orders' = IF r.type = "CLOSE" THEN DOMAIN open_orders \ {r.id} ELSE DOMAIN open_orders
        /\ open_orders' = [id \in DOMAIN open_orders' |-> open_orders[id]]
    <2>1. CASE r.type = "CLOSE"
      <3>1. open_orders' = [id \in DOMAIN open_orders \ {r.id} |-> open_orders[id]]
        BY <1>8, <2>1 DEF Without, Funs!Restrict
      <3>2. QED
        BY <2>1, <3>1
    <2>2. CASE r.type # "CLOSE"
      <3>1. open_orders' = open_orders
        BY <1>5, <1>8, <2>2
      <3>2. open_orders = [id \in DOMAIN open_orders |-> open_orders[id]]
        BY DEF MakerInv, MakerTypes
      <3>3. QED
        BY <2>2, <3>1, <3>2
    <2>3. QED
      BY <2>1, <2>2
  <1>10. positions' = IF r.type = "FILL" THEN ReadFill(r) ELSE positions
    BY <1>3, <1>4 DEF ReadReport
  <1>11. r.type = "FILL" =>
           positions' = [positions EXCEPT ![1] = IF open_orders[r.id] = "BUY" THEN @ + r.quantity ELSE @ - r.quantity]
    BY <1>5, <1>10 DEF ReadFill
  <1>12. QED
    BY <1>1, <1>2, <1>3, <1>4, <1>5, <1>6, <1>7, <1>9, <1>10, <1>11

\* A report that is read keeps the invariant: a close is the last thing the client hears of
\* an order, and no fill of it follows.
LEMMA ReadReportKeeps ==
    ASSUME MakerInv, ReadReport
    PROVE  MakerInv'
  <1>1. PICK r : r = reports[1]
    OBVIOUS
  <1>2. /\ Taken(reports, reports') /\ reports # <<>> /\ reports' = Tail(reports)
        /\ r \in ReportType /\ reports' \in Seq(ReportType) /\ mode' \in {"running", "ended"}
        /\ UNCHANGED <<maker, orders, last_order_id, sent, requests, session, open, filled, unsent>>
    BY <1>1, ReadFacts
  <1>3. /\ DOMAIN open_orders' = IF r.type = "CLOSE" THEN DOMAIN open_orders \ {r.id} ELSE DOMAIN open_orders
        /\ open_orders' = [id \in DOMAIN open_orders' |-> open_orders[id]]
    BY <1>1, ReadFacts
  <1>4. /\ r.type # "FILL" => positions' = positions
        /\ r.type = "FILL" =>
             /\ r.id \in DOMAIN open_orders /\ open_orders[r.id] \in Side
             /\ positions' = [positions EXCEPT ![1] = IF open_orders[r.id] = "BUY" THEN @ + r.quantity
                                                      ELSE @ - r.quantity]
    BY <1>1, ReadFacts
  <1>5. r.type \in {"FILL", "CLOSE", "ERROR"} /\ (r.type = "FILL" => r.quantity \in Nat)
    BY <1>2, ReportFields
  <1>6. DOMAIN open_orders' \subseteq DOMAIN open_orders /\ \A id \in DOMAIN open_orders' : open_orders'[id] = open_orders[id]
    BY <1>3
  <1>7. MakerTypes'
    <2>1. positions' \in [{0, 1} -> Int]
      BY <1>4, <1>5 DEF MakerInv, MakerTypes
    <2>2. DOMAIN open_orders' \subseteq Ids /\ open_orders' \in [DOMAIN open_orders' -> Side \cup {"unknown"}]
      BY <1>3, <1>6 DEF MakerInv, MakerTypes
    <2>3. QED
      BY <1>2, <2>1, <2>2 DEF MakerInv, MakerTypes
  <1>8. ListsOK' /\ OrphanOK' /\ PriceOK'
    BY <1>2 DEF MakerInv, ListsOK, OrphanOK, PriceOK, StackUncrossed, Listed, NoOrphans, Pending
  <1>9. FreshOK'
    <2>1. \A i \in DOMAIN reports' : \E k \in DOMAIN reports : reports'[i] = reports[k]
      BY <1>2 DEF Taken
    <2>2. QED
      BY <1>2, <1>6, <2>1 DEF MakerInv, FreshOK, Listed
  <1>10. \A i \in DOMAIN reports : i # 1 /\ reports[i].type = "FILL" =>
            reports[i].id \in DOMAIN open_orders /\ reports[i].id \in DOMAIN open_orders'
    <2>1. SUFFICES ASSUME NEW i \in DOMAIN reports, i # 1, reports[i].type = "FILL"
                   PROVE  reports[i].id \in DOMAIN open_orders /\ reports[i].id \in DOMAIN open_orders'
      OBVIOUS
    <2>2. /\ reports[i].id \in DOMAIN open_orders
          /\ \A j \in DOMAIN reports : reports[j].type = "CLOSE" /\ reports[j].id = reports[i].id => i < j
      BY <2>1 DEF MakerInv, KnownOK
    <2>3. 1 \in DOMAIN reports /\ i \in Nat \ {0} /\ ~(i < 1)
      BY <1>2 DEF Taken
    <2>4. QED
      BY <1>1, <1>3, <2>2, <2>3
  <1>11. KnownOK'
    <2>1. \A id \in DOMAIN open' :
            /\ id \in DOMAIN open_orders' /\ open_orders'[id] = open'[id].side
            /\ \A i \in DOMAIN reports' : reports'[i].type = "CLOSE" => reports'[i].id # id
      <3>1. SUFFICES ASSUME NEW id \in DOMAIN open
                     PROVE  /\ id \in DOMAIN open_orders' /\ open_orders'[id] = open[id].side
                            /\ \A i \in DOMAIN reports' : reports'[i].type = "CLOSE" => reports'[i].id # id
        BY <1>2
      <3>2. /\ id \in DOMAIN open_orders /\ open_orders[id] = open[id].side
            /\ \A i \in DOMAIN reports : reports[i].type = "CLOSE" => reports[i].id # id
        BY DEF MakerInv, KnownOK
      <3>3. id \in DOMAIN open_orders'
        BY <1>1, <1>2, <1>3, <3>2 DEF Taken
      <3>4. \A i \in DOMAIN reports' : reports'[i].type = "CLOSE" => reports'[i].id # id
        BY <1>2, <3>2 DEF Taken
      <3>5. QED
        BY <1>6, <3>2, <3>3, <3>4
    <2>2. \A i \in DOMAIN reports' : reports'[i].type = "FILL" =>
            /\ reports'[i].id \in DOMAIN open_orders' /\ open_orders'[reports'[i].id] \in Side
            /\ \A j \in DOMAIN reports' : reports'[j].type = "CLOSE" /\ reports'[j].id = reports'[i].id => i < j
      <3>1. SUFFICES ASSUME NEW i \in DOMAIN reports', reports'[i].type = "FILL"
                     PROVE  /\ reports'[i].id \in DOMAIN open_orders' /\ open_orders'[reports'[i].id] \in Side
                            /\ \A j \in DOMAIN reports' :
                                 reports'[j].type = "CLOSE" /\ reports'[j].id = reports'[i].id => i < j
        OBVIOUS
      <3>2. PICK k \in DOMAIN reports : k = i + 1 /\ k # 1 /\ reports'[i] = reports[k] /\ i \in Nat
        BY <1>2, <3>1 DEF Taken
      <3>3. /\ open_orders[reports[k].id] \in Side
            /\ \A j \in DOMAIN reports : reports[j].type = "CLOSE" /\ reports[j].id = reports[k].id => k < j
        BY <3>1, <3>2 DEF MakerInv, KnownOK
      <3>4. reports[k].id \in DOMAIN open_orders'
        BY <1>10, <3>1, <3>2
      <3>5. ASSUME NEW j \in DOMAIN reports', reports'[j].type = "CLOSE", reports'[j].id = reports'[i].id PROVE i < j
        <4>1. PICK l \in DOMAIN reports : l = j + 1 /\ reports'[j] = reports[l] /\ j \in Nat
          BY <1>2, <3>5 DEF Taken
        <4>2. k < l
          BY <3>2, <3>3, <3>5, <4>1
        <4>3. QED
          BY <3>2, <4>1, <4>2
      <3>6. QED
        BY <1>6, <3>2, <3>3, <3>4, <3>5
    <2>3. \A i \in DOMAIN requests' : requests'[i].type = "NEW_ORDER" =>
            /\ requests'[i].id \in DOMAIN open_orders' /\ open_orders'[requests'[i].id] = requests'[i].side
            /\ requests'[i].id \notin DOMAIN open'
            /\ \A j \in DOMAIN reports' : reports'[j].type # "ERROR" => reports'[j].id # requests'[i].id
            /\ \A j \in DOMAIN requests' :
                 requests'[j].type = "NEW_ORDER" /\ requests'[j].id = requests'[i].id => i = j
      <3>1. SUFFICES ASSUME NEW i \in DOMAIN requests, requests[i].type = "NEW_ORDER"
                     PROVE  /\ requests[i].id \in DOMAIN open_orders' /\ open_orders'[requests[i].id] = requests[i].side
                            /\ requests[i].id \notin DOMAIN open
                            /\ \A j \in DOMAIN reports' : reports'[j].type # "ERROR" => reports'[j].id # requests[i].id
                            /\ \A j \in DOMAIN requests :
                                 requests[j].type = "NEW_ORDER" /\ requests[j].id = requests[i].id => i = j
        BY <1>2
      <3>2. /\ requests[i].id \in DOMAIN open_orders /\ open_orders[requests[i].id] = requests[i].side
            /\ requests[i].id \notin DOMAIN open
            /\ \A j \in DOMAIN reports : reports[j].type # "ERROR" => reports[j].id # requests[i].id
            /\ \A j \in DOMAIN requests :
                 requests[j].type = "NEW_ORDER" /\ requests[j].id = requests[i].id => i = j
        BY <3>1 DEF MakerInv, KnownOK
      <3>3. requests[i].id \in DOMAIN open_orders'
        BY <1>1, <1>2, <1>3, <3>2 DEF Taken
      <3>4. \A j \in DOMAIN reports' : reports'[j].type # "ERROR" => reports'[j].id # requests[i].id
        BY <1>2, <3>2 DEF Taken
      <3>5. QED
        BY <1>6, <3>2, <3>3, <3>4
    <2>4. QED
      BY <2>1, <2>2, <2>3 DEF KnownOK
  <1>12. BookedOK'
    <2>1. \A side \in Side : FillsInFlight(side) =
            FillsInFlight(side)' + IF 1 \in InFlight(side) THEN reports[1].quantity ELSE 0
      <3>1. \A i \in DOMAIN reports : i # 1 /\ reports[i].type = "FILL" =>
              /\ reports[i].id \in DOMAIN open_orders <=> reports[i].id \in DOMAIN open_orders'
              /\ reports[i].id \in DOMAIN open_orders => open_orders'[reports[i].id] = open_orders[reports[i].id]
        BY <1>6, <1>10
      <3>2. MakerTypes
        BY DEF MakerInv
      <3>3. QED
        BY <1>2, <1>7, <3>1, <3>2, FlightTail
    <2>2. \A side \in Side : 1 \in InFlight(side) <=> r.type = "FILL" /\ open_orders[r.id] = side
      BY <1>1, <1>2, <1>4 DEF InFlight, Taken
    <2>3. PICK b, s, c, t : /\ b = FillsInFlight("BUY") /\ s = FillsInFlight("SELL")
                            /\ c = FillsInFlight("BUY")' /\ t = FillsInFlight("SELL")'
      OBVIOUS
    <2>4. b \in Int /\ s \in Int /\ c \in Int /\ t \in Int
      BY <1>7, <2>3, InFlightFacts, InFlightNext DEF MakerInv
    <2>5. /\ positions \in [{0, 1} -> Int] /\ filled["BUY"] - filled["SELL"] = positions[1] + b - s /\ positions[0] = 0
      BY <2>3 DEF MakerInv, MakerTypes, BookedOK
    <2>6. positions'[1] + c - t = positions[1] + b - s /\ positions'[0] = 0
      <3>1. CASE r.type # "FILL"
        <4>1. b = c + 0 /\ s = t + 0
          BY <2>1, <2>2, <2>3, <3>1 DEF Side
        <4>2. QED
          BY <1>4, <2>4, <2>5, <3>1, <4>1
      <3>2. CASE r.type = "FILL" /\ open_orders[r.id] = "BUY"
        <4>1. b = c + r.quantity /\ s = t + 0
          BY <1>1, <2>1, <2>2, <2>3, <3>2 DEF Side
        <4>2. positions'[1] = positions[1] + r.quantity /\ positions'[0] = 0
          BY <1>4, <2>5, <3>2
        <4>3. QED
          BY <1>5, <2>4, <2>5, <3>2, <4>1, <4>2
      <3>3. CASE r.type = "FILL" /\ open_orders[r.id] = "SELL"
        <4>1. b = c + 0 /\ s = t + r.quantity
          BY <1>1, <2>1, <2>2, <2>3, <3>3 DEF Side
        <4>2. positions'[1] = positions[1] - r.quantity /\ positions'[0] = 0
          BY <1>4, <2>5, <3>3
        <4>3. QED
          BY <1>5, <2>4, <2>5, <3>3, <4>1, <4>2
      <3>4. QED
        BY <1>4, <3>1, <3>2, <3>3 DEF Side
    <2>7. filled' = filled
      BY <1>2
    <2>8. QED
      BY <2>3, <2>5, <2>6, <2>7 DEF BookedOK
  <1>13. QED
    BY <1>7, <1>8, <1>9, <1>11, <1>12 DEF MakerInv

-----------------------------------------------------------------------------
(* The steps of the exchange. *)

\* What a queue is after something was put at its end.
Added(s, t, x) ==
    \E n : /\ DOMAIN t = DOMAIN s \cup {n} /\ n \notin DOMAIN s
           /\ \A i \in DOMAIN s : t[i] = s[i] /\ i < n
           /\ t[n] = x

\* A report that is put on the way, about an order that is not open afterwards unless it is
\* a fill, and of which no close is on the way: the client's knowledge stays as it was.
LEMMA ReportKnown ==
    ASSUME MakerTypes, KnownOK, NEW r, Added(reports, reports', r), UNCHANGED <<open_orders, requests>>,
           DOMAIN open' \subseteq DOMAIN open, \A id \in DOMAIN open' : open'[id].side = open[id].side,
           r.type # "ERROR" => r.id \in DOMAIN open,
           r.type = "CLOSE" => r.id \notin DOMAIN open'
    PROVE  KnownOK'
  <1>1. PICK n : /\ DOMAIN reports' = DOMAIN reports \cup {n} /\ n \notin DOMAIN reports
                 /\ \A i \in DOMAIN reports : reports'[i] = reports[i] /\ i < n
                 /\ reports'[n] = r
    BY DEF Added
  <1>2. \A id \in DOMAIN open' :
          /\ id \in DOMAIN open_orders' /\ open_orders'[id] = open'[id].side
          /\ \A i \in DOMAIN reports' : reports'[i].type = "CLOSE" => reports'[i].id # id
    BY <1>1 DEF KnownOK
  <1>3. \A i \in DOMAIN reports' : reports'[i].type = "FILL" =>
          reports'[i].id \in DOMAIN open_orders' /\ open_orders'[reports'[i].id] \in Side
    <2>1. SUFFICES ASSUME NEW i \in DOMAIN reports', reports'[i].type = "FILL"
                   PROVE  reports'[i].id \in DOMAIN open_orders /\ open_orders[reports'[i].id] \in Side
      OBVIOUS
    <2>2. CASE i \in DOMAIN reports
      BY <1>1, <2>1, <2>2 DEF KnownOK
    <2>3. CASE i = n
      <3>1. r.id \in DOMAIN open /\ reports'[i] = r
        BY <1>1, <2>1, <2>3
      <3>2. r.id \in DOMAIN open_orders /\ open_orders[r.id] = open[r.id].side
        BY <3>1 DEF KnownOK
      <3>3. open[r.id].side \in Side
        BY <3>1 DEF MakerTypes
      <3>4. QED
        BY <3>1, <3>2, <3>3
    <2>4. QED
      BY <1>1, <2>2, <2>3
  <1>4. \A i, j \in DOMAIN reports' :
          reports'[i].type = "FILL" /\ reports'[j].type = "CLOSE" /\ reports'[j].id = reports'[i].id => i < j
    <2>1. SUFFICES ASSUME NEW i \in DOMAIN reports', NEW j \in DOMAIN reports', reports'[i].type = "FILL",
                          reports'[j].type = "CLOSE", reports'[j].id = reports'[i].id
                   PROVE  i < j
      OBVIOUS
    <2>2. CASE i \in DOMAIN reports /\ j \in DOMAIN reports
      BY <1>1, <2>1, <2>2 DEF KnownOK
    <2>3. CASE i \in DOMAIN reports /\ j = n
      BY <1>1, <2>3
    <2>4. CASE i = n /\ j \in DOMAIN reports
      <3>1. r.id \in DOMAIN open /\ reports[j].type = "CLOSE" /\ reports[j].id = r.id
        BY <1>1, <2>1, <2>4
      <3>2. QED
        BY <2>4, <3>1 DEF KnownOK
    <2>5. CASE i = n /\ j = n
      BY <2>1, <2>5
    <2>6. QED
      BY <1>1, <2>2, <2>3, <2>4, <2>5
  <1>5. \A i \in DOMAIN requests' : requests'[i].type = "NEW_ORDER" =>
          /\ requests'[i].id \in DOMAIN open_orders' /\ open_orders'[requests'[i].id] = requests'[i].side
          /\ requests'[i].id \notin DOMAIN open'
          /\ \A j \in DOMAIN reports' : reports'[j].type # "ERROR" => reports'[j].id # requests'[i].id
          /\ \A j \in DOMAIN requests' :
               requests'[j].type = "NEW_ORDER" /\ requests'[j].id = requests'[i].id => i = j
    <2>1. SUFFICES ASSUME NEW i \in DOMAIN requests, requests[i].type = "NEW_ORDER"
                   PROVE  /\ requests[i].id \in DOMAIN open_orders /\ open_orders[requests[i].id] = requests[i].side
                          /\ requests[i].id \notin DOMAIN open'
                          /\ \A j \in DOMAIN reports' : reports'[j].type # "ERROR" => reports'[j].id # requests[i].id
                          /\ \A j \in DOMAIN requests :
                               requests[j].type = "NEW_ORDER" /\ requests[j].id = requests[i].id => i = j
      OBVIOUS
    <2>2. /\ requests[i].id \in DOMAIN open_orders /\ open_orders[requests[i].id] = requests[i].side
          /\ requests[i].id \notin DOMAIN open
          /\ \A j \in DOMAIN reports : reports[j].type # "ERROR" => reports[j].id # requests[i].id
          /\ \A j \in DOMAIN requests :
               requests[j].type = "NEW_ORDER" /\ requests[j].id = requests[i].id => i = j
      BY <2>1 DEF KnownOK
    <2>3. QED
      BY <1>1, <2>2
  <1>6. QED
    BY <1>2, <1>3, <1>4, <1>5 DEF KnownOK

\* An order that is no longer open is in nobody's way, whatever else is the same.
LEMMA FewerOpen ==
    ASSUME OrphanOK, PriceOK, UNCHANGED <<orders, requests, unsent>>,
           DOMAIN open' \subseteq DOMAIN open, \A id \in DOMAIN open' : open'[id] = open[id]
    PROVE  OrphanOK' /\ PriceOK'
  <1>1. OrphanOK'
    BY DEF OrphanOK, NoOrphans, Listed, Pending
  <1>2. PriceOK'
    BY DEF PriceOK, Pending
  <1>3. QED
    BY <1>1, <1>2

\* The reports that the exchange adds are of orders the bot has sent.
LEMMA ReportFresh ==
    ASSUME FreshOK, NEW r, Added(reports, reports', r), UNCHANGED <<orders, last_order_id, open_orders, unsent>>,
           \A i \in DOMAIN requests' : \E k \in DOMAIN requests : requests'[i] = requests[k],
           r.type # "ERROR" => r.id < last_order_id
    PROVE  FreshOK'
  <1>1. PICK n : /\ DOMAIN reports' = DOMAIN reports \cup {n}
                 /\ \A i \in DOMAIN reports : reports'[i] = reports[i]
                 /\ reports'[n] = r
    BY DEF Added
  <1>2. QED
    BY <1>1 DEF FreshOK, Listed

\* What adding a report does to the queue.
LEMMA ReportAdds ==
    ASSUME MakerTypes, NEW r \in ReportType, Report(r)
    PROVE  Added(reports, reports', r) /\ reports' \in Seq(ReportType) /\ reports' = Append(reports, r)
  <1>1. reports' = Append(reports, r) /\ reports \in Seq(ReportType)
    BY DEF Report, MakerTypes
  <1>2. PICK n : n = Len(reports) + 1
    OBVIOUS
  <1>3. /\ reports' \in Seq(ReportType)
        /\ DOMAIN reports' = DOMAIN reports \cup {n} /\ n \notin DOMAIN reports
        /\ \A i \in DOMAIN reports : reports'[i] = reports[i] /\ i < n
        /\ reports'[n] = r
    BY <1>1, <1>2, AppendFacts
  <1>4. Added(reports, reports', r)
    BY <1>3 DEF Added
  <1>5. QED
    BY <1>1, <1>3, <1>4

\* The end of the session keeps the invariant.
LEMMA EndSessionKeeps ==
    ASSUME MakerInv, EndSession
    PROVE  MakerInv'
  <1>1. /\ UNCHANGED <<maker, mode, orders, last_order_id, sent, open_orders, positions, requests, filled, unsent>>
        /\ session' = FALSE /\ open' = <<>> /\ Report([type |-> "ERROR"])
    BY DEF EndSession, bot, oe
  <1>2. PICK r \in ReportType : r = [type |-> "ERROR"]
    BY DEF ReportType
  <1>3. Added(reports, reports', r) /\ reports' \in Seq(ReportType) /\ reports' = Append(reports, r)
    BY <1>1, <1>2, ReportAdds DEF MakerInv
  <1>4. r.type = "ERROR"
    BY <1>2
  <1>5. DOMAIN open' = {} /\ open' \in [DOMAIN open' -> [side : Side, price : Int]]
    BY <1>1
  <1>6. MakerTypes'
    BY <1>1, <1>3, <1>5 DEF MakerInv, MakerTypes
  <1>7. ListsOK'
    BY <1>1 DEF MakerInv, ListsOK, StackUncrossed
  <1>8. FreshOK'
    BY <1>1, <1>3, <1>4, ReportFresh DEF MakerInv
  <1>9. KnownOK'
    BY <1>1, <1>3, <1>4, <1>5, ReportKnown DEF MakerInv
  <1>10. OrphanOK' /\ PriceOK'
    BY <1>1, <1>5, FewerOpen DEF MakerInv
  <1>11. BookedOK'
    <2>1. \A side \in Side : FillsInFlight(side)' = FillsInFlight(side) + 0
      BY <1>1, <1>3, <1>4, FlightAppend DEF MakerInv
    <2>2. \A side \in Side : FillsInFlight(side) \in Int
      BY InFlightFacts DEF MakerInv
    <2>3. FillsInFlight("BUY")' = FillsInFlight("BUY") /\ FillsInFlight("SELL")' = FillsInFlight("SELL")
      BY <2>1, <2>2 DEF Side
    <2>4. QED
      BY <1>1, <2>3 DEF MakerInv, BookedOK
  <1>12. QED
    BY <1>6, <1>7, <1>8, <1>9, <1>10, <1>11 DEF MakerInv

\* A fill keeps the invariant.
LEMMA FillOrderKeeps ==
    ASSUME MakerInv, NEW id \in DOMAIN open, NEW quantity \in Quantities, NEW closes \in BOOLEAN,
           FillOrder(id, quantity, closes)
    PROVE  MakerInv'
  <1>1. /\ UNCHANGED <<maker, mode, orders, last_order_id, sent, open_orders, positions, requests, session, unsent>>
        /\ filled' = [filled EXCEPT ![open[id].side] = @ + quantity]
        /\ open' = IF closes THEN Without(open, id) ELSE open
        /\ Report([type |-> "FILL", id |-> id, quantity |-> quantity])
    BY DEF FillOrder, bot, oe
  <1>2. PICK side \in Side : side = open[id].side
    BY DEF MakerInv, MakerTypes
  <1>3. /\ id \in Ids /\ quantity \in Nat /\ id \in DOMAIN open_orders /\ open_orders[id] = side
        /\ id < last_order_id
    BY <1>2, MarketMakerAssumption DEF MakerInv, MakerTypes, KnownOK, FreshOK
  <1>4. PICK r \in ReportType : r = [type |-> "FILL", id |-> id, quantity |-> quantity]
    BY <1>3 DEF ReportType
  <1>5. r.type = "FILL" /\ r.id = id /\ r.quantity = quantity
    BY <1>4
  <1>6. Added(reports, reports', r) /\ reports' \in Seq(ReportType) /\ reports' = Append(reports, r)
    BY <1>1, <1>4, ReportAdds DEF MakerInv
  <1>7. /\ DOMAIN open' \subseteq DOMAIN open /\ \A x \in DOMAIN open' : open'[x] = open[x]
        /\ open' \in [DOMAIN open' -> [side : Side, price : Int]]
    <2>1. CASE closes
      <3>1. open' = [x \in DOMAIN open \ {id} |-> open[x]]
        BY <1>1, <2>1 DEF Without, Funs!Restrict
      <3>2. QED
        BY <3>1 DEF MakerInv, MakerTypes
    <2>2. CASE ~closes
      BY <1>1, <2>2 DEF MakerInv, MakerTypes
    <2>3. QED
      BY <2>1, <2>2
  <1>8. /\ filled \in [Side -> Nat] /\ filled' \in [Side -> Nat] /\ filled'[side] = filled[side] + quantity
        /\ \A s \in Side : s # side => filled'[s] = filled[s]
    BY <1>1, <1>2, <1>3 DEF MakerInv, MakerTypes
  <1>9. MakerTypes'
    BY <1>1, <1>6, <1>7, <1>8 DEF MakerInv, MakerTypes
  <1>10. ListsOK'
    BY <1>1 DEF MakerInv, ListsOK, StackUncrossed
  <1>11. FreshOK'
    BY <1>1, <1>3, <1>5, <1>6, ReportFresh DEF MakerInv
  <1>12. KnownOK'
    BY <1>1, <1>5, <1>6, <1>7, ReportKnown DEF MakerInv
  <1>13. OrphanOK' /\ PriceOK'
    BY <1>1, <1>7, FewerOpen DEF MakerInv
  <1>14. BookedOK'
    <2>1. \A s \in Side : FillsInFlight(s)' = FillsInFlight(s) + IF s = side THEN quantity ELSE 0
      <3>1. \A s \in Side : FillsInFlight(s)' = FillsInFlight(s) +
              IF r.type = "FILL" /\ r.id \in DOMAIN open_orders /\ open_orders[r.id] = s THEN r.quantity ELSE 0
        BY <1>1, <1>6, FlightAppend DEF MakerInv
      <3>2. QED
        BY <1>3, <1>5, <3>1
    <2>2. PICK b, s, c, t : /\ b = FillsInFlight("BUY") /\ s = FillsInFlight("SELL")
                            /\ c = FillsInFlight("BUY")' /\ t = FillsInFlight("SELL")'
      OBVIOUS
    <2>3. b \in Int /\ s \in Int
      BY <2>2, InFlightFacts DEF MakerInv
    <2>4. positions \in [{0, 1} -> Int] /\ positions[1] + b - s = filled["BUY"] - filled["SELL"] /\ positions[0] = 0
      BY <2>2 DEF MakerInv, MakerTypes, BookedOK
    <2>5. CASE side = "BUY"
      <3>1. c = b + quantity /\ t = s + 0 /\ filled'["BUY"] = filled["BUY"] + quantity /\ filled'["SELL"] = filled["SELL"]
        BY <1>8, <2>1, <2>2, <2>5 DEF Side
      <3>2. filled["BUY"] \in Int /\ filled["SELL"] \in Int /\ positions[1] \in Int
        BY <1>8, <2>4 DEF Side
      <3>3. PICK p \in Int, f \in Int, g \in Int : p = positions[1] /\ f = filled["BUY"] /\ g = filled["SELL"]
        BY <3>2
      <3>4. p + b - s = f - g
        BY <2>4, <3>3
      <3>5. p + c - t = filled'["BUY"] - filled'["SELL"]
        BY <1>3, <2>3, <3>1, <3>3, <3>4
      <3>6. QED
        BY <1>1, <2>2, <2>4, <3>3, <3>5 DEF BookedOK
    <2>6. CASE side = "SELL"
      <3>1. c = b + 0 /\ t = s + quantity /\ filled'["BUY"] = filled["BUY"] /\ filled'["SELL"] = filled["SELL"] + quantity
        BY <1>8, <2>1, <2>2, <2>6 DEF Side
      <3>2. filled["BUY"] \in Int /\ filled["SELL"] \in Int /\ positions[1] \in Int
        BY <1>8, <2>4 DEF Side
      <3>3. PICK p \in Int, f \in Int, g \in Int : p = positions[1] /\ f = filled["BUY"] /\ g = filled["SELL"]
        BY <3>2
      <3>4. p + b - s = f - g
        BY <2>4, <3>3
      <3>5. p + c - t = filled'["BUY"] - filled'["SELL"]
        BY <1>3, <2>3, <3>1, <3>3, <3>4
      <3>6. QED
        BY <1>1, <2>2, <2>4, <3>3, <3>5 DEF BookedOK
    <2>7. QED
      BY <2>5, <2>6 DEF Side
  <1>15. QED
    BY <1>9, <1>10, <1>11, <1>12, <1>13, <1>14 DEF MakerInv

\* What a request does to the open orders: it leaves the others alone, and an order that it
\* names and that is open afterwards has its price.
Applied(m) ==
    \A id \in DOMAIN open' :
        \/ id # m.id /\ id \in DOMAIN open /\ open'[id] = open[id]
        \/ /\ id = m.id /\ m.type # "DELETE_ORDER" /\ open'[id].price = m.price
           /\ \/ id \in DOMAIN open /\ open'[id].side = open[id].side
              \/ m.type = "NEW_ORDER" /\ open'[id].side = m.side

\* The reports after a request: only the cancel of an open order is reported.
Reported(m) ==
    \/ UNCHANGED reports
    \/ /\ m.id \in DOMAIN open /\ m.id \notin DOMAIN open'
       /\ \E r \in ReportType : /\ r = [type |-> "CLOSE", id |-> m.id]
                                /\ Added(reports, reports', r) /\ reports' = Append(reports, r)

\* What the exchange does with a request.
LEMMA TakeFacts ==
    ASSUME MakerInv, TakeRequest
    PROVE  /\ Taken(requests, requests') /\ requests[1] \in Request /\ requests' \in Seq(Request)
           /\ UNCHANGED <<maker, mode, orders, last_order_id, sent, open_orders, positions>>
           /\ UNCHANGED <<session, filled, unsent>>
           /\ DOMAIN open' \subseteq Ids /\ open' \in [DOMAIN open' -> [side : Side, price : Int]]
           /\ reports' \in Seq(ReportType)
           /\ Applied(requests[1]) /\ Reported(requests[1])
  <1>1. requests # <<>> /\ requests' = Tail(requests) /\ requests \in Seq(Request) /\ MakerTypes
    BY DEF TakeRequest, MakerInv, MakerTypes
  <1>2. Taken(requests, requests')
    BY <1>1, TailTaken
  <1>3. Head(requests) = requests[1] /\ requests[1] \in Request /\ requests' \in Seq(Request)
    BY <1>1, TailFacts
  <1>4. /\ UNCHANGED <<maker, mode, orders, last_order_id, sent, open_orders, positions>>
        /\ UNCHANGED <<session, filled, unsent>>
    BY DEF TakeRequest, bot, oe
  <1>5. PICK m \in Request : m = requests[1]
    BY <1>3
  <1>6. /\ m.id \in Ids /\ m.type \in {"NEW_ORDER", "MODIFY_ORDER", "DELETE_ORDER"}
        /\ m.type # "DELETE_ORDER" => m.side \in Side /\ m.price \in Int
    BY RequestFields
  <1>7. DOMAIN open \subseteq Ids /\ open \in [DOMAIN open -> [side : Side, price : Int]] /\ reports \in Seq(ReportType)
    BY DEF MakerInv, MakerTypes
  <1>8. CASE m.type = "NEW_ORDER"
    <2>1. open' = With(open, m.id, [side |-> m.side, price |-> m.price]) /\ UNCHANGED reports
      BY <1>3, <1>5, <1>8 DEF TakeRequest
    <2>2. PICK q \in [side : Side, price : Int] : q = [side |-> m.side, price |-> m.price]
      BY <1>6, <1>8
    <2>3. open' = [z \in DOMAIN open \cup {m.id} |-> IF z = m.id THEN q ELSE open[z]]
      BY <2>1, <2>2 DEF With
    <2>4. DOMAIN open' = DOMAIN open \cup {m.id} /\ open'[m.id] = q /\ \A id \in DOMAIN open : id # m.id => open'[id] = open[id]
      BY <2>3
    <2>5. DOMAIN open' \subseteq Ids /\ open' \in [DOMAIN open' -> [side : Side, price : Int]]
      BY <1>6, <1>7, <2>2, <2>3
    <2>6. q.side = m.side /\ q.price = m.price
      BY <2>2
    <2>7. Applied(m)
      BY <1>8, <2>4, <2>6 DEF Applied
    <2>8. QED
      BY <1>2, <1>3, <1>4, <1>5, <1>7, <2>1, <2>5, <2>7 DEF Reported
  <1>9. CASE m.type = "MODIFY_ORDER" /\ m.id \in DOMAIN open
    <2>1. open' = [open EXCEPT ![m.id].price = m.price] /\ UNCHANGED reports
      BY <1>3, <1>5, <1>9 DEF TakeRequest
    <2>2. PICK q \in [side : Side, price : Int] : q = [open[m.id] EXCEPT !.price = m.price]
      BY <1>6, <1>7, <1>9
    <2>3. open' = [z \in DOMAIN open |-> IF z = m.id THEN q ELSE open[z]]
      BY <1>7, <2>1, <2>2
    <2>4. DOMAIN open' = DOMAIN open /\ open'[m.id] = q /\ \A id \in DOMAIN open : id # m.id => open'[id] = open[id]
      BY <1>9, <2>3
    <2>5. DOMAIN open' \subseteq Ids /\ open' \in [DOMAIN open' -> [side : Side, price : Int]]
      BY <1>7, <2>2, <2>3
    <2>6. q.side = open[m.id].side /\ q.price = m.price
      BY <1>7, <1>9, <2>2
    <2>7. Applied(m)
      BY <1>9, <2>4, <2>6 DEF Applied
    <2>8. QED
      BY <1>2, <1>3, <1>4, <1>5, <1>7, <2>1, <2>5, <2>7 DEF Reported
  <1>10. CASE m.type = "DELETE_ORDER" /\ m.id \in DOMAIN open
    <2>1. PICK r \in ReportType : r = [type |-> "CLOSE", id |-> m.id]
      BY <1>6 DEF ReportType
    <2>2. open' = Without(open, m.id) /\ Report(r)
      BY <1>3, <1>5, <1>10, <2>1 DEF TakeRequest
    <2>3. Added(reports, reports', r) /\ reports' \in Seq(ReportType) /\ reports' = Append(reports, r)
      BY <1>1, <2>2, ReportAdds
    <2>4. open' = [z \in DOMAIN open \ {m.id} |-> open[z]]
      BY <2>2 DEF Without, Funs!Restrict
    <2>5. DOMAIN open' \subseteq Ids /\ open' \in [DOMAIN open' -> [side : Side, price : Int]]
      BY <1>7, <2>4
    <2>6. Applied(m)
      BY <2>4 DEF Applied
    <2>7. Reported(m)
      BY <1>10, <2>1, <2>3, <2>4 DEF Reported
    <2>8. QED
      BY <1>2, <1>3, <1>4, <1>5, <2>3, <2>5, <2>6, <2>7
  <1>11. CASE m.type # "NEW_ORDER" /\ m.id \notin DOMAIN open
    <2>1. UNCHANGED <<open, reports>>
      BY <1>3, <1>5, <1>11 DEF TakeRequest
    <2>2. Applied(m)
      BY <1>11, <2>1 DEF Applied
    <2>3. QED
      BY <1>2, <1>3, <1>4, <1>5, <1>7, <2>1, <2>2 DEF Reported
  <1>12. QED
    BY <1>6, <1>8, <1>9, <1>10, <1>11

\* The requests about an order move up.
LEMMA PendingTaken ==
    ASSUME Taken(requests, requests'), NEW id
    PROVE  /\ \A i \in Pending(id)' : i \in Nat /\ i + 1 \in Pending(id) /\ i + 1 # 1 /\ requests'[i] = requests[i + 1]
           /\ \A k \in Pending(id) : k \in Nat /\
                (k = 1 \/ (k - 1 \in Pending(id)' /\ requests'[k - 1] = requests[k] /\ (k - 1) + 1 = k))
  BY DEF Taken, Pending

\* A request that arrives leaves no order behind.
LEMMA TakeOrphans ==
    ASSUME OrphanOK, Taken(requests, requests'), Applied(requests[1]), UNCHANGED <<orders, unsent>>
    PROVE  OrphanOK'
  <1>1. PICK m : m = requests[1]
    OBVIOUS
  <1>2. /\ 1 \in DOMAIN requests /\ DOMAIN requests \subseteq Nat
        /\ \A id : id = m.id <=> 1 \in Pending(id)
    BY <1>1 DEF Taken, Pending
  <1>3. Listed' = Listed
    BY DEF Listed
  <1>4. ASSUME NEW id \in DOMAIN open', id \notin unsent
        PROVE  id \in Listed \/ \E i \in Pending(id)' : requests'[i].type = "DELETE_ORDER"
    <2>1. \A k \in Pending(id) : k \in Nat /\
            (k = 1 \/ (k - 1 \in Pending(id)' /\ requests'[k - 1] = requests[k] /\ (k - 1) + 1 = k))
      BY PendingTaken
    <2>2. id \in Listed \/ \E k \in Pending(id) : k # 1 /\ requests[k].type = "DELETE_ORDER"
      <3>1. CASE id # m.id /\ id \in DOMAIN open
        BY <1>2, <1>4, <3>1 DEF OrphanOK, NoOrphans
      <3>2. CASE id = m.id /\ m.type # "DELETE_ORDER" /\ id \in DOMAIN open
        BY <1>1, <1>4, <3>2 DEF OrphanOK, NoOrphans
      <3>3. CASE id = m.id /\ m.type = "NEW_ORDER"
        <4>1. \/ id \in Listed
              \/ \E j \in Pending(id) : 1 < j /\ requests[j].type = "DELETE_ORDER"
          BY <1>1, <1>2, <1>4, <3>3 DEF OrphanOK
        <4>2. QED
          BY <2>1, <4>1
      <3>4. QED
        BY <1>1, <1>4, <3>1, <3>2, <3>3 DEF Applied
    <2>3. QED
      BY <2>1, <2>2
  <1>5. ASSUME NEW i \in DOMAIN requests', requests'[i].type = "NEW_ORDER", requests'[i].id \notin unsent
        PROVE  \/ requests'[i].id \in Listed
               \/ \E j \in DOMAIN requests' :
                    requests'[j].id = requests'[i].id /\ i < j /\ requests'[j].type = "DELETE_ORDER"
    <2>1. PICK k \in DOMAIN requests : k = i + 1 /\ requests'[i] = requests[k] /\ i \in Nat
      BY <1>5 DEF Taken
    <2>2. CASE requests[k].id \in Listed
      BY <2>1, <2>2
    <2>3. CASE requests[k].id \notin Listed
      <3>1. PICK l \in Pending(requests[k].id) : k < l /\ requests[l].type = "DELETE_ORDER"
        BY <1>5, <2>1, <2>3 DEF OrphanOK
      <3>2. l \in DOMAIN requests /\ requests[l].id = requests[k].id /\ l \in Nat
        BY <1>2, <3>1 DEF Pending
      <3>3. PICK j \in DOMAIN requests' : j = l - 1 /\ requests'[j] = requests[l]
        BY <2>1, <3>1, <3>2 DEF Taken
      <3>4. i < j
        BY <2>1, <3>1, <3>2, <3>3
      <3>5. QED
        BY <2>1, <3>1, <3>2, <3>3, <3>4
    <2>4. QED
      BY <2>2, <2>3
  <1>6. NoOrphans'
    BY <1>3, <1>4 DEF NoOrphans
  <1>7. QED
    BY <1>3, <1>5, <1>6 DEF OrphanOK, Pending

\* A request that arrives keeps the prices.
LEMMA TakePrices ==
    ASSUME PriceOK, Taken(requests, requests'), Applied(requests[1]), UNCHANGED <<orders, unsent>>
    PROVE  PriceOK'
  <1>1. SUFFICES ASSUME NEW side \in Side, NEW o \in orders[side], o.id \notin unsent
                 PROVE  /\ \A i \in Pending(o.id)' :
                             /\ requests'[i].type # "DELETE_ORDER" /\ requests'[i].side = side
                             /\ (\A j \in Pending(o.id)' : j <= i) => requests'[i].price = o.price
                        /\ o.id \in DOMAIN open' =>
                             /\ open'[o.id].side = side
                             /\ Pending(o.id)' = {} => open'[o.id].price = o.price
    BY DEF PriceOK, Pending
  <1>2. PICK id : id = o.id
    OBVIOUS
  <1>3. /\ \A i \in Pending(id) :
             /\ requests[i].type # "DELETE_ORDER" /\ requests[i].side = side
             /\ (\A j \in Pending(id) : j <= i) => requests[i].price = o.price
        /\ id \in DOMAIN open =>
             /\ open[id].side = side
             /\ Pending(id) = {} => open[id].price = o.price
    BY <1>1, <1>2 DEF PriceOK
  <1>4. /\ \A i \in Pending(id)' : i \in Nat /\ i + 1 \in Pending(id) /\ i + 1 # 1 /\ requests'[i] = requests[i + 1]
        /\ \A k \in Pending(id) : k \in Nat /\
             (k = 1 \/ (k - 1 \in Pending(id)' /\ requests'[k - 1] = requests[k] /\ (k - 1) + 1 = k))
    BY PendingTaken
  <1>5. ASSUME NEW i \in Pending(id)'
        PROVE  /\ requests'[i].type # "DELETE_ORDER" /\ requests'[i].side = side
               /\ (\A j \in Pending(id)' : j <= i) => requests'[i].price = o.price
    <2>1. PICK k \in Pending(id) : k = i + 1 /\ requests'[i] = requests[k] /\ i \in Nat
      BY <1>4, <1>5
    <2>2. requests[k].type # "DELETE_ORDER" /\ requests[k].side = side
      BY <1>3, <2>1
    <2>3. ASSUME \A j \in Pending(id)' : j <= i PROVE requests[k].price = o.price
      <3>1. \A l \in Pending(id) : l <= k
        BY <1>4, <2>1, <2>3
      <3>2. QED
        BY <1>3, <2>1, <3>1
    <2>4. QED
      BY <2>1, <2>2, <2>3
  <1>6. ASSUME id \in DOMAIN open'
        PROVE  open'[id].side = side /\ (Pending(id)' = {} => open'[id].price = o.price)
    <2>1. PICK m : m = requests[1]
      OBVIOUS
    <2>2. id = m.id <=> 1 \in Pending(id)
      BY <2>1 DEF Taken, Pending
    <2>3. Pending(id)' = {} => Pending(id) \subseteq {1}
      BY <1>4
    <2>4. CASE id # m.id /\ id \in DOMAIN open /\ open'[id] = open[id]
      BY <1>3, <2>2, <2>3, <2>4
    <2>5. CASE /\ id = m.id /\ open'[id].price = m.price
               /\ \/ id \in DOMAIN open /\ open'[id].side = open[id].side
                  \/ m.type = "NEW_ORDER" /\ open'[id].side = m.side
      <3>1. 1 \in Pending(id) /\ m.side = side
        BY <1>3, <2>1, <2>2, <2>5
      <3>2. open'[id].side = side
        BY <1>3, <2>5, <3>1
      <3>3. ASSUME Pending(id)' = {} PROVE m.price = o.price
        <4>1. \A j \in Pending(id) : j <= 1
          BY <2>3, <3>3
        <4>2. QED
          BY <1>3, <2>1, <3>1, <4>1
      <3>4. QED
        BY <2>5, <3>2, <3>3
    <2>6. QED
      BY <1>6, <2>1, <2>4, <2>5 DEF Applied
  <1>7. QED
    BY <1>2, <1>5, <1>6

\* A request that arrives keeps what the client knows.
LEMMA TakeKnown ==
    ASSUME KnownOK, Taken(requests, requests'), Applied(requests[1]), Reported(requests[1]), UNCHANGED open_orders
    PROVE  KnownOK'
  <1>1. PICK m : m = requests[1]
    OBVIOUS
  <1>2. 1 \in DOMAIN requests /\ Applied(m) /\ Reported(m)
    BY <1>1 DEF Taken
  <1>3. m.type = "NEW_ORDER" =>
          /\ m.id \in DOMAIN open_orders /\ open_orders[m.id] = m.side
          /\ \A j \in DOMAIN reports : reports[j].type # "ERROR" => reports[j].id # m.id
    BY <1>1, <1>2 DEF KnownOK
  <1>4. \A j \in DOMAIN reports' :
          \/ j \in DOMAIN reports /\ reports'[j] = reports[j]
          \/ /\ reports'[j].type = "CLOSE" /\ reports'[j].id = m.id
             /\ m.id \in DOMAIN open /\ m.id \notin DOMAIN open' /\ \A i \in DOMAIN reports : i < j
    <2>1. CASE UNCHANGED reports
      BY <2>1
    <2>2. CASE ~UNCHANGED reports
      <3>1. PICK r : /\ m.id \in DOMAIN open /\ m.id \notin DOMAIN open'
                     /\ r.type = "CLOSE" /\ r.id = m.id /\ Added(reports, reports', r)
        BY <1>2, <2>2 DEF Reported
      <3>2. PICK n : /\ DOMAIN reports' = DOMAIN reports \cup {n} /\ n \notin DOMAIN reports
                     /\ \A i \in DOMAIN reports : reports'[i] = reports[i] /\ i < n
                     /\ reports'[n] = r
        BY <3>1 DEF Added
      <3>3. QED
        BY <3>1, <3>2
    <2>3. QED
      BY <2>1, <2>2
  <1>5. ASSUME NEW id \in DOMAIN open'
        PROVE  /\ id \in DOMAIN open_orders /\ open_orders[id] = open'[id].side
               /\ \A i \in DOMAIN reports' : reports'[i].type = "CLOSE" => reports'[i].id # id
    <2>1. /\ id \in DOMAIN open_orders /\ open_orders[id] = open'[id].side
          /\ \A i \in DOMAIN reports : reports[i].type = "CLOSE" => reports[i].id # id
      <3>1. CASE id \in DOMAIN open /\ open'[id].side = open[id].side
        BY <3>1 DEF KnownOK
      <3>2. CASE id = m.id /\ m.type = "NEW_ORDER" /\ open'[id].side = m.side
        BY <1>3, <3>2
      <3>3. QED
        BY <1>2, <1>5, <3>1, <3>2 DEF Applied
    <2>2. QED
      BY <1>4, <1>5, <2>1
  <1>6. ASSUME NEW i \in DOMAIN reports', reports'[i].type = "FILL"
        PROVE  /\ reports'[i].id \in DOMAIN open_orders /\ open_orders[reports'[i].id] \in Side
               /\ \A j \in DOMAIN reports' : reports'[j].type = "CLOSE" /\ reports'[j].id = reports'[i].id => i < j
    <2>1. i \in DOMAIN reports /\ reports'[i] = reports[i]
      BY <1>4, <1>6
    <2>2. /\ reports[i].id \in DOMAIN open_orders /\ open_orders[reports[i].id] \in Side
          /\ \A j \in DOMAIN reports : reports[j].type = "CLOSE" /\ reports[j].id = reports[i].id => i < j
      BY <1>6, <2>1 DEF KnownOK
    <2>3. QED
      BY <1>4, <2>1, <2>2
  <1>7. ASSUME NEW i \in DOMAIN requests', requests'[i].type = "NEW_ORDER"
        PROVE  /\ requests'[i].id \in DOMAIN open_orders /\ open_orders[requests'[i].id] = requests'[i].side
               /\ requests'[i].id \notin DOMAIN open'
               /\ \A j \in DOMAIN reports' : reports'[j].type # "ERROR" => reports'[j].id # requests'[i].id
               /\ \A j \in DOMAIN requests' :
                    requests'[j].type = "NEW_ORDER" /\ requests'[j].id = requests'[i].id => i = j
    <2>1. PICK k \in DOMAIN requests : k = i + 1 /\ k # 1 /\ requests'[i] = requests[k] /\ i \in Nat
      BY <1>7 DEF Taken
    <2>2. /\ requests[k].id \in DOMAIN open_orders /\ open_orders[requests[k].id] = requests[k].side
          /\ requests[k].id \notin DOMAIN open
          /\ \A j \in DOMAIN reports : reports[j].type # "ERROR" => reports[j].id # requests[k].id
          /\ \A j \in DOMAIN requests :
               requests[j].type = "NEW_ORDER" /\ requests[j].id = requests[k].id => k = j
      BY <1>7, <2>1 DEF KnownOK
    <2>3. requests[k].id \notin DOMAIN open'
      BY <1>1, <1>2, <2>1, <2>2 DEF Applied
    <2>4. \A j \in DOMAIN reports' : reports'[j].type # "ERROR" => reports'[j].id # requests[k].id
      BY <1>4, <2>2
    <2>5. ASSUME NEW j \in DOMAIN requests', requests'[j].type = "NEW_ORDER", requests'[j].id = requests'[i].id PROVE i = j
      <3>1. PICK l \in DOMAIN requests : l = j + 1 /\ requests'[j] = requests[l] /\ j \in Nat
        BY <2>5 DEF Taken
      <3>2. k = l
        BY <2>1, <2>2, <2>5, <3>1
      <3>3. QED
        BY <2>1, <3>1, <3>2
    <2>6. QED
      BY <2>1, <2>2, <2>3, <2>4, <2>5
  <1>8. QED
    BY <1>5, <1>6, <1>7 DEF KnownOK

\* A request that arrives keeps the invariant.
LEMMA TakeRequestKeeps ==
    ASSUME MakerInv, TakeRequest
    PROVE  MakerInv'
  <1>1. PICK m : m = requests[1]
    OBVIOUS
  <1>2. /\ Taken(requests, requests') /\ m \in Request /\ requests' \in Seq(Request)
        /\ UNCHANGED <<maker, mode, orders, last_order_id, sent, open_orders, positions>>
        /\ UNCHANGED <<session, filled, unsent>>
        /\ DOMAIN open' \subseteq Ids /\ open' \in [DOMAIN open' -> [side : Side, price : Int]]
        /\ reports' \in Seq(ReportType)
        /\ Applied(requests[1]) /\ Reported(requests[1])
    BY <1>1, TakeFacts
  <1>3. MakerTypes'
    BY <1>2 DEF MakerInv, MakerTypes
  <1>4. ListsOK'
    BY <1>2 DEF MakerInv, ListsOK, StackUncrossed
  <1>5. KnownOK' /\ OrphanOK' /\ PriceOK'
    BY <1>2, TakeKnown, TakeOrphans, TakePrices DEF MakerInv
  <1>6. \A i \in DOMAIN requests' : \E k \in DOMAIN requests : requests'[i] = requests[k]
    BY <1>2 DEF Taken
  <1>7. CASE UNCHANGED reports
    <2>1. FreshOK'
      BY <1>2, <1>6, <1>7 DEF MakerInv, FreshOK, Listed
    <2>2. BookedOK'
      BY <1>2, <1>7 DEF MakerInv, BookedOK, FillsInFlight, InFlight
    <2>3. QED
      BY <1>3, <1>4, <1>5, <2>1, <2>2 DEF MakerInv
  <1>8. CASE ~UNCHANGED reports
    <2>1. PICK r \in ReportType : /\ r = [type |-> "CLOSE", id |-> m.id]
                                  /\ Added(reports, reports', r) /\ reports' = Append(reports, r)
      BY <1>1, <1>2, <1>8 DEF Reported
    <2>2. r.type = "CLOSE" /\ r.id = m.id
      BY <2>1
    <2>3. m.id < last_order_id
      BY <1>1, <1>2 DEF Taken, MakerInv, FreshOK
    <2>4. FreshOK'
      BY <1>2, <1>6, <2>1, <2>2, <2>3, ReportFresh DEF MakerInv
    <2>5. \A side \in Side : FillsInFlight(side)' = FillsInFlight(side) + 0
      BY <1>2, <2>1, <2>2, FlightAppend DEF MakerInv
    <2>6. \A side \in Side : FillsInFlight(side) \in Int
      BY InFlightFacts DEF MakerInv
    <2>7. FillsInFlight("BUY")' = FillsInFlight("BUY") /\ FillsInFlight("SELL")' = FillsInFlight("SELL")
      BY <2>5, <2>6 DEF Side
    <2>8. BookedOK'
      BY <1>2, <2>7 DEF MakerInv, BookedOK
    <2>9. QED
      BY <1>3, <1>4, <1>5, <2>4, <2>8 DEF MakerInv
  <1>9. QED
    BY <1>7, <1>8

-----------------------------------------------------------------------------
(* The theorems. *)

\* The bot starts with nothing listed, known, on the way or open.
LEMMA MakerInitInv ==
    ASSUME MakerInit
    PROVE  MakerInv
  <1>1. /\ maker \in {"stack", "pair"} /\ mode = "off" /\ last_order_id = 1 /\ sent = FALSE /\ session = FALSE
        /\ orders = [side \in Side |-> {}] /\ positions = [symbol \in {0, 1} |-> 0]
        /\ filled = [side \in Side |-> 0] /\ unsent = {}
        /\ open_orders = <<>> /\ requests = <<>> /\ reports = <<>> /\ open = <<>>
    BY MarketMakerAssumption DEF MakerInit
  <1>2. DOMAIN open_orders = {} /\ DOMAIN requests = {} /\ DOMAIN reports = {} /\ DOMAIN open = {}
    BY <1>1
  <1>3. /\ open_orders \in [DOMAIN open_orders -> Side \cup {"unknown"}]
        /\ open \in [DOMAIN open -> [side : Side, price : Int]]
        /\ requests \in Seq(Request) /\ reports \in Seq(ReportType)
    BY <1>1
  <1>4. orders["BUY"] = {} /\ orders["SELL"] = {} /\ \A side \in Side : orders[side] = {}
    BY <1>1 DEF Side
  <1>5. \A side \in Side : IsFiniteSet(orders[side]) /\ Cardinality(orders[side]) = 0
    BY <1>4, FS_EmptySet
  <1>6. MakerTypes
    <2>1. orders \in [Side -> SUBSET Orders] /\ \A side \in Side : IsFiniteSet(orders[side])
      BY <1>1, <1>5
    <2>2. positions \in [{0, 1} -> Int] /\ filled \in [Side -> Nat]
      BY <1>1
    <2>3. last_order_id \in 1..(MaxOrders + 1)
      BY <1>1, MarketMakerAssumption
    <2>4. mode \in {"off", "running", "ended"} /\ sent \in BOOLEAN /\ session \in BOOLEAN
      BY <1>1
    <2>5. DOMAIN open_orders \subseteq Ids /\ DOMAIN open \subseteq Ids /\ unsent \subseteq Ids
      BY <1>1, <1>2
    <2>6. QED
      BY <1>1, <1>3, <2>1, <2>2, <2>3, <2>4, <2>5 DEF MakerTypes
  <1>7. ListsOK
    BY <1>4, <1>5, MarketMakerAssumption DEF ListsOK, StackUncrossed, IdsOf
  <1>8. Listed = {}
    BY <1>4 DEF Listed
  <1>9. FreshOK /\ KnownOK
    BY <1>1, <1>2, <1>8 DEF FreshOK, KnownOK
  <1>10. OrphanOK /\ PriceOK
    BY <1>2, <1>4 DEF OrphanOK, NoOrphans, PriceOK
  <1>11. BookedOK
    <2>1. \A side \in Side : FillsInFlight(side) = 0
      <3>1. ASSUME NEW side \in Side PROVE FillsInFlight(side) = 0
        <4>1. InFlight(side) = {}
          BY <1>2 DEF InFlight
        <4>2. QED
          BY <4>1, TotalEmpty DEF FillsInFlight
      <3>2. QED
        BY <3>1
    <2>2. FillsInFlight("BUY") = 0 /\ FillsInFlight("SELL") = 0
      BY <2>1 DEF Side
    <2>3. filled["BUY"] = 0 /\ filled["SELL"] = 0 /\ positions[1] = 0 /\ positions[0] = 0
      BY <1>1 DEF Side
    <2>4. QED
      BY <2>2, <2>3 DEF BookedOK
  <1>12. QED
    BY <1>6, <1>7, <1>9, <1>10, <1>11 DEF MakerInv

\* A step that changes nothing.
LEMMA MakerStutters ==
    ASSUME MakerInv, UNCHANGED makerVars
    PROVE  MakerInv'
  <1>1. /\ UNCHANGED <<maker, mode, orders, last_order_id, sent, open_orders, positions, requests, reports>>
        /\ UNCHANGED <<session, open, filled, unsent>>
    BY DEF makerVars, bot, oe, exchange
  <1>2. MakerTypes' /\ ListsOK' /\ FreshOK'
    BY <1>1 DEF MakerInv, MakerTypes, ListsOK, FreshOK, StackUncrossed, Listed
  <1>3. KnownOK' /\ OrphanOK' /\ PriceOK'
    BY <1>1 DEF MakerInv, KnownOK, OrphanOK, PriceOK, Listed, NoOrphans, Pending
  <1>4. BookedOK'
    BY <1>1 DEF MakerInv, BookedOK, FillsInFlight, InFlight
  <1>5. QED
    BY <1>2, <1>3, <1>4 DEF MakerInv

\* What the bot lists, what OEClient knows, what is on the connection and what the exchange
\* has always fit together, whichever bot runs and whatever is filled, cancelled or lost.
THEOREM MakerInvariant == MakerSpec => []MakerInv
  <1>1. MakerInit => MakerInv
    BY MakerInitInv
  <1>2. ASSUME MakerInv, [MakerNext]_makerVars PROVE MakerInv'
    <2>1. ASSUME NEW status \in {"SUCCESS", "REFUSED"}, Login(status) PROVE MakerInv'
      BY <1>2, <2>1, LoginKeeps
    <2>2. CASE ReadReport
      BY <1>2, <2>2, ReadReportKeeps
    <2>3. ASSUME NEW market \in Markets, NEW waited \in [Side -> BOOLEAN], ProcessStack(market, waited)
          PROVE  MakerInv'
      BY <1>2, <2>3, StackKeeps
    <2>4. ASSUME NEW fair_value \in FairValues, NEW old \in [Side -> BOOLEAN], ProcessPair(fair_value, old)
          PROVE  MakerInv'
      BY <1>2, <2>4, PairKeeps
    <2>5. CASE TakeRequest
      BY <1>2, <2>5, TakeRequestKeeps
    <2>6. ASSUME NEW id \in DOMAIN open, NEW quantity \in Quantities, NEW closes \in BOOLEAN,
                 FillOrder(id, quantity, closes)
          PROVE  MakerInv'
      BY <1>2, <2>6, FillOrderKeeps
    <2>7. CASE EndSession
      BY <1>2, <2>7, EndSessionKeeps
    <2>8. CASE UNCHANGED makerVars
      BY <1>2, <2>8, MakerStutters
    <2>9. QED
      BY <1>2, <2>1, <2>2, <2>3, <2>4, <2>5, <2>6, <2>7, <2>8 DEF MakerNext
  <1>3. QED
    BY <1>1, <1>2, PTL DEF MakerSpec

\* Every variable of the bot keeps its type; a stack has one order per price and no more than
\* its depth, a pair one order per side (stack_side, FairValueMarketMaker::process).
THEOREM MakerTypesHold == MakerSpec => []MakerTypeOK
  <1>1. MakerInv => MakerTypeOK
    BY DEF MakerInv, MakerTypes, ListsOK, MakerTypeOK
  <1>2. QED
    BY <1>1, MakerInvariant, PTL

\* The bot's position and the fills on the way to it make what its orders have traded, and no
\* fill is booked on an unknown order (OEClient::process): a close is the last report about
\* an order, and an order is noted before it is sent.
THEOREM PositionIsRight == MakerSpec => []PositionIsNetFills
  <1>1. MakerInv => PositionIsNetFills
    BY DEF MakerInv, BookedOK, PositionIsNetFills
  <1>2. QED
    BY <1>1, MakerInvariant, PTL

\* An order that is open at the exchange is listed by the bot or its cancel is on the way,
\* unless a write about it failed (stack_side, FairValueMarketMaker::process).
THEOREM NothingIsOrphaned == MakerSpec => []NoOrphans
  <1>1. MakerInv => NoOrphans
    BY DEF MakerInv, OrphanOK
  <1>2. QED
    BY <1>1, MakerInvariant, PTL

\* An open order about which nothing is on the way rests at the price and on the side at which
\* the bot lists it, however often it was moved (stack_side).
THEOREM PricesAlwaysAgree == MakerSpec => []PricesAgree
  <1>1. ASSUME MakerInv PROVE PricesAgree
    <2>1. SUFFICES ASSUME NEW side \in Side, NEW o \in orders[side], o.id \in DOMAIN open \ unsent, Pending(o.id) = {}
                   PROVE  open[o.id] = [side |-> side, price |-> o.price]
      BY DEF PricesAgree
    <2>2. open[o.id].side = side /\ open[o.id].price = o.price
      BY <1>1, <2>1 DEF MakerInv, PriceOK
    <2>3. open[o.id] \in [side : Side, price : Int]
      BY <1>1, <2>1 DEF MakerInv, MakerTypes
    <2>4. QED
      BY <2>2, <2>3
  <1>2. QED
    BY <1>1, MakerInvariant, PTL

\* The bids of a stack are below its asks, whatever the market has done since they were sent
\* (StackManager::process).
THEOREM StackNeverCrosses == MakerSpec => []StackUncrossed
  <1>1. MakerInv => StackUncrossed
    BY DEF MakerInv, ListsOK
  <1>2. QED
    BY <1>1, MakerInvariant, PTL
=============================================================================
