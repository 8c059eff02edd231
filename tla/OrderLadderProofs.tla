------------------------- MODULE OrderLadderProofs -------------------------
(***************************************************************************)
(* Proofs about the order ladder, for any set of ids, any prices and any   *)
(* quantities: its invariants, and that it implements the price-time book. *)
(* Every step of the linked lists is, seen through bookOfLadder and        *)
(* takerOfLadder, a step of the abstract book or none at all.              *)
(***************************************************************************)
EXTENDS OrderLadder, TLAPS

\* The inductive invariant.  Types alone are not inductive: that match() finds an
\* order behind a level's head, and that unlinking never throws, rests on the lists
\* being well linked; that a book stays uncrossed rests on every resting order being
\* reachable from a level.
IInv == TypeOK /\ WellLinked /\ RestingIsOpen /\ Uncrossed /\ NeverThrows

-----------------------------------------------------------------------------
(* Unlinking an order. *)

\* What is left of the book's maps after an order has left it.
LEMMA UnlinkTypes ==
    ASSUME TypeOK, WellLinked, NEW id \in Resting, Unlink(id)
    PROVE  /\ Resting' = Resting \ {id}
           /\ orders' \in [Resting' -> Order]
           /\ levels' \in [Side -> [Prices -> Level]]
           /\ ahead' \in [Ids -> SUBSET Ids]
           /\ \A x \in Resting' : /\ orders'[x].side = orders[x].side
                                  /\ orders'[x].price = orders[x].price
                                  /\ orders'[x].quantity = orders[x].quantity
                                  /\ orders'[x].flags = orders[x].flags
                                  /\ orders'[x].next = IF x = orders[id].prev THEN orders[id].next
                                                       ELSE orders[x].next
                                  /\ orders'[x].prev = IF x = orders[id].next THEN orders[id].prev
                                                       ELSE orders[x].prev
           /\ \A side \in Side, p \in Prices :
                 levels'[side][p] = IF side = orders[id].side /\ p = orders[id].price
                                    THEN LevelWithout(id) ELSE levels[side][p]
           /\ \A x \in Ids : ahead'[x] = IF x = id THEN {} ELSE ahead[x] \ {id}
  <1>1. orders[id] \in Order /\ id \in Ids
    BY DEF TypeOK
  <1>2. Resting' = Resting \ {id}
    BY DEF Unlink, OrdersWithout, Resting
  <1>4. ASSUME NEW x \in Resting \ {id}
        PROVE  /\ orders'[x] \in Order
               /\ orders'[x].side = orders[x].side
               /\ orders'[x].price = orders[x].price
               /\ orders'[x].quantity = orders[x].quantity
               /\ orders'[x].flags = orders[x].flags
               /\ orders'[x].next = IF x = orders[id].prev THEN orders[id].next ELSE orders[x].next
               /\ orders'[x].prev = IF x = orders[id].next THEN orders[id].prev ELSE orders[x].prev
    <2>1. orders[x] \in Order
      BY DEF TypeOK
    <2>2. orders'[x] = [orders[x] EXCEPT
                    !.next = IF x = orders[id].prev THEN orders[id].next ELSE @,
                    !.prev = IF x = orders[id].next THEN orders[id].prev ELSE @]
      BY DEF Unlink, OrdersWithout
    <2>3. QED
      BY <1>1, <2>1, <2>2 DEF Order
  <1>5. orders' \in [Resting' -> Order]
    BY <1>2, <1>4 DEF Unlink, OrdersWithout
  <1>6. LevelWithout(id) \in Level
    BY <1>1 DEF LevelWithout, Level, EmptyLevel, Order, TypeOK, Pointer
  <1>7. levels' \in [Side -> [Prices -> Level]]
    BY <1>1, <1>6 DEF Unlink, TypeOK, Order
  <1>8. ahead' \in [Ids -> SUBSET Ids]
    BY DEF Unlink, TypeOK
  <1>9. \A side \in Side, p \in Prices :
            levels'[side][p] = IF side = orders[id].side /\ p = orders[id].price
                               THEN LevelWithout(id) ELSE levels[side][p]
    BY <1>1 DEF Unlink, TypeOK, Order
  <1>10. \A x \in Ids : ahead'[x] = IF x = id THEN {} ELSE ahead[x] \ {id}
    BY DEF Unlink
  <1>11. QED
    BY <1>2, <1>4, <1>5, <1>7, <1>8, <1>9, <1>10

\* Taking an order out of its list leaves every list well linked.
LEMMA UnlinkWellLinked ==
    ASSUME TypeOK, WellLinked, NEW id \in Resting, Unlink(id)
    PROVE  WellLinked'
  <1> DEFINE o == orders[id]
             level == levels[o.side][o.price]
  <1>1. /\ o \in Order /\ id \in Ids /\ id # NoOrder
        /\ Resting \subseteq Ids
        /\ NoOrder \notin Resting
        /\ \A x \in Resting : orders[x] \in Order
        /\ o.side \in Side /\ o.price \in Prices
        /\ \A x \in Resting : orders[x].side \in Side /\ orders[x].price \in Prices
    BY LadderAssumption DEF TypeOK, Order
  <1>2. /\ Resting' = Resting \ {id}
        /\ \A x \in Resting' : /\ orders'[x].side = orders[x].side
                               /\ orders'[x].price = orders[x].price
                               /\ orders'[x].next = IF x = o.prev THEN o.next ELSE orders[x].next
                               /\ orders'[x].prev = IF x = o.next THEN o.prev ELSE orders[x].prev
        /\ \A side \in Side, p \in Prices :
              levels'[side][p] = IF side = o.side /\ p = o.price
                                 THEN LevelWithout(id) ELSE levels[side][p]
        /\ \A x \in Resting' : ahead'[x] = ahead[x] \ {id}
    <2>1. /\ Resting' = Resting \ {id}
          /\ \A x \in Resting' : /\ orders'[x].side = orders[x].side
                                 /\ orders'[x].price = orders[x].price
                                 /\ orders'[x].next = IF x = orders[id].prev THEN orders[id].next
                                                      ELSE orders[x].next
                                 /\ orders'[x].prev = IF x = orders[id].next THEN orders[id].prev
                                                      ELSE orders[x].prev
      BY UnlinkTypes
    <2>2. /\ \A side \in Side, p \in Prices :
                 levels'[side][p] = IF side = orders[id].side /\ p = orders[id].price
                                    THEN LevelWithout(id) ELSE levels[side][p]
          /\ \A x \in Ids : ahead'[x] = IF x = id THEN {} ELSE ahead[x] \ {id}
      BY UnlinkTypes
    <2>3. QED
      BY <1>1, <2>1, <2>2
  <1>3. \A side \in Side, p \in Prices : LevelOrders(side, p)' = LevelOrders(side, p) \ {id}
    BY <1>2 DEF LevelOrders
  <1>4. \A x \in Resting' : Mates(x)' = Mates(x) \ {id}
    BY <1>1, <1>2, <1>3 DEF Mates
  <1>5. /\ LevelWithout(id).head = IF level.head = id THEN o.next ELSE level.head
        /\ LevelWithout(id).head # NoOrder =>
              LevelWithout(id).tail = IF level.tail = id THEN o.prev ELSE level.tail
        /\ LevelWithout(id).head = NoOrder => LevelWithout(id).tail = NoOrder
    BY DEF LevelWithout, EmptyLevel
  <1>6. \A x \in Resting' :
           LevelOf(x)' = IF x \in Mates(id) THEN LevelWithout(id) ELSE LevelOf(x)
    BY <1>1, <1>2 DEF LevelOf, Mates, LevelOrders
  \* The list around the order, before it leaves.
  <1>7. /\ o.prev = NoOrder <=> level.head = id
        /\ o.next = NoOrder <=> level.tail = id
        /\ o.prev # NoOrder => o.prev \in Mates(id) \ {id} /\ orders[o.prev].next = id
        /\ o.next # NoOrder => o.next \in Mates(id) \ {id} /\ orders[o.next].prev = id
        /\ level.head # NoOrder /\ level.tail # NoOrder
        /\ level.head \in Mates(id) /\ level.tail \in Mates(id)
    <2>1. /\ level.head # NoOrder /\ level.tail # NoOrder
          /\ level.head \in Mates(id) /\ level.tail \in Mates(id)
          /\ orders[level.head].prev = NoOrder /\ orders[level.tail].next = NoOrder
      BY <1>1 DEF WellLinked, EndsLinked, LevelOf, Mates
    <2>2. /\ o.prev = NoOrder => level.head = id
          /\ o.next = NoOrder => level.tail = id
          /\ o.prev # NoOrder => o.prev \in Mates(id) /\ orders[o.prev].next = id
          /\ o.next # NoOrder => o.next \in Mates(id) /\ orders[o.next].prev = id
      BY DEF WellLinked, NeighboursLinked, LevelOf
    <2>3. o.prev # id
      BY <1>1 DEF WellLinked, ListedByArrival
    <2>4. o.next # id
      BY <2>2, <2>3, <1>1
    <2>5. QED
      BY <2>1, <2>2, <2>3, <2>4
  <1>7a. /\ \A x \in Resting : x \in Mates(x) /\ Mates(x) \subseteq Resting
         /\ \A x, y \in Resting : y \in Mates(x) =>
               Mates(y) = Mates(x) /\ LevelOf(y) = LevelOf(x)
         /\ LevelOf(id) = level
    BY DEF Mates, LevelOrders, LevelOf
  <1>8. EndsLinked'
    <2>1. ASSUME NEW side \in Side, NEW p \in Prices, side # o.side \/ p # o.price
          PROVE  LET after == levels'[side][p] IN
                 /\ after.head = NoOrder <=> after.tail = NoOrder
                 /\ after.head # NoOrder => /\ after.head \in LevelOrders(side, p)'
                                            /\ orders'[after.head].prev = NoOrder
                 /\ after.tail # NoOrder => /\ after.tail \in LevelOrders(side, p)'
                                            /\ orders'[after.tail].next = NoOrder
      <3> DEFINE there == levels[side][p]
      <3>1. levels'[side][p] = there
        BY <1>2, <2>1
      <3>2. /\ there.head = NoOrder <=> there.tail = NoOrder
            /\ there.head # NoOrder => /\ there.head \in LevelOrders(side, p)
                                       /\ orders[there.head].prev = NoOrder
            /\ there.tail # NoOrder => /\ there.tail \in LevelOrders(side, p)
                                       /\ orders[there.tail].next = NoOrder
        BY DEF WellLinked, EndsLinked
      <3>3. ASSUME NEW x \in LevelOrders(side, p)
            PROVE  /\ x \in LevelOrders(side, p)' /\ x \in Resting'
                   /\ x \notin Mates(id)
        BY <1>2, <1>3, <2>1 DEF LevelOrders, Mates
      <3>4. ASSUME NEW x \in LevelOrders(side, p)
            PROVE  orders'[x].prev = orders[x].prev /\ orders'[x].next = orders[x].next
        BY <1>1, <1>2, <1>7, <3>3 DEF LevelOrders
      <3>5. QED
        BY <3>1, <3>2, <3>3, <3>4
    <2>2. /\ LevelWithout(id).head = NoOrder <=> LevelWithout(id).tail = NoOrder
          /\ LevelWithout(id).head # NoOrder =>
                /\ LevelWithout(id).head \in Mates(id) \ {id}
                /\ orders'[LevelWithout(id).head].prev = NoOrder
          /\ LevelWithout(id).tail # NoOrder =>
                /\ LevelWithout(id).tail \in Mates(id) \ {id}
                /\ orders'[LevelWithout(id).tail].next = NoOrder
      <3>1. orders[level.head].prev = NoOrder /\ orders[level.tail].next = NoOrder
        BY <1>1, <1>7 DEF WellLinked, EndsLinked
      <3>2. CASE level.head = id
        BY <1>1, <1>2, <1>5, <1>7, <1>7a, <3>1, <3>2
      <3>3. CASE level.head # id
        BY <1>1, <1>2, <1>5, <1>7, <1>7a, <3>1, <3>3
      <3>4. QED
        BY <3>2, <3>3
    <2>3. \A x \in Resting' : LevelOf(x)'.head # NoOrder
      BY <1>1, <1>2, <1>5, <1>6, <1>7 DEF WellLinked, EndsLinked, ListedByArrival
    <2>4. QED
      BY <1>1, <1>2, <1>3, <2>1, <2>2, <2>3 DEF EndsLinked, Mates
  <1>9. NeighboursLinked'
    <2> SUFFICES ASSUME NEW x \in Resting'
                 PROVE  /\ orders'[x].prev = NoOrder => LevelOf(x)'.head = x
                        /\ orders'[x].next = NoOrder => LevelOf(x)'.tail = x
                        /\ orders'[x].prev # NoOrder =>
                              orders'[x].prev \in Mates(x)' /\ orders'[orders'[x].prev].next = x
                        /\ orders'[x].next # NoOrder =>
                              orders'[x].next \in Mates(x)' /\ orders'[orders'[x].next].prev = x
      BY DEF NeighboursLinked
    <2>0. /\ orders[x].prev = NoOrder => LevelOf(x).head = x
          /\ orders[x].next = NoOrder => LevelOf(x).tail = x
          /\ orders[x].prev # NoOrder =>
                orders[x].prev \in Mates(x) /\ orders[orders[x].prev].next = x
          /\ orders[x].next # NoOrder =>
                orders[x].next \in Mates(x) /\ orders[orders[x].next].prev = x
      BY <1>2 DEF WellLinked, NeighboursLinked
    <2>1. orders'[x].prev = NoOrder => LevelOf(x)'.head = x
      BY <1>1, <1>2, <1>5, <1>6, <1>7, <1>7a, <2>0
    <2>2. orders'[x].next = NoOrder => LevelOf(x)'.tail = x
      BY <1>1, <1>2, <1>5, <1>6, <1>7, <1>7a, <2>0
    <2>3. orders'[x].prev # NoOrder =>
              orders'[x].prev \in Mates(x)' /\ orders'[orders'[x].prev].next = x
      BY <1>1, <1>2, <1>4, <1>7 DEF WellLinked, NeighboursLinked, Mates, LevelOrders
    <2>4. orders'[x].next # NoOrder =>
              orders'[x].next \in Mates(x)' /\ orders'[orders'[x].next].prev = x
      BY <1>1, <1>2, <1>4, <1>7 DEF WellLinked, NeighboursLinked, Mates, LevelOrders
    <2>5. QED
      BY <2>1, <2>2, <2>3, <2>4
  <1>10. ListedByArrival'
    <2> SUFFICES ASSUME NEW x \in Resting'
                 PROVE  /\ x \notin ahead'[x]
                        /\ ahead'[x] \subseteq Mates(x)'
                        /\ orders'[x].prev = NoOrder => ahead'[x] = {}
                        /\ orders'[x].prev # NoOrder =>
                              ahead'[x] = ahead'[orders'[x].prev] \cup {orders'[x].prev}
                        /\ orders'[x].next = NoOrder => Mates(x)' = ahead'[x] \cup {x}
      BY DEF ListedByArrival
    <2>0. \A y \in Resting :
            /\ y \notin ahead[y]
            /\ orders[y].prev # NoOrder => ahead[y] = ahead[orders[y].prev] \cup {orders[y].prev}
            /\ orders[y].next = NoOrder => Mates(y) = ahead[y] \cup {y}
      BY DEF WellLinked, ListedByArrival
    <2>1. x \notin ahead'[x] /\ ahead'[x] \subseteq Mates(x)'
      BY <1>2, <1>4 DEF WellLinked, ListedByArrival
    <2>2. orders'[x].prev = NoOrder => ahead'[x] = {}
      BY <1>1, <1>2, <1>7 DEF WellLinked, ListedByArrival, NeighboursLinked
    <2>3. orders'[x].prev # NoOrder =>
              ahead'[x] = ahead'[orders'[x].prev] \cup {orders'[x].prev}
      <3>1. CASE x = o.next
        BY <1>1, <1>2, <1>7, <1>7a, <2>0, <3>1
      <3>2. CASE x # o.next
        BY <1>1, <1>2, <1>7, <1>7a, <2>0, <3>2 DEF WellLinked, NeighboursLinked
      <3>3. QED
        BY <3>1, <3>2
    <2>4. orders'[x].next = NoOrder => Mates(x)' = ahead'[x] \cup {x}
      <3>1. CASE x = o.prev
        BY <1>1, <1>2, <1>4, <1>7, <1>7a, <2>0, <3>1
      <3>2. CASE x # o.prev
        BY <1>1, <1>2, <1>4, <1>7, <1>7a, <2>0, <3>2
      <3>3. QED
        BY <3>1, <3>2
    <2>5. QED
      BY <2>1, <2>2, <2>3, <2>4
  <1>11. QED
    BY <1>8, <1>9, <1>10 DEF WellLinked

-----------------------------------------------------------------------------
(* Changing quantities. *)

\* A step that leaves every order's side, price and pointers alone, and the levels,
\* leaves the lists well linked.
LEMMA SameShapeWellLinked ==
    ASSUME WellLinked, Resting' = Resting, UNCHANGED <<levels, ahead>>,
           \A x \in Resting : /\ orders'[x].side = orders[x].side
                             /\ orders'[x].price = orders[x].price
                             /\ orders'[x].next = orders[x].next
                             /\ orders'[x].prev = orders[x].prev
    PROVE  WellLinked'
  <1>1. \A side \in Side, p \in Prices : LevelOrders(side, p)' = LevelOrders(side, p)
    BY DEF LevelOrders
  <1>2. \A x \in Resting : Mates(x)' = Mates(x) /\ LevelOf(x)' = LevelOf(x)
    BY DEF Mates, LevelOf, LevelOrders
  <1>3. \A x \in Resting : Mates(x) \subseteq Resting
    BY DEF Mates, LevelOrders
  <1>4. \A side \in Side, p \in Prices : LevelOrders(side, p) \subseteq Resting
    BY DEF LevelOrders
  <1>5. EndsLinked'
    BY <1>1, <1>2, <1>4 DEF WellLinked, EndsLinked
  <1>6. NeighboursLinked'
    BY <1>2, <1>3 DEF WellLinked, NeighboursLinked
  <1>7. ListedByArrival'
    BY <1>2, <1>3 DEF WellLinked, ListedByArrival
  <1>8. QED
    BY <1>5, <1>6, <1>7 DEF WellLinked

-----------------------------------------------------------------------------
(* Appending an order. *)

\* The request in progress, when there is one.
LEMMA RequestTypes ==
    ASSUME TypeOK, cur # NoRequest
    PROVE  /\ cur \in Request
           /\ cur.id \in Ids /\ cur.id \in used /\ cur.id \notin Resting /\ cur.id # NoOrder
           /\ cur.side \in Side /\ Opposite(cur.side) \in Side
           /\ cur.price \in Prices /\ cur.price \in Int
           /\ cur.quantity \in Nat /\ cur.prematch \in Nat
           /\ cur.quantity <= cur.prematch
           /\ cur.flags \in Flags
           /\ cur.op \in {"NEW", "MODIFY"}
  BY LadderAssumption DEF TypeOK, Request, Opposite, Side

\* The maps after the remainder of the request was appended to its level.
LEMMA LinkTypes ==
    ASSUME TypeOK, WellLinked, cur # NoRequest, Link
    PROVE  /\ Resting' = Resting \cup {cur.id}
           /\ orders' \in [Resting' -> Order]
           /\ levels' \in [Side -> [Prices -> Level]]
           /\ ahead' \in [Ids -> SUBSET Ids]
           /\ \A x \in Resting : /\ orders'[x].side = orders[x].side
                                 /\ orders'[x].price = orders[x].price
                                 /\ orders'[x].quantity = orders[x].quantity
                                 /\ orders'[x].flags = orders[x].flags
                                 /\ orders'[x].prev = orders[x].prev
                                 /\ orders'[x].next = IF x = levels[cur.side][cur.price].tail
                                                      THEN cur.id ELSE orders[x].next
           /\ orders'[cur.id].side = cur.side /\ orders'[cur.id].price = cur.price
           /\ orders'[cur.id].quantity = cur.quantity /\ orders'[cur.id].flags = cur.flags
           /\ orders'[cur.id].next = NoOrder
           /\ orders'[cur.id].prev = levels[cur.side][cur.price].tail
           /\ \A side \in Side, p \in Prices :
                 levels'[side][p] = IF side = cur.side /\ p = cur.price
                                    THEN [head |-> IF levels[side][p].head = NoOrder THEN cur.id
                                                   ELSE levels[side][p].head,
                                          tail |-> cur.id]
                                    ELSE levels[side][p]
           /\ \A x \in Ids : ahead'[x] = IF x = cur.id THEN LevelOrders(cur.side, cur.price)
                                         ELSE ahead[x]
  <1>1. /\ cur.id \in Ids /\ cur.id \notin Resting /\ cur.side \in Side /\ cur.price \in Prices
        /\ cur.quantity \in Nat /\ cur.prematch - cur.quantity \in Nat /\ cur.flags \in Flags
        /\ levels[cur.side][cur.price] \in Level /\ Resting \subseteq Ids
    BY RequestTypes DEF TypeOK
  <1>2. Resting' = Resting \cup {cur.id}
    BY DEF Link, Resting
  <1>3. ASSUME NEW x \in Resting
        PROVE  /\ orders'[x] \in Order
               /\ orders'[x].side = orders[x].side
               /\ orders'[x].price = orders[x].price
               /\ orders'[x].quantity = orders[x].quantity
               /\ orders'[x].flags = orders[x].flags
               /\ orders'[x].prev = orders[x].prev
               /\ orders'[x].next = IF x = levels[cur.side][cur.price].tail
                                    THEN cur.id ELSE orders[x].next
    <2>1. orders[x] \in Order
      BY DEF TypeOK
    <2>2. orders'[x] = [orders[x] EXCEPT !.next = IF x = levels[cur.side][cur.price].tail
                                                  THEN cur.id ELSE @]
      BY <1>1 DEF Link
    <2>3. QED
      BY <1>1, <2>1, <2>2 DEF Order, Pointer
  <1>4. orders'[cur.id] = [side |-> cur.side, price |-> cur.price, quantity |-> cur.quantity,
                  filled_quantity |-> cur.prematch - cur.quantity, flags |-> cur.flags,
                  next |-> NoOrder, prev |-> levels[cur.side][cur.price].tail]
    BY DEF Link
  <1>5. orders'[cur.id] \in Order
    BY <1>1, <1>4 DEF Order, Pointer, Level
  <1>6. orders' \in [Resting' -> Order]
    BY <1>2, <1>3, <1>5 DEF Link
  <1>7. \A side \in Side, p \in Prices :
                 levels'[side][p] = IF side = cur.side /\ p = cur.price
                                    THEN [head |-> IF levels[side][p].head = NoOrder THEN cur.id
                                                   ELSE levels[side][p].head,
                                          tail |-> cur.id]
                                    ELSE levels[side][p]
    BY <1>1 DEF Link, TypeOK
  <1>8. [head |-> IF levels[cur.side][cur.price].head = NoOrder THEN cur.id
                  ELSE levels[cur.side][cur.price].head,
         tail |-> cur.id] \in Level
    BY <1>1 DEF Level, Pointer
  <1>9. levels' \in [Side -> [Prices -> Level]]
    BY <1>1, <1>8 DEF Link, TypeOK
  <1>10. /\ ahead' \in [Ids -> SUBSET Ids]
         /\ \A x \in Ids : ahead'[x] = IF x = cur.id THEN LevelOrders(cur.side, cur.price)
                                       ELSE ahead[x]
    BY <1>1 DEF Link, TypeOK, LevelOrders
  <1>11. QED
    BY <1>2, <1>3, <1>4, <1>6, <1>7, <1>9, <1>10

\* Appending an order to its level leaves every list well linked.
LEMMA LinkWellLinked ==
    ASSUME TypeOK, WellLinked, cur # NoRequest, Link
    PROVE  WellLinked'
  <1>0. PICK id : id = cur.id
    OBVIOUS
  <1> DEFINE level == levels[cur.side][cur.price]
             here == LevelOrders(cur.side, cur.price)
  <1>1. /\ id \in Ids /\ id \notin Resting /\ id # NoOrder
        /\ cur.side \in Side /\ cur.price \in Prices
        /\ Resting \subseteq Ids /\ NoOrder \notin Resting
        /\ \A x \in Resting : orders[x].side \in Side /\ orders[x].price \in Prices
    BY <1>0, RequestTypes, LadderAssumption DEF TypeOK, Order
  <1>2. /\ Resting' = Resting \cup {id}
        /\ \A x \in Resting : /\ orders'[x].side = orders[x].side
                              /\ orders'[x].price = orders[x].price
                              /\ orders'[x].prev = orders[x].prev
                              /\ orders'[x].next = IF x = level.tail THEN id ELSE orders[x].next
        /\ orders'[id].side = cur.side /\ orders'[id].price = cur.price
        /\ orders'[id].next = NoOrder /\ orders'[id].prev = level.tail
    BY <1>0, LinkTypes
  <1>3. /\ \A side \in Side, p \in Prices :
              /\ side # cur.side \/ p # cur.price => levels'[side][p] = levels[side][p]
              /\ side = cur.side /\ p = cur.price =>
                    /\ levels'[side][p].head = IF level.head = NoOrder THEN id ELSE level.head
                    /\ levels'[side][p].tail = id
        /\ ahead'[id] = here
        /\ \A x \in Resting : ahead'[x] = ahead[x]
    <2>1. /\ \A side \in Side, p \in Prices :
                 levels'[side][p] = IF side = cur.side /\ p = cur.price
                                    THEN [head |-> IF levels[side][p].head = NoOrder THEN cur.id
                                                   ELSE levels[side][p].head,
                                          tail |-> cur.id]
                                    ELSE levels[side][p]
          /\ \A x \in Ids : ahead'[x] = IF x = cur.id THEN LevelOrders(cur.side, cur.price)
                                        ELSE ahead[x]
      BY LinkTypes
    <2>2. ASSUME NEW side \in Side, NEW p \in Prices
          PROVE  /\ side # cur.side \/ p # cur.price => levels'[side][p] = levels[side][p]
                 /\ side = cur.side /\ p = cur.price =>
                       /\ levels'[side][p].head = IF level.head = NoOrder THEN id ELSE level.head
                       /\ levels'[side][p].tail = id
      <3>1. CASE side # cur.side \/ p # cur.price
        BY <2>1, <3>1
      <3>2. CASE side = cur.side /\ p = cur.price
        <4>1. levels'[side][p] = [head |-> IF level.head = NoOrder THEN id ELSE level.head,
                                  tail |-> id]
          BY <1>0, <2>1, <3>2
        <4>2. QED
          BY <4>1, <3>2
      <3>3. QED
        BY <3>1, <3>2
    <2>3. QED
      BY <1>0, <1>1, <2>1, <2>2
  <1>4. /\ here \subseteq Resting
        /\ \A side \in Side, p \in Prices :
              LevelOrders(side, p)' = IF side = cur.side /\ p = cur.price THEN here \cup {id}
                                      ELSE LevelOrders(side, p)
    BY <1>1, <1>2 DEF LevelOrders
  <1>5. /\ Mates(id)' = here \cup {id}
        /\ \A x \in Resting : Mates(x)' = IF x \in here THEN here \cup {id} ELSE Mates(x)
        /\ \A x \in Resting : x \in Mates(x) /\ Mates(x) \subseteq Resting
        /\ \A x \in here : Mates(x) = here
    <2>1. Mates(id)' = here \cup {id}
      BY <1>1, <1>2, <1>4 DEF Mates
    <2>2. ASSUME NEW x \in Resting
          PROVE  Mates(x)' = IF x \in here THEN here \cup {id} ELSE Mates(x)
      BY <1>1, <1>2, <1>4 DEF Mates, LevelOrders
    <2>3. /\ \A x \in Resting : x \in Mates(x) /\ Mates(x) \subseteq Resting
          /\ \A x \in here : Mates(x) = here
      BY DEF Mates, LevelOrders
    <2>4. QED
      BY <2>1, <2>2, <2>3
  <1>6. /\ \A x \in here \cup {id} : LevelOf(x)' = levels'[cur.side][cur.price]
        /\ \A x \in Resting \ here : LevelOf(x)' = LevelOf(x)
        /\ \A x \in here : LevelOf(x) = level
    BY <1>1, <1>2, <1>3, <1>4 DEF LevelOf, LevelOrders
  \* The end of the list the order is appended to.
  <1>7. /\ level.head = NoOrder <=> level.tail = NoOrder
        /\ level.head = NoOrder => here = {}
        /\ level.head # NoOrder => level.head \in here /\ orders[level.head].prev = NoOrder
        /\ level.tail # NoOrder => /\ level.tail \in here /\ orders[level.tail].next = NoOrder
                                   /\ here = ahead[level.tail] \cup {level.tail}
    <2>1. /\ level.head = NoOrder <=> level.tail = NoOrder
          /\ level.head # NoOrder => level.head \in here /\ orders[level.head].prev = NoOrder
          /\ level.tail # NoOrder => level.tail \in here /\ orders[level.tail].next = NoOrder
      BY <1>1 DEF WellLinked, EndsLinked
    <2>2. level.head = NoOrder => here = {}
      BY <1>4, <1>6 DEF WellLinked, EndsLinked
    <2>3. level.tail # NoOrder => here = ahead[level.tail] \cup {level.tail}
      BY <2>1, <1>4, <1>5 DEF WellLinked, ListedByArrival
    <2>4. QED
      BY <2>1, <2>2, <2>3
  <1>8. EndsLinked'
    <2>1. ASSUME NEW side \in Side, NEW p \in Prices, side # cur.side \/ p # cur.price
          PROVE  LET there == levels'[side][p] IN
                 /\ there.head = NoOrder <=> there.tail = NoOrder
                 /\ there.head # NoOrder => /\ there.head \in LevelOrders(side, p)'
                                            /\ orders'[there.head].prev = NoOrder
                 /\ there.tail # NoOrder => /\ there.tail \in LevelOrders(side, p)'
                                            /\ orders'[there.tail].next = NoOrder
      <3>1. /\ levels'[side][p] = levels[side][p]
            /\ LevelOrders(side, p)' = LevelOrders(side, p)
        BY <1>3, <1>4, <2>1
      <3>2. LET there == levels[side][p] IN
            /\ there.head = NoOrder <=> there.tail = NoOrder
            /\ there.head # NoOrder => /\ there.head \in LevelOrders(side, p)
                                       /\ orders[there.head].prev = NoOrder
            /\ there.tail # NoOrder => /\ there.tail \in LevelOrders(side, p)
                                       /\ orders[there.tail].next = NoOrder
        BY DEF WellLinked, EndsLinked
      <3>3. ASSUME NEW x \in LevelOrders(side, p)
            PROVE  x \in Resting /\ x \notin here
        BY <2>1 DEF LevelOrders
      <3>4. ASSUME NEW x \in LevelOrders(side, p)
            PROVE  orders'[x].prev = orders[x].prev /\ orders'[x].next = orders[x].next
        BY <1>1, <1>2, <1>7, <3>3
      <3>5. QED
        BY <3>1, <3>2, <3>4
    <2>2. LET there == levels'[cur.side][cur.price] IN
          /\ there.head # NoOrder /\ there.tail # NoOrder
          /\ there.head \in here \cup {id} /\ orders'[there.head].prev = NoOrder
          /\ there.tail \in here \cup {id} /\ orders'[there.tail].next = NoOrder
      BY <1>1, <1>2, <1>3, <1>4, <1>7
    <2>3. \A x \in Resting' : LevelOf(x)'.head # NoOrder
      BY <1>2, <1>6, <2>2 DEF WellLinked, EndsLinked
    <2>4. QED
      BY <1>4, <2>1, <2>2, <2>3 DEF EndsLinked
  <1>9. NeighboursLinked'
    <2> SUFFICES ASSUME NEW x \in Resting'
                 PROVE  /\ orders'[x].prev = NoOrder => LevelOf(x)'.head = x
                        /\ orders'[x].next = NoOrder => LevelOf(x)'.tail = x
                        /\ orders'[x].prev # NoOrder =>
                              orders'[x].prev \in Mates(x)' /\ orders'[orders'[x].prev].next = x
                        /\ orders'[x].next # NoOrder =>
                              orders'[x].next \in Mates(x)' /\ orders'[orders'[x].next].prev = x
      BY DEF NeighboursLinked
    <2>1. CASE x = id
      BY <1>1, <1>2, <1>3, <1>4, <1>5, <1>6, <1>7, <2>1
    <2>2. CASE x # id
      <3>1. /\ x \in Resting
            /\ orders[x].prev = NoOrder => LevelOf(x).head = x
            /\ orders[x].next = NoOrder => LevelOf(x).tail = x
            /\ orders[x].prev # NoOrder =>
                  orders[x].prev \in Mates(x) /\ orders[orders[x].prev].next = x
            /\ orders[x].next # NoOrder =>
                  orders[x].next \in Mates(x) /\ orders[orders[x].next].prev = x
        BY <1>2, <2>2 DEF WellLinked, NeighboursLinked
      <3>2. CASE x \in here
        BY <1>1, <1>2, <1>3, <1>4, <1>5, <1>6, <1>7, <3>1, <3>2
      <3>3. CASE x \notin here
        BY <1>1, <1>2, <1>3, <1>4, <1>5, <1>6, <1>7, <3>1, <3>3
      <3>4. QED
        BY <3>2, <3>3
    <2>3. QED
      BY <2>1, <2>2
  <1>10. ListedByArrival'
    <2> SUFFICES ASSUME NEW x \in Resting'
                 PROVE  /\ x \notin ahead'[x]
                        /\ ahead'[x] \subseteq Mates(x)'
                        /\ orders'[x].prev = NoOrder => ahead'[x] = {}
                        /\ orders'[x].prev # NoOrder =>
                              ahead'[x] = ahead'[orders'[x].prev] \cup {orders'[x].prev}
                        /\ orders'[x].next = NoOrder => Mates(x)' = ahead'[x] \cup {x}
      BY DEF ListedByArrival
    <2>1. CASE x = id
      BY <1>1, <1>2, <1>3, <1>4, <1>5, <1>7, <2>1
    <2>2. CASE x # id
      <3>1. /\ x \in Resting
            /\ x \notin ahead[x]
            /\ ahead[x] \subseteq Mates(x)
            /\ orders[x].prev = NoOrder => ahead[x] = {}
            /\ orders[x].prev # NoOrder =>
                  ahead[x] = ahead[orders[x].prev] \cup {orders[x].prev}
            /\ orders[x].next = NoOrder => Mates(x) = ahead[x] \cup {x}
        BY <1>2, <2>2 DEF WellLinked, ListedByArrival
      <3>2. /\ orders[x].prev # NoOrder => orders[x].prev \in Resting
            /\ orders[x].next = NoOrder => LevelOf(x).tail = x
        BY <1>5, <3>1 DEF WellLinked, NeighboursLinked
      <3>3. orders'[x].next = NoOrder => x \notin here
        BY <1>1, <1>2, <1>6, <3>1, <3>2
      <3>4. ahead'[x] = ahead[x] /\ orders'[x].prev = orders[x].prev
        BY <1>2, <1>3, <3>1
      <3>5. orders[x].prev # NoOrder => ahead'[orders[x].prev] = ahead[orders[x].prev]
        BY <1>3, <3>2
      <3>6. ahead[x] \subseteq Mates(x)'
        BY <1>5, <3>1
      <3>7. orders'[x].next = NoOrder => Mates(x)' = Mates(x) /\ orders[x].next = NoOrder
        BY <1>1, <1>2, <1>5, <3>1, <3>3
      <3>8. QED
        BY <3>1, <3>4, <3>5, <3>6, <3>7
    <2>3. QED
      BY <2>1, <2>2
  <1>11. QED
    BY <1>8, <1>9, <1>10 DEF WellLinked

-----------------------------------------------------------------------------
(* Matching. *)

\* The level match() turns to has an order at its head, on the other side.
LEMMA MatchHead ==
    ASSUME TypeOK, WellLinked, cur # NoRequest, NEW p \in MatchPrices
    PROVE  LET id == levels[Opposite(cur.side)][p].head IN
           /\ p \in Prices
           /\ id \in Resting
           /\ orders[id].side = Opposite(cur.side)
           /\ orders[id].price = p
           /\ orders[id] \in Order
  <1>1. p \in Prices /\ levels[Opposite(cur.side)][p].head # NoOrder /\ Opposite(cur.side) \in Side
    BY RequestTypes DEF MatchPrices, BestPrices, LevelPrices
  <1>2. levels[Opposite(cur.side)][p].head \in LevelOrders(Opposite(cur.side), p)
    BY <1>1 DEF WellLinked, EndsLinked
  <1>3. QED
    BY <1>1, <1>2 DEF LevelOrders, TypeOK

\* When match() stops with quantity left, no resting order could trade with it.  The
\* loop looks at the best level only: the lists and the sort order do the rest.
LEMMA NothingMarketable ==
    ASSUME TypeOK, WellLinked, cur # NoRequest, MatchPrices = {}, cur.quantity > 0,
           NEW x \in Resting, orders[x].side = Opposite(cur.side)
    PROVE  ~Marketable(cur.side, cur.price, orders[x].price)
  <1> DEFINE side == Opposite(cur.side)
  <1>1. orders[x].price \in Prices /\ side \in Side /\ cur.side \in Side /\ cur.price \in Int
    BY RequestTypes DEF TypeOK, Order
  <1>2. orders[x].price \in LevelPrices(side)
    BY <1>1 DEF LevelPrices, WellLinked, EndsLinked, LevelOf
  <1>3. LevelPrices(side) \in SUBSET Prices /\ LevelPrices(side) # {}
    BY <1>2 DEF LevelPrices
  <1>4. PICK best \in LevelPrices(side) : \A q \in LevelPrices(side) : AtLeastAsGood(side, best, q)
    BY <1>3, PriceAssumption DEF AtLeastAsGood
  <1>5. ~Marketable(cur.side, cur.price, best)
    BY <1>4 DEF MatchPrices, BestPrices
  <1>6. best \in Int /\ orders[x].price \in Int
    BY <1>1, <1>3, <1>4, LadderAssumption
  <1>7. QED
    BY <1>1, <1>2, <1>4, <1>5, <1>6 DEF Marketable, AtLeastAsGood, Opposite, Side

\* Short sequences.
LEMMA ShortSeqs ==
    ASSUME NEW S
    PROVE  /\ <<>> \in Seq(S)
           /\ \A a \in S : <<a>> \in Seq(S)
           /\ \A a, b, c \in S : <<a, b, c>> \in Seq(S)
  OBVIOUS

\* The callbacks of a trade are well typed.
LEMMA TradeCallsType ==
    ASSUME TypeOK, cur # NoRequest, NEW id \in Ids, NEW o \in Order, NEW q \in Nat,
           NEW f \in FillFlags, NEW g \in FillFlags
    PROVE  TradeCalls(id, o, q, f, g) \in Seq(Callback)
  <1>1. cur.id \in Ids /\ cur.side \in Side /\ o.side \in Side /\ o.price \in Prices
    BY RequestTypes DEF Order
  <1>2. OnTrade(id, q, o.price) \in Callback
    BY <1>1 DEF Callback, OnTrade
  <1>3. OnFill(id, o.side, q, o.price, f, FALSE) \in Callback
    BY <1>1 DEF Callback, OnFill
  <1>4. OnFill(cur.id, cur.side, q, o.price, g, TRUE) \in Callback
    BY <1>1 DEF Callback, OnFill
  <1>5. QED
    BY <1>2, <1>3, <1>4, ShortSeqs, Zenon DEF TradeCalls

\* So are those that end a request.
LEMMA FinishCallsType ==
    ASSUME TypeOK, cur # NoRequest
    PROVE  FinishCalls \in Seq(Callback)
  <1>1. /\ OnNewOrder(cur.id, cur.side, cur.quantity, cur.price, cur.flags) \in Callback
        /\ OnModifyOrder(cur.id, cur.side, cur.quantity, cur.price) \in Callback
        /\ OnDeleteOrder(cur.id, FALSE) \in Callback
        /\ OnDeleteOrder(cur.id, TRUE) \in Callback
    BY RequestTypes DEF Callback, OnNewOrder, OnModifyOrder, OnDeleteOrder
  <1>2. cur.op \in {"NEW", "MODIFY"}
    BY RequestTypes
  <1>3. /\ <<OnNewOrder(cur.id, cur.side, cur.quantity, cur.price, cur.flags)>> \in Seq(Callback)
        /\ <<OnModifyOrder(cur.id, cur.side, cur.quantity, cur.price)>> \in Seq(Callback)
        /\ <<OnDeleteOrder(cur.id, FALSE)>> \in Seq(Callback)
        /\ <<OnDeleteOrder(cur.id, TRUE)>> \in Seq(Callback)
        /\ <<>> \in Seq(Callback)
    BY <1>1, ShortSeqs, Zenon
  <1>4. QED
    BY <1>2, <1>3, Zenon DEF FinishCalls

-----------------------------------------------------------------------------
(* What the steps have in common. *)

\* A step that leaves the book alone.
LEMMA BookUnchanged ==
    ASSUME IInv, UNCHANGED <<orders, levels, ahead>>
    PROVE  WellLinked' /\ RestingIsOpen' /\ Uncrossed'
  <1>1. Resting' = Resting
    BY DEF Resting
  <1>2. WellLinked'
    BY <1>1, SameShapeWellLinked DEF IInv
  <1>3. RestingIsOpen' /\ Uncrossed'
    BY <1>1 DEF IInv, RestingIsOpen, Uncrossed
  <1>4. QED
    BY <1>2, <1>3

\* A step that takes one order out of the book.
LEMMA UnlinkKeeps ==
    ASSUME IInv, NEW id \in Resting, Unlink(id)
    PROVE  WellLinked' /\ RestingIsOpen' /\ Uncrossed'
  <1>1. WellLinked'
    BY UnlinkWellLinked DEF IInv
  <1>2. /\ Resting' \subseteq Resting
        /\ \A x \in Resting' : /\ orders'[x].side = orders[x].side
                               /\ orders'[x].price = orders[x].price
                               /\ orders'[x].quantity = orders[x].quantity
                               /\ orders'[x].flags = orders[x].flags
    BY UnlinkTypes DEF IInv
  <1>3. RestingIsOpen' /\ Uncrossed'
    BY <1>2 DEF IInv, RestingIsOpen, Uncrossed
  <1>4. QED
    BY <1>1, <1>3

\* Unlinking a resting order never throws.
LEMMA AlwaysUnlinkable ==
    ASSUME IInv, NEW id \in Resting
    PROVE  Unlinkable(id)
  BY DEF IInv, WellLinked, EndsLinked, LevelOf, Unlinkable

-----------------------------------------------------------------------------
(* Every step keeps the invariant. *)

\* The empty ladder satisfies the invariant.
LEMMA InitIInv == Init => IInv
  <1> SUFFICES ASSUME Init PROVE IInv
    OBVIOUS
  <1>1. Resting = {}
    BY DEF Init, Resting
  <1>2. TypeOK
    <2>1. levels \in [Side -> [Prices -> Level]]
      BY DEF Init, Level, EmptyLevel, Pointer
    <2>2. orders \in [Resting -> Order]
      BY <1>1 DEF Init
    <2>3. calls \in Seq(Callback)
      BY ShortSeqs, Zenon DEF Init
    <2>4. ahead \in [Ids -> SUBSET Ids]
      BY DEF Init
    <2>5. QED
      BY <1>1, <2>1, <2>2, <2>3, <2>4 DEF Init, TypeOK
  <1>3. EndsLinked
    BY <1>1 DEF Init, EndsLinked, EmptyLevel
  <1>4. NeighboursLinked /\ ListedByArrival /\ RestingIsOpen /\ Uncrossed
    BY <1>1 DEF NeighboursLinked, ListedByArrival, RestingIsOpen, Uncrossed
  <1>5. QED
    BY <1>2, <1>3, <1>4 DEF Init, IInv, WellLinked, NeverThrows

\* new_order, up to the call of match(), keeps the invariant.
LEMMA NewOrderKeeps ==
    ASSUME IInv, NEW id \in Ids, NEW side \in Side, NEW quantity \in Quantities,
           NEW price \in Prices, NEW flags \in Flags,
           NewOrder(id, side, quantity, price, flags)
    PROVE  IInv'
  <1>1. quantity \in Nat /\ quantity > 0
    BY LadderAssumption DEF Quantities
  <1>2. /\ cur' = Incoming("NEW", id, side, quantity, price, flags, 0)
        /\ used' = used \cup {id} /\ id \notin used
        /\ UNCHANGED <<orders, levels, calls, failed, ahead>>
    BY <1>1 DEF NewOrder
  <1>3. cur' \in Request /\ cur'.id = id /\ cur'.quantity <= cur'.prematch
    BY <1>1, <1>2 DEF Incoming, Request
  <1>4. TypeOK'
    BY <1>2, <1>3 DEF IInv, TypeOK, Resting
  <1>5. QED
    BY <1>2, <1>4, BookUnchanged DEF IInv, NeverThrows

\* Rejecting a cancel or modify of an order that does not rest keeps the invariant.
LEMMA CancelRejectKeeps ==
    ASSUME IInv, NEW id \in used, CancelReject(id), UNCHANGED used
    PROVE  IInv'
  <1>1. OnCancelReject(id) \in Callback
    BY DEF IInv, TypeOK, Callback, OnCancelReject
  <1>2. calls' \in Seq(Callback)
    BY <1>1, ShortSeqs, Zenon DEF CancelReject
  <1>3. TypeOK'
    BY <1>2 DEF IInv, TypeOK, Resting, CancelReject
  <1>4. QED
    BY <1>3, BookUnchanged DEF IInv, NeverThrows, CancelReject

\* delete_order of a resting order keeps the invariant.
LEMMA DeleteRestingKeeps ==
    ASSUME IInv, cur = NoRequest, NEW id \in Resting, DeleteResting(id), UNCHANGED used
    PROVE  IInv'
  <1>1. /\ Unlink(id)
        /\ calls' = <<OnDeleteOrder(id, TRUE)>>
        /\ UNCHANGED <<cur, failed>>
    BY AlwaysUnlinkable DEF DeleteResting
  <1>2. calls' \in Seq(Callback)
    <2>1. OnDeleteOrder(id, TRUE) \in Callback
      BY DEF IInv, TypeOK, Callback, OnDeleteOrder
    <2>2. QED
      BY <1>1, <2>1, ShortSeqs, Zenon
  <1>3. TypeOK'
    BY <1>1, <1>2, UnlinkTypes, ZenonT(60) DEF IInv, TypeOK
  <1>4. QED
    BY <1>1, <1>3, UnlinkKeeps DEF IInv, NeverThrows

\* modify_order at the same price and side keeps the invariant: only a quantity changes.
LEMMA ModifyInPlaceKeeps ==
    ASSUME IInv, NEW id \in Resting, NEW side \in Side, NEW quantity \in Quantities,
           NEW price \in Prices, orders[id].filled_quantity < quantity,
           ModifyInPlace(id, side, quantity, price), UNCHANGED used
    PROVE  IInv'
  <1>1. orders[id] \in Order /\ id \in Ids /\ quantity \in Nat /\ orders[id].filled_quantity \in Nat
    BY DEF IInv, TypeOK, Order, Quantities
  <1>2. Resting' = Resting /\ orders' \in [Resting' -> Order]
    BY <1>1 DEF ModifyInPlace, IInv, TypeOK, Order, Resting
  <1>3. \A x \in Resting : /\ orders'[x].side = orders[x].side
                           /\ orders'[x].price = orders[x].price
                           /\ orders'[x].next = orders[x].next
                           /\ orders'[x].prev = orders[x].prev
                           /\ orders'[x].flags = orders[x].flags
                           /\ orders'[x].quantity = IF x = id THEN quantity ELSE orders[x].quantity
    BY <1>1 DEF ModifyInPlace, IInv, TypeOK, Order
  <1>4. calls' \in Seq(Callback)
    <2>1. OnModifyOrder(id, side, quantity - orders[id].filled_quantity, price) \in Callback
      BY <1>1 DEF Callback, OnModifyOrder
    <2>2. QED
      BY <2>1, ShortSeqs, Zenon DEF ModifyInPlace
  <1>5. TypeOK'
    BY <1>2, <1>4 DEF IInv, TypeOK, ModifyInPlace
  <1>6. WellLinked'
    BY <1>2, <1>3, SameShapeWellLinked DEF IInv, ModifyInPlace
  <1>7. RestingIsOpen' /\ Uncrossed'
    BY <1>1, <1>2, <1>3 DEF IInv, RestingIsOpen, Uncrossed
  <1>8. QED
    BY <1>5, <1>6, <1>7 DEF IInv, NeverThrows, ModifyInPlace

\* modify_order to another price or side, up to the call of match(), keeps the invariant.
LEMMA ModifyAndMoveKeeps ==
    ASSUME IInv, NEW id \in Resting, NEW side \in Side, NEW quantity \in Quantities,
           NEW price \in Prices, orders[id].filled_quantity < quantity,
           ModifyAndMove(id, side, quantity, price), UNCHANGED used
    PROVE  IInv'
  <1>1. /\ Unlink(id)
        /\ cur' = Incoming("MODIFY", id, side, quantity, price, orders[id].flags,
                           orders[id].filled_quantity)
        /\ UNCHANGED <<calls, failed>>
    BY AlwaysUnlinkable DEF ModifyAndMove
  <1>2. /\ orders[id] \in Order /\ id \in Ids /\ id \in used /\ quantity \in Nat
        /\ orders[id].filled_quantity \in Nat /\ orders[id].flags \in Flags
    BY DEF IInv, TypeOK, Order, Quantities
  <1>3. cur' \in Request /\ cur'.id = id /\ cur'.quantity <= cur'.prematch
    BY <1>1, <1>2 DEF Incoming, Request
  <1>4. TypeOK'
    BY <1>1, <1>2, <1>3, UnlinkTypes DEF IInv, TypeOK
  <1>5. QED
    BY <1>1, <1>4, UnlinkKeeps DEF IInv, NeverThrows

\* A turn of match() that consumes the resting order keeps the invariant.
LEMMA MatchFullyKeeps ==
    ASSUME IInv, cur # NoRequest, NEW id \in Resting, MatchFully(id)
    PROVE  IInv'
  <1> DEFINE o == orders[id]
             left == cur.quantity - o.quantity
  <1>1. /\ o \in Order /\ id \in Ids /\ o.quantity \in Nat /\ cur.quantity \in Nat
        /\ cur \in Request /\ o.quantity <= cur.quantity /\ cur.quantity <= cur.prematch
        /\ cur.prematch \in Nat
        /\ cur.id \in used /\ cur.id \notin Resting
    BY RequestTypes DEF IInv, TypeOK, Order, MatchFully
  <1>2. /\ Unlink(id)
        /\ cur' = [cur EXCEPT !.quantity = left]
        /\ calls' = TradeCalls(id, o, o.quantity, "CLOSED",
                               IF left > 0 THEN "PARTIAL_FILL" ELSE "CLOSED")
        /\ UNCHANGED <<failed, used>>
    BY AlwaysUnlinkable DEF MatchFully
  <1>3. cur' \in Request /\ cur'.id = cur.id /\ cur'.quantity <= cur'.prematch
    BY <1>1, <1>2 DEF Request
  <1>4. calls' \in Seq(Callback)
    <2>1. "CLOSED" \in FillFlags /\ (IF left > 0 THEN "PARTIAL_FILL" ELSE "CLOSED") \in FillFlags
      BY DEF FillFlags
    <2>2. QED
      BY <1>1, <1>2, <2>1, TradeCallsType, Zenon DEF IInv
  <1>5. TypeOK'
    BY <1>1, <1>2, <1>3, <1>4, UnlinkTypes DEF IInv, TypeOK
  <1>6. QED
    BY <1>2, <1>5, UnlinkKeeps DEF IInv, NeverThrows

\* A turn of match() that reduces the resting order keeps the invariant.
LEMMA MatchPartlyKeeps ==
    ASSUME IInv, cur # NoRequest, NEW id \in Resting, MatchPartly(id)
    PROVE  IInv'
  <1> DEFINE o == orders[id]
  <1>1. /\ o \in Order /\ id \in Ids /\ o.quantity \in Nat /\ o.filled_quantity \in Nat
        /\ cur \in Request /\ cur.quantity \in Nat /\ cur.quantity < o.quantity
        /\ cur.prematch \in Nat /\ cur.id \in used /\ cur.id \notin Resting
    BY RequestTypes DEF IInv, TypeOK, Order, MatchPartly
  <1>2. Resting' = Resting
    BY DEF MatchPartly, Resting
  <1>3. \A x \in Resting : /\ orders'[x] \in Order
                           /\ orders'[x].side = orders[x].side
                           /\ orders'[x].price = orders[x].price
                           /\ orders'[x].next = orders[x].next
                           /\ orders'[x].prev = orders[x].prev
                           /\ orders'[x].flags = orders[x].flags
                           /\ orders'[x].quantity = IF x = id THEN o.quantity - cur.quantity
                                                    ELSE orders[x].quantity
    <2> DEFINE mid == [orders EXCEPT ![id].quantity = @ - cur.quantity]
    <2>1. orders \in [Resting -> Order] /\ id \in Resting
      BY DEF IInv, TypeOK
    <2>2. /\ mid \in [Resting -> Order]
          /\ mid[id] = [o EXCEPT !.quantity = o.quantity - cur.quantity]
          /\ \A x \in Resting : x # id => mid[x] = orders[x]
      BY <1>1, <2>1 DEF Order
    <2>3. orders' = [mid EXCEPT ![id].filled_quantity = @ + cur.quantity]
      BY DEF MatchPartly
    <2>4. /\ orders'[id] = [mid[id] EXCEPT !.filled_quantity = mid[id].filled_quantity + cur.quantity]
          /\ \A x \in Resting : x # id => orders'[x] = orders[x]
      <3> HIDE DEF mid
      <3> QED
        BY <2>1, <2>2, <2>3
    <2> HIDE DEF mid
    <2>5. /\ orders'[id] \in Order
          /\ orders'[id].side = o.side /\ orders'[id].price = o.price
          /\ orders'[id].next = o.next /\ orders'[id].prev = o.prev
          /\ orders'[id].flags = o.flags
          /\ orders'[id].quantity = o.quantity - cur.quantity
      <3>1. orders'[id] = [[o EXCEPT !.quantity = o.quantity - cur.quantity]
                             EXCEPT !.filled_quantity = o.filled_quantity + cur.quantity]
        <4>1. mid[id].filled_quantity = o.filled_quantity
          BY <1>1, <2>2 DEF Order
        <4>2. QED
          BY <2>2, <2>4, <4>1
      <3>2. o.quantity - cur.quantity \in Nat /\ o.filled_quantity + cur.quantity \in Nat
        BY <1>1
      <3> HIDE DEF o
      <3>3. QED
        BY <1>1, <3>1, <3>2 DEF Order
    <2>6. QED
      BY <2>1, <2>4, <2>5
  <1>4. cur' \in Request /\ cur'.id = cur.id /\ cur'.quantity <= cur'.prematch
    BY <1>1 DEF Request, MatchPartly
  <1>5. calls' \in Seq(Callback)
    <2>1. "CLOSED" \in FillFlags /\ "PARTIAL_FILL" \in FillFlags
      BY DEF FillFlags
    <2>2. QED
      BY <1>1, <2>1, TradeCallsType, Zenon DEF IInv, MatchPartly
  <1>6. TypeOK'
    BY <1>1, <1>2, <1>3, <1>4, <1>5 DEF IInv, TypeOK, MatchPartly
  <1>7. WellLinked'
    BY <1>2, <1>3, SameShapeWellLinked DEF IInv, MatchPartly
  <1>8. RestingIsOpen' /\ Uncrossed'
    BY <1>1, <1>2, <1>3 DEF IInv, RestingIsOpen, Uncrossed
  <1>9. QED
    BY <1>6, <1>7, <1>8 DEF IInv, NeverThrows, MatchPartly

\* Ending a request whose order was filled, or is IOC, keeps the invariant.
LEMMA FinishWithoutRestingKeeps ==
    ASSUME IInv, FinishWithoutResting
    PROVE  IInv'
  <1>1. cur # NoRequest /\ cur' = NoRequest /\ calls' = FinishCalls
        /\ UNCHANGED <<orders, levels, failed, used, ahead>>
    BY DEF FinishWithoutResting, Matching
  <1>2. calls' \in Seq(Callback)
    BY <1>1, FinishCallsType DEF IInv
  <1>3. TypeOK'
    BY <1>1, <1>2 DEF IInv, TypeOK, Resting
  <1>4. QED
    BY <1>1, <1>3, BookUnchanged DEF IInv, NeverThrows

\* Appending the remainder of an order keeps the invariant; that the book stays uncrossed
\* is because match() stopped with nothing marketable left.
LEMMA FinishRestingKeeps ==
    ASSUME IInv, FinishResting
    PROVE  IInv'
  <1>1. /\ cur # NoRequest /\ MatchPrices = {} /\ cur.quantity > 0 /\ cur.flags # "IOC"
        /\ UNCHANGED used
    BY DEF FinishResting, Matching
  <1>2. /\ cur.id \in Ids /\ cur.id \in used /\ cur.id \notin Resting
        /\ cur.side \in Side /\ cur.price \in Prices /\ cur.price \in Int
    BY <1>1, RequestTypes DEF IInv
  <1>3. Linkable
    BY <1>2 DEF IInv, WellLinked, EndsLinked, Linkable
  <1>4. Link /\ cur' = NoRequest /\ calls' = FinishCalls /\ UNCHANGED failed
    BY <1>3 DEF FinishResting
  <1>5. calls' \in Seq(Callback)
    BY <1>1, <1>4, FinishCallsType DEF IInv
  <1>6. /\ Resting' = Resting \cup {cur.id}
        /\ orders' \in [Resting' -> Order]
        /\ levels' \in [Side -> [Prices -> Level]]
        /\ ahead' \in [Ids -> SUBSET Ids]
        /\ \A x \in Resting : /\ orders'[x].side = orders[x].side
                              /\ orders'[x].price = orders[x].price
                              /\ orders'[x].quantity = orders[x].quantity
                              /\ orders'[x].flags = orders[x].flags
        /\ orders'[cur.id].side = cur.side /\ orders'[cur.id].price = cur.price
        /\ orders'[cur.id].quantity = cur.quantity /\ orders'[cur.id].flags = cur.flags
    BY <1>1, <1>4, LinkTypes DEF IInv
  <1>7. TypeOK'
    BY <1>1, <1>2, <1>4, <1>5, <1>6 DEF IInv, TypeOK
  <1>8. WellLinked'
    BY <1>1, <1>4, LinkWellLinked DEF IInv
  <1>9. RestingIsOpen'
    BY <1>1, <1>6 DEF IInv, RestingIsOpen
  <1>10. Uncrossed'
    <2>1. ASSUME NEW x \in Resting, orders[x].side = Opposite(cur.side)
          PROVE  ~Marketable(cur.side, cur.price, orders[x].price)
      BY <1>1, <2>1, NothingMarketable DEF IInv
    <2>2. \A x \in Resting : orders[x].price \in Int
      BY LadderAssumption DEF IInv, TypeOK, Order
    <2>3. ASSUME NEW b \in Resting', NEW a \in Resting',
                 orders'[b].side = "BUY", orders'[a].side = "SELL"
          PROVE  orders'[b].price < orders'[a].price
      <3>1. CASE b \in Resting /\ a \in Resting
        BY <1>6, <2>3, <3>1 DEF IInv, Uncrossed
      <3>2. CASE b = cur.id /\ a \in Resting
        BY <1>2, <1>6, <2>1, <2>2, <2>3, <3>2 DEF Marketable, Opposite
      <3>3. CASE b \in Resting /\ a = cur.id
        BY <1>2, <1>6, <2>1, <2>2, <2>3, <3>3 DEF Marketable, Opposite
      <3>4. CASE b = cur.id /\ a = cur.id
        BY <2>3, <3>4
      <3>5. QED
        BY <1>6, <3>1, <3>2, <3>3, <3>4
    <2>4. QED
      BY <2>3 DEF Uncrossed
  <1>11. QED
    BY <1>4, <1>7, <1>8, <1>9, <1>10 DEF IInv, NeverThrows

\* The subscriber's running a callback keeps the ladder's invariant.
LEMMA RunCallbackKeeps ==
    ASSUME IInv, RunCallback
    PROVE  IInv'
  <1>1. calls' \in Seq(Callback)
    BY DEF IInv, TypeOK, RunCallback
  <1>2. TypeOK'
    BY <1>1 DEF IInv, TypeOK, Resting, RunCallback
  <1>3. QED
    BY <1>2, BookUnchanged DEF IInv, NeverThrows, RunCallback

\* Every step of the ladder keeps the invariant.
LEMMA NextKeeps == IInv /\ [Next]_vars => IInv'
  <1> SUFFICES ASSUME IInv, [Next]_vars PROVE IInv'
    OBVIOUS
  <1>1. ASSUME NEW id \in Ids, NEW side \in Side, NEW quantity \in Quantities,
               NEW price \in Prices, NEW flags \in Flags,
               NewOrder(id, side, quantity, price, flags)
        PROVE  IInv'
    BY <1>1, NewOrderKeeps
  <1>2. ASSUME NEW id \in used, DeleteOrder(id)
        PROVE  IInv'
    <2>1. cur = NoRequest /\ UNCHANGED used
      BY <1>2 DEF DeleteOrder, Idle
    <2>2. CASE CancelReject(id)
      BY <2>1, <2>2, CancelRejectKeeps
    <2>3. CASE id \in Resting /\ DeleteResting(id)
      BY <2>1, <2>3, DeleteRestingKeeps
    <2>4. QED
      BY <1>2, <2>2, <2>3 DEF DeleteOrder
  <1>3. ASSUME NEW id \in used, NEW side \in Side, NEW quantity \in Quantities,
               NEW price \in Prices, ModifyOrder(id, side, quantity, price)
        PROVE  IInv'
    <2>1. cur = NoRequest /\ UNCHANGED used
      BY <1>3 DEF ModifyOrder, Idle
    <2>2. CASE CancelReject(id)
      BY <2>1, <2>2, CancelRejectKeeps
    <2>3. CASE id \in Resting /\ DeleteResting(id)
      BY <2>1, <2>3, DeleteRestingKeeps
    <2>4. CASE /\ id \in Resting /\ orders[id].filled_quantity < quantity
               /\ ModifyInPlace(id, side, quantity, price)
      BY <2>1, <2>4, ModifyInPlaceKeeps
    <2>5. CASE /\ id \in Resting /\ orders[id].filled_quantity < quantity
               /\ ModifyAndMove(id, side, quantity, price)
      BY <2>1, <2>5, ModifyAndMoveKeeps
    <2>6. QED
      BY <1>3, <2>2, <2>3, <2>4, <2>5 DEF ModifyOrder
  <1>4. CASE Match
    <2>1. cur # NoRequest
      BY <1>4 DEF Match, Matching
    <2>2. PICK p \in MatchPrices :
             LET id == levels[Opposite(cur.side)][p].head IN MatchFully(id) \/ MatchPartly(id)
      BY <1>4 DEF Match
    <2>3. levels[Opposite(cur.side)][p].head \in Resting
      BY <2>1, MatchHead DEF IInv
    <2>4. QED
      BY <2>1, <2>2, <2>3, MatchFullyKeeps, MatchPartlyKeeps
  <1>5. CASE FinishWithoutResting
    BY <1>5, FinishWithoutRestingKeeps
  <1>6. CASE FinishResting
    BY <1>6, FinishRestingKeeps
  <1>7. CASE RunCallback
    BY <1>7, RunCallbackKeeps
  <1>8. CASE UNCHANGED vars
    <2>1. UNCHANGED <<orders, levels, ahead>>
      BY <1>8 DEF vars
    <2>2. TypeOK'
      BY <1>8 DEF vars, IInv, TypeOK, Resting
    <2>3. QED
      BY <1>8, <2>1, <2>2, BookUnchanged DEF vars, IInv, NeverThrows
  <1>9. QED
    BY <1>1, <1>2, <1>3, <1>4, <1>5, <1>6, <1>7, <1>8 DEF Next

-----------------------------------------------------------------------------
(* The theorems. *)

\* The inductive invariant holds of every behaviour of the ladder.
THEOREM LadderInvariant == Spec => []IInv
  <1>1. QED
    BY InitIInv, NextKeeps, PTL DEF Spec

\* Every variable of order_ladder.H keeps its type: orders in the maps have valid
\* pointers and quantities, whatever sequence of requests arrives.
THEOREM TypeCorrect == Spec => []TypeOK
  <1>1. IInv => TypeOK
    BY DEF IInv
  <1>2. QED
    BY <1>1, LadderInvariant, PTL

\* match() and modify_order never leave a crossed book.
THEOREM NeverCrossed == Spec => []Uncrossed
  <1>1. IInv => Uncrossed
    BY DEF IInv
  <1>2. QED
    BY <1>1, LadderInvariant, PTL

\* The price levels' linked lists hold every resting order once, by arrival.
THEOREM ListsWellLinked == Spec => []WellLinked
  <1>1. IInv => WellLinked
    BY DEF IInv
  <1>2. QED
    BY <1>1, LadderInvariant, PTL

\* Resting orders have quantity left and are not immediate-or-cancel.
THEOREM RestingOrdersOpen == Spec => []RestingIsOpen
  <1>1. IInv => RestingIsOpen
    BY DEF IInv
  <1>2. QED
    BY <1>1, LadderInvariant, PTL

\* No request raises one of the ladder's runtime_errors.
THEOREM LadderNeverThrows == Spec => []NeverThrows
  <1>1. IInv => NeverThrows
    BY DEF IInv
  <1>2. QED
    BY <1>1, LadderInvariant, PTL

-----------------------------------------------------------------------------
(* The refinement mapping. *)

\* The book as the mapping shows it.
LEMMA MappedBook ==
    /\ DOMAIN bookOfLadder = Resting
    /\ \A x \in Resting : /\ bookOfLadder[x].side = orders[x].side
                          /\ bookOfLadder[x].price = orders[x].price
                          /\ bookOfLadder[x].quantity = orders[x].quantity
                          /\ bookOfLadder[x] = [side |-> orders[x].side, price |-> orders[x].price,
                                                quantity |-> orders[x].quantity]
  BY DEF bookOfLadder

\* The request in progress is the taker; between requests there is none.
LEMMA MappedTaker ==
    ASSUME TypeOK
    PROVE  /\ cur = NoRequest => takerOfLadder = PriceTime!Nobody
           /\ cur # NoRequest =>
                 /\ takerOfLadder = [id |-> cur.id, side |-> cur.side, quantity |-> cur.quantity,
                                     price |-> cur.price]
                 /\ takerOfLadder \in PriceTime!Taker
                 /\ takerOfLadder # PriceTime!Nobody
  <1>1. cur = NoRequest => takerOfLadder = PriceTime!Nobody
    BY DEF takerOfLadder, PriceTime!Nobody
  <1>2. ASSUME cur # NoRequest
        PROVE  /\ takerOfLadder = [id |-> cur.id, side |-> cur.side, quantity |-> cur.quantity,
                                   price |-> cur.price]
               /\ takerOfLadder \in PriceTime!Taker
    BY <1>2, RequestTypes DEF takerOfLadder, PriceTime!Taker, Side
  <1>3. \A t \in PriceTime!Taker : t # PriceTime!Nobody
    <2>1. ASSUME NEW t \in PriceTime!Taker, t = PriceTime!Nobody
          PROVE  FALSE
      <3>1. DOMAIN t = {"id", "side", "quantity", "price"}
        BY <2>1 DEF PriceTime!Taker
      <3>2. DOMAIN t = {"id"}
        BY <2>1 DEF PriceTime!Nobody
      <3>3. QED
        BY <3>1, <3>2
    <2>2. QED
      BY <2>1
  <1>4. QED
    BY <1>1, <1>2, <1>3

\* Unlinking an order removes it from the book and from in front of the others.
LEMMA UnlinkRemoves ==
    ASSUME TypeOK, WellLinked, NEW id \in Resting, Unlink(id)
    PROVE  bookOfLadder' = PriceTime!Removed(id) /\ ahead' = PriceTime!Closed(id)
  <1>1. /\ Resting' = Resting \ {id}
        /\ \A x \in Resting' : /\ orders'[x].side = orders[x].side
                               /\ orders'[x].price = orders[x].price
                               /\ orders'[x].quantity = orders[x].quantity
    BY UnlinkTypes
  <1>2. bookOfLadder' = [x \in Resting \ {id} |->
                           [side |-> orders[x].side, price |-> orders[x].price,
                            quantity |-> orders[x].quantity]]
    BY <1>1 DEF bookOfLadder
  <1>3. bookOfLadder' = PriceTime!Removed(id)
    BY <1>2, MappedBook DEF PriceTime!Removed
  <1>4. ahead' = PriceTime!Closed(id)
    BY DEF Unlink, PriceTime!Closed
  <1>5. QED
    BY <1>3, <1>4

\* A step of the lists that leaves every resting order's side, price and quantity alone is
\* invisible in the book.
LEMMA SameBook ==
    ASSUME UNCHANGED orders
    PROVE  bookOfLadder' = bookOfLadder
  BY DEF bookOfLadder, Resting

-----------------------------------------------------------------------------
(* Matching. *)

\* Who the request can trade with, in terms of the ladder.
LEMMA MappedCounterparties ==
    ASSUME TypeOK, cur # NoRequest
    PROVE  PriceTime!Counterparties(takerOfLadder) =
             {x \in Resting : /\ orders[x].side = Opposite(cur.side)
                              /\ cur.quantity > 0
                              /\ Marketable(cur.side, cur.price, orders[x].price)}
  <1>1. /\ takerOfLadder.side = cur.side /\ takerOfLadder.quantity = cur.quantity
        /\ takerOfLadder.price = cur.price
    BY MappedTaker
  <1>2. \A x \in Resting : orders[x].side \in Side
    BY DEF TypeOK, Order
  <1>3. cur.side \in Side
    BY RequestTypes
  <1>4. \A x \in Resting : orders[x].side # cur.side <=> orders[x].side = Opposite(cur.side)
    BY <1>2, <1>3 DEF Side, Opposite
  <1>5. QED
    BY <1>1, <1>4, MappedBook DEF PriceTime!Counterparties, Marketable

\* The order match() takes next has the best price on its side and nobody ahead of it: the
\* head of the first level is who price-time priority says.
LEMMA HeadHasPriority ==
    ASSUME TypeOK, WellLinked, cur # NoRequest, NEW p \in MatchPrices
    PROVE  LET id == levels[Opposite(cur.side)][p].head IN
           /\ id \in PriceTime!Counterparties(takerOfLadder)
           /\ \A y \in PriceTime!Counterparties(takerOfLadder) :
                 ~PriceTime!BetterPrice(y, id, takerOfLadder)
           /\ ahead[id] = {}
  <1> DEFINE side == Opposite(cur.side)
             id == levels[side][p].head
  <1>1. /\ p \in Prices /\ id \in Resting /\ orders[id].side = side /\ orders[id].price = p
    BY MatchHead
  <1>2. /\ cur.quantity > 0 /\ Marketable(cur.side, cur.price, p)
        /\ p \in LevelPrices(side)
        /\ \A q \in LevelPrices(side) : AtLeastAsGood(side, p, q)
    BY DEF MatchPrices, BestPrices
  <1>3. id \in PriceTime!Counterparties(takerOfLadder)
    BY <1>1, <1>2, MappedCounterparties
  <1>4. ASSUME NEW y \in PriceTime!Counterparties(takerOfLadder)
        PROVE  ~PriceTime!BetterPrice(y, id, takerOfLadder)
    <2>1. y \in Resting /\ orders[y].side = side
      BY MappedCounterparties
    <2>2. orders[y].price \in Prices
      BY <2>1 DEF TypeOK, Order
    <2>3. orders[y].price \in LevelPrices(side)
      BY <2>1, <2>2 DEF LevelPrices, WellLinked, EndsLinked, LevelOf
    <2>4. AtLeastAsGood(side, p, orders[y].price)
      BY <1>2, <2>3
    <2>5. p \in Int /\ orders[y].price \in Int
      BY <1>1, <2>2, LadderAssumption
    <2>6. takerOfLadder.side = cur.side /\ cur.side \in Side
      BY MappedTaker, RequestTypes
    <2>7. bookOfLadder[y].price = orders[y].price /\ bookOfLadder[id].price = p
      BY <1>1, <2>1, MappedBook
    <2>8. QED
      BY <2>4, <2>5, <2>6, <2>7 DEF PriceTime!BetterPrice, AtLeastAsGood, Opposite, Side
  <1>5. ahead[id] = {}
    <2>1. orders[id].prev = NoOrder
      BY <1>1, <1>2, RequestTypes DEF WellLinked, EndsLinked, LevelPrices
    <2>2. QED
      BY <1>1, <2>1 DEF WellLinked, ListedByArrival
  <1>6. QED
    BY <1>3, <1>4, <1>5

\* One turn of match() is one trade of the abstract book.
LEMMA MatchTrades ==
    ASSUME IInv, IInv', Match
    PROVE  PriceTime!Trade
  <1>1. cur # NoRequest /\ TypeOK /\ WellLinked /\ TypeOK'
    BY DEF Match, Matching, IInv
  <1>2. PICK p \in MatchPrices :
           LET id == levels[Opposite(cur.side)][p].head IN MatchFully(id) \/ MatchPartly(id)
    BY DEF Match
  <1>3. PICK id : id = levels[Opposite(cur.side)][p].head
    OBVIOUS
  <1>4. id \in Resting /\ orders[id] \in Order
    BY <1>1, <1>3, MatchHead
  <1>5. /\ id \in PriceTime!Counterparties(takerOfLadder)
        /\ \A y \in PriceTime!Counterparties(takerOfLadder) :
              ~PriceTime!BetterPrice(y, id, takerOfLadder)
        /\ ahead[id] = {}
    BY <1>1, <1>3, HeadHasPriority
  <1>6. /\ takerOfLadder # PriceTime!Nobody
        /\ takerOfLadder = [id |-> cur.id, side |-> cur.side, quantity |-> cur.quantity,
                            price |-> cur.price]
    BY <1>1, MappedTaker
  <1>7. bookOfLadder[id].quantity = orders[id].quantity
    BY <1>4, MappedBook
  <1>8. cur \in Request
    BY <1>1, RequestTypes
  <1>9. CASE MatchFully(id)
    <2>1. /\ orders[id].quantity <= cur.quantity
          /\ Unlink(id)
          /\ cur' = [cur EXCEPT !.quantity = cur.quantity - orders[id].quantity]
      BY <1>4, <1>9, AlwaysUnlinkable DEF MatchFully
    <2>2. bookOfLadder' = PriceTime!Removed(id) /\ ahead' = PriceTime!Closed(id)
      BY <1>1, <1>4, <2>1, UnlinkRemoves
    <2>3. cur' # NoRequest
      BY <1>8, <2>1 DEF Request, NoRequest
    <2>4. takerOfLadder' = [id |-> cur'.id, side |-> cur'.side, quantity |-> cur'.quantity,
                            price |-> cur'.price]
      BY <2>3 DEF takerOfLadder
    <2>5. takerOfLadder' = [takerOfLadder EXCEPT !.quantity = @ - bookOfLadder[id].quantity]
      BY <1>6, <1>7, <1>8, <2>1, <2>4 DEF Request
    <2>6. QED
      BY <1>5, <1>6, <1>7, <2>1, <2>2, <2>5 DEF PriceTime!Trade
  <1>10. CASE MatchPartly(id)
    <2>1. /\ ~(orders[id].quantity <= cur.quantity)
          /\ orders' = [orders EXCEPT ![id].quantity = @ - cur.quantity,
                                      ![id].filled_quantity = @ + cur.quantity]
          /\ cur' = [cur EXCEPT !.quantity = 0]
          /\ UNCHANGED ahead
      BY <1>4, <1>8, <1>10 DEF MatchPartly, Order, Request
    <2>2. /\ Resting' = Resting
          /\ \A x \in Resting : /\ orders'[x].side = orders[x].side
                                /\ orders'[x].price = orders[x].price
                                /\ orders'[x].quantity = IF x = id THEN orders[id].quantity - cur.quantity
                                                         ELSE orders[x].quantity
      BY <1>1, <1>4, <2>1 DEF TypeOK, Order, Resting
    <2>3. bookOfLadder' = [bookOfLadder EXCEPT ![id].quantity = @ - cur.quantity]
      BY <1>4, <2>2 DEF bookOfLadder
    <2>4. cur' # NoRequest
      BY <1>8, <2>1 DEF Request, NoRequest
    <2>5. takerOfLadder' = [id |-> cur'.id, side |-> cur'.side, quantity |-> cur'.quantity,
                            price |-> cur'.price]
      BY <2>4 DEF takerOfLadder
    <2>6. takerOfLadder' = [takerOfLadder EXCEPT !.quantity = 0]
      BY <1>6, <1>8, <2>1, <2>5 DEF Request
    <2>7. QED
      BY <1>5, <1>6, <1>7, <2>1, <2>3, <2>6 DEF PriceTime!Trade
  <1>11. QED
    BY <1>2, <1>3, <1>9, <1>10

-----------------------------------------------------------------------------
(* The other steps. *)

\* When match() is over nobody is left to trade with.
LEMMA NobodyLeft ==
    ASSUME IInv, cur # NoRequest, MatchPrices = {}
    PROVE  PriceTime!Counterparties(takerOfLadder) = {}
  <1>1. TypeOK /\ WellLinked
    BY DEF IInv
  <1>2. ASSUME NEW x \in PriceTime!Counterparties(takerOfLadder)
        PROVE  FALSE
    BY <1>1, <1>2, MappedCounterparties, NothingMarketable
  <1>3. QED
    BY <1>2

\* The end of a request that leaves nothing behind.
LEMMA FinishWithoutRestingSettles ==
    ASSUME IInv, IInv', FinishWithoutResting
    PROVE  PriceTime!Settle
  <1>1. cur # NoRequest /\ MatchPrices = {} /\ cur' = NoRequest /\ UNCHANGED <<orders, ahead>>
    BY DEF FinishWithoutResting, Matching
  <1>2. takerOfLadder # PriceTime!Nobody /\ takerOfLadder' = PriceTime!Nobody
    BY <1>1, MappedTaker DEF IInv, takerOfLadder, PriceTime!Nobody
  <1>3. PriceTime!Counterparties(takerOfLadder) = {}
    BY <1>1, NobodyLeft
  <1>4. bookOfLadder' = bookOfLadder
    BY <1>1, SameBook
  <1>5. QED
    BY <1>1, <1>2, <1>3, <1>4 DEF PriceTime!Settle

\* What is left of a request becomes the last order of its level.
LEMMA FinishRestingSettles ==
    ASSUME IInv, IInv', FinishResting
    PROVE  PriceTime!Settle
  <1>1. cur # NoRequest /\ MatchPrices = {} /\ cur.quantity > 0 /\ TypeOK /\ WellLinked
    BY DEF FinishResting, Matching, IInv
  <1>2. Link /\ cur' = NoRequest
    BY DEF FinishResting, Throw, IInv, NeverThrows
  <1>3. takerOfLadder' = PriceTime!Nobody
    BY <1>2 DEF takerOfLadder, PriceTime!Nobody
  <1>4. /\ takerOfLadder = [id |-> cur.id, side |-> cur.side, quantity |-> cur.quantity,
                            price |-> cur.price]
        /\ takerOfLadder # PriceTime!Nobody
    BY <1>1, MappedTaker
  <1>5. PriceTime!Counterparties(takerOfLadder) = {}
    BY <1>1, NobodyLeft
  <1>6. /\ Resting' = Resting \cup {cur.id}
        /\ \A x \in Resting : /\ orders'[x].side = orders[x].side
                              /\ orders'[x].price = orders[x].price
                              /\ orders'[x].quantity = orders[x].quantity
        /\ orders'[cur.id].side = cur.side /\ orders'[cur.id].price = cur.price
        /\ orders'[cur.id].quantity = cur.quantity
    BY <1>1, <1>2, LinkTypes
  <1>7. cur.id \notin Resting
    BY <1>1, RequestTypes
  <1>8. bookOfLadder' =
          [x \in DOMAIN bookOfLadder \cup {takerOfLadder.id} |->
             IF x = takerOfLadder.id
             THEN [side |-> takerOfLadder.side, price |-> takerOfLadder.price,
                   quantity |-> takerOfLadder.quantity]
             ELSE bookOfLadder[x]]
    BY <1>4, <1>6, <1>7, MappedBook DEF bookOfLadder
  <1>9. ahead' = [ahead EXCEPT ![takerOfLadder.id] =
                    {x \in DOMAIN bookOfLadder : /\ bookOfLadder[x].side = takerOfLadder.side
                                                 /\ bookOfLadder[x].price = takerOfLadder.price}]
    <2>1. {x \in DOMAIN bookOfLadder : /\ bookOfLadder[x].side = takerOfLadder.side
                                       /\ bookOfLadder[x].price = takerOfLadder.price}
            = {x \in Resting : orders[x].side = cur.side /\ orders[x].price = cur.price}
      BY <1>4, MappedBook
    <2>2. QED
      BY <1>2, <1>4, <2>1 DEF Link
  <1>10. QED
    BY <1>1, <1>3, <1>4, <1>5, <1>8, <1>9 DEF PriceTime!Settle

\* new_order is an arrival.
LEMMA NewOrderArrives ==
    ASSUME IInv, IInv', NEW id \in Ids, NEW side \in Side, NEW quantity \in Quantities,
           NEW price \in Prices, NEW flags \in Flags,
           NewOrder(id, side, quantity, price, flags)
    PROVE  PriceTime!Arrive
  <1>1. /\ cur = NoRequest /\ id \notin used
        /\ cur' = Incoming("NEW", id, side, quantity, price, flags, 0)
        /\ UNCHANGED <<orders, ahead>>
    BY LadderAssumption DEF NewOrder, Quantities, Idle
  <1>2. cur'.id = id /\ cur' # NoRequest
    BY <1>1 DEF Incoming, NoRequest
  <1>3. takerOfLadder' \in PriceTime!Taker /\ takerOfLadder'.id = id
    <2>1. quantity - 0 \in Nat
      BY LadderAssumption DEF Quantities
    <2>2. takerOfLadder' = [id |-> id, side |-> side, quantity |-> quantity - 0, price |-> price]
      BY <1>1, <1>2 DEF takerOfLadder, Incoming
    <2>3. QED
      BY <2>1, <2>2 DEF PriceTime!Taker, Side
  <1>4. takerOfLadder = PriceTime!Nobody
    BY <1>1, MappedTaker DEF IInv
  <1>5. id \notin DOMAIN bookOfLadder
    BY <1>1, MappedBook DEF IInv, TypeOK
  <1>6. QED
    BY <1>1, <1>3, <1>4, <1>5, SameBook DEF PriceTime!Arrive

\* delete_order of a resting order is a cancel.
LEMMA DeleteCancels ==
    ASSUME IInv, IInv', cur = NoRequest, NEW id \in Resting, DeleteResting(id)
    PROVE  PriceTime!Cancel(id)
  <1>1. Unlink(id) /\ UNCHANGED cur
    BY AlwaysUnlinkable DEF DeleteResting
  <1>2. bookOfLadder' = PriceTime!Removed(id) /\ ahead' = PriceTime!Closed(id)
    BY <1>1, UnlinkRemoves DEF IInv
  <1>3. takerOfLadder = PriceTime!Nobody /\ takerOfLadder' = takerOfLadder
    BY <1>1, MappedTaker DEF IInv, takerOfLadder
  <1>4. QED
    BY <1>2, <1>3 DEF PriceTime!Cancel

\* modify_order at the same price and side keeps the order's place.
LEMMA ModifyInPlaceResizes ==
    ASSUME IInv, IInv', cur = NoRequest, NEW id \in Resting, NEW side \in Side,
           NEW quantity \in Quantities, NEW price \in Prices,
           ModifyInPlace(id, side, quantity, price)
    PROVE  PriceTime!Resize(id)
  <1>1. /\ orders' = [orders EXCEPT ![id].quantity = quantity]
        /\ UNCHANGED <<cur, ahead>>
    BY DEF ModifyInPlace
  <1>2. /\ Resting' = Resting
        /\ \A x \in Resting : /\ orders'[x].side = orders[x].side
                              /\ orders'[x].price = orders[x].price
                              /\ orders'[x].quantity = IF x = id THEN quantity ELSE orders[x].quantity
    BY <1>1 DEF IInv, TypeOK, Order, Resting
  <1>3. bookOfLadder' = [bookOfLadder EXCEPT ![id].quantity = quantity]
    BY <1>2 DEF bookOfLadder
  <1>4. id \in DOMAIN bookOfLadder' /\ bookOfLadder'[id].quantity = quantity /\ quantity > 0
    BY <1>2, LadderAssumption DEF bookOfLadder, Quantities
  <1>5. takerOfLadder = PriceTime!Nobody /\ takerOfLadder' = takerOfLadder
    BY <1>1, MappedTaker DEF IInv, takerOfLadder
  <1>6. QED
    BY <1>1, <1>3, <1>4, <1>5 DEF PriceTime!Resize

\* modify_order to another price or side gives the place up.
LEMMA ModifyAndMoveReprices ==
    ASSUME IInv, IInv', cur = NoRequest, NEW id \in Resting, NEW side \in Side,
           NEW quantity \in Quantities, NEW price \in Prices,
           orders[id].filled_quantity < quantity,
           ModifyAndMove(id, side, quantity, price)
    PROVE  PriceTime!Reprice(id)
  <1>1. /\ Unlink(id)
        /\ cur' = Incoming("MODIFY", id, side, quantity, price, orders[id].flags,
                           orders[id].filled_quantity)
        /\ orders[id].price # price \/ orders[id].side # side
    BY AlwaysUnlinkable DEF ModifyAndMove
  <1>2. bookOfLadder' = PriceTime!Removed(id) /\ ahead' = PriceTime!Closed(id)
    BY <1>1, UnlinkRemoves DEF IInv
  <1>3. /\ takerOfLadder' \in PriceTime!Taker
        /\ takerOfLadder'.id = id /\ takerOfLadder'.price = price /\ takerOfLadder'.side = side
    <2>1. quantity - orders[id].filled_quantity \in Nat /\ id \in Ids
      BY LadderAssumption DEF IInv, TypeOK, Order, Quantities
    <2>2. cur' # NoRequest
      BY <1>1 DEF Incoming, NoRequest
    <2>3. takerOfLadder' = [id |-> id, side |-> side,
                            quantity |-> quantity - orders[id].filled_quantity, price |-> price]
      BY <1>1, <2>2 DEF takerOfLadder, Incoming
    <2>4. QED
      BY <2>1, <2>3 DEF PriceTime!Taker, Side
  <1>4. takerOfLadder = PriceTime!Nobody
    BY MappedTaker DEF IInv
  <1>5. bookOfLadder[id].price = orders[id].price /\ bookOfLadder[id].side = orders[id].side
    BY MappedBook
  <1>6. QED
    BY <1>1, <1>2, <1>3, <1>4, <1>5 DEF PriceTime!Reprice

-----------------------------------------------------------------------------
(* The theorem. *)

\* The empty ladder is the empty book.
LEMMA InitMaps == Init => PriceTime!BookInit
  <1> SUFFICES ASSUME Init PROVE PriceTime!BookInit
    OBVIOUS
  <1>1. bookOfLadder = [x \in {} |-> PriceTime!Nobody]
    BY DEF Init, bookOfLadder, Resting
  <1>2. takerOfLadder = PriceTime!Nobody
    BY DEF Init, takerOfLadder, PriceTime!Nobody
  <1>3. QED
    BY <1>1, <1>2 DEF Init, PriceTime!BookInit

\* A step that changes neither orders, nor the request, nor who is ahead of whom.
LEMMA Stutters ==
    ASSUME UNCHANGED <<orders, cur, ahead>>
    PROVE  UNCHANGED PriceTime!bookVars
  <1>1. bookOfLadder' = bookOfLadder
    BY SameBook
  <1>2. takerOfLadder' = takerOfLadder
    BY DEF takerOfLadder
  <1>3. QED
    BY <1>1, <1>2 DEF PriceTime!bookVars

\* Every step of the ladder is a step of the book or none.
LEMMA StepMaps ==
    ASSUME IInv, IInv', [Next]_vars
    PROVE  [PriceTime!BookNext]_PriceTime!bookVars
  <1>0. \A id \in Resting : id \in DOMAIN bookOfLadder
    BY MappedBook
  <1>1. ASSUME NEW id \in Ids, NEW side \in Side, NEW quantity \in Quantities,
               NEW price \in Prices, NEW flags \in Flags,
               NewOrder(id, side, quantity, price, flags)
        PROVE  PriceTime!BookNext
    BY <1>1, NewOrderArrives DEF PriceTime!BookNext
  <1>2. ASSUME NEW id, CancelReject(id)
        PROVE  UNCHANGED PriceTime!bookVars
    BY <1>2, Stutters DEF CancelReject
  <1>3. ASSUME NEW id \in Resting, cur = NoRequest, DeleteResting(id)
        PROVE  PriceTime!BookNext
    BY <1>0, <1>3, DeleteCancels DEF PriceTime!BookNext
  <1>4. ASSUME NEW id \in used, DeleteOrder(id)
        PROVE  [PriceTime!BookNext]_PriceTime!bookVars
    BY <1>2, <1>3, <1>4 DEF DeleteOrder, Idle
  <1>5. ASSUME NEW id \in used, NEW side \in Side, NEW quantity \in Quantities,
               NEW price \in Prices, ModifyOrder(id, side, quantity, price)
        PROVE  [PriceTime!BookNext]_PriceTime!bookVars
    <2>1. cur = NoRequest
      BY <1>5 DEF ModifyOrder, Idle
    <2>2. CASE id \in Resting /\ ModifyInPlace(id, side, quantity, price)
      BY <1>0, <2>1, <2>2, ModifyInPlaceResizes DEF PriceTime!BookNext
    <2>3. CASE /\ id \in Resting /\ orders[id].filled_quantity < quantity
               /\ ModifyAndMove(id, side, quantity, price)
      BY <1>0, <2>1, <2>3, ModifyAndMoveReprices DEF PriceTime!BookNext
    <2>4. QED
      BY <1>2, <1>3, <1>5, <2>1, <2>2, <2>3 DEF ModifyOrder
  <1>6. CASE Match
    BY <1>6, MatchTrades DEF PriceTime!BookNext
  <1>7. CASE FinishWithoutResting
    BY <1>7, FinishWithoutRestingSettles DEF PriceTime!BookNext
  <1>8. CASE FinishResting
    BY <1>8, FinishRestingSettles DEF PriceTime!BookNext
  <1>9. CASE RunCallback
    BY <1>9, Stutters DEF RunCallback
  <1>10. CASE UNCHANGED vars
    BY <1>10, Stutters DEF vars
  <1>11. QED
    BY <1>1, <1>4, <1>5, <1>6, <1>7, <1>8, <1>9, <1>10 DEF Next

\* The linked lists of order_ladder.H give price-time priority: the ladder implements the
\* abstract book, in which an order trades only at the best price and only with an order
\* that nobody is ahead of.
THEOREM LadderImplementsPriceTime == Spec => ImplementsPriceTime
  <1>1. QED
    BY InitMaps, StepMaps, LadderInvariant, PTL DEF Spec, ImplementsPriceTime, PriceTime!BookSpec

=============================================================================
