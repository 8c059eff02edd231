------------------------ MODULE MatchingEngineProofs ------------------------
(***************************************************************************)
(* The broker thread, for any clients, orders and prices and for queues of *)
(* any capacity.  Its ladder is the ladder of OrderLadderProofs, so what   *)
(* is proved of that one holds here; the broker adds what it knows of the  *)
(* request it works on and of the callbacks that have not run yet.         *)
(* The last part is about the book that a consumer makes of the feed.       *)
(***************************************************************************)
EXTENDS MatchingEngine, OrderLadderProofs, SumProofs, SequenceTheorems

-----------------------------------------------------------------------------
(* The invariant. *)

\* What the order entry thread puts into from_client.
Asked ==
    {p \in Payload :
        /\ p.msg_type # "REJECT" => p.id \in Ids
        /\ p.msg_type \in {"NEW_ORDER", "MODIFY_ORDER"} => p.quantity \in Quantities /\ p.price \in Prices}
Filled == [id : Ids, client : Clients, side : Side, quantity : Nat, price : Prices]
Traded == [id : Ids, quantity : Nat, price : Prices]

BrokerTypes ==
    /\ from_client \in Seq(Asked) /\ Len(from_client) <= QueueCapacity
    /\ to_client \in Seq(Report) /\ Len(to_client) <= QueueCapacity
    /\ busy \in BOOLEAN
    /\ owner \in [0..(KeySpace - 1) -> Clients \cup {NoClient}]
    /\ submitter \in [Ids -> Clients \cup {NoClient}]
    /\ closed \subseteq used /\ resized \subseteq used
    /\ fills \in Seq(Filled) /\ queued_trades \in Seq(Traded)

IsNew(i) == from_client[i].msg_type = "NEW_ORDER"
IsChange(i) == from_client[i].msg_type \in {"DELETE_ORDER", "MODIFY_ORDER"}

\* The queue: a request about an order follows the order, under the same client.
QueueInv ==
    /\ \A j \in DOMAIN from_client :
          IsChange(j) => \/ from_client[j].id \in used
                         \/ \E i \in 1..(j - 1) : IsNew(i) /\ from_client[i].id = from_client[j].id
    /\ \A j \in DOMAIN from_client :
          IsNew(j) \/ IsChange(j) => from_client[j].client = submitter[from_client[j].id]
    /\ busy => from_client # <<>> /\ (IsNew(1) => Current.id \in used)

\* Every order the ladder was given was entered by a client and has an owner.
OwnerInv == \A id \in used : owner[OwnerKey(id)] # NoClient /\ submitter[id] \in Clients

\* The request the ladder works on is the front of the queue.
RequestInv ==
    /\ ~busy => calls = <<>> /\ cur = NoRequest
    /\ cur # NoRequest =>
          /\ cur.id = Current.id
          /\ Current.msg_type = IF cur.op = "NEW" THEN "NEW_ORDER" ELSE "MODIFY_ORDER"
          /\ cur.op = "MODIFY" => cur.flags # "IOC"

\* The fill of the incoming order.
Active == calls[Len(calls)]

\* The fill of the resting order, before it.
PassiveFill(p) ==
    /\ p.fn = "onFill" /\ ~p.active
    /\ p.id \in used \ (closed \cup {cur.id})
    /\ p.side = Opposite(cur.side) /\ p.quantity = Active.quantity /\ p.price = Active.price
    /\ p.flags = "CLOSED" <=> p.id \notin Resting
    /\ p.flags # "CLOSED" => Active.flags = "CLOSED"

\* The callbacks of a trade are left to run: onTrade and both fills, the fills, or the
\* last of them.
InTrade ==
    /\ cur # NoRequest /\ cur.id \notin closed
    /\ Len(calls) \in 1..3
    /\ Active.fn = "onFill" /\ Active.active /\ Active.id = cur.id /\ Active.side = cur.side
    /\ Active.flags = "CLOSED" <=> cur.quantity = 0
    /\ Len(calls) = 1 => /\ fills # <<>>
                         /\ fills[Len(fills)].id \in Resting => Active.flags = "CLOSED"
    /\ Len(calls) # 1 => PassiveFill(calls[Len(calls) - 1])
    /\ Len(calls) = 3 => /\ calls[1].fn = "onTrade"
                         /\ calls[1].quantity = Active.quantity /\ calls[1].price = Active.price

\* The one callback that ends a request.
Ending ==
    /\ cur = NoRequest /\ Len(calls) = 1 /\ calls[1].id = Current.id /\ Current.id \in used
    /\ \/ calls[1].fn = "onNewOrder" /\ Current.msg_type = "NEW_ORDER"
       \/ calls[1].fn = "onModifyOrder" /\ Current.msg_type = "MODIFY_ORDER" /\ Current.id \in Resting
       \/ /\ calls[1].fn = "onDeleteOrder"
          /\ Current.msg_type # "MODIFY_ORDER" => Current.id \notin closed
       \/ /\ calls[1].fn = "onCancelReject"
          /\ Current.msg_type \in {"DELETE_ORDER", "MODIFY_ORDER"} /\ Current.id \in closed

CallsInv == calls = <<>> \/ Ending \/ InTrade

\* A callback that will report the order closed.
ClosingCall(c, id) ==
    c.id = id /\ (c.fn = "onDeleteOrder" \/ (c.fn = "onFill" /\ c.flags = "CLOSED"))
Closing(id) == \E i \in DOMAIN calls : ClosingCall(calls[i], id)
Taker(id) == cur # NoRequest /\ cur.id = id /\ cur.quantity > 0

\* An order is reported closed, or is about to be, exactly if it neither rests nor trades.
ClosedInv == \A id \in used : (id \in closed \/ Closing(id)) <=> (id \notin Resting /\ ~Taker(id))

EngineInv == IInv /\ BrokerTypes /\ QueueInv /\ OwnerInv /\ RequestInv /\ CallsInv /\ ClosedInv

\* No two orders share a key of the owner map.
KeysDiffer == \A id, other \in Ids : OwnerKey(id) = OwnerKey(other) => id = other

\* The owner of an order is the client that entered it, and so are its fills.
FillInv ==
    /\ \A id \in used : owner[OwnerKey(id)] = submitter[id]
    /\ \A i \in DOMAIN to_client :
          to_client[i].msg_type = "FILL" =>
             to_client[i].id \in used /\ to_client[i].client = submitter[to_client[i].id]
    /\ \A i \in DOMAIN fills : fills[i].id \in used /\ fills[i].client = submitter[fills[i].id]

\* What is traded and not cleared yet.
Owed(side, q) ==
    IF /\ calls # <<>> /\ InTrade /\ Active.price = q
       /\ Len(calls) = 2 \/ (Len(calls) = 1 /\ side = cur.side)
    THEN Active.quantity ELSE 0

BalanceInv ==
    \A q \in Prices, side \in Side : QuantityCleared(side, q) + Owed(side, q) = QuantityTraded(q)

-----------------------------------------------------------------------------
(* The front of the queue and the first callback. *)

\* The request the broker works on is one the order entry thread asked for.
LEMMA CurrentFacts ==
    ASSUME EngineInv, from_client # <<>>
    PROVE  /\ Current = from_client[1] /\ 1 \in DOMAIN from_client
           /\ Current \in Asked /\ Current \in Payload
           /\ Current.client \in Clients /\ Current.id \in Pointer /\ Current.side \in Side
           /\ Current.flags \in Flags
           /\ Current.msg_type # "REJECT" => Current.id \in Ids
           /\ Current.msg_type \in {"NEW_ORDER", "MODIFY_ORDER"} =>
                 Current.quantity \in Quantities /\ Current.price \in Prices
           /\ Current.msg_type \in {"DELETE_ORDER", "MODIFY_ORDER"} => Current.id \in used
           /\ Current.msg_type # "REJECT" => Current.client = submitter[Current.id]
  <1>1. from_client \in Seq(Asked)
    BY DEF EngineInv, BrokerTypes
  <1>2. Current = from_client[1] /\ 1 \in DOMAIN from_client
    BY <1>1 DEF Current
  <1>3. Current \in Asked
    BY <1>1, <1>2
  <1>4. Current \in Payload
    BY <1>3 DEF Asked
  <1>5. /\ Current.client \in Clients /\ Current.id \in Pointer /\ Current.side \in Side
        /\ Current.flags \in Flags
        /\ Current.msg_type \in {"NEW_ORDER", "DELETE_ORDER", "MODIFY_ORDER", "REJECT"}
    BY <1>4 DEF Payload
  <1>6. Current.msg_type \in {"DELETE_ORDER", "MODIFY_ORDER"} => Current.id \in used
    BY <1>2 DEF EngineInv, QueueInv, IsChange
  <1>7. Current.msg_type # "REJECT" => Current.client = submitter[Current.id]
    BY <1>2, <1>5 DEF EngineInv, QueueInv, IsNew, IsChange
  <1>8. QED
    BY <1>2, <1>3, <1>4, <1>5, <1>6, <1>7 DEF Asked

\* The callbacks left to run are at most three, and what is left after the first.
LEMMA CallsFacts ==
    ASSUME EngineInv, calls # <<>>
    PROVE  /\ busy /\ from_client # <<>>
           /\ calls \in Seq(Callback) /\ Len(calls) \in 1..3 /\ DOMAIN calls = 1..Len(calls)
           /\ Head(calls) = calls[1] /\ calls[1] \in Callback
           /\ Tail(calls) \in Seq(Callback) /\ Len(Tail(calls)) = Len(calls) - 1
           /\ DOMAIN Tail(calls) = 1..(Len(calls) - 1)
           /\ \A i \in 1..(Len(calls) - 1) : Tail(calls)[i] = calls[i + 1]
           /\ Len(calls) = 1 <=> Tail(calls) = <<>>
           /\ Ending \/ InTrade
  <1>1. calls \in Seq(Callback)
    BY DEF EngineInv, IInv, TypeOK
  <1>2. busy /\ from_client # <<>>
    BY DEF EngineInv, QueueInv, RequestInv, BrokerTypes
  <1>3. Ending \/ InTrade
    BY DEF EngineInv, CallsInv
  <1>4. Len(calls) \in 1..3
    BY <1>3 DEF Ending, InTrade
  <1>5. /\ Head(calls) = calls[1] /\ calls[1] \in Callback /\ DOMAIN calls = 1..Len(calls)
        /\ Tail(calls) \in Seq(Callback) /\ Len(Tail(calls)) = Len(calls) - 1
    BY <1>1, <1>4
  <1>6. \A i \in 1..(Len(calls) - 1) : Tail(calls)[i] = calls[i + 1]
    BY <1>1, <1>4, HeadTailProperties
  <1>7. DOMAIN Tail(calls) = 1..(Len(calls) - 1)
    BY <1>5
  <1>8. Len(calls) = 1 <=> Tail(calls) = <<>>
    BY <1>4, <1>5
  <1>9. QED
    BY <1>1, <1>2, <1>3, <1>4, <1>5, <1>6, <1>7, <1>8

\* The fields of a callback.
LEMMA CallbackFields ==
    ASSUME NEW c \in Callback
    PROVE  /\ c.id \in Ids
           /\ c.fn \in {"onNewOrder", "onModifyOrder", "onDeleteOrder", "onCancelReject",
                        "onTrade", "onFill"}
           /\ c.fn = "onTrade" => c.quantity \in Nat /\ c.price \in Prices
           /\ c.fn = "onFill" => /\ c.side \in Side /\ c.quantity \in Nat /\ c.price \in Prices
                                 /\ c.flags \in FillFlags /\ c.active \in BOOLEAN
  BY DEF Callback

\* Every order has a key in the owner map.
LEMMA OwnerKeyType == \A id \in Ids : OwnerKey(id) \in 0..(KeySpace - 1)
  BY EngineAssumption DEF OwnerKey

\* onFill never throws: the passive order of a trade has an owner.
LEMMA OwnerNeverMissing ==
    ASSUME EngineInv, calls # <<>>
    PROVE  ~OwnerMissing(Head(calls))
  <1>1. SUFFICES ASSUME calls[1].fn = "onFill", ~calls[1].active
                 PROVE  owner[OwnerKey(calls[1].id)] # NoClient
    BY CallsFacts DEF OwnerMissing
  <1>2. InTrade
    BY <1>1, CallsFacts DEF Ending
  <1>3. Len(calls) = 2
    BY <1>1, <1>2 DEF InTrade, Active
  <1>4. calls[1].id \in used
    BY <1>2, <1>3 DEF InTrade, PassiveFill
  <1>5. QED
    BY <1>4 DEF EngineInv, OwnerInv

-----------------------------------------------------------------------------
(* The broker's ladder is the ladder. *)

\* Every step of the broker or of the order entry thread is a step of the ladder or
\* leaves the ladder alone.
LEMMA EngineStepIsLadderStep ==
    ASSUME EngineInv, [EngineNext]_engineVars
    PROVE  [Next]_vars
  <1>1. CASE TakeNew
    <2>1. from_client # <<>> /\ Current.msg_type = "NEW_ORDER"
      BY <1>1 DEF TakeNew, Take
    <2>2. /\ Current.id \in Ids /\ Current.side \in Side /\ Current.quantity \in Quantities
          /\ Current.price \in Prices /\ Current.flags \in Flags
      BY <2>1, CurrentFacts
    <2>3. QED
      BY <1>1, <2>2 DEF TakeNew, Next
  <1>2. CASE TakeDelete
    <2>1. Current.id \in used
      BY <1>2, CurrentFacts DEF TakeDelete, Take
    <2>2. QED
      BY <1>2, <2>1 DEF TakeDelete, Next
  <1>3. CASE TakeModify
    <2>1. from_client # <<>> /\ Current.msg_type = "MODIFY_ORDER"
      BY <1>3 DEF TakeModify, Take
    <2>2. /\ Current.id \in used /\ Current.side \in Side /\ Current.quantity \in Quantities
          /\ Current.price \in Prices
      BY <2>1, CurrentFacts
    <2>3. QED
      BY <1>3, <2>2 DEF TakeModify, Next
  <1>4. CASE TakeReject
    BY <1>4 DEF TakeReject
  <1>5. CASE LadderStep
    BY <1>5 DEF LadderStep, Next
  <1>6. CASE Callbacks
    BY <1>6, OwnerNeverMissing DEF Callbacks, Next
  <1>7. CASE FinishedPacket
    BY <1>7 DEF FinishedPacket
  <1>8. CASE OrderEntry
    BY <1>8 DEF OrderEntry, EnqueueNew, EnqueueDelete, EnqueueModify, EnqueueReject, Enqueue, Drain
  <1>9. CASE UNCHANGED engineVars
    BY <1>9 DEF engineVars
  <1>10. QED
    BY <1>1, <1>2, <1>3, <1>4, <1>5, <1>6, <1>7, <1>8, <1>9 DEF EngineNext, BrokerStep

\* So the ladder's invariant is kept.
LEMMA LadderKept ==
    ASSUME EngineInv, [EngineNext]_engineVars
    PROVE  IInv'
  BY EngineStepIsLadderStep, NextKeeps DEF EngineInv

-----------------------------------------------------------------------------
(* The initial state. *)

\* The broker starts with empty queues and an empty ladder.
LEMMA InitEngineInv == EngineInit => EngineInv
  <1>1. SUFFICES ASSUME EngineInit PROVE EngineInv
    OBVIOUS
  <1>2. IInv
    BY <1>1, InitIInv DEF EngineInit
  <1>3. used = {} /\ calls = <<>> /\ cur = NoRequest
    BY <1>1 DEF EngineInit, Init
  <1>4. BrokerTypes
    BY <1>1, <1>3, EngineAssumption DEF EngineInit, BrokerTypes
  <1>5. QueueInv /\ OwnerInv /\ RequestInv /\ CallsInv /\ ClosedInv
    BY <1>1, <1>3 DEF EngineInit, QueueInv, OwnerInv, RequestInv, CallsInv, ClosedInv
  <1>6. QED
    BY <1>2, <1>4, <1>5 DEF EngineInv

-----------------------------------------------------------------------------
(* The order entry thread. *)

\* When nothing of the broker changes but what is behind the front of the queue.
LEMMA BehindTheFront ==
    ASSUME EngineInv, UNCHANGED <<vars, busy, owner, fills, closed>>,
           \A id \in used : submitter'[id] = submitter[id],
           from_client # <<>> => from_client' # <<>> /\ Current' = Current
    PROVE  OwnerInv' /\ RequestInv' /\ CallsInv' /\ ClosedInv'
  <1>1. UNCHANGED <<orders, levels, cur, calls, failed, used, ahead>> /\ Resting' = Resting
    BY DEF vars, Resting
  <1>2. OwnerInv'
    BY <1>1 DEF EngineInv, OwnerInv
  <1>3. RequestInv'
    BY <1>1 DEF EngineInv, RequestInv, QueueInv
  <1>4. CallsInv'
    <2>1. CASE calls = <<>>
      BY <1>1, <2>1 DEF CallsInv
    <2>2. CASE calls # <<>>
      <3>1. Current' = Current
        BY <2>2, CallsFacts
      <3>2. Ending => Ending'
        BY <1>1, <3>1 DEF Ending
      <3>3. InTrade => InTrade'
        BY <1>1 DEF InTrade, Active, PassiveFill
      <3>4. QED
        BY <3>2, <3>3, <2>2, CallsFacts DEF CallsInv
    <2>3. QED
      BY <2>1, <2>2
  <1>5. ClosedInv'
    BY <1>1 DEF EngineInv, ClosedInv, Closing, Taker
  <1>6. QED
    BY <1>2, <1>3, <1>4, <1>5

\* The order entry thread knows the client of an order it introduced.
LEMMA IntroducedHasClient ==
    ASSUME EngineInv, NEW id \in Ids, Introduced(id)
    PROVE  submitter[id] \in Clients
  <1>1. CASE id \in used
    BY <1>1 DEF EngineInv, OwnerInv
  <1>2. ASSUME NEW i \in DOMAIN from_client, from_client[i].msg_type = "NEW_ORDER", from_client[i].id = id
        PROVE  submitter[id] \in Clients
    <2>1. from_client[i] \in Asked
      BY <1>2 DEF EngineInv, BrokerTypes
    <2>2. from_client[i].client \in Clients
      BY <2>1 DEF Asked, Payload
    <2>3. QED
      BY <1>2, <2>2 DEF EngineInv, QueueInv, IsNew
  <1>3. QED
    BY <1>1, <1>2 DEF Introduced

\* A request is appended behind the others.
LEMMA EnqueueKeeps ==
    ASSUME EngineInv, NEW p \in Asked, Enqueue(p), UNCHANGED <<closed, resized>>,
           submitter' \in [Ids -> Clients \cup {NoClient}],
           \A id \in Ids : Introduced(id) => submitter'[id] = submitter[id],
           p.msg_type # "REJECT" => submitter'[p.id] = p.client,
           p.msg_type \in {"DELETE_ORDER", "MODIFY_ORDER"} => Introduced(p.id)
    PROVE  EngineInv'
  <1>1. /\ from_client \in Seq(Asked) /\ Len(from_client) \in Nat /\ Len(from_client) < QueueCapacity
        /\ from_client' = Append(from_client, p)
        /\ UNCHANGED <<vars, to_client, busy, owner, queued_trades, view, fills>>
    BY DEF EngineInv, BrokerTypes, Enqueue, outVars
  <1>2. UNCHANGED <<orders, levels, cur, calls, failed, used, ahead>>
    BY <1>1 DEF vars
  <1>3. /\ from_client' \in Seq(Asked) /\ Len(from_client') = Len(from_client) + 1
        /\ DOMAIN from_client = 1..Len(from_client)
        /\ DOMAIN from_client' = 1..(Len(from_client) + 1)
        /\ \A i \in DOMAIN from_client : from_client'[i] = from_client[i]
        /\ from_client'[Len(from_client) + 1] = p
    BY <1>1
  <1>4. from_client' # <<>> /\ (from_client # <<>> => Current' = Current)
    BY <1>1, <1>3 DEF Current
  <1>5. IInv'
    <2>1. [Next]_vars
      BY <1>1
    <2>2. QED
      BY <2>1, NextKeeps DEF EngineInv
  <1>6. BrokerTypes'
    <2>1. QueueCapacity \in Nat
      BY EngineAssumption
    <2>2. Len(from_client') <= QueueCapacity
      BY <1>1, <1>3, <2>1
    <2>3. QED
      BY <1>1, <1>2, <1>3, <2>2 DEF EngineInv, BrokerTypes
  <1>7. QueueInv'
    <2>1. ASSUME NEW j \in DOMAIN from_client', from_client'[j].msg_type \in {"DELETE_ORDER", "MODIFY_ORDER"}
          PROVE  \/ from_client'[j].id \in used
                 \/ \E i \in 1..(j - 1) : from_client'[i].msg_type = "NEW_ORDER" /\ from_client'[i].id = from_client'[j].id
      <3>1. CASE j \in DOMAIN from_client
        <4>1. \/ from_client[j].id \in used
              \/ \E i \in 1..(j - 1) : from_client[i].msg_type = "NEW_ORDER" /\ from_client[i].id = from_client[j].id
          BY <2>1, <3>1, <1>3 DEF EngineInv, QueueInv, IsChange, IsNew
        <4>2. \A i \in 1..(j - 1) : from_client'[i] = from_client[i]
          BY <1>1, <1>3, <3>1
        <4>3. QED
          BY <4>1, <4>2, <1>3, <3>1
      <3>2. CASE j = Len(from_client) + 1
        <4>1. Introduced(p.id) /\ from_client'[j] = p
          BY <2>1, <3>2, <1>3
        <4>2. 1..(j - 1) = DOMAIN from_client
          BY <3>2, <1>1, <1>3
        <4>3. QED
          BY <4>1, <4>2, <1>3 DEF Introduced
      <3>3. QED
        BY <3>1, <3>2, <1>1, <1>3
    <2>2. ASSUME NEW j \in DOMAIN from_client', from_client'[j].msg_type # "REJECT"
          PROVE  from_client'[j].client = submitter'[from_client'[j].id]
      <3>1. CASE j \in DOMAIN from_client
        <4>1. from_client[j] \in Asked /\ from_client'[j] = from_client[j]
          BY <1>1, <1>3, <3>1
        <4>2. /\ from_client[j].id \in Ids
              /\ from_client[j].msg_type \in {"NEW_ORDER", "DELETE_ORDER", "MODIFY_ORDER"}
          BY <4>1, <2>2 DEF Asked, Payload
        <4>3. Introduced(from_client[j].id)
          <5>1. CASE IsNew(j)
            BY <5>1, <3>1 DEF Introduced, IsNew
          <5>2. CASE IsChange(j)
            <6>1. \/ from_client[j].id \in used
                  \/ \E i \in 1..(j - 1) : IsNew(i) /\ from_client[i].id = from_client[j].id
              BY <5>2, <3>1 DEF EngineInv, QueueInv
            <6>2. 1..(j - 1) \subseteq DOMAIN from_client
              BY <3>1, <1>1, <1>3
            <6>3. QED
              BY <6>1, <6>2 DEF Introduced, IsNew
          <5>3. QED
            BY <4>2, <5>1, <5>2 DEF IsNew, IsChange
        <4>4. from_client[j].client = submitter[from_client[j].id]
          BY <3>1, <4>2 DEF EngineInv, QueueInv, IsNew, IsChange
        <4>5. QED
          BY <4>1, <4>2, <4>3, <4>4
      <3>2. CASE j = Len(from_client) + 1
        BY <3>2, <2>2, <1>3
      <3>3. QED
        BY <3>1, <3>2, <1>1, <1>3
    <2>3. busy' => from_client' # <<>> /\ (from_client'[1].msg_type = "NEW_ORDER" => Current'.id \in used')
      <3>1. SUFFICES ASSUME busy' PROVE from_client'[1].msg_type = "NEW_ORDER" => Current'.id \in used'
        BY <1>4
      <3>2. from_client # <<>> /\ busy
        BY <3>1, <1>1 DEF EngineInv, QueueInv
      <3>3. Current' = Current /\ from_client'[1] = from_client[1] /\ 1 \in DOMAIN from_client
        BY <3>2, <1>3, <1>4, CurrentFacts
      <3>4. QED
        BY <3>2, <3>3, <1>2 DEF EngineInv, QueueInv, IsNew
    <2>4. QED
      BY <2>1, <2>2, <2>3, <1>2 DEF QueueInv, IsNew, IsChange
  <1>8. OwnerInv' /\ RequestInv' /\ CallsInv' /\ ClosedInv'
    <2>1. \A id \in used : submitter'[id] = submitter[id]
      BY DEF EngineInv, IInv, TypeOK, Introduced
    <2>2. QED
      BY <1>1, <1>4, <2>1, BehindTheFront
  <1>9. QED
    BY <1>5, <1>6, <1>7, <1>8 DEF EngineInv

\* The order entry thread keeps the invariant: it introduces an order once, names the
\* client of an order it has introduced, and drains the reports.
LEMMA OrderEntryKeeps ==
    ASSUME EngineInv, OrderEntry
    PROVE  EngineInv'
  <1>0. submitter \in [Ids -> Clients \cup {NoClient}]
    BY DEF EngineInv, BrokerTypes
  <1>1. ASSUME NEW id \in Ids, NEW side \in Side, NEW quantity \in Quantities, NEW price \in Prices,
               NEW flags \in Flags, NEW client \in EnteredBy[id],
               EnqueueNew(client, id, side, quantity, price, flags)
        PROVE  EngineInv'
    <2> DEFINE p == PayloadOf("NEW_ORDER", id, client, side, quantity, price, flags)
    <2>1. client \in Clients
      BY EngineAssumption
    <2>2. price \in Int /\ quantity \in Nat
      BY LadderAssumption DEF Quantities
    <2>3. p \in Asked /\ p.msg_type = "NEW_ORDER" /\ p.id = id /\ p.client = client
      BY <2>1, <2>2 DEF PayloadOf, Asked, Payload, Pointer
    <2>4. Enqueue(p) /\ UNCHANGED <<closed, resized>>
      BY <1>1 DEF EnqueueNew
    <2>5. submitter' = [submitter EXCEPT ![id] = client] /\ ~Introduced(id)
      BY <1>1 DEF EnqueueNew
    <2>6. submitter' \in [Ids -> Clients \cup {NoClient}]
      BY <2>5, <2>1, <1>0
    <2>7. submitter'[id] = client
      BY <2>5, <1>0
    <2>8. \A x \in Ids : Introduced(x) => submitter'[x] = submitter[x]
      BY <2>5, <1>0
    <2> HIDE DEF p
    <2>9. QED
      BY <2>3, <2>4, <2>6, <2>7, <2>8, EnqueueKeeps
  <1>2. ASSUME NEW id \in Ids, EnqueueDelete(id) PROVE EngineInv'
    <2> DEFINE p == PayloadOf("DELETE_ORDER", id, submitter[id], "BUY", 0, 0, "NONE")
    <2>1. Introduced(id) /\ Enqueue(p) /\ UNCHANGED historyVars
      BY <1>2 DEF EnqueueDelete
    <2>2. submitter[id] \in Clients
      BY <2>1, IntroducedHasClient
    <2>3. p \in Asked /\ p.msg_type = "DELETE_ORDER" /\ p.id = id /\ p.client = submitter[id]
      BY <2>2 DEF PayloadOf, Asked, Payload, Pointer, Side, Flags
    <2> HIDE DEF p
    <2>4. QED
      BY <2>1, <2>3, <1>0, EnqueueKeeps DEF historyVars
  <1>3. ASSUME NEW id \in Ids, NEW side \in Side, NEW quantity \in Quantities, NEW price \in Prices,
               EnqueueModify(id, side, quantity, price)
        PROVE  EngineInv'
    <2> DEFINE p == PayloadOf("MODIFY_ORDER", id, submitter[id], side, quantity, price, "NONE")
    <2>1. Introduced(id) /\ Enqueue(p) /\ UNCHANGED historyVars
      BY <1>3 DEF EnqueueModify
    <2>2. submitter[id] \in Clients
      BY <2>1, IntroducedHasClient
    <2>3. price \in Int /\ quantity \in Nat
      BY LadderAssumption DEF Quantities
    <2>4. p \in Asked /\ p.msg_type = "MODIFY_ORDER" /\ p.id = id /\ p.client = submitter[id]
      BY <2>2, <2>3 DEF PayloadOf, Asked, Payload, Pointer, Flags
    <2> HIDE DEF p
    <2>5. QED
      BY <2>1, <2>4, <1>0, EnqueueKeeps DEF historyVars
  <1>4. ASSUME NEW client \in Clients, EnqueueReject(client) PROVE EngineInv'
    <2> DEFINE p == PayloadOf("REJECT", NoOrder, client, "BUY", 0, 0, "NONE")
    <2>1. Enqueue(p) /\ UNCHANGED historyVars
      BY <1>4 DEF EnqueueReject
    <2>2. p \in Asked /\ p.msg_type = "REJECT"
      BY DEF PayloadOf, Asked, Payload, Pointer, Side, Flags
    <2> HIDE DEF p
    <2>3. QED
      BY <2>1, <2>2, <1>0, EnqueueKeeps DEF historyVars
  <1>5. CASE Drain
    <2>1. /\ to_client # <<>> /\ to_client' = Tail(to_client)
          /\ UNCHANGED <<vars, from_client, busy, owner, queued_trades, view, fills, submitter, closed, resized>>
      BY <1>5 DEF Drain, outVars, historyVars
    <2>2. used' = used
      BY <2>1 DEF vars
    <2>3. IInv'
      BY <2>1, NextKeeps DEF EngineInv
    <2>4. to_client' \in Seq(Report) /\ Len(to_client') <= QueueCapacity
      <3>1. to_client \in Seq(Report) /\ Len(to_client) <= QueueCapacity /\ QueueCapacity \in Nat
        BY EngineAssumption DEF EngineInv, BrokerTypes
      <3>2. QED
        BY <3>1, <2>1
    <2>5. BrokerTypes'
      BY <2>1, <2>2, <2>4 DEF EngineInv, BrokerTypes
    <2>6. Current' = Current
      BY <2>1 DEF Current
    <2>7. QueueInv'
      BY <2>1, <2>2, <2>6 DEF EngineInv, QueueInv, IsNew, IsChange
    <2>8. OwnerInv' /\ RequestInv' /\ CallsInv' /\ ClosedInv'
      BY <2>1, <2>6, BehindTheFront
    <2>9. QED
      BY <2>3, <2>5, <2>7, <2>8 DEF EngineInv
  <1>6. QED
    BY <1>1, <1>2, <1>3, <1>4, <1>5 DEF OrderEntry

-----------------------------------------------------------------------------
(* Taking a request from the queue. *)

\* A report fits into to_client when emplace returns.
LEMMA EmplaceTypes ==
    ASSUME BrokerTypes, NEW r \in Report, Emplace(r)
    PROVE  to_client' \in Seq(Report) /\ Len(to_client') <= QueueCapacity
  <1>1. to_client \in Seq(Report) /\ QueueCapacity \in Nat
    BY EngineAssumption DEF BrokerTypes
  <1>2. QED
    BY <1>1 DEF Emplace

\* A request is taken by an idle ladder; what is common to every dispatch.
LEMMA TakeFacts ==
    ASSUME EngineInv, NEW type, Take(type)
    PROVE  /\ ~busy /\ busy' /\ UNCHANGED fills
           /\ from_client # <<>> /\ Current.msg_type = type
           /\ calls = <<>> /\ cur = NoRequest /\ ~failed
           /\ \A id \in used : id \in closed <=> id \notin Resting
  <1>1. /\ ~busy /\ busy' /\ UNCHANGED fills /\ from_client # <<>> /\ Current.msg_type = type
        /\ ~failed
    BY DEF Take
  <1>2. calls = <<>> /\ cur = NoRequest
    BY <1>1 DEF EngineInv, RequestInv
  <1>3. \A id \in used : id \in closed <=> id \notin Resting
    BY <1>2 DEF EngineInv, ClosedInv, Closing, Taker
  <1>4. QED
    BY <1>1, <1>2, <1>3

\* The queue's part of the invariant, when a request is taken.
LEMMA TakeQueueInv ==
    ASSUME EngineInv, UNCHANGED <<from_client, submitter>>, used \subseteq used',
           from_client # <<>>, IsNew(1) => Current.id \in used'
    PROVE  QueueInv'
  <1>1. Current' = Current
    BY DEF Current
  <1>2. QED
    BY <1>1 DEF EngineInv, QueueInv, IsNew, IsChange

\* new_order: the order gets its owner and becomes the taker.
LEMMA TakeNewKeeps ==
    ASSUME EngineInv, TakeNew
    PROVE  EngineInv'
  <1>1. /\ ~busy /\ busy' /\ UNCHANGED fills
        /\ from_client # <<>> /\ Current.msg_type = "NEW_ORDER"
        /\ calls = <<>> /\ cur = NoRequest /\ ~failed
        /\ \A id \in used : id \in closed <=> id \notin Resting
    BY TakeFacts DEF TakeNew
  <1>2. /\ Current.id \in Ids /\ Current.side \in Side /\ Current.quantity \in Quantities
        /\ Current.price \in Prices /\ Current.flags \in Flags /\ Current.client \in Clients
        /\ Current.client = submitter[Current.id]
    BY <1>1, CurrentFacts
  <1>3. Current.quantity \in Nat /\ Current.quantity > 0
    BY <1>2, LadderAssumption DEF Quantities
  <1>4. /\ Current.id \notin used /\ used' = used \cup {Current.id}
        /\ cur' = Incoming("NEW", Current.id, Current.side, Current.quantity, Current.price,
                           Current.flags, 0)
        /\ UNCHANGED <<orders, levels, calls, failed, ahead>>
    BY <1>3 DEF TakeNew, NewOrder
  <1>5. /\ owner' = [owner EXCEPT ![OwnerKey(Current.id)] = Current.client]
        /\ UNCHANGED <<from_client, to_client, queued_trades, view, submitter, closed, resized>>
    BY DEF TakeNew, historyVars
  <1>6. /\ cur'.id = Current.id /\ cur'.op = "NEW" /\ cur'.flags = Current.flags
        /\ cur'.quantity = Current.quantity /\ cur' # NoRequest
    BY <1>3, <1>4 DEF Incoming, NoRequest
  <1>7. Current' = Current /\ Resting' = Resting /\ calls' = <<>>
    BY <1>1, <1>4, <1>5 DEF Current, Resting
  <1>8. \A id \in Ids : OwnerKey(id) \in 0..(KeySpace - 1)
    BY OwnerKeyType
  <1>9. owner \in [0..(KeySpace - 1) -> Clients \cup {NoClient}]
    BY DEF EngineInv, BrokerTypes
  <1>10. IInv'
    BY LadderKept DEF EngineNext, BrokerStep
  <1>11. BrokerTypes'
    <2>1. owner' \in [0..(KeySpace - 1) -> Clients \cup {NoClient}]
      BY <1>2, <1>5, <1>8, <1>9
    <2>2. QED
      BY <2>1, <1>1, <1>4, <1>5 DEF EngineInv, BrokerTypes
  <1>12. QueueInv'
    BY <1>1, <1>4, <1>5, TakeQueueInv
  <1>13. OwnerInv'
    <2>1. ASSUME NEW id \in used' PROVE owner'[OwnerKey(id)] # NoClient /\ submitter'[id] \in Clients
      <3>1. used \subseteq Ids
        BY DEF EngineInv, IInv, TypeOK
      <3>2. id \in Ids
        BY <1>2, <1>4, <3>1
      <3>3. CASE OwnerKey(id) = OwnerKey(Current.id)
        <4>1. owner'[OwnerKey(id)] = Current.client
          BY <3>2, <3>3, <1>5, <1>8, <1>9
        <4>2. QED
          BY <4>1, <1>2, <1>4, <1>5, EngineAssumption DEF EngineInv, OwnerInv
      <3>4. CASE OwnerKey(id) # OwnerKey(Current.id)
        <4>1. owner'[OwnerKey(id)] = owner[OwnerKey(id)]
          BY <3>2, <3>4, <1>5, <1>8, <1>9
        <4>2. QED
          BY <4>1, <3>4, <1>4, <1>5 DEF EngineInv, OwnerInv
      <3>5. QED
        BY <3>3, <3>4
    <2>2. QED
      BY <2>1 DEF OwnerInv
  <1>14. RequestInv' /\ CallsInv'
    BY <1>1, <1>6, <1>7 DEF RequestInv, CallsInv
  <1>15. ClosedInv'
    <2>1. \A id : ~Closing(id)'
      BY <1>7 DEF Closing
    <2>2. \A id : Taker(id)' <=> id = Current.id
      BY <1>3, <1>6 DEF Taker
    <2>3. Current.id \notin closed /\ Current.id \notin Resting
      BY <1>4 DEF EngineInv, BrokerTypes, IInv, TypeOK
    <2>4. QED
      BY <2>1, <2>2, <2>3, <1>1, <1>4, <1>5, <1>7 DEF ClosedInv
  <1>16. QED
    BY <1>10, <1>11, <1>12, <1>13, <1>14, <1>15 DEF EngineInv

\* What a delete or a modify of an order does to the ladder and to the callbacks: the
\* order is gone, is taken off, stays, or becomes the taker.
TakenChange(id) ==
    \/ /\ id \notin Resting /\ Resting' = Resting
       /\ calls' = <<OnCancelReject(id)>> /\ cur' = NoRequest
    \/ /\ id \in Resting /\ Resting' = Resting \ {id}
       /\ calls' = <<OnDeleteOrder(id, TRUE)>> /\ cur' = NoRequest
    \/ /\ Current.msg_type = "MODIFY_ORDER" /\ cur' = NoRequest
       /\ id \in Resting /\ Resting' = Resting
       /\ \E side, q, price : calls' = <<OnModifyOrder(id, side, q, price)>>
    \/ /\ Current.msg_type = "MODIFY_ORDER"
       /\ id \in Resting /\ Resting' = Resting \ {id}
       /\ calls' = <<>> /\ cur' # NoRequest /\ cur'.id = id /\ cur'.op = "MODIFY"
       /\ cur'.flags # "IOC" /\ cur'.quantity > 0

\* delete_order of a resting order in an idle ladder.
LEMMA DeleteRestingEffect ==
    ASSUME IInv, cur = NoRequest, NEW id \in Resting, DeleteResting(id)
    PROVE  /\ Resting' = Resting \ {id}
           /\ calls' = <<OnDeleteOrder(id, TRUE)>> /\ cur' = NoRequest
  <1>1. Unlink(id) /\ calls' = <<OnDeleteOrder(id, TRUE)>> /\ UNCHANGED cur
    BY AlwaysUnlinkable DEF DeleteResting
  <1>2. QED
    BY <1>1, UnlinkTypes DEF IInv

\* What delete_order, called by the broker, does to the ladder.
LEMMA TakeDeleteEffect ==
    ASSUME EngineInv, TakeDelete
    PROVE  TakenChange(Current.id) /\ UNCHANGED used
  <1>1. cur = NoRequest /\ IInv
    BY TakeFacts DEF TakeDelete, EngineInv
  <1>2. DeleteOrder(Current.id)
    BY DEF TakeDelete
  <1>3. CASE Current.id \notin Resting /\ CancelReject(Current.id)
    BY <1>1, <1>2, <1>3 DEF CancelReject, TakenChange, Resting, DeleteOrder
  <1>4. CASE Current.id \in Resting /\ DeleteResting(Current.id)
    BY <1>1, <1>2, <1>4, DeleteRestingEffect DEF TakenChange, DeleteOrder
  <1>5. QED
    BY <1>2, <1>3, <1>4 DEF DeleteOrder

\* What modify_order, called by the broker, does to the ladder.
LEMMA TakeModifyEffect ==
    ASSUME EngineInv, TakeModify
    PROVE  TakenChange(Current.id) /\ UNCHANGED used
  <1>1. /\ cur = NoRequest /\ IInv /\ calls = <<>>
        /\ Current.msg_type = "MODIFY_ORDER" /\ from_client # <<>>
    BY TakeFacts DEF TakeModify, EngineInv
  <1>2. ModifyOrder(Current.id, Current.side, Current.quantity, Current.price)
    BY DEF TakeModify
  <1>3. UNCHANGED used
    BY <1>2 DEF ModifyOrder
  <1>4. CASE Current.id \notin Resting /\ CancelReject(Current.id)
    BY <1>1, <1>3, <1>4 DEF CancelReject, TakenChange, Resting
  <1>5. CASE Current.id \in Resting /\ DeleteResting(Current.id)
    BY <1>1, <1>3, <1>5, DeleteRestingEffect DEF TakenChange
  <1>6. CASE Current.id \in Resting /\ ModifyInPlace(Current.id, Current.side, Current.quantity, Current.price)
    <2>1. Resting' = Resting /\ cur' = NoRequest
      BY <1>1, <1>6 DEF ModifyInPlace, Resting
    <2>2. \E side, q, price : calls' = <<OnModifyOrder(Current.id, side, q, price)>>
      BY <1>6 DEF ModifyInPlace
    <2>3. QED
      BY <2>1, <2>2, <1>1, <1>3, <1>6 DEF TakenChange
  <1>7. CASE /\ Current.id \in Resting /\ orders[Current.id].filled_quantity < Current.quantity
             /\ ModifyAndMove(Current.id, Current.side, Current.quantity, Current.price)
    <2>1. Current.quantity \in Nat
      BY <1>1, CurrentFacts DEF Quantities
    <2>2. orders[Current.id] \in Order
      BY <1>1, <1>7 DEF IInv, TypeOK
    <2>3. orders[Current.id].filled_quantity \in Nat
      BY <2>2 DEF Order
    <2>4. orders[Current.id].flags # "IOC"
      BY <1>1, <1>7 DEF IInv, RestingIsOpen
    <2>5. /\ Unlink(Current.id) /\ calls' = <<>>
          /\ cur' = Incoming("MODIFY", Current.id, Current.side, Current.quantity, Current.price,
                             orders[Current.id].flags, orders[Current.id].filled_quantity)
      BY <1>1, <1>7, <2>1, <2>3, AlwaysUnlinkable DEF ModifyAndMove
    <2>6. Resting' = Resting \ {Current.id}
      BY <2>5, <1>1, <1>7, UnlinkTypes DEF IInv
    <2>7. /\ cur'.id = Current.id /\ cur'.op = "MODIFY" /\ cur'.flags # "IOC" /\ cur' # NoRequest
          /\ cur'.quantity = Current.quantity - orders[Current.id].filled_quantity
      BY <2>4, <2>5 DEF Incoming, NoRequest
    <2>8. cur'.quantity > 0
      BY <2>1, <2>3, <2>7, <1>7
    <2>9. QED
      BY <2>5, <2>6, <2>7, <2>8, <1>1, <1>3, <1>7 DEF TakenChange
  <1>8. QED
    BY <1>2, <1>4, <1>5, <1>6, <1>7 DEF ModifyOrder

\* Taking a delete or a modify keeps the invariant.
LEMMA TakeChangeKeeps ==
    ASSUME EngineInv, IInv', NEW type \in {"DELETE_ORDER", "MODIFY_ORDER"}, Take(type),
           TakenChange(Current.id),
           UNCHANGED <<used, from_client, to_client, owner, queued_trades, submitter, closed>>,
           resized' \subseteq used
    PROVE  EngineInv'
  <1>1. /\ busy' /\ UNCHANGED fills
        /\ from_client # <<>> /\ Current.msg_type = type
        /\ calls = <<>> /\ cur = NoRequest
        /\ \A id \in used : id \in closed <=> id \notin Resting
    BY TakeFacts
  <1>2. Current' = Current
    BY DEF Current
  <1>3. PICK id : id = Current.id
    OBVIOUS
  <1>4. id \in used
    BY <1>1, <1>3, CurrentFacts
  <1>5. BrokerTypes'
    BY <1>1 DEF EngineInv, BrokerTypes
  <1>6. QueueInv'
    BY <1>1, CurrentFacts, TakeQueueInv DEF IsNew
  <1>7. OwnerInv'
    BY DEF EngineInv, OwnerInv
  <1>8. RequestInv' /\ CallsInv' /\ ClosedInv'
    <2>1. CASE /\ id \notin Resting /\ Resting' = Resting
               /\ calls' = <<OnCancelReject(id)>> /\ cur' = NoRequest
      <3>1. PICK c : c = OnCancelReject(id)
        OBVIOUS
      <3>2. c.id = id /\ c.fn = "onCancelReject"
        BY <3>1 DEF OnCancelReject
      <3>3. calls' = <<c>> /\ Len(calls') = 1 /\ calls'[1] = c /\ DOMAIN calls' = {1}
        BY <2>1, <3>1
      <3>4. RequestInv'
        BY <2>1, <1>1 DEF RequestInv
      <3>5. CallsInv'
        BY <2>1, <3>2, <3>3, <1>1, <1>2, <1>3, <1>4 DEF CallsInv, Ending
      <3>6. \A x : ~Closing(x)' /\ ~Taker(x)'
        BY <3>2, <3>3, <2>1 DEF Closing, ClosingCall, Taker
      <3>7. QED
        BY <3>4, <3>5, <3>6, <2>1, <1>1 DEF ClosedInv
    <2>2. CASE /\ id \in Resting /\ Resting' = Resting \ {id}
               /\ calls' = <<OnDeleteOrder(id, TRUE)>> /\ cur' = NoRequest
      <3>1. PICK c : c = OnDeleteOrder(id, TRUE)
        OBVIOUS
      <3>2. c.id = id /\ c.fn = "onDeleteOrder"
        BY <3>1 DEF OnDeleteOrder
      <3>3. calls' = <<c>> /\ Len(calls') = 1 /\ calls'[1] = c /\ DOMAIN calls' = {1}
        BY <2>2, <3>1
      <3>4. RequestInv'
        BY <2>2, <1>1 DEF RequestInv
      <3>5. CallsInv'
        BY <2>2, <3>2, <3>3, <1>1, <1>2, <1>3, <1>4 DEF CallsInv, Ending
      <3>6. \A x : (Closing(x)' <=> x = id) /\ ~Taker(x)'
        BY <3>2, <3>3, <2>2 DEF Closing, ClosingCall, Taker
      <3>7. QED
        BY <3>4, <3>5, <3>6, <2>2, <1>1, <1>4 DEF ClosedInv
    <2>3. CASE /\ Current.msg_type = "MODIFY_ORDER" /\ cur' = NoRequest
               /\ id \in Resting /\ Resting' = Resting
               /\ \E side, q, price : calls' = <<OnModifyOrder(id, side, q, price)>>
      <3>1. PICK side, q, price : calls' = <<OnModifyOrder(id, side, q, price)>>
        BY <2>3
      <3>2. PICK c : c = OnModifyOrder(id, side, q, price)
        OBVIOUS
      <3>3. c.id = id /\ c.fn = "onModifyOrder"
        BY <3>2 DEF OnModifyOrder
      <3>4. calls' = <<c>> /\ Len(calls') = 1 /\ calls'[1] = c /\ DOMAIN calls' = {1}
        BY <3>1, <3>2
      <3>5. RequestInv'
        BY <2>3, <1>1 DEF RequestInv
      <3>6. CallsInv'
        BY <2>3, <3>3, <3>4, <1>1, <1>2, <1>3, <1>4 DEF CallsInv, Ending
      <3>7. \A x : ~Closing(x)' /\ ~Taker(x)'
        BY <3>3, <3>4, <2>3 DEF Closing, ClosingCall, Taker
      <3>8. QED
        BY <3>5, <3>6, <3>7, <2>3, <1>1 DEF ClosedInv
    <2>4. CASE /\ Current.msg_type = "MODIFY_ORDER"
               /\ id \in Resting /\ Resting' = Resting \ {id}
               /\ calls' = <<>> /\ cur' # NoRequest /\ cur'.id = id /\ cur'.op = "MODIFY"
               /\ cur'.flags # "IOC" /\ cur'.quantity > 0
      <3>1. RequestInv' /\ CallsInv'
        BY <2>4, <1>1, <1>2, <1>3 DEF RequestInv, CallsInv
      <3>2. \A x : ~Closing(x)' /\ (Taker(x)' <=> x = id)
        BY <2>4 DEF Closing, Taker
      <3>3. QED
        BY <3>1, <3>2, <2>4, <1>1 DEF ClosedInv
    <2>5. QED
      BY <2>1, <2>2, <2>3, <2>4, <1>3 DEF TakenChange
  <1>9. QED
    BY <1>5, <1>6, <1>7, <1>8 DEF EngineInv

\* Dispatching a DELETE_ORDER keeps the invariant.
LEMMA TakeDeleteKeeps ==
    ASSUME EngineInv, TakeDelete
    PROVE  EngineInv'
  <1>1. IInv'
    BY LadderKept DEF EngineNext, BrokerStep
  <1>2. TakenChange(Current.id) /\ UNCHANGED used
    BY TakeDeleteEffect
  <1>3. Take("DELETE_ORDER") /\ UNCHANGED <<from_client, to_client, owner, queued_trades, submitter, closed, resized>>
    BY DEF TakeDelete, historyVars
  <1>4. resized' \subseteq used
    BY <1>3 DEF EngineInv, BrokerTypes
  <1>5. QED
    BY <1>1, <1>2, <1>3, <1>4, TakeChangeKeeps

\* Dispatching a MODIFY_ORDER keeps the invariant.
LEMMA TakeModifyKeeps ==
    ASSUME EngineInv, TakeModify
    PROVE  EngineInv'
  <1>1. IInv'
    BY LadderKept DEF EngineNext, BrokerStep
  <1>2. TakenChange(Current.id) /\ UNCHANGED used
    BY TakeModifyEffect
  <1>3. Take("MODIFY_ORDER") /\ UNCHANGED <<from_client, to_client, owner, queued_trades, submitter, closed>>
    BY DEF TakeModify
  <1>4. Current.id \in used
    BY <1>3, TakeFacts, CurrentFacts
  <1>5. resized' \subseteq used
    BY <1>4 DEF EngineInv, BrokerTypes, TakeModify
  <1>6. QED
    BY <1>1, <1>2, <1>3, <1>5, TakeChangeKeeps

\* A reject on its way back to the client.
LEMMA TakeRejectKeeps ==
    ASSUME EngineInv, TakeReject
    PROVE  EngineInv'
  <1>1. /\ ~busy /\ busy' /\ UNCHANGED fills
        /\ from_client # <<>> /\ Current.msg_type = "REJECT"
        /\ calls = <<>> /\ cur = NoRequest
    BY TakeFacts DEF TakeReject
  <1>2. UNCHANGED <<vars, from_client, owner, queued_trades, view, submitter, closed, resized>>
    BY DEF TakeReject, historyVars
  <1>3. UNCHANGED <<orders, cur, calls, used>> /\ Resting' = Resting /\ Current' = Current
    BY <1>2 DEF vars, Resting, Current
  <1>4. IInv'
    BY LadderKept DEF EngineNext, BrokerStep
  <1>5. BrokerTypes'
    <2>1. ReportOf("REJECT", Current.id, Current.client, "NONE") \in Report
      BY <1>1, CurrentFacts DEF ReportOf, Report
    <2>2. to_client' \in Seq(Report) /\ Len(to_client') <= QueueCapacity
      BY <2>1, EmplaceTypes DEF TakeReject, EngineInv
    <2>3. QED
      BY <2>2, <1>1, <1>2, <1>3 DEF EngineInv, BrokerTypes
  <1>6. QueueInv'
    BY <1>1, <1>2, <1>3, CurrentFacts, TakeQueueInv DEF IsNew
  <1>7. OwnerInv'
    BY <1>2, <1>3 DEF EngineInv, OwnerInv
  <1>8. RequestInv' /\ CallsInv'
    BY <1>1, <1>3 DEF RequestInv, CallsInv
  <1>9. ClosedInv'
    BY <1>2, <1>3 DEF EngineInv, ClosedInv, Closing, Taker
  <1>10. QED
    BY <1>4, <1>5, <1>6, <1>7, <1>8, <1>9 DEF EngineInv

-----------------------------------------------------------------------------
(* The ladder's own steps. *)

\* The callbacks of a trade of q at price between the resting order id and the taker:
\* f and g are their flags.
Trades(id, q, price, f, g) ==
    /\ calls' = <<OnTrade(id, q, price), OnFill(id, Opposite(cur.side), q, price, f, FALSE),
                  OnFill(cur.id, cur.side, q, price, g, TRUE)>>
    /\ f \in FillFlags /\ g \in FillFlags
    /\ f = "CLOSED" <=> id \notin Resting'
    /\ g = "CLOSED" <=> cur'.quantity = 0
    /\ f # "CLOSED" => g = "CLOSED"
    /\ Resting' = IF f = "CLOSED" THEN Resting \ {id} ELSE Resting

\* One turn of match(): the taker trades with a resting order, and one of them is filled.
LEMMA MatchEffect ==
    ASSUME IInv, Match
    PROVE  /\ cur # NoRequest /\ cur.quantity > 0 /\ calls = <<>> /\ UNCHANGED used
           /\ cur' # NoRequest /\ cur'.id = cur.id /\ cur'.side = cur.side
           /\ cur'.op = cur.op /\ cur'.flags = cur.flags /\ cur'.quantity \in Nat
           /\ \E id \in Resting, q \in Nat, price \in Prices, f \in FillFlags, g \in FillFlags : Trades(id, q, price, f, g)
  <1>1. cur # NoRequest /\ calls = <<>>
    BY DEF Match, Matching, Ready
  <1>2. PICK p \in MatchPrices : LET id == levels[Opposite(cur.side)][p].head
                                 IN  MatchFully(id) \/ MatchPartly(id)
    BY DEF Match
  <1>3. PICK id : id = levels[Opposite(cur.side)][p].head
    OBVIOUS
  <1>4. /\ p \in Prices /\ id \in Resting
        /\ orders[id].side = Opposite(cur.side) /\ orders[id].price = p /\ orders[id] \in Order
    BY <1>1, <1>3, MatchHead DEF IInv
  <1>5. cur \in Request /\ cur.quantity \in Nat /\ cur.quantity > 0
    BY <1>1, RequestTypes DEF IInv, MatchPrices
  <1>6. orders[id].quantity \in Nat
    BY <1>4 DEF Order
  <1>7. CASE MatchFully(id)
    <2>1. PICK left, g : left = cur.quantity - orders[id].quantity
                         /\ g = (IF left > 0 THEN "PARTIAL_FILL" ELSE "CLOSED")
      OBVIOUS
    <2>2. /\ orders[id].quantity <= cur.quantity /\ Unlink(id)
          /\ cur' = [cur EXCEPT !.quantity = left]
          /\ calls' = TradeCalls(id, orders[id], orders[id].quantity, "CLOSED", g)
          /\ UNCHANGED used
      BY <1>4, <1>7, <2>1, AlwaysUnlinkable DEF MatchFully
    <2>3. left \in Nat
      BY <2>1, <2>2, <1>5, <1>6
    <2>4. cur' \in Request /\ cur'.quantity = left /\ cur'.id = cur.id /\ cur'.side = cur.side
          /\ cur'.op = cur.op /\ cur'.flags = cur.flags
      BY <2>2, <2>3, <1>5 DEF Request
    <2>5. cur' # NoRequest
      BY <2>4 DEF Request, NoRequest
    <2>6. Resting' = Resting \ {id}
      BY <2>2, <1>4, UnlinkTypes DEF IInv
    <2>7. g = "CLOSED" <=> left = 0
      BY <2>1, <2>3
    <2>8. Trades(id, orders[id].quantity, p, "CLOSED", g) /\ "CLOSED" \in FillFlags /\ g \in FillFlags
      BY <2>1, <2>2, <2>4, <2>6, <2>7, <1>4 DEF Trades, TradeCalls, FillFlags
    <2>9. QED
      BY <1>1, <1>4, <1>5, <1>6, <2>2, <2>3, <2>4, <2>5, <2>8
  <1>8. CASE MatchPartly(id)
    <2>1. /\ orders' = [orders EXCEPT ![id].quantity = @ - cur.quantity,
                                      ![id].filled_quantity = @ + cur.quantity]
          /\ cur' = [cur EXCEPT !.quantity = 0]
          /\ calls' = TradeCalls(id, orders[id], cur.quantity, "PARTIAL_FILL", "CLOSED")
          /\ UNCHANGED used
      BY <1>8 DEF MatchPartly
    <2>2. Resting' = Resting
      BY <2>1 DEF Resting
    <2>3. cur' \in Request /\ cur'.quantity = 0 /\ cur'.id = cur.id /\ cur'.side = cur.side
          /\ cur'.op = cur.op /\ cur'.flags = cur.flags
      BY <2>1, <1>5 DEF Request
    <2>4. cur' # NoRequest
      BY <2>3 DEF Request, NoRequest
    <2>5. /\ Trades(id, cur.quantity, p, "PARTIAL_FILL", "CLOSED")
          /\ "PARTIAL_FILL" \in FillFlags /\ "CLOSED" \in FillFlags
      BY <2>1, <2>2, <2>3, <1>4 DEF Trades, TradeCalls, FillFlags
    <2>6. QED
      BY <1>1, <1>4, <1>5, <2>1, <2>3, <2>4, <2>5
  <1>9. QED
    BY <1>2, <1>3, <1>7, <1>8

\* What a step of the ladder leaves alone in the broker.
LEMMA LadderStepFrame ==
    ASSUME EngineInv, LadderStep, UNCHANGED used
    PROVE  BrokerTypes' /\ QueueInv' /\ OwnerInv' /\ Current' = Current /\ busy' = busy
           /\ closed' = closed /\ fills' = fills
  <1>1. UNCHANGED <<from_client, to_client, busy, owner, queued_trades, view, fills, submitter, closed, resized>>
    BY DEF LadderStep, brokerVars, outVars, historyVars
  <1>2. Current' = Current
    BY <1>1 DEF Current
  <1>3. BrokerTypes'
    BY <1>1 DEF EngineInv, BrokerTypes
  <1>4. QueueInv'
    BY <1>1, <1>2 DEF EngineInv, QueueInv, IsNew, IsChange
  <1>5. OwnerInv'
    BY <1>1 DEF EngineInv, OwnerInv
  <1>6. QED
    BY <1>1, <1>2, <1>3, <1>4, <1>5

\* The fields of the callbacks of a trade.
LEMMA TradesFields ==
    ASSUME NEW id, NEW q, NEW price, NEW f, NEW g, Trades(id, q, price, f, g)
    PROVE  /\ Len(calls') = 3 /\ DOMAIN calls' = 1..3
           /\ calls'[1].fn = "onTrade" /\ calls'[1].quantity = q /\ calls'[1].price = price
           /\ calls'[1].id = id
           /\ calls'[2].fn = "onFill" /\ calls'[2].active = FALSE /\ calls'[2].id = id
           /\ calls'[2].side = Opposite(cur.side)
           /\ calls'[2].quantity = q /\ calls'[2].price = price /\ calls'[2].flags = f
           /\ calls'[3].fn = "onFill" /\ calls'[3].active = TRUE /\ calls'[3].id = cur.id
           /\ calls'[3].side = cur.side
           /\ calls'[3].quantity = q /\ calls'[3].price = price /\ calls'[3].flags = g
  <1>1. PICK a, b, c : /\ a = OnTrade(id, q, price)
                       /\ b = OnFill(id, Opposite(cur.side), q, price, f, FALSE)
                       /\ c = OnFill(cur.id, cur.side, q, price, g, TRUE)
    OBVIOUS
  <1>2. calls' = <<a, b, c>>
    BY <1>1 DEF Trades
  <1>3. /\ Len(calls') = 3 /\ DOMAIN calls' = 1..3
        /\ calls'[1] = a /\ calls'[2] = b /\ calls'[3] = c
    BY <1>2
  <1>4. a.fn = "onTrade" /\ a.quantity = q /\ a.price = price /\ a.id = id
    BY <1>1 DEF OnTrade
  <1>5. /\ b.fn = "onFill" /\ b.active = FALSE /\ b.id = id /\ b.side = Opposite(cur.side)
        /\ b.quantity = q /\ b.price = price /\ b.flags = f
    BY <1>1 DEF OnFill
  <1>6. /\ c.fn = "onFill" /\ c.active = TRUE /\ c.id = cur.id /\ c.side = cur.side
        /\ c.quantity = q /\ c.price = price /\ c.flags = g
    BY <1>1 DEF OnFill
  <1>7. QED
    BY <1>3, <1>4, <1>5, <1>6

\* A trade keeps the invariant: its two fills are left to report, in their order.
LEMMA MatchKeeps ==
    ASSUME EngineInv, LadderStep, Match
    PROVE  EngineInv'
  <1>1. IInv'
    BY LadderKept DEF EngineNext, BrokerStep
  <1>2. /\ cur # NoRequest /\ cur.quantity > 0 /\ calls = <<>> /\ UNCHANGED used
        /\ cur' # NoRequest /\ cur'.id = cur.id /\ cur'.side = cur.side
        /\ cur'.op = cur.op /\ cur'.flags = cur.flags /\ cur'.quantity \in Nat
        /\ \E id \in Resting, q \in Nat, price \in Prices, f \in FillFlags, g \in FillFlags : Trades(id, q, price, f, g)
    BY MatchEffect DEF EngineInv
  <1>3. /\ BrokerTypes' /\ QueueInv' /\ OwnerInv' /\ Current' = Current /\ busy' = busy
        /\ closed' = closed /\ fills' = fills
    BY <1>2, LadderStepFrame
  <1>4. PICK id \in Resting, q \in Nat, price \in Prices, f \in FillFlags, g \in FillFlags : Trades(id, q, price, f, g)
    BY <1>2
  <1>5. /\ f = "CLOSED" <=> id \notin Resting'
        /\ g = "CLOSED" <=> cur'.quantity = 0
        /\ f # "CLOSED" => g = "CLOSED"
        /\ Resting' = IF f = "CLOSED" THEN Resting \ {id} ELSE Resting
    BY <1>4 DEF Trades
  <1>6. /\ cur.id \in used /\ cur.id \notin Resting /\ id \in used /\ id # cur.id
    BY <1>2, RequestTypes DEF EngineInv, IInv, TypeOK
  <1>7. \A x \in used : x \in closed <=> x \notin Resting /\ x # cur.id
    BY <1>2 DEF EngineInv, ClosedInv, Closing, Taker
  <1>8. RequestInv'
    BY <1>2, <1>3 DEF EngineInv, RequestInv
  <1>9. CallsInv'
    <2>0. /\ Len(calls') = 3 /\ DOMAIN calls' = 1..3
           /\ calls'[1].fn = "onTrade" /\ calls'[1].quantity = q /\ calls'[1].price = price
           /\ calls'[1].id = id
           /\ calls'[2].fn = "onFill" /\ calls'[2].active = FALSE /\ calls'[2].id = id
           /\ calls'[2].side = Opposite(cur.side)
           /\ calls'[2].quantity = q /\ calls'[2].price = price /\ calls'[2].flags = f
           /\ calls'[3].fn = "onFill" /\ calls'[3].active = TRUE /\ calls'[3].id = cur.id
           /\ calls'[3].side = cur.side
           /\ calls'[3].quantity = q /\ calls'[3].price = price /\ calls'[3].flags = g
      BY <1>4, TradesFields, ZenonT(60)
    <2>1. Active' = calls'[3] /\ Opposite(cur.side)' = Opposite(cur.side)
      BY <2>0, <1>2 DEF Active, Opposite
    <2>2. PICK p : p = calls'[2]
      OBVIOUS
    <2>3. PassiveFill(p)'
      BY <2>0, <2>1, <2>2, <1>2, <1>3, <1>5, <1>6, <1>7 DEF PassiveFill
    <2>4. PassiveFill(calls[Len(calls) - 1])'
      BY <2>0, <2>2, <2>3 DEF PassiveFill
    <2>5. InTrade'
      BY <2>0, <2>1, <2>4, <1>2, <1>3, <1>5, <1>6, <1>7 DEF InTrade
    <2>6. QED
      BY <2>5 DEF CallsInv
  <1>10. ClosedInv'
    <2>1. ASSUME NEW x PROVE Closing(x)' <=> (x = id /\ f = "CLOSED") \/ (x = cur.id /\ g = "CLOSED")
      <3>1. ~ClosingCall(calls'[1], x)
        BY <1>4, TradesFields DEF ClosingCall
      <3>2. ClosingCall(calls'[2], x) <=> x = id /\ f = "CLOSED"
        <4>1. calls'[2].fn = "onFill" /\ calls'[2].id = id /\ calls'[2].flags = f
          BY <1>4, TradesFields, ZenonT(60)
        <4>2. QED
          BY <4>1 DEF ClosingCall
      <3>3. ClosingCall(calls'[3], x) <=> x = cur.id /\ g = "CLOSED"
        <4>1. calls'[3].fn = "onFill" /\ calls'[3].id = cur.id /\ calls'[3].flags = g
          BY <1>4, TradesFields, ZenonT(60)
        <4>2. QED
          BY <4>1 DEF ClosingCall
      <3>4. DOMAIN calls' = 1..3
        BY <1>4, TradesFields
      <3>5. Closing(x)' <=> \E i \in 1..3 : ClosingCall(calls'[i], x)
        BY <3>4 DEF Closing, ClosingCall
      <3>6. QED
        BY <3>1, <3>2, <3>3, <3>5
    <2>2. \A x : Taker(x)' <=> x = cur.id /\ cur'.quantity # 0
      BY <1>2 DEF Taker
    <2>3. QED
      BY <2>1, <2>2, <1>2, <1>3, <1>5, <1>6, <1>7 DEF ClosedInv
  <1>11. QED
    BY <1>1, <1>3, <1>8, <1>9, <1>10 DEF EngineInv

\* The request is over and at most one callback is left.
Finishes ==
    /\ cur # NoRequest /\ calls = <<>> /\ cur' = NoRequest /\ UNCHANGED used
    /\ \/ calls' = <<>> /\ Resting' = Resting /\ cur.quantity = 0 /\ cur.op = "NEW"
       \/ \E c : /\ calls' = <<c>> /\ c.id = cur.id
                 /\ \/ /\ c.fn = "onNewOrder" /\ cur.op = "NEW"
                       /\ Resting' = IF cur.quantity > 0 THEN Resting \cup {cur.id} ELSE Resting
                    \/ /\ c.fn = "onModifyOrder" /\ cur.op = "MODIFY" /\ cur.quantity > 0
                       /\ Resting' = Resting \cup {cur.id}
                    \/ /\ c.fn = "onDeleteOrder" /\ Resting' = Resting
                       /\ cur.op = "NEW" => cur.quantity > 0

\* A resting remainder, or an order that is gone, ends its request.
LEMMA FinishEffect ==
    ASSUME EngineInv, IInv', FinishWithoutResting \/ FinishResting
    PROVE  Finishes
  <1>1. cur # NoRequest /\ calls = <<>>
    BY DEF FinishWithoutResting, FinishResting, Matching, Ready
  <1>2. cur.quantity \in Nat /\ cur.op \in {"NEW", "MODIFY"}
    BY <1>1, RequestTypes DEF EngineInv, IInv
  <1>3. cur.op = "MODIFY" => cur.flags # "IOC"
    BY <1>1 DEF EngineInv, RequestInv
  <1>4. /\ OnNewOrder(cur.id, cur.side, cur.quantity, cur.price, cur.flags).id = cur.id
        /\ OnNewOrder(cur.id, cur.side, cur.quantity, cur.price, cur.flags).fn = "onNewOrder"
        /\ OnModifyOrder(cur.id, cur.side, cur.quantity, cur.price).id = cur.id
        /\ OnModifyOrder(cur.id, cur.side, cur.quantity, cur.price).fn = "onModifyOrder"
        /\ \A b : OnDeleteOrder(cur.id, b).id = cur.id /\ OnDeleteOrder(cur.id, b).fn = "onDeleteOrder"
    BY DEF OnNewOrder, OnModifyOrder, OnDeleteOrder
  <1>5. CASE FinishWithoutResting
    <2>1. /\ cur' = NoRequest /\ calls' = FinishCalls /\ UNCHANGED <<orders, used>>
          /\ cur.quantity = 0 \/ cur.flags = "IOC"
      BY <1>5 DEF FinishWithoutResting
    <2>2. Resting' = Resting
      BY <2>1 DEF Resting
    <2>3. CASE cur.op = "NEW" /\ cur.flags # "IOC"
      <3>1. calls' = <<OnNewOrder(cur.id, cur.side, cur.quantity, cur.price, cur.flags)>>
        BY <2>1, <2>3 DEF FinishCalls
      <3>2. cur.quantity = 0
        BY <2>1, <2>3
      <3>3. QED
        BY <3>1, <3>2, <2>1, <2>2, <2>3, <1>1, <1>4 DEF Finishes
    <2>4. CASE cur.op = "NEW" /\ cur.flags = "IOC"
      <3>1. calls' = IF cur.quantity > 0 THEN <<OnDeleteOrder(cur.id, FALSE)>> ELSE <<>>
        BY <2>1, <2>4 DEF FinishCalls
      <3>2. CASE cur.quantity > 0
        BY <3>1, <3>2, <2>1, <2>2, <2>4, <1>1, <1>4 DEF Finishes
      <3>3. CASE cur.quantity = 0
        <4>1. calls' = <<>>
          BY <3>1, <3>3
        <4>2. QED
          BY <3>3, <4>1, <2>1, <2>2, <2>4, <1>1 DEF Finishes
      <3>4. QED
        BY <3>2, <3>3, <1>2
    <2>5. CASE cur.op = "MODIFY"
      <3>1. cur.quantity = 0
        BY <2>1, <2>5, <1>3
      <3>2. calls' = <<OnDeleteOrder(cur.id, TRUE)>>
        <4>1. ~(cur.op = "NEW" /\ cur.flags # "IOC") /\ ~(cur.op = "NEW" /\ cur.flags = "IOC")
          BY <2>5
        <4>2. ~(cur.quantity > 0)
          BY <3>1
        <4>3. QED
          BY <2>1, <2>5, <4>1, <4>2, Zenon DEF FinishCalls
      <3>3. QED
        BY <3>2, <2>1, <2>2, <2>5, <1>1, <1>4 DEF Finishes
    <2>6. QED
      BY <2>3, <2>4, <2>5, <1>2
  <1>6. CASE FinishResting
    <2>1. ~failed'
      BY DEF IInv, NeverThrows
    <2>2. /\ Link /\ cur' = NoRequest /\ calls' = FinishCalls /\ UNCHANGED used
          /\ cur.quantity > 0 /\ cur.flags # "IOC"
      BY <1>6, <2>1 DEF FinishResting, Throw
    <2>3. Resting' = Resting \cup {cur.id}
      BY <2>2, <1>1, LinkTypes DEF EngineInv, IInv
    <2>4. CASE cur.op = "NEW"
      <3>1. calls' = <<OnNewOrder(cur.id, cur.side, cur.quantity, cur.price, cur.flags)>>
        BY <2>2, <2>4 DEF FinishCalls
      <3>2. QED
        BY <3>1, <2>2, <2>3, <2>4, <1>1, <1>4 DEF Finishes
    <2>5. CASE cur.op = "MODIFY"
      <3>1. calls' = <<OnModifyOrder(cur.id, cur.side, cur.quantity, cur.price)>>
        BY <2>2, <2>5 DEF FinishCalls
      <3>2. QED
        BY <3>1, <2>2, <2>3, <2>5, <1>1, <1>4 DEF Finishes
    <2>6. QED
      BY <2>4, <2>5, <1>2
  <1>7. QED
    BY <1>5, <1>6

\* The end of a request keeps the invariant: an order that neither rests nor trades any
\* more is closed or about to be.
LEMMA FinishKeeps ==
    ASSUME EngineInv, LadderStep, FinishWithoutResting \/ FinishResting
    PROVE  EngineInv'
  <1>1. IInv'
    BY LadderKept DEF EngineNext, BrokerStep
  <1>2. Finishes
    BY <1>1, FinishEffect
  <1>3. /\ BrokerTypes' /\ QueueInv' /\ OwnerInv' /\ Current' = Current /\ busy' = busy
        /\ closed' = closed /\ fills' = fills
    BY <1>2, LadderStepFrame DEF Finishes
  <1>4. /\ cur # NoRequest /\ calls = <<>> /\ cur' = NoRequest /\ used' = used
    BY <1>2 DEF Finishes
  <1>5. /\ cur.id \in used /\ cur.id \notin Resting /\ cur.quantity \in Nat
        /\ cur.op \in {"NEW", "MODIFY"}
    BY <1>4, RequestTypes DEF EngineInv, IInv
  <1>6. /\ busy /\ cur.id = Current.id
        /\ Current.msg_type = IF cur.op = "NEW" THEN "NEW_ORDER" ELSE "MODIFY_ORDER"
    BY <1>4 DEF EngineInv, RequestInv
  <1>7. \A x \in used : x \in closed <=> x \notin Resting /\ ~(x = cur.id /\ cur.quantity > 0)
    BY <1>4 DEF EngineInv, ClosedInv, Closing, Taker
  <1>8. RequestInv'
    BY <1>3, <1>4, <1>6 DEF RequestInv
  <1>9. \A x : ~Taker(x)'
    BY <1>4 DEF Taker
  <1>10. CASE calls' = <<>> /\ Resting' = Resting /\ cur.quantity = 0 /\ cur.op = "NEW"
    <2>1. \A x : ~Closing(x)'
      BY <1>10 DEF Closing
    <2>2. CallsInv' /\ ClosedInv'
      BY <2>1, <1>3, <1>4, <1>7, <1>9, <1>10 DEF CallsInv, ClosedInv
    <2>3. QED
      BY <2>2, <1>1, <1>3, <1>8 DEF EngineInv
  <1>11. ASSUME NEW c, calls' = <<c>>, c.id = cur.id,
               \/ /\ c.fn = "onNewOrder" /\ cur.op = "NEW"
                  /\ Resting' = IF cur.quantity > 0 THEN Resting \cup {cur.id} ELSE Resting
               \/ /\ c.fn = "onModifyOrder" /\ cur.op = "MODIFY" /\ cur.quantity > 0
                  /\ Resting' = Resting \cup {cur.id}
               \/ /\ c.fn = "onDeleteOrder" /\ Resting' = Resting
                  /\ cur.op = "NEW" => cur.quantity > 0
        PROVE  EngineInv'
    <2>1. Len(calls') = 1 /\ calls'[1] = c /\ DOMAIN calls' = {1}
      BY <1>11
    <2>2. Ending'
      BY <2>1, <1>3, <1>4, <1>5, <1>6, <1>7, <1>11 DEF Ending
    <2>3. \A x : Closing(x)' <=> ClosingCall(c, x)
      BY <2>1 DEF Closing, ClosingCall
    <2>4. ClosedInv'
      BY <2>3, <1>3, <1>4, <1>5, <1>7, <1>9, <1>11 DEF ClosedInv, ClosingCall
    <2>5. QED
      BY <2>2, <2>4, <1>1, <1>3, <1>8 DEF EngineInv, CallsInv
  <1>12. QED
    BY <1>2, <1>10, <1>11 DEF Finishes

-----------------------------------------------------------------------------
(* The callbacks. *)

\* One callback: it leaves the list, and closes the order it reports as closed.
LEMMA CallbackEffect ==
    ASSUME EngineInv, Callbacks
    PROVE  /\ calls # <<>> /\ RunCallback
           /\ calls' = Tail(calls) /\ UNCHANGED <<orders, levels, cur, failed, used, ahead>>
           /\ UNCHANGED <<from_client, busy, owner, submitter, resized>>
           /\ closed' = {x \in used : x \in closed \/ ClosingCall(calls[1], x)}
           /\ \/ RunNewOrder(calls[1]) \/ RunModifyOrder(calls[1]) \/ RunDeleteOrder(calls[1])
              \/ RunCancelReject(calls[1]) \/ RunTrade(calls[1]) \/ RunFill(calls[1])
  <1>1. calls # <<>>
    BY DEF Callbacks
  <1>2. PICK c : c = calls[1]
    OBVIOUS
  <1>3. Head(calls) = c /\ c \in Callback /\ (Ending \/ InTrade)
    BY <1>1, <1>2, CallsFacts
  <1>4. ~OwnerMissing(c)
    BY <1>1, <1>3, OwnerNeverMissing
  <1>5. /\ RunCallback
        /\ \/ RunNewOrder(c) \/ RunModifyOrder(c) \/ RunDeleteOrder(c)
           \/ RunCancelReject(c) \/ RunTrade(c) \/ RunFill(c)
        /\ UNCHANGED <<from_client, busy, owner, submitter, resized>>
    BY <1>3, <1>4 DEF Callbacks
  <1>6. closed \subseteq used
    BY DEF EngineInv, BrokerTypes
  <1>7. ClosingCall(c, c.id) => c.id \in used
    <2>1. CASE Ending
      BY <1>2, <2>1 DEF Ending
    <2>2. CASE InTrade
      <3>1. cur.id \in used
        BY <2>2, RequestTypes DEF InTrade, EngineInv, IInv
      <3>2. Len(calls) \in {1, 2, 3}
        BY <2>2 DEF InTrade
      <3>3. CASE Len(calls) = 1
        BY <1>2, <2>2, <3>1, <3>3 DEF InTrade, Active
      <3>4. CASE Len(calls) = 2
        BY <1>2, <2>2, <3>4 DEF InTrade, PassiveFill
      <3>5. CASE Len(calls) = 3
        BY <1>2, <2>2, <3>5 DEF InTrade, ClosingCall
      <3>6. QED
        BY <3>2, <3>3, <3>4, <3>5
    <2>3. QED
      BY <1>3, <2>1, <2>2
  <1>8. closed' = {x \in used : x \in closed \/ ClosingCall(c, x)}
    <2>1. CASE c.fn = "onDeleteOrder"
      <3>1. closed' = closed \cup {c.id}
        BY <1>5, <2>1 DEF RunNewOrder, RunModifyOrder, RunDeleteOrder, RunCancelReject, RunTrade, RunFill
      <3>2. \A x : ClosingCall(c, x) <=> x = c.id
        BY <2>1 DEF ClosingCall
      <3>3. QED
        BY <3>1, <3>2, <1>6, <1>7
    <2>2. CASE c.fn = "onFill"
      <3>1. closed' = IF c.flags = "CLOSED" THEN closed \cup {c.id} ELSE closed
        BY <1>5, <2>2 DEF RunNewOrder, RunModifyOrder, RunDeleteOrder, RunCancelReject, RunTrade, RunFill
      <3>2. \A x : ClosingCall(c, x) <=> x = c.id /\ c.flags = "CLOSED"
        BY <2>2 DEF ClosingCall
      <3>3. QED
        BY <3>1, <3>2, <1>6, <1>7
    <2>3. CASE c.fn # "onDeleteOrder" /\ c.fn # "onFill"
      <3>1. closed' = closed
        BY <1>5, <2>3 DEF RunNewOrder, RunModifyOrder, RunDeleteOrder, RunCancelReject, RunTrade, RunFill
      <3>2. \A x : ~ClosingCall(c, x)
        BY <2>3 DEF ClosingCall
      <3>3. QED
        BY <3>1, <3>2, <1>6
    <2>4. QED
      BY <2>1, <2>2, <2>3
  <1>9. QED
    BY <1>1, <1>2, <1>5, <1>8 DEF RunCallback

\* The client a fill is reported to is a client.
LEMMA FillClientType ==
    ASSUME EngineInv, calls # <<>>, calls[1].fn = "onFill"
    PROVE  FillClient(calls[1]) \in Clients
  <1>1. calls[1] \in Callback /\ from_client # <<>>
    BY CallsFacts
  <1>2. calls[1].active \in BOOLEAN /\ calls[1].id \in Ids
    BY <1>1, CallbackFields
  <1>3. ActiveClient \in Clients
    BY <1>1, CurrentFacts DEF ActiveClient
  <1>4. ~calls[1].active => owner[OwnerKey(calls[1].id)] # NoClient
    BY <1>1, OwnerNeverMissing, CallsFacts DEF OwnerMissing
  <1>5. OwnerKey(calls[1].id) \in 0..(KeySpace - 1)
    BY <1>2, OwnerKeyType
  <1>6. owner[OwnerKey(calls[1].id)] \in Clients \cup {NoClient}
    BY <1>5 DEF EngineInv, BrokerTypes
  <1>7. QED
    BY <1>3, <1>4, <1>6 DEF FillClient

\* Reports, fills and trades of a callback are well typed.
LEMMA CallbackTypes ==
    ASSUME EngineInv, Callbacks
    PROVE  BrokerTypes'
  <1>1. /\ calls # <<>> /\ UNCHANGED used
        /\ UNCHANGED <<from_client, busy, owner, submitter, resized>>
        /\ closed' = {x \in used : x \in closed \/ ClosingCall(calls[1], x)}
        /\ \/ RunNewOrder(calls[1]) \/ RunModifyOrder(calls[1]) \/ RunDeleteOrder(calls[1])
           \/ RunCancelReject(calls[1]) \/ RunTrade(calls[1]) \/ RunFill(calls[1])
    BY CallbackEffect
  <1>2. PICK c : c = calls[1]
    OBVIOUS
  <1>3. c \in Callback /\ from_client # <<>>
    BY <1>1, <1>2, CallsFacts
  <1>4. c.id \in Ids /\ c.id \in Pointer
    BY <1>3, CallbackFields DEF Pointer
  <1>5. ActiveClient \in Clients
    BY <1>3, CurrentFacts DEF ActiveClient
  <1>6. BrokerTypes
    BY DEF EngineInv
  <1>7. /\ closed' \subseteq used' /\ resized' \subseteq used'
        /\ from_client' \in Seq(Asked) /\ Len(from_client') <= QueueCapacity
        /\ busy' \in BOOLEAN /\ owner' \in [0..(KeySpace - 1) -> Clients \cup {NoClient}]
        /\ submitter' \in [Ids -> Clients \cup {NoClient}]
    BY <1>1, <1>6 DEF BrokerTypes
  <1>8. ASSUME NEW type \in {"ACK", "CLOSE", "REJECT"}, UNCHANGED <<queued_trades, fills>>,
               Emplace(ReportOf(type, c.id, ActiveClient, "NONE"))
        PROVE  BrokerTypes'
    <2>1. ReportOf(type, c.id, ActiveClient, "NONE") \in Report
      BY <1>4, <1>5 DEF ReportOf, Report
    <2>2. to_client' \in Seq(Report) /\ Len(to_client') <= QueueCapacity
      BY <2>1, <1>6, <1>8, EmplaceTypes
    <2>3. QED
      BY <2>2, <1>6, <1>7, <1>8 DEF BrokerTypes
  <1>9. CASE RunTrade(c)
    <2>1. c.quantity \in Nat /\ c.price \in Prices
      BY <1>3, <1>9, CallbackFields DEF RunTrade
    <2>2. [id |-> c.id, quantity |-> c.quantity, price |-> c.price] \in Traded
      BY <2>1, <1>4 DEF Traded
    <2>3. queued_trades' \in Seq(Traded)
      BY <2>2, <1>6, <1>9 DEF BrokerTypes, RunTrade
    <2>4. QED
      BY <2>3, <1>6, <1>7, <1>9 DEF BrokerTypes, RunTrade
  <1>10. CASE RunFill(c)
    <2>1. c.fn = "onFill"
      BY <1>10 DEF RunFill
    <2>2. /\ c.side \in Side /\ c.quantity \in Nat /\ c.price \in Prices /\ c.flags \in FillFlags
      BY <1>3, <2>1, CallbackFields
    <2>3. PICK client : client = FillClient(c)
      OBVIOUS
    <2>4. client \in Clients
      BY <1>1, <1>2, <2>1, <2>3, FillClientType
    <2>5. ReportOf("FILL", c.id, client, c.flags) \in Report
      BY <1>4, <2>2, <2>4 DEF ReportOf, Report
    <2>6. to_client' \in Seq(Report) /\ Len(to_client') <= QueueCapacity
      BY <1>6, <1>10, <2>3, <2>5, EmplaceTypes DEF RunFill
    <2>7. [id |-> c.id, client |-> client, side |-> c.side, quantity |-> c.quantity,
           price |-> c.price] \in Filled
      BY <1>4, <2>2, <2>4 DEF Filled
    <2>8. fills' \in Seq(Filled)
      BY <2>3, <2>7, <1>6, <1>10 DEF BrokerTypes, RunFill
    <2>9. QED
      BY <2>6, <2>8, <1>6, <1>7, <1>10 DEF BrokerTypes, RunFill
  <1>11. QED
    BY <1>1, <1>2, <1>8, <1>9, <1>10 DEF RunNewOrder, RunModifyOrder, RunDeleteOrder, RunCancelReject

\* A callback of a trade leaves the next ones to run.
LEMMA TradeCallbackKeeps ==
    ASSUME EngineInv, Callbacks, InTrade
    PROVE  CallsInv'
  <1>1. /\ calls # <<>> /\ calls' = Tail(calls) /\ UNCHANGED <<orders, cur, used>>
        /\ closed' = {x \in used : x \in closed \/ ClosingCall(calls[1], x)}
        /\ \/ RunNewOrder(calls[1]) \/ RunModifyOrder(calls[1]) \/ RunDeleteOrder(calls[1])
           \/ RunCancelReject(calls[1]) \/ RunTrade(calls[1]) \/ RunFill(calls[1])
    BY CallbackEffect
  <1>2. /\ Len(calls) \in 1..3 /\ Len(calls') = Len(calls) - 1
        /\ \A i \in 1..(Len(calls) - 1) : calls'[i] = calls[i + 1]
        /\ Len(calls) = 1 <=> calls' = <<>>
    BY <1>1, CallsFacts
  <1>3. Resting' = Resting
    BY <1>1 DEF Resting
  <1>4. CASE Len(calls) = 1
    BY <1>2, <1>4 DEF CallsInv
  <1>5. CASE Len(calls) = 2
    <2>1. Len(calls') = 1 /\ calls'[1] = calls[2]
      BY <1>2, <1>5
    <2>2. Active' = calls[2] /\ Active = calls[2]
      BY <1>5, <2>1 DEF Active
    <2>3. PICK p : p = calls[1]
      OBVIOUS
    <2>4. /\ p.fn = "onFill" /\ p.id \in used \ (closed \cup {cur.id})
          /\ p.flags = "CLOSED" <=> p.id \notin Resting
          /\ p.flags # "CLOSED" => Active.flags = "CLOSED"
      BY <1>5, <2>3 DEF InTrade, PassiveFill
    <2>5. \A x \in closed' : x \in closed \/ x = p.id
      BY <1>1, <2>3 DEF ClosingCall
    <2>6. fills' # <<>> /\ fills'[Len(fills')].id = p.id
      <3>1. PICK f : fills' = Append(fills, f) /\ f.id = p.id
        BY <1>1, <2>3, <2>4 DEF RunNewOrder, RunModifyOrder, RunDeleteOrder, RunCancelReject, RunTrade, RunFill
      <3>2. fills \in Seq(Filled)
        BY DEF EngineInv, BrokerTypes
      <3>3. Len(fills') = Len(fills) + 1 /\ Len(fills) \in Nat /\ fills'[Len(fills) + 1] = f
        BY <3>1, <3>2
      <3>4. QED
        BY <3>1, <3>3
    <2>7. fills'[Len(fills')].id \in Resting' => Active'.flags = "CLOSED"
      BY <1>3, <2>2, <2>4, <2>6
    <2>8. cur.id \notin closed'
      BY <2>4, <2>5 DEF InTrade
    <2>9. /\ cur # NoRequest
          /\ Active.fn = "onFill" /\ Active.active /\ Active.id = cur.id /\ Active.side = cur.side
          /\ Active.flags = "CLOSED" <=> cur.quantity = 0
      BY DEF InTrade
    <2>10. InTrade'
      BY <1>1, <2>1, <2>2, <2>6, <2>7, <2>8, <2>9, SMTT(40) DEF InTrade
    <2>11. QED
      BY <2>10 DEF CallsInv
  <1>6. CASE Len(calls) = 3
    <2>1. Len(calls') = 2 /\ calls'[1] = calls[2] /\ calls'[2] = calls[3]
      BY <1>2, <1>6
    <2>2. Active' = calls[3] /\ Active = calls[3]
      BY <1>6, <2>1 DEF Active
    <2>3. calls[1].fn = "onTrade"
      BY <1>6 DEF InTrade
    <2>4. closed' = closed
      BY <1>1, <2>3 DEF ClosingCall, EngineInv, BrokerTypes
    <2>5. PassiveFill(calls[2])
      BY <1>6 DEF InTrade
    <2>6. PICK p : p = calls[2]
      OBVIOUS
    <2>7. Opposite(cur.side)' = Opposite(cur.side)
      BY <1>1
    <2>8. PassiveFill(p)'
      BY <1>1, <1>3, <2>2, <2>4, <2>5, <2>6, <2>7 DEF PassiveFill
    <2>9. PassiveFill(calls[Len(calls) - 1])'
      BY <2>1, <2>6, <2>8 DEF PassiveFill
    <2>10. /\ cur # NoRequest /\ cur.id \notin closed
           /\ Active.fn = "onFill" /\ Active.active /\ Active.id = cur.id /\ Active.side = cur.side
           /\ Active.flags = "CLOSED" <=> cur.quantity = 0
      BY DEF InTrade
    <2>11. InTrade'
      <3>1. /\ cur' # NoRequest /\ cur'.id \notin closed' /\ Active' = Active
            /\ cur'.id = cur.id /\ cur'.side = cur.side /\ cur'.quantity = cur.quantity
        BY <1>1, <2>2, <2>4, <2>10
      <3>2. Len(calls') \in 1..3 /\ Len(calls') # 1 /\ Len(calls') # 3
        BY <2>1
      <3>3. QED
        BY <3>1, <3>2, <2>9, <2>10 DEF InTrade
    <2>12. QED
      BY <2>11 DEF CallsInv
  <1>7. QED
    BY <1>2, <1>4, <1>5, <1>6

\* Running a callback keeps the invariant: an order becomes closed as the call that
\* announces it leaves the list.
LEMMA CallbacksKeep ==
    ASSUME EngineInv, Callbacks
    PROVE  EngineInv'
  <1>1. IInv'
    BY LadderKept DEF EngineNext, BrokerStep
  <1>2. /\ calls # <<>> /\ calls' = Tail(calls) /\ UNCHANGED <<orders, cur, used>>
        /\ UNCHANGED <<from_client, busy, owner, submitter, resized>>
        /\ closed' = {x \in used : x \in closed \/ ClosingCall(calls[1], x)}
    BY CallbackEffect
  <1>3. Current' = Current /\ Resting' = Resting
    BY <1>2 DEF Current, Resting
  <1>4. BrokerTypes'
    BY CallbackTypes
  <1>5. QueueInv' /\ OwnerInv'
    BY <1>2, <1>3 DEF EngineInv, QueueInv, OwnerInv, IsNew, IsChange
  <1>6. RequestInv'
    BY <1>2, <1>3, CallsFacts DEF EngineInv, RequestInv
  <1>7. CallsInv'
    <2>1. CASE Ending
      BY <1>2, <2>1, CallsFacts DEF Ending, CallsInv
    <2>2. CASE InTrade
      BY <2>2, TradeCallbackKeeps
    <2>3. QED
      BY <1>2, <2>1, <2>2, CallsFacts
  <1>8. ClosedInv'
    <2>1. \A x : Taker(x)' <=> Taker(x)
      BY <1>2 DEF Taker
    <2>2. /\ DOMAIN calls = 1..Len(calls) /\ DOMAIN calls' = 1..(Len(calls) - 1)
          /\ \A i \in 1..(Len(calls) - 1) : calls'[i] = calls[i + 1]
          /\ Len(calls) \in 1..3
      BY <1>2, CallsFacts
    <2>3. ASSUME NEW x PROVE Closing(x) <=> ClosingCall(calls[1], x) \/ Closing(x)'
      <3>1. Closing(x)' <=> \E i \in 1..(Len(calls) - 1) : ClosingCall(calls[i + 1], x)
        BY <2>2 DEF Closing, ClosingCall
      <3>2. Closing(x) <=> \E i \in 1..Len(calls) : ClosingCall(calls[i], x)
        BY <2>2 DEF Closing
      <3>3. ASSUME NEW i \in 1..Len(calls), ClosingCall(calls[i], x), i # 1
            PROVE  \E k \in 1..(Len(calls) - 1) : ClosingCall(calls[k + 1], x)
        <4>1. i - 1 \in 1..(Len(calls) - 1) /\ (i - 1) + 1 = i
          BY <3>3, <2>2
        <4>2. QED
          BY <3>3, <4>1
      <3>4. 1 \in 1..Len(calls) /\ \A k \in 1..(Len(calls) - 1) : k + 1 \in 1..Len(calls)
        BY <2>2
      <3>5. QED
        BY <3>1, <3>2, <3>3, <3>4
    <2>4. QED
      BY <1>2, <1>3, <2>1, <2>3 DEF EngineInv, ClosedInv
  <1>9. QED
    BY <1>1, <1>4, <1>5, <1>6, <1>7, <1>8 DEF EngineInv

\* The request leaves the queue.
LEMMA FinishedPacketKeeps ==
    ASSUME EngineInv, FinishedPacket
    PROVE  EngineInv'
  <1>1. IInv'
    BY LadderKept DEF EngineNext, BrokerStep
  <1>2. /\ busy /\ calls = <<>> /\ cur = NoRequest /\ queued_trades' = <<>> /\ fills' = <<>>
        /\ from_client' = Tail(from_client) /\ busy' = FALSE
        /\ UNCHANGED <<vars, to_client, owner, submitter, closed, resized>>
    BY DEF FinishedPacket, historyVars, Idle, Ready
  <1>3. UNCHANGED <<orders, cur, calls, used>> /\ Resting' = Resting
    BY <1>2 DEF vars, Resting
  <1>4. from_client # <<>> /\ (IsNew(1) => from_client[1].id \in used) /\ from_client \in Seq(Asked)
    BY <1>2, CurrentFacts DEF EngineInv, QueueInv, BrokerTypes
  <1>5. /\ from_client' \in Seq(Asked) /\ Len(from_client') = Len(from_client) - 1
        /\ Len(from_client) \in Nat /\ Len(from_client) > 0
        /\ DOMAIN from_client = 1..Len(from_client) /\ DOMAIN from_client' = 1..(Len(from_client) - 1)
    BY <1>2, <1>4
  <1>6. \A i \in DOMAIN from_client' : from_client'[i] = from_client[i + 1] /\ i + 1 \in DOMAIN from_client
    BY <1>2, <1>4, <1>5, HeadTailProperties
  <1>7. BrokerTypes'
    <2>1. Len(from_client') <= QueueCapacity
      BY <1>5, EngineAssumption DEF EngineInv, BrokerTypes
    <2>2. fills' \in Seq(Filled) /\ queued_trades' \in Seq(Traded)
      BY <1>2
    <2>3. QED
      BY <1>2, <1>3, <1>5, <2>1, <2>2 DEF EngineInv, BrokerTypes
  <1>8. QueueInv'
    <2>1. ASSUME NEW j \in DOMAIN from_client', from_client'[j].msg_type \in {"DELETE_ORDER", "MODIFY_ORDER"}
          PROVE  \/ from_client'[j].id \in used
                 \/ \E i \in 1..(j - 1) : from_client'[i].msg_type = "NEW_ORDER" /\ from_client'[i].id = from_client'[j].id
      <3>1. from_client'[j] = from_client[j + 1] /\ j + 1 \in DOMAIN from_client
        BY <1>6
      <3>2. \/ from_client[j + 1].id \in used
            \/ \E i \in 1..((j + 1) - 1) : IsNew(i) /\ from_client[i].id = from_client[j + 1].id
        BY <2>1, <3>1 DEF EngineInv, QueueInv, IsChange
      <3>3. ASSUME NEW i \in 1..((j + 1) - 1), IsNew(i), from_client[i].id = from_client[j + 1].id, i # 1
            PROVE  \E k \in 1..(j - 1) : from_client'[k].msg_type = "NEW_ORDER" /\ from_client'[k].id = from_client'[j].id
        <4>1. i - 1 \in 1..(j - 1) /\ i - 1 \in DOMAIN from_client' /\ (i - 1) + 1 = i
          BY <3>3, <1>5
        <4>2. from_client'[i - 1] = from_client[i]
          BY <4>1, <1>6
        <4>3. QED
          BY <3>1, <3>3, <4>1, <4>2 DEF IsNew
      <3>4. QED
        BY <3>1, <3>2, <3>3, <1>4
    <2>2. ASSUME NEW j \in DOMAIN from_client',
                 from_client'[j].msg_type \in {"NEW_ORDER", "DELETE_ORDER", "MODIFY_ORDER"}
          PROVE  from_client'[j].client = submitter'[from_client'[j].id]
      BY <2>2, <1>2, <1>6 DEF EngineInv, QueueInv, IsNew, IsChange
    <2>3. QED
      BY <2>1, <2>2, <1>2, <1>3 DEF QueueInv, IsNew, IsChange
  <1>9. OwnerInv' /\ RequestInv' /\ CallsInv'
    BY <1>2, <1>3 DEF EngineInv, OwnerInv, RequestInv, CallsInv
  <1>10. ClosedInv'
    BY <1>2, <1>3 DEF EngineInv, ClosedInv, Closing, Taker
  <1>11. QED
    BY <1>1, <1>7, <1>8, <1>9, <1>10 DEF EngineInv

-----------------------------------------------------------------------------
(* The results. *)

\* Every step of the broker and of the order entry thread keeps the invariant.
LEMMA EngineNextKeeps == EngineInv /\ [EngineNext]_engineVars => EngineInv'
  <1>1. SUFFICES ASSUME EngineInv, [EngineNext]_engineVars PROVE EngineInv'
    OBVIOUS
  <1>2. CASE UNCHANGED engineVars
    <2>1. /\ UNCHANGED <<vars, from_client, to_client, busy, owner, queued_trades, view, fills>>
          /\ UNCHANGED <<submitter, closed, resized>>
      BY <1>2 DEF engineVars, brokerVars, outVars, historyVars
    <2>2. used' = used /\ Current' = Current
      BY <2>1 DEF vars, Current
    <2>3. IInv'
      BY <1>1, LadderKept
    <2>4. BrokerTypes'
      BY <1>1, <2>1, <2>2 DEF EngineInv, BrokerTypes
    <2>5. QueueInv'
      BY <1>1, <2>1, <2>2 DEF EngineInv, QueueInv, IsNew, IsChange
    <2>6. OwnerInv' /\ RequestInv' /\ CallsInv' /\ ClosedInv'
      BY <1>1, <2>1, <2>2, BehindTheFront
    <2>7. QED
      BY <2>3, <2>4, <2>5, <2>6 DEF EngineInv
  <1>3. CASE LadderStep
    BY <1>1, <1>3, MatchKeeps, FinishKeeps DEF LadderStep
  <1>4. QED
    BY <1>1, <1>2, <1>3, TakeNewKeeps, TakeDeleteKeeps, TakeModifyKeeps, TakeRejectKeeps,
       CallbacksKeep, FinishedPacketKeeps, OrderEntryKeeps DEF EngineNext, BrokerStep

\* The broker's invariant holds in every state.
THEOREM EngineInvariant == EngineSpec => []EngineInv
  <1>1. QED
    BY InitEngineInv, EngineNextKeeps, PTL DEF EngineSpec

\* The broker drives its ladder as OrderLadder's specification says: it hands in an id
\* once, changes only orders it handed in, and runs every callback before the next step.
\* So all that is proved of the ladder holds of the broker's.
THEOREM EngineImplementsLadder == EngineSpec => Spec
  <1>1. EngineInit => Init
    BY DEF EngineInit
  <1>2. EngineInv /\ [EngineNext]_engineVars => [Next]_vars
    BY EngineStepIsLadderStep
  <1>3. QED
    BY <1>1, <1>2, EngineInvariant, PTL DEF EngineSpec, Spec

\* The broker thread never ends with an exception: neither the ladder's nor onFill's,
\* "could not find client id for passive order".
THEOREM BrokerNeverThrows == EngineSpec => []NeverThrows
  <1>1. EngineInv => NeverThrows
    BY DEF EngineInv, IInv
  <1>2. QED
    BY <1>1, EngineInvariant, PTL

\* Every broker variable keeps its type and both rings their size.
THEOREM EngineTypes == EngineSpec => []EngineTypeOK
  <1>1. EngineInv => EngineTypeOK
    <2>1. SUFFICES ASSUME EngineInv PROVE EngineTypeOK
      OBVIOUS
    <2>2. Asked \subseteq Payload /\ used \subseteq Ids
      BY <2>1 DEF Asked, EngineInv, IInv, TypeOK
    <2>3. from_client \in Seq(Payload)
      BY <2>1, <2>2, SeqMonotonic DEF EngineInv, BrokerTypes
    <2>4. QED
      BY <2>1, <2>2, <2>3 DEF EngineInv, BrokerTypes, EngineTypeOK
  <1>2. QED
    BY <1>1, EngineInvariant, PTL

\* Between two packets the orders reported closed are exactly the ones that were taken and
\* do not rest.
THEOREM ClosedOrdersAreGone == EngineSpec => []ClosedIsGone
  <1>1. EngineInv => ClosedIsGone
    <2>1. SUFFICES ASSUME EngineInv, AtRest, NEW id \in used
                   PROVE  id \in closed <=> id \notin Resting
      BY DEF ClosedIsGone
    <2>2. calls = <<>> /\ cur = NoRequest
      BY <2>1 DEF AtRest, EngineInv, RequestInv
    <2>3. QED
      BY <2>1, <2>2 DEF EngineInv, ClosedInv, Closing, Taker
  <1>2. QED
    BY <1>1, EngineInvariant, PTL

-----------------------------------------------------------------------------
(* Fills and their owners. *)

\* The call that is about to report a fill is about an order of the ladder, and names
\* the client that entered it.
LEMMA FillClientIsSubmitter ==
    ASSUME EngineInv, FillInv, calls # <<>>, calls[1].fn = "onFill"
    PROVE  calls[1].id \in used /\ FillClient(calls[1]) = submitter[calls[1].id]
  <1>1. InTrade /\ Len(calls) \in 1..3 /\ from_client # <<>>
    BY CallsFacts DEF Ending
  <1>2. CASE Len(calls) = 1
    <2>1. calls[1].active /\ calls[1].id = cur.id /\ cur # NoRequest
      BY <1>1, <1>2 DEF InTrade, Active
    <2>2. cur.id = Current.id /\ Current.msg_type # "REJECT"
      BY <2>1 DEF EngineInv, RequestInv
    <2>3. Current.client = submitter[cur.id]
      BY <1>1, <2>2, CurrentFacts
    <2>4. cur.id \in used
      BY <2>1, RequestTypes DEF EngineInv, IInv
    <2>5. QED
      BY <2>1, <2>3, <2>4 DEF FillClient, ActiveClient
  <1>3. CASE Len(calls) = 2
    <2>1. ~calls[1].active /\ calls[1].id \in used
      BY <1>1, <1>3 DEF InTrade, PassiveFill
    <2>2. QED
      BY <2>1 DEF FillClient, FillInv
  <1>4. CASE Len(calls) = 3
    BY <1>1, <1>4 DEF InTrade
  <1>5. QED
    BY <1>1, <1>2, <1>3, <1>4

\* The fills sent to clearing after a callback: the ones before it and at most one more.
LEMMA FillsAfterCallback ==
    ASSUME EngineInv, FillInv, Callbacks
    PROVE  \A i \in DOMAIN fills' :
              fills'[i].id \in used /\ fills'[i].client = submitter[fills'[i].id]
  <1>1. /\ calls # <<>>
        /\ \/ RunNewOrder(calls[1]) \/ RunModifyOrder(calls[1]) \/ RunDeleteOrder(calls[1])
           \/ RunCancelReject(calls[1]) \/ RunTrade(calls[1]) \/ RunFill(calls[1])
    BY CallbackEffect
  <1>2. fills \in Seq(Filled)
    BY DEF EngineInv, BrokerTypes
  <1>3. CASE RunFill(calls[1])
    <2>1. calls[1].id \in used /\ FillClient(calls[1]) = submitter[calls[1].id]
      BY <1>1, <1>3, FillClientIsSubmitter DEF RunFill
    <2>2. PICK f : fills' = Append(fills, f) /\ f.id = calls[1].id /\ f.client = FillClient(calls[1])
      BY <1>3 DEF RunFill
    <2>3. ASSUME NEW i \in DOMAIN fills'
          PROVE  fills'[i] = f \/ (i \in DOMAIN fills /\ fills'[i] = fills[i])
      BY <1>2, <2>2
    <2>4. QED
      BY <2>1, <2>2, <2>3 DEF FillInv
  <1>4. CASE UNCHANGED fills
    BY <1>4 DEF FillInv
  <1>5. QED
    BY <1>1, <1>3, <1>4 DEF RunNewOrder, RunModifyOrder, RunDeleteOrder, RunCancelReject, RunTrade

\* The reports after a callback: the ones before it and at most one more.
LEMMA ReportsAfterCallback ==
    ASSUME EngineInv, FillInv, Callbacks
    PROVE  \A i \in DOMAIN to_client' :
              to_client'[i].msg_type = "FILL" =>
                 to_client'[i].id \in used /\ to_client'[i].client = submitter[to_client'[i].id]
  <1>1. /\ calls # <<>>
        /\ \/ RunNewOrder(calls[1]) \/ RunModifyOrder(calls[1]) \/ RunDeleteOrder(calls[1])
           \/ RunCancelReject(calls[1]) \/ RunTrade(calls[1]) \/ RunFill(calls[1])
    BY CallbackEffect
  <1>2. to_client \in Seq(Report)
    BY DEF EngineInv, BrokerTypes
  <1>3. ASSUME NEW r, to_client' = Append(to_client, r),
               r.msg_type = "FILL" => r.id \in used /\ r.client = submitter[r.id],
               NEW i \in DOMAIN to_client', to_client'[i].msg_type = "FILL"
        PROVE  to_client'[i].id \in used /\ to_client'[i].client = submitter[to_client'[i].id]
    <2>1. CASE i \in DOMAIN to_client
      <3>1. to_client'[i] = to_client[i]
        BY <1>2, <1>3, <2>1
      <3>2. QED
        BY <3>1, <1>3, <2>1 DEF FillInv
    <2>2. CASE i = Len(to_client) + 1
      <3>1. to_client'[i] = r
        BY <1>2, <1>3, <2>2
      <3>2. QED
        BY <3>1, <1>3
    <2>3. QED
      BY <1>2, <1>3, <2>1, <2>2
  <1>4. CASE RunFill(calls[1])
    <2>1. calls[1].id \in used /\ FillClient(calls[1]) = submitter[calls[1].id]
      BY <1>1, <1>4, FillClientIsSubmitter DEF RunFill
    <2>2. PICK r : r = ReportOf("FILL", calls[1].id, FillClient(calls[1]), calls[1].flags)
      OBVIOUS
    <2>3. to_client' = Append(to_client, r) /\ r.id = calls[1].id /\ r.client = FillClient(calls[1])
      BY <1>4, <2>2 DEF RunFill, Emplace, ReportOf
    <2>4. QED
      BY <1>3, <2>1, <2>3
  <1>5. CASE RunTrade(calls[1])
    BY <1>5 DEF RunTrade, FillInv
  <1>6. CASE \E type \in {"ACK", "CLOSE", "REJECT"} :
                Emplace(ReportOf(type, calls[1].id, ActiveClient, "NONE"))
    <2>1. PICK type \in {"ACK", "CLOSE", "REJECT"} :
                Emplace(ReportOf(type, calls[1].id, ActiveClient, "NONE"))
      BY <1>6
    <2>2. PICK r : r = ReportOf(type, calls[1].id, ActiveClient, "NONE")
      OBVIOUS
    <2>3. to_client' = Append(to_client, r) /\ r.msg_type = type
      BY <2>1, <2>2 DEF Emplace, ReportOf
    <2>4. QED
      BY <1>3, <2>1, <2>3
  <1>7. QED
    BY <1>1, <1>4, <1>5, <1>6 DEF RunNewOrder, RunModifyOrder, RunDeleteOrder, RunCancelReject

\* When owner, the orders taken and their clients stay as they are, and no fill is added.
LEMMA FillFrame ==
    ASSUME FillInv, UNCHANGED <<owner, used>>, \A id \in used : submitter'[id] = submitter[id],
           \A i \in DOMAIN to_client' : \/ to_client'[i].msg_type # "FILL"
                                        \/ \E j \in DOMAIN to_client : to_client'[i] = to_client[j],
           fills' = fills \/ fills' = <<>>
    PROVE  FillInv'
  BY DEF FillInv

\* The owners of the orders taken stay right when the ids have keys of their own.
LEMMA FillNextKeeps ==
    ASSUME KeysDiffer, EngineInv, FillInv, [EngineNext]_engineVars
    PROVE  FillInv'
  <1>0. to_client \in Seq(Report) /\ used \subseteq Ids
    BY DEF EngineInv, BrokerTypes, IInv, TypeOK
  <1>1. CASE TakeNew
    <2>1. from_client # <<>> /\ Current.msg_type = "NEW_ORDER"
      BY <1>1 DEF TakeNew, Take
    <2>2. Current.id \in Ids /\ Current.client = submitter[Current.id]
      BY <2>1, CurrentFacts
    <2>3. /\ owner' = [owner EXCEPT ![OwnerKey(Current.id)] = Current.client]
          /\ UNCHANGED <<to_client, fills, submitter>>
          /\ used' = used \cup {Current.id}
      BY <1>1 DEF TakeNew, Take, NewOrder, historyVars
    <2>4. owner \in [0..(KeySpace - 1) -> Clients \cup {NoClient}]
      BY DEF EngineInv, BrokerTypes
    <2>5. ASSUME NEW id \in used' PROVE owner'[OwnerKey(id)] = submitter'[id]
      <3>1. id \in Ids /\ OwnerKey(id) \in 0..(KeySpace - 1)
        BY <1>0, <2>2, <2>3, OwnerKeyType
      <3>2. CASE id = Current.id
        BY <3>1, <3>2, <2>2, <2>3, <2>4
      <3>3. CASE id # Current.id
        <4>1. OwnerKey(id) # OwnerKey(Current.id)
          BY <3>1, <3>3, <2>2 DEF KeysDiffer
        <4>2. owner'[OwnerKey(id)] = owner[OwnerKey(id)]
          BY <4>1, <3>1, <2>3, <2>4
        <4>3. QED
          BY <4>2, <3>3, <2>3 DEF FillInv
      <3>4. QED
        BY <3>2, <3>3
    <2>6. QED
      BY <2>3, <2>5 DEF FillInv
  <1>2. CASE TakeDelete \/ TakeModify \/ LadderStep \/ FinishedPacket
    <2>1. UNCHANGED <<owner, used, submitter, to_client>> /\ (fills' = fills \/ fills' = <<>>)
      BY <1>2 DEF Take, TakeDelete, TakeModify, LadderStep, FinishedPacket, historyVars, brokerVars,
         outVars, vars, DeleteOrder, ModifyOrder, Match, MatchFully, MatchPartly,
         FinishWithoutResting, FinishResting
    <2>2. QED
      BY <2>1, FillFrame, SMTT(40)
  <1>3. CASE TakeReject
    <2>1. UNCHANGED <<owner, used, submitter, fills>>
      BY <1>3 DEF TakeReject, Take, historyVars, vars
    <2>2. PICK r : r = ReportOf("REJECT", Current.id, Current.client, "NONE")
      OBVIOUS
    <2>3. to_client' = Append(to_client, r) /\ r.msg_type = "REJECT"
      BY <1>3, <2>2 DEF TakeReject, Emplace, ReportOf
    <2>4. ASSUME NEW i \in DOMAIN to_client'
          PROVE  \/ to_client'[i].msg_type # "FILL"
                 \/ \E j \in DOMAIN to_client : to_client'[i] = to_client[j]
      <3>1. CASE i \in DOMAIN to_client
        BY <1>0, <2>3, <3>1
      <3>2. CASE i = Len(to_client) + 1
        <4>1. to_client'[i] = r
          BY <1>0, <2>3, <3>2
        <4>2. QED
          BY <4>1, <2>3
      <3>3. QED
        BY <1>0, <2>3, <3>1, <3>2
    <2>5. QED
      BY <2>1, <2>4, FillFrame
  <1>4. CASE Callbacks
    <2>1. UNCHANGED <<used, owner, submitter>>
      BY <1>4, CallbackEffect
    <2>2. QED
      BY <1>4, <2>1, ReportsAfterCallback, FillsAfterCallback DEF FillInv
  <1>5. CASE OrderEntry
    <2>1. UNCHANGED <<used, owner, fills>>
      BY <1>5 DEF outVars, OrderEntry, EnqueueNew, EnqueueDelete, EnqueueModify, EnqueueReject, Enqueue, Drain, vars
    <2>2. \A id \in used : submitter'[id] = submitter[id]
      <3>1. submitter \in [Ids -> Clients \cup {NoClient}]
        BY DEF EngineInv, BrokerTypes
      <3>2. ASSUME NEW client, NEW id \in Ids, NEW side, NEW q, NEW price, NEW flags,
                   EnqueueNew(client, id, side, q, price, flags)
            PROVE  \A x \in used : submitter'[x] = submitter[x]
        BY <1>0, <3>1, <3>2 DEF EnqueueNew, Introduced
      <3>3. QED
        BY <1>5, <3>2 DEF OrderEntry, EnqueueDelete, EnqueueModify, EnqueueReject, Drain, historyVars
    <2>3. CASE UNCHANGED to_client
      BY <2>1, <2>2, <2>3, FillFrame
    <2>4. CASE Drain
      <3>1. to_client # <<>> /\ to_client' = Tail(to_client)
        BY <2>4 DEF Drain
      <3>2. ASSUME NEW i \in DOMAIN to_client'
            PROVE  i + 1 \in DOMAIN to_client /\ to_client'[i] = to_client[i + 1]
        <4>1. i \in 1..Len(Tail(to_client)) /\ Len(Tail(to_client)) = Len(to_client) - 1
          BY <1>0, <3>1
        <4>2. QED
          BY <1>0, <3>1, <4>1, HeadTailProperties
      <3>3. QED
        BY <2>1, <2>2, <3>2, FillFrame
    <2>5. QED
      BY <1>5, <2>3, <2>4 DEF OrderEntry, EnqueueNew, EnqueueDelete, EnqueueModify, EnqueueReject, Enqueue
  <1>6. CASE UNCHANGED engineVars
    <2>1. UNCHANGED <<owner, used, submitter, to_client, fills>>
      BY <1>6 DEF engineVars, brokerVars, outVars, historyVars, vars
    <2>2. QED
      BY <2>1, FillFrame
  <1>7. QED
    BY <1>1, <1>2, <1>3, <1>4, <1>5, <1>6 DEF EngineNext, BrokerStep

\* Whoever trades with whom, a fill is reported and cleared to the client that entered the
\* order, provided that the ids in use have different keys in the owner map: it is keyed
\* with 32 bits of the 64-bit id, so two orders that agree in them share one owner.
THEOREM FillsReachTheirOwner ==
    ASSUME KeysDiffer
    PROVE  EngineSpec => []FillsGoToOwner
  <1>1. EngineInit => FillInv
    BY DEF EngineInit, Init, FillInv
  <1>2. EngineInv /\ FillInv /\ [EngineNext]_engineVars => FillInv'
    BY FillNextKeeps
  <1>3. FillInv => FillsGoToOwner
    BY DEF FillInv, FillsGoToOwner
  <1>4. QED
    BY <1>1, <1>2, <1>3, EngineInvariant, PTL DEF EngineSpec

-----------------------------------------------------------------------------
(* Trades and what is cleared for them. *)

\* The quantity of the entries of a list that are in K.
Summed(s, K) == Total([i \in DOMAIN s |-> s[i].quantity], {i \in DOMAIN s : s[i] \in K})

\* One more entry.
LEMMA TotalAppend ==
    ASSUME NEW S, NEW K, NEW s \in Seq(S), NEW e \in S, \A x \in S : x.quantity \in Nat
    PROVE  Summed(Append(s, e), K) = Summed(s, K) + IF e \in K THEN e.quantity ELSE 0
  <1> DEFINE t == Append(s, e)
             f == [i \in DOMAIN s |-> s[i].quantity]
             g == [i \in DOMAIN t |-> t[i].quantity]
             A == {i \in DOMAIN s : s[i] \in K}
             B == {i \in DOMAIN t : t[i] \in K}
             n == Len(s) + 1
  <1>1. /\ Len(s) \in Nat /\ DOMAIN s = 1..Len(s) /\ DOMAIN t = 1..n /\ t[n] = e /\ t \in Seq(S)
        /\ \A i \in DOMAIN s : t[i] = s[i]
    OBVIOUS
  <1>2. n \notin DOMAIN s /\ n \in DOMAIN t /\ \A i \in DOMAIN t : i \in DOMAIN s \/ i = n
    BY <1>1
  <1>3. IsFiniteSet(DOMAIN s)
    BY <1>1, FS_Interval
  <1>4. IsFiniteSet(A) /\ A \subseteq DOMAIN s
    BY <1>3, FS_Subset
  <1>5. \A i \in DOMAIN s : s[i] \in S
    OBVIOUS
  <1>6. \A i \in A : f[i] \in Int /\ g[i] = f[i] /\ g[i] \in Int
    BY <1>1, <1>2, <1>5
  <1>7. g[n] = e.quantity /\ g[n] \in Int
    BY <1>1, <1>2
  <1>8. B = IF e \in K THEN A \cup {n} ELSE A
    BY <1>1, <1>2
  <1>9. n \notin A
    BY <1>2
  <1> HIDE DEF t, f, g, A, B, n
  <1>10. Total(f, A) = Total(g, A) /\ Total(f, A) \in Int
    BY <1>4, <1>6, TotalSame, TotalType
  <1>11. CASE e \in K
    <2>1. Total(g, A \cup {n}) = Total(g, A) + g[n]
      BY <1>4, <1>6, <1>7, <1>9, TotalWith
    <2>2. QED
      BY <2>1, <1>7, <1>8, <1>10, <1>11 DEF t, f, g, A, B, Summed
  <1>12. CASE e \notin K
    <2>1. Total(g, B) = Total(f, A) + 0
      BY <1>8, <1>10, <1>12
    <2>2. QED
      BY <2>1, <1>12 DEF t, f, g, A, B, Summed
  <1>13. QED
    BY <1>11, <1>12

\* The sums are numbers.
LEMMA BalanceTypes ==
    ASSUME BrokerTypes, NEW side, NEW q
    PROVE  QuantityCleared(side, q) \in Int /\ QuantityTraded(q) \in Int
  <1>1. ASSUME NEW S, \A e \in S : e.quantity \in Nat, NEW s \in Seq(S), NEW A, A \subseteq DOMAIN s
        PROVE  Total([i \in DOMAIN s |-> s[i].quantity], A) \in Int
    <2> DEFINE f == [i \in DOMAIN s |-> s[i].quantity]
    <2>1. IsFiniteSet(DOMAIN s)
      BY FS_Interval
    <2>2. IsFiniteSet(A)
      BY <1>1, <2>1, FS_Subset
    <2>3. \A i \in A : f[i] \in Int
      <3>1. \A i \in DOMAIN s : s[i] \in S
        OBVIOUS
      <3>2. QED
        BY <1>1, <3>1
    <2> HIDE DEF f
    <2>4. Total(f, A) \in Int
      BY <2>2, <2>3, TotalType
    <2>5. QED
      BY <2>4 DEF f
  <1>2. (\A e \in Filled : e.quantity \in Nat) /\ (\A e \in Traded : e.quantity \in Nat)
    BY DEF Filled, Traded
  <1>3. fills \in Seq(Filled) /\ queued_trades \in Seq(Traded)
    BY DEF BrokerTypes
  <1>4. QuantityCleared(side, q) \in Int
    BY <1>1, <1>2, <1>3 DEF QuantityCleared
  <1>5. QuantityTraded(q) \in Int
    BY <1>1, <1>2, <1>3 DEF QuantityTraded
  <1>6. QED
    BY <1>4, <1>5

\* One more fill is cleared.
LEMMA ClearedAppend ==
    ASSUME BrokerTypes, NEW e \in Filled, fills' = Append(fills, e), NEW side, NEW q
    PROVE  QuantityCleared(side, q)' =
             QuantityCleared(side, q) + IF e.side = side /\ e.price = q THEN e.quantity ELSE 0
  <1> DEFINE K == {x \in Filled : x.side = side /\ x.price = q}
  <1>1. fills \in Seq(Filled) /\ fills' \in Seq(Filled)
    BY DEF BrokerTypes
  <1>2. {i \in DOMAIN fills : fills[i] \in K} = {i \in DOMAIN fills : fills[i].side = side /\ fills[i].price = q}
    BY <1>1
  <1>3. {i \in DOMAIN fills' : fills'[i] \in K} = {i \in DOMAIN fills' : fills'[i].side = side /\ fills'[i].price = q}
    BY <1>1
  <1>4. e \in K <=> e.side = side /\ e.price = q
    OBVIOUS
  <1>5. \A x \in Filled : x.quantity \in Nat
    BY DEF Filled
  <1> HIDE DEF K
  <1>6. Summed(fills', K) = Summed(fills, K) + IF e \in K THEN e.quantity ELSE 0
    BY <1>1, <1>5, TotalAppend
  <1>7. QuantityCleared(side, q) = Summed(fills, K)
    BY <1>2 DEF QuantityCleared, Summed
  <1>8. QuantityCleared(side, q)' = Summed(fills', K)
    BY <1>3 DEF QuantityCleared, Summed
  <1>9. QED
    BY <1>4, <1>6, <1>7, <1>8

\* One more trade is queued.
LEMMA TradedAppend ==
    ASSUME BrokerTypes, NEW e \in Traded, queued_trades' = Append(queued_trades, e), NEW q
    PROVE  QuantityTraded(q)' = QuantityTraded(q) + IF e.price = q THEN e.quantity ELSE 0
  <1> DEFINE K == {x \in Traded : x.price = q}
  <1>1. queued_trades \in Seq(Traded) /\ queued_trades' \in Seq(Traded)
    BY DEF BrokerTypes
  <1>2. {i \in DOMAIN queued_trades : queued_trades[i] \in K}
          = {i \in DOMAIN queued_trades : queued_trades[i].price = q}
    BY <1>1
  <1>3. {i \in DOMAIN queued_trades' : queued_trades'[i] \in K}
          = {i \in DOMAIN queued_trades' : queued_trades'[i].price = q}
    BY <1>1
  <1>4. e \in K <=> e.price = q
    OBVIOUS
  <1>5. \A x \in Traded : x.quantity \in Nat
    BY DEF Traded
  <1> HIDE DEF K
  <1>6. Summed(queued_trades', K) = Summed(queued_trades, K) + IF e \in K THEN e.quantity ELSE 0
    BY <1>1, <1>5, TotalAppend
  <1>7. QuantityTraded(q) = Summed(queued_trades, K)
    BY <1>2 DEF QuantityTraded, Summed
  <1>8. QuantityTraded(q)' = Summed(queued_trades', K)
    BY <1>3 DEF QuantityTraded, Summed
  <1>9. QED
    BY <1>4, <1>6, <1>7, <1>8


\* A callback clears what was traded, or leaves it owed.
LEMMA CallbacksBalance ==
    ASSUME EngineInv, BalanceInv, Callbacks
    PROVE  BalanceInv'
  <1>1. /\ calls # <<>> /\ calls' = Tail(calls) /\ UNCHANGED cur
        /\ \/ RunNewOrder(calls[1]) \/ RunModifyOrder(calls[1]) \/ RunDeleteOrder(calls[1])
           \/ RunCancelReject(calls[1]) \/ RunTrade(calls[1]) \/ RunFill(calls[1])
    BY CallbackEffect
  <1>2. /\ Len(calls) \in 1..3 /\ Len(calls') = Len(calls) - 1
        /\ \A i \in 1..(Len(calls) - 1) : calls'[i] = calls[i + 1]
        /\ Len(calls) = 1 <=> calls' = <<>>
        /\ Ending \/ InTrade
        /\ calls[1] \in Callback /\ calls \in Seq(Callback)
    BY <1>1, CallsFacts
  <1>3. BrokerTypes /\ BrokerTypes'
    BY CallbacksKeep DEF EngineInv
  <1>4. SUFFICES ASSUME NEW q \in Prices, NEW side \in Side
                 PROVE  QuantityCleared(side, q)' + Owed(side, q)' = QuantityTraded(q)'
    BY DEF BalanceInv
  <1>5. QuantityCleared(side, q) + Owed(side, q) = QuantityTraded(q)
    BY DEF BalanceInv
  <1>6. QuantityCleared(side, q) \in Int /\ QuantityTraded(q) \in Int
    BY <1>3, BalanceTypes
  <1>7. CASE Ending
    <2>1. cur = NoRequest /\ calls[1].fn # "onTrade" /\ calls[1].fn # "onFill"
      BY <1>7 DEF Ending
    <2>2. UNCHANGED <<fills, queued_trades>>
      BY <1>1, <2>1 DEF RunNewOrder, RunModifyOrder, RunDeleteOrder, RunCancelReject, RunTrade, RunFill
    <2>3. QuantityCleared(side, q)' = QuantityCleared(side, q) /\ QuantityTraded(q)' = QuantityTraded(q)
      BY <2>2 DEF QuantityCleared, QuantityTraded
    <2>4. Owed(side, q) = 0 /\ Owed(side, q)' = 0
      BY <1>1, <2>1 DEF Owed, InTrade
    <2>5. QED
      BY <1>5, <2>3, <2>4
  <1>8. CASE InTrade
    <2>1. calls' = <<>> \/ InTrade'
      <3>1. CallsInv' /\ cur' # NoRequest
        BY <1>1, <1>8, TradeCallbackKeeps DEF InTrade
      <3>2. QED
        BY <3>1 DEF CallsInv, Ending
    <2>2. Active \in Callback /\ Active.fn = "onFill" /\ cur.side \in Side /\ Active.side = cur.side
      BY <1>2, <1>8, RequestTypes DEF InTrade, Active, EngineInv, IInv
    <2>3. Active.quantity \in Nat /\ Active.price \in Prices
      BY <2>2, CallbackFields
    <2>4. Len(calls) # 1 => Active' = Active
      BY <1>2 DEF Active
    <2>5. CASE Len(calls) = 3
      <3>1. calls[1].fn = "onTrade" /\ calls[1].quantity = Active.quantity /\ calls[1].price = Active.price
        BY <1>8, <2>5 DEF InTrade
      <3>2. PICK e : e = [id |-> calls[1].id, quantity |-> calls[1].quantity, price |-> calls[1].price]
        OBVIOUS
      <3>3. queued_trades' = Append(queued_trades, e) /\ UNCHANGED fills
        BY <1>1, <3>1, <3>2 DEF RunNewOrder, RunModifyOrder, RunDeleteOrder, RunCancelReject, RunTrade, RunFill
      <3>4. calls[1].id \in Ids
        BY <1>2, CallbackFields
      <3>5. e \in Traded /\ e.quantity = Active.quantity /\ e.price = Active.price
        BY <3>1, <3>2, <3>4, <2>3 DEF Traded
      <3>6. QuantityTraded(q)' = QuantityTraded(q) + IF e.price = q THEN e.quantity ELSE 0
        BY <1>3, <3>3, <3>5, TradedAppend
      <3>7. QuantityCleared(side, q)' = QuantityCleared(side, q)
        BY <3>3 DEF QuantityCleared
      <3>8. Owed(side, q) = 0
        BY <2>5 DEF Owed
      <3>9. Len(calls') = 2 /\ calls' # <<>> /\ InTrade'
        BY <1>2, <2>1, <2>5
      <3>10. Owed(side, q)' = IF Active.price = q THEN Active.quantity ELSE 0
        BY <2>4, <2>5, <3>9 DEF Owed
      <3>11. QED
        BY <1>5, <1>6, <2>3, <3>5, <3>6, <3>7, <3>8, <3>10
    <2>6. CASE Len(calls) # 3
      <3>1. /\ calls[1].fn = "onFill"
            /\ calls[1].quantity = Active.quantity /\ calls[1].price = Active.price
            /\ calls[1].side = IF Len(calls) = 2 THEN Opposite(cur.side) ELSE cur.side
        BY <1>2, <1>8, <2>6 DEF InTrade, Active, PassiveFill
      <3>2. PICK e : e = [id |-> calls[1].id, client |-> FillClient(calls[1]), side |-> calls[1].side,
                          quantity |-> calls[1].quantity, price |-> calls[1].price]
        OBVIOUS
      <3>3. fills' = Append(fills, e) /\ UNCHANGED queued_trades
        BY <1>1, <3>1, <3>2 DEF RunNewOrder, RunModifyOrder, RunDeleteOrder, RunCancelReject, RunTrade, RunFill
      <3>4. calls[1].id \in Ids /\ calls[1].side \in Side /\ FillClient(calls[1]) \in Clients
        BY <1>1, <1>2, <3>1, CallbackFields, FillClientType
      <3>5. /\ e \in Filled /\ e.quantity = Active.quantity /\ e.price = Active.price
            /\ e.side = calls[1].side
        BY <3>1, <3>2, <3>4, <2>3 DEF Filled
      <3>6. QuantityCleared(side, q)' =
              QuantityCleared(side, q) + IF e.side = side /\ e.price = q THEN e.quantity ELSE 0
        BY <1>3, <3>3, <3>5, ClearedAppend
      <3>7. QuantityTraded(q)' = QuantityTraded(q)
        BY <3>3 DEF QuantityTraded
      <3>8. CASE Len(calls) = 2
        <4>1. Owed(side, q) = IF Active.price = q THEN Active.quantity ELSE 0
          BY <1>1, <1>8, <3>8 DEF Owed
        <4>2. Len(calls') = 1 /\ calls' # <<>> /\ InTrade'
          BY <1>2, <2>1, <3>8
        <4>3. Owed(side, q)' = IF Active.price = q /\ side = cur.side THEN Active.quantity ELSE 0
          <5>1. Active' = Active /\ cur' = cur /\ Len(calls') # 2
            BY <1>1, <2>4, <3>8, <4>2
          <5>2. CASE side = cur.side
            BY <4>2, <5>1, <5>2 DEF Owed
          <5>3. CASE side # cur.side
            BY <4>2, <5>1, <5>3 DEF Owed
          <5>4. QED
            BY <5>2, <5>3
        <4>4. e.side = side <=> side # cur.side
          BY <2>2, <3>1, <3>5, <3>8 DEF Opposite, Side
        <4>5. QED
          BY <1>5, <1>6, <2>3, <3>5, <3>6, <3>7, <4>1, <4>3, <4>4
      <3>9. CASE Len(calls) = 1
        <4>1. Owed(side, q) = IF Active.price = q /\ side = cur.side THEN Active.quantity ELSE 0
          BY <1>1, <1>8, <3>9 DEF Owed
        <4>2. Owed(side, q)' = 0
          BY <1>2, <3>9 DEF Owed
        <4>3. e.side = side <=> side = cur.side
          BY <3>1, <3>5, <3>9
        <4>4. QED
          BY <1>5, <1>6, <2>3, <3>5, <3>6, <3>7, <4>1, <4>2, <4>3
      <3>10. QED
        BY <1>2, <2>6, <3>8, <3>9
    <2>7. QED
      BY <2>5, <2>6
  <1>9. QED
    BY <1>2, <1>7, <1>8

\* Every step keeps the balance.
LEMMA BalanceNextKeeps ==
    ASSUME EngineInv, BalanceInv, [EngineNext]_engineVars
    PROVE  BalanceInv'
  <1>1. ASSUME UNCHANGED <<fills, queued_trades>>,
               \A side \in Side, q \in Prices : Owed(side, q)' = Owed(side, q)
        PROVE  BalanceInv'
    <2>1. \A side \in Side, q \in Prices :
             QuantityCleared(side, q)' = QuantityCleared(side, q) /\ QuantityTraded(q)' = QuantityTraded(q)
      BY <1>1 DEF QuantityCleared, QuantityTraded
    <2>2. QED
      BY <1>1, <2>1 DEF BalanceInv
  <1>2. CASE TakeNew
    <2>1. calls = <<>> /\ UNCHANGED <<fills, queued_trades>>
      BY <1>2, TakeFacts DEF TakeNew
    <2>2. calls' = calls
      BY <1>2 DEF TakeNew, NewOrder, Throw
    <2>3. \A side \in Side, q \in Prices : Owed(side, q)' = 0 /\ Owed(side, q) = 0
      BY <2>1, <2>2 DEF Owed
    <2>4. QED
      BY <1>1, <2>1, <2>3
  <1>3. CASE TakeDelete \/ TakeModify
    <2>1. calls = <<>> /\ UNCHANGED <<fills, queued_trades>>
      BY <1>3, TakeFacts DEF TakeDelete, TakeModify
    <2>2. TakenChange(Current.id)
      BY <1>3, TakeDeleteEffect, TakeModifyEffect
    <2>3. cur' = NoRequest \/ calls' = <<>>
      BY <2>2 DEF TakenChange
    <2>4. \A side \in Side, q \in Prices : Owed(side, q)' = 0 /\ Owed(side, q) = 0
      BY <2>1, <2>3 DEF Owed, InTrade
    <2>5. QED
      BY <1>1, <2>1, <2>4
  <1>4. CASE LadderStep
    <2>1. UNCHANGED <<fills, queued_trades>>
      BY <1>4 DEF LadderStep, outVars, brokerVars
    <2>2. CASE Match
      <3>1. calls = <<>> /\ Len(calls') = 3
        BY <2>2, MatchEffect, TradesFields DEF EngineInv
      <3>2. \A side \in Side, q \in Prices : Owed(side, q)' = 0 /\ Owed(side, q) = 0
        BY <3>1 DEF Owed
      <3>3. QED
        BY <1>1, <2>1, <3>2
    <2>3. CASE FinishWithoutResting \/ FinishResting
      <3>1. Finishes
        BY <2>3, LadderKept, FinishEffect
      <3>2. calls = <<>> /\ cur' = NoRequest
        BY <3>1 DEF Finishes
      <3>3. \A side \in Side, q \in Prices : Owed(side, q)' = 0 /\ Owed(side, q) = 0
        BY <3>2 DEF Owed, InTrade
      <3>4. QED
        BY <1>1, <2>1, <3>3
    <2>4. QED
      BY <1>4, <2>2, <2>3 DEF LadderStep
  <1>5. CASE Callbacks
    BY <1>5, CallbacksBalance
  <1>6. CASE FinishedPacket
    <2>1. fills' = <<>> /\ queued_trades' = <<>> /\ calls = <<>> /\ calls' = calls
      BY <1>6 DEF FinishedPacket, Idle, Ready, vars
    <2>2. ASSUME NEW side \in Side, NEW q \in Prices
          PROVE  QuantityCleared(side, q)' = 0 /\ QuantityTraded(q)' = 0 /\ Owed(side, q)' = 0
      <3>1. DOMAIN fills' = {} /\ DOMAIN queued_trades' = {}
        BY <2>1
      <3>2. \A f : Total(f, {}) = 0
        BY TotalEmpty
      <3>3. /\ {i \in DOMAIN fills' : fills'[i].side = side /\ fills'[i].price = q} = {}
            /\ {i \in DOMAIN queued_trades' : queued_trades'[i].price = q} = {}
        BY <3>1
      <3>4. QuantityCleared(side, q)' = 0 /\ QuantityTraded(q)' = 0
        BY <3>2, <3>3 DEF QuantityCleared, QuantityTraded
      <3>5. QED
        BY <2>1, <3>4 DEF Owed
    <2>3. QED
      BY <2>2 DEF BalanceInv
  <1>7. CASE TakeReject \/ OrderEntry \/ UNCHANGED engineVars
    <2>1. UNCHANGED <<vars, fills, queued_trades>>
      BY <1>7 DEF TakeReject, Take, OrderEntry, EnqueueNew, EnqueueDelete, EnqueueModify,
         EnqueueReject, Enqueue, Drain, outVars, engineVars, brokerVars
    <2>2. UNCHANGED closed
      BY <1>7 DEF TakeReject, OrderEntry, EnqueueNew, EnqueueDelete, EnqueueModify,
         EnqueueReject, Drain, historyVars, engineVars
    <2>3. UNCHANGED <<orders, cur, calls, used>> /\ Resting' = Resting
      BY <2>1 DEF vars, Resting
    <2>4. \A side \in Side, q \in Prices : Owed(side, q)' = Owed(side, q)
      BY <2>1, <2>2, <2>3 DEF Owed, InTrade, Active, PassiveFill
    <2>5. QED
      BY <1>1, <2>1, <2>4
  <1>8. QED
    BY <1>2, <1>3, <1>4, <1>5, <1>6, <1>7 DEF EngineNext, BrokerStep

\* Of every request, whatever orders it trades with and however long its reports wait for
\* room in the queue, clearing is sent as much bought as sold at every price, and that is
\* what the market data's trades say.
THEOREM ClearingAlwaysBalances == EngineSpec => []ClearingBalances
  <1>1. EngineInit => BalanceInv
    <2>1. SUFFICES ASSUME EngineInit, NEW side \in Side, NEW q \in Prices
                   PROVE  QuantityCleared(side, q) + Owed(side, q) = QuantityTraded(q)
      BY DEF BalanceInv
    <2>2. fills = <<>> /\ queued_trades = <<>> /\ calls = <<>>
      BY <2>1 DEF EngineInit, Init
    <2>3. /\ {i \in DOMAIN fills : fills[i].side = side /\ fills[i].price = q} = {}
          /\ {i \in DOMAIN queued_trades : queued_trades[i].price = q} = {}
      BY <2>2
    <2>4. \A f : Total(f, {}) = 0
      BY TotalEmpty
    <2>5. QuantityCleared(side, q) = 0 /\ QuantityTraded(q) = 0
      BY <2>3, <2>4 DEF QuantityCleared, QuantityTraded
    <2>6. Owed(side, q) = 0
      BY <2>2 DEF Owed
    <2>7. QED
      BY <2>5, <2>6
  <1>2. EngineInv /\ BalanceInv /\ [EngineNext]_engineVars => BalanceInv'
    BY BalanceNextKeeps
  <1>3. EngineInv /\ BalanceInv => ClearingBalances
    <2>1. SUFFICES ASSUME EngineInv, BalanceInv, busy, Idle, NEW q \in Prices, NEW side \in Side
                   PROVE  QuantityCleared(side, q) = QuantityTraded(q)
      BY DEF ClearingBalances, Side
    <2>2. Owed(side, q) = 0
      BY <2>1 DEF Idle, Ready, Owed
    <2>3. QuantityCleared(side, q) \in Int /\ QuantityTraded(q) \in Int
      BY <2>1, BalanceTypes DEF EngineInv
    <2>4. QED
      BY <2>1, <2>2, <2>3 DEF BalanceInv
  <1>4. QED
    BY <1>1, <1>2, <1>3, EngineInvariant, PTL DEF EngineSpec

-----------------------------------------------------------------------------
(* The contract with the order entry thread. *)

\* Where the broker is with the front of the queue.
PhaseFacts ==
    /\ ~busy => phaseOfBroker = "idle"
    /\ busy /\ calls # <<>> /\ Head(calls).fn = "onCancelReject" => phaseOfBroker = "rejecting"
    /\ busy /\ calls # <<>> /\ Head(calls).fn = "onFill" /\ Head(calls).active =>
          phaseOfBroker = IF fills[Len(fills)].id \in Resting THEN "owesLastFill" ELSE "owesFill"
    /\ busy /\ calls # <<>> /\ Head(calls).fn # "onCancelReject"
            /\ ~(Head(calls).fn = "onFill" /\ Head(calls).active) => phaseOfBroker = "matching"
    /\ busy /\ calls = <<>> => phaseOfBroker = IF cur = NoRequest THEN "done" ELSE "matching"

\* The phase of a state, and of the next one.
LEMMA PhaseNow == PhaseFacts
  BY DEF PhaseFacts, phaseOfBroker

\* The same after a step.
LEMMA PhaseNext == PhaseFacts'
  BY PhaseNow, PTL

\* A step of the contract, or one that is invisible in it.
ContractStep ==
    \/ Contract!EngineStep \/ Contract!Enqueued \/ Contract!Drained
    \/ UNCHANGED Contract!contractVars

\* The parts of the contract's state that a step leaves alone.
LEMMA ContractFrame ==
    /\ UNCHANGED owner => UNCHANGED [id \in Ids |-> owner[OwnerKey(id)]]
    /\ UNCHANGED <<used, closed>> => UNCHANGED (used \ closed)
  OBVIOUS

\* emplace is the contract's Emit.
LEMMA EmplaceIsEmit ==
    ASSUME NEW type, NEW id, NEW client, NEW flags, Emplace(ReportOf(type, id, client, flags))
    PROVE  Contract!Emit(type, id, client, flags)
  BY DEF Emplace, ReportOf, Contract!Emit

\* Dispatching a NEW_ORDER opens the order and records its client.
LEMMA TakeNewContract ==
    ASSUME KeysDiffer, EngineInv, TakeNew
    PROVE  Contract!TakeNewOrder
  <1>1. /\ ~busy /\ busy' /\ from_client # <<>> /\ Current.msg_type = "NEW_ORDER"
        /\ calls = <<>> /\ cur = NoRequest /\ ~failed
    BY TakeFacts DEF TakeNew
  <1>2. Current.id \in Ids /\ Current.quantity \in Quantities
    BY <1>1, CurrentFacts
  <1>3. Current.quantity > 0
    BY <1>2, LadderAssumption DEF Quantities
  <1>4. /\ Current.id \notin used /\ used' = used \cup {Current.id} /\ calls' = <<>>
        /\ cur' = Incoming("NEW", Current.id, Current.side, Current.quantity, Current.price,
                           Current.flags, 0)
    BY <1>1, <1>3 DEF TakeNew, NewOrder
  <1>5. cur' # NoRequest
    BY <1>4 DEF Incoming, NoRequest
  <1>6. /\ owner' = [owner EXCEPT ![OwnerKey(Current.id)] = Current.client]
        /\ UNCHANGED <<from_client, to_client, closed>>
    BY DEF TakeNew, historyVars
  <1>7. phaseOfBroker = "idle" /\ phaseOfBroker' = "matching"
    BY <1>1, <1>4, <1>5, PhaseNow, PhaseNext DEF PhaseFacts
  <1>8. (used \ closed)' = (used \ closed) \cup {Current.id}
    BY <1>4, <1>6 DEF EngineInv, BrokerTypes
  <1>9. [id \in Ids |-> owner[OwnerKey(id)]]'
          = [[id \in Ids |-> owner[OwnerKey(id)]] EXCEPT ![Current.id] = Current.client]
    <2>1. owner \in [0..(KeySpace - 1) -> Clients \cup {NoClient}]
      BY DEF EngineInv, BrokerTypes
    <2>2. ASSUME NEW id \in Ids
          PROVE  owner'[OwnerKey(id)] = IF id = Current.id THEN Current.client ELSE owner[OwnerKey(id)]
      <3>1. OwnerKey(id) \in 0..(KeySpace - 1)
        BY OwnerKeyType
      <3>2. OwnerKey(id) = OwnerKey(Current.id) => id = Current.id
        BY <1>2 DEF KeysDiffer
      <3>3. CASE id = Current.id
        BY <1>6, <2>1, <3>1, <3>3
      <3>4. CASE id # Current.id
        BY <1>6, <2>1, <3>1, <3>2, <3>4
      <3>5. QED
        BY <3>3, <3>4
    <2>3. QED
      BY <2>2, <1>2
  <1>10. QED
    BY <1>1, <1>6, <1>7, <1>8, <1>9 DEF Contract!TakeNewOrder, Contract!Waiting, Contract!Current, Current

\* Dispatching a change leads to a reject exactly if the order is not open.
LEMMA TakeChangeContract ==
    ASSUME EngineInv, TakeDelete \/ TakeModify
    PROVE  Contract!TakeChange
  <1>1. /\ ~busy /\ busy' /\ from_client # <<>>
        /\ Current.msg_type \in {"DELETE_ORDER", "MODIFY_ORDER"}
        /\ \A id \in used : id \in closed <=> id \notin Resting
    BY TakeFacts DEF TakeDelete, TakeModify
  <1>2. TakenChange(Current.id) /\ UNCHANGED used
    BY TakeDeleteEffect, TakeModifyEffect
  <1>3. UNCHANGED <<from_client, to_client, owner, closed>>
    BY DEF TakeDelete, TakeModify, historyVars
  <1>4. Current.id \in used
    BY <1>1, CurrentFacts
  <1>5. phaseOfBroker = "idle"
    BY <1>1, PhaseNow DEF PhaseFacts
  <1>6. phaseOfBroker' = IF Current.id \in used \ closed THEN "matching" ELSE "rejecting"
    <2>1. ASSUME NEW c, calls' = <<c>> PROVE calls' # <<>> /\ Head(calls') = c
      BY <2>1
    <2>2. PICK id : id = Current.id
      OBVIOUS
    <2>3. CASE id \notin Resting /\ calls' = <<OnCancelReject(id)>>
      <3>1. Head(calls').fn = "onCancelReject" /\ calls' # <<>>
        BY <2>3 DEF OnCancelReject
      <3>2. phaseOfBroker' = "rejecting"
        BY <1>1, <3>1, PhaseNext DEF PhaseFacts
      <3>3. QED
        BY <3>2, <2>2, <2>3, <1>1, <1>4
    <2>4. CASE id \in Resting /\ calls' = <<OnDeleteOrder(id, TRUE)>>
      <3>1. Head(calls').fn = "onDeleteOrder" /\ calls' # <<>>
        BY <2>4 DEF OnDeleteOrder
      <3>2. phaseOfBroker' = "matching"
        BY <1>1, <3>1, PhaseNext DEF PhaseFacts
      <3>3. QED
        BY <3>2, <2>2, <2>4, <1>1, <1>4
    <2>5. ASSUME id \in Resting, NEW side, NEW q, NEW price, calls' = <<OnModifyOrder(id, side, q, price)>>
          PROVE  phaseOfBroker' = IF Current.id \in used \ closed THEN "matching" ELSE "rejecting"
      <3>1. Head(calls').fn = "onModifyOrder" /\ calls' # <<>>
        BY <2>5 DEF OnModifyOrder
      <3>2. phaseOfBroker' = "matching"
        BY <1>1, <3>1, PhaseNext DEF PhaseFacts
      <3>3. QED
        BY <3>2, <2>2, <2>5, <1>1, <1>4
    <2>6. CASE id \in Resting /\ calls' = <<>> /\ cur' # NoRequest
      <3>1. phaseOfBroker' = "matching"
        BY <1>1, <2>6, PhaseNext DEF PhaseFacts
      <3>2. QED
        BY <3>1, <2>2, <2>6, <1>1, <1>4
    <2>7. QED
      BY <1>2, <2>2, <2>3, <2>4, <2>5, <2>6 DEF TakenChange
  <1>7. UNCHANGED (used \ closed) /\ UNCHANGED [id \in Ids |-> owner[OwnerKey(id)]]
    BY <1>2, <1>3, ContractFrame
  <1>8. QED
    BY <1>1, <1>3, <1>5, <1>6, <1>7 DEF Contract!TakeChange, Contract!Waiting, Contract!Current, Current

\* A reject is passed on.
LEMMA TakeRejectContract ==
    ASSUME EngineInv, TakeReject
    PROVE  Contract!PassReject
  <1>1. /\ ~busy /\ busy' /\ from_client # <<>> /\ Current.msg_type = "REJECT"
        /\ calls = <<>> /\ cur = NoRequest
    BY TakeFacts DEF TakeReject
  <1>2. UNCHANGED <<from_client, owner, closed, used, calls, cur>>
    BY DEF TakeReject, historyVars, vars
  <1>3. Contract!Emit("REJECT", Current.id, Current.client, "NONE")
    BY EmplaceIsEmit DEF TakeReject
  <1>4. phaseOfBroker = "idle" /\ phaseOfBroker' = "done"
    BY <1>1, <1>2, PhaseNow, PhaseNext DEF PhaseFacts
  <1>5. UNCHANGED (used \ closed) /\ UNCHANGED [id \in Ids |-> owner[OwnerKey(id)]]
    BY <1>2, ContractFrame
  <1>6. QED
    BY <1>1, <1>2, <1>3, <1>4, <1>5 DEF Contract!PassReject, Contract!Waiting, Contract!Current, Current

\* The ladder's steps are invisible, but for the end of an order that is filled and not
\* acknowledged.
LEMMA LadderStepContract ==
    ASSUME EngineInv, LadderStep
    PROVE  Contract!FinishSilently \/ UNCHANGED Contract!contractVars
  <1>1. UNCHANGED <<from_client, to_client, busy, owner, closed>>
    BY DEF LadderStep, brokerVars, historyVars
  <1>2. CASE Match
    <2>1. /\ cur # NoRequest /\ calls = <<>> /\ UNCHANGED used
          /\ \E id \in Resting, q \in Nat, price \in Prices, f \in FillFlags, g \in FillFlags :
                Trades(id, q, price, f, g)
      BY <1>2, MatchEffect DEF EngineInv
    <2>2. calls'[1].fn = "onTrade" /\ Len(calls') = 3
      BY <2>1, TradesFields
    <2>3. calls' # <<>> /\ Head(calls').fn = "onTrade"
      <3>1. IInv'
        BY LadderKept DEF EngineNext, BrokerStep
      <3>2. calls' \in Seq(Callback)
        BY <3>1 DEF IInv, TypeOK
      <3>3. QED
        BY <2>2, <3>2, SMTT(40)
    <2>4. busy
      BY <2>1 DEF EngineInv, RequestInv, BrokerTypes
    <2>5. phaseOfBroker = "matching" /\ phaseOfBroker' = "matching"
      BY <1>1, <2>1, <2>3, <2>4, PhaseNow, PhaseNext DEF PhaseFacts
    <2>6. QED
      BY <1>1, <2>1, <2>5, ContractFrame DEF Contract!contractVars
  <1>3. CASE FinishWithoutResting \/ FinishResting
    <2>1. IInv'
      BY LadderKept DEF EngineNext, BrokerStep
    <2>2. Finishes
      BY <1>3, <2>1, FinishEffect
    <2>3. cur # NoRequest /\ calls = <<>> /\ cur' = NoRequest /\ UNCHANGED used
      BY <2>2 DEF Finishes
    <2>4. busy /\ cur.id = Current.id
          /\ Current.msg_type = IF cur.op = "NEW" THEN "NEW_ORDER" ELSE "MODIFY_ORDER"
      BY <2>3 DEF EngineInv, RequestInv, BrokerTypes
    <2>5. phaseOfBroker = "matching"
      BY <2>3, <2>4, PhaseNow DEF PhaseFacts
    <2>6. UNCHANGED (used \ closed) /\ UNCHANGED [id \in Ids |-> owner[OwnerKey(id)]]
      BY <1>1, <2>3, ContractFrame
    <2>7. CASE calls' = <<>> /\ cur.quantity = 0 /\ cur.op = "NEW"
      <3>1. phaseOfBroker' = "done"
        BY <1>1, <2>3, <2>4, <2>7, PhaseNext DEF PhaseFacts
      <3>2. cur.id \in used /\ cur.id \notin Resting
        BY <2>3, RequestTypes DEF EngineInv, IInv
      <3>3. cur.id \in closed
        BY <2>3, <2>7, <3>2 DEF EngineInv, ClosedInv, Closing, Taker
      <3>4. QED
        BY <1>1, <2>4, <2>5, <2>6, <2>7, <3>1, <3>3 DEF Contract!FinishSilently, Contract!Current, Current
    <2>8. ASSUME NEW c, calls' = <<c>>, c.fn \in {"onNewOrder", "onModifyOrder", "onDeleteOrder"}
          PROVE  UNCHANGED Contract!contractVars
      <3>1. calls' # <<>> /\ Head(calls') = c
        BY <2>8
      <3>2. phaseOfBroker' = "matching"
        BY <1>1, <2>4, <2>8, <3>1, PhaseNext DEF PhaseFacts
      <3>3. QED
        BY <1>1, <2>5, <2>6, <3>2 DEF Contract!contractVars
    <2>9. QED
      BY <2>2, <2>7, <2>8 DEF Finishes
  <1>4. QED
    BY <1>2, <1>3 DEF LadderStep

\* A callback that ends a request is one of the contract's answers.
LEMMA EndingContract ==
    ASSUME EngineInv, Callbacks, Ending
    PROVE  Contract!EngineStep
  <1>1. /\ calls # <<>> /\ calls' = Tail(calls) /\ UNCHANGED <<cur, used>>
        /\ UNCHANGED <<from_client, busy, owner>>
        /\ closed' = {x \in used : x \in closed \/ ClosingCall(calls[1], x)}
        /\ \/ RunNewOrder(calls[1]) \/ RunModifyOrder(calls[1]) \/ RunDeleteOrder(calls[1])
           \/ RunCancelReject(calls[1]) \/ RunTrade(calls[1]) \/ RunFill(calls[1])
    BY CallbackEffect
  <1>2. busy /\ calls' = <<>> /\ cur = NoRequest /\ Head(calls) = calls[1] /\ closed \subseteq used
    BY <1>1, CallsFacts DEF Ending, EngineInv, BrokerTypes
  <1>3. PICK c : c = calls[1]
    OBVIOUS
  <1>4. /\ c.id = Current.id /\ Current.id \in used
        /\ \/ c.fn = "onNewOrder" /\ Current.msg_type = "NEW_ORDER"
           \/ c.fn = "onModifyOrder" /\ Current.msg_type = "MODIFY_ORDER" /\ Current.id \in Resting
           \/ /\ c.fn = "onDeleteOrder"
              /\ Current.msg_type # "MODIFY_ORDER" => Current.id \notin closed
           \/ c.fn = "onCancelReject"
    BY <1>3 DEF Ending
  <1>5. phaseOfBroker' = "done"
    BY <1>1, <1>2, PhaseNext DEF PhaseFacts
  <1>6. UNCHANGED [id \in Ids |-> owner[OwnerKey(id)]]
    BY <1>1, ContractFrame
  <1>7. CASE c.fn = "onNewOrder" \/ c.fn = "onModifyOrder"
    <2>1. Contract!Emit("ACK", Current.id, Current.client, "NONE")
      BY <1>1, <1>3, <1>4, <1>7, EmplaceIsEmit DEF RunNewOrder, RunModifyOrder, RunDeleteOrder,
         RunCancelReject, RunTrade, RunFill, ActiveClient
    <2>2. closed' = closed
      BY <1>1, <1>2, <1>3, <1>7 DEF ClosingCall
    <2>3. phaseOfBroker = "matching"
      BY <1>1, <1>2, <1>3, <1>7, PhaseNow DEF PhaseFacts
    <2>4. c.fn = "onModifyOrder" => Current.id \in used \ closed
      BY <1>4 DEF EngineInv, ClosedInv
    <2>5. UNCHANGED (used \ closed)
      BY <1>1, <2>2, ContractFrame
    <2>6. Contract!Acknowledge
      BY <1>1, <1>4, <1>5, <1>6, <1>7, <2>1, <2>3, <2>4, <2>5 DEF Contract!Acknowledge, Contract!Current, Current
    <2>7. QED
      BY <2>6 DEF Contract!EngineStep
  <1>8. CASE c.fn = "onDeleteOrder"
    <2>1. Contract!Emit("CLOSE", Current.id, Current.client, "NONE")
      BY <1>1, <1>3, <1>4, <1>8, EmplaceIsEmit DEF RunNewOrder, RunModifyOrder, RunDeleteOrder,
         RunCancelReject, RunTrade, RunFill, ActiveClient
    <2>2. closed' = closed \cup {Current.id}
      BY <1>1, <1>2, <1>3, <1>4, <1>8 DEF ClosingCall
    <2>3. phaseOfBroker = "matching"
      BY <1>1, <1>2, <1>3, <1>8, PhaseNow DEF PhaseFacts
    <2>4. (used \ closed)' = (used \ closed) \ {Current.id}
      BY <1>1, <2>2
    <2>5. Current.msg_type = "MODIFY_ORDER" \/ Current.id \in used \ closed
      BY <1>4, <1>8
    <2>6. Contract!Close
      BY <1>1, <1>5, <1>6, <2>1, <2>3, <2>4, <2>5 DEF Contract!Close, Contract!Current, Current
    <2>7. QED
      BY <2>6 DEF Contract!EngineStep
  <1>9. CASE c.fn = "onCancelReject"
    <2>1. Contract!Emit("REJECT", Current.id, Current.client, "NONE")
      BY <1>1, <1>3, <1>4, <1>9, EmplaceIsEmit DEF RunNewOrder, RunModifyOrder, RunDeleteOrder,
         RunCancelReject, RunTrade, RunFill, ActiveClient
    <2>2. closed' = closed
      BY <1>1, <1>2, <1>3, <1>9 DEF ClosingCall
    <2>3. phaseOfBroker = "rejecting"
      BY <1>1, <1>2, <1>3, <1>9, PhaseNow DEF PhaseFacts
    <2>4. UNCHANGED (used \ closed)
      BY <1>1, <2>2, ContractFrame
    <2>5. Contract!Reject
      BY <1>1, <1>5, <1>6, <2>1, <2>3, <2>4 DEF Contract!Reject, Contract!Current, Current
    <2>6. QED
      BY <2>5 DEF Contract!EngineStep
  <1>10. QED
    BY <1>4, <1>7, <1>8, <1>9

\* The two fills of a trade are the contract's, and onTrade is invisible.
LEMMA TradeContract ==
    ASSUME EngineInv, Callbacks, InTrade
    PROVE  Contract!EngineStep \/ UNCHANGED Contract!contractVars
  <1>1. /\ calls # <<>> /\ calls' = Tail(calls) /\ UNCHANGED <<orders, cur, used>>
        /\ UNCHANGED <<from_client, busy, owner>>
        /\ closed' = {x \in used : x \in closed \/ ClosingCall(calls[1], x)}
        /\ \/ RunNewOrder(calls[1]) \/ RunModifyOrder(calls[1]) \/ RunDeleteOrder(calls[1])
           \/ RunCancelReject(calls[1]) \/ RunTrade(calls[1]) \/ RunFill(calls[1])
    BY CallbackEffect
  <1>2. /\ busy /\ closed \subseteq used /\ Head(calls) = calls[1] /\ calls[1] \in Callback
        /\ Len(calls) \in 1..3 /\ Len(calls') = Len(calls) - 1 /\ calls' \in Seq(Callback)
        /\ \A i \in 1..(Len(calls) - 1) : calls'[i] = calls[i + 1]
        /\ Len(calls) = 1 <=> calls' = <<>>
    BY <1>1, CallsFacts DEF EngineInv, BrokerTypes
  <1>3. Len(calls) # 1 => calls' # <<>> /\ Head(calls') = calls[2]
    BY <1>2
  <1>4. Resting' = Resting /\ cur # NoRequest
    BY <1>1 DEF Resting, InTrade
  <1>5. /\ cur.id = Current.id /\ Current.msg_type \in {"NEW_ORDER", "MODIFY_ORDER"}
        /\ cur.id \in used \ closed
    BY <1>4, RequestTypes DEF EngineInv, RequestInv, IInv, InTrade
  <1>6. UNCHANGED [id \in Ids |-> owner[OwnerKey(id)]]
    BY <1>1, ContractFrame
  <1>7. PICK c : c = calls[1]
    OBVIOUS
  <1>8. CASE Len(calls) = 3
    <2>1. c.fn = "onTrade" /\ PassiveFill(calls[2])
      BY <1>7, <1>8 DEF InTrade
    <2>2. ~calls[2].active
      BY <2>1 DEF PassiveFill
    <2>3. calls[2].fn = "onFill"
      BY <2>1 DEF PassiveFill
    <2>4. to_client' = to_client
      BY <1>1, <1>7, <2>1 DEF RunNewOrder, RunModifyOrder, RunDeleteOrder, RunCancelReject, RunTrade, RunFill
    <2>5. closed' = closed
      BY <1>1, <1>2, <1>7, <2>1 DEF ClosingCall
    <2>6. phaseOfBroker = "matching"
      BY <1>1, <1>2, <1>7, <2>1, PhaseNow DEF PhaseFacts
    <2>7. phaseOfBroker' = "matching"
      BY <1>1, <1>2, <1>3, <1>8, <2>2, <2>3, PhaseNext DEF PhaseFacts
    <2>8. UNCHANGED (used \ closed)
      BY <1>1, <2>5, ContractFrame
    <2>9. QED
      BY <1>1, <1>6, <2>4, <2>6, <2>7, <2>8 DEF Contract!contractVars
  <1>9. CASE Len(calls) = 2
    <2>1. /\ c.fn = "onFill" /\ ~c.active /\ c.id \in used \ (closed \cup {cur.id})
          /\ c.flags = "CLOSED" <=> c.id \notin Resting
      BY <1>7, <1>9 DEF InTrade, PassiveFill
    <2>2. c.id \in Ids /\ c.flags \in FillFlags
      BY <1>2, <1>7, <2>1, CallbackFields
    <2>3. RunFill(c)
      BY <1>1, <1>7, <2>1 DEF RunNewOrder, RunModifyOrder, RunDeleteOrder, RunCancelReject, RunTrade
    <2>4. FillClient(c) = [id \in Ids |-> owner[OwnerKey(id)]][c.id]
      BY <2>1, <2>2 DEF FillClient
    <2>5. Contract!Emit("FILL", c.id, [id \in Ids |-> owner[OwnerKey(id)]][c.id], c.flags)
      BY <2>3, <2>4, EmplaceIsEmit DEF RunFill
    <2>6. phaseOfBroker = "matching"
      BY <1>1, <1>2, <1>7, <2>1, PhaseNow DEF PhaseFacts
    <2>7. (used \ closed)' = IF c.flags = "CLOSED" THEN (used \ closed) \ {c.id} ELSE used \ closed
      BY <1>1, <1>2, <1>7, <2>1 DEF ClosingCall
    <2>8. phaseOfBroker' = IF c.flags = "CLOSED" THEN "owesFill" ELSE "owesLastFill"
      <3>1. calls[2].fn = "onFill" /\ calls[2].active
        BY <1>9 DEF InTrade, Active
      <3>2. fills'[Len(fills')].id = c.id
        <4>1. PICK f : fills' = Append(fills, f) /\ f.id = c.id
          BY <2>3 DEF RunFill
        <4>2. fills \in Seq(Filled)
          BY DEF EngineInv, BrokerTypes
        <4>3. Len(fills') = Len(fills) + 1 /\ Len(fills) \in Nat /\ fills'[Len(fills) + 1] = f
          BY <4>1, <4>2
        <4>4. QED
          BY <4>1, <4>3
      <3>3. phaseOfBroker' = IF c.id \in Resting THEN "owesLastFill" ELSE "owesFill"
        BY <1>1, <1>2, <1>3, <1>4, <1>9, <3>1, <3>2, PhaseNext DEF PhaseFacts
      <3>4. QED
        BY <3>3, <2>1
    <2>9. c.id \in (used \ closed) \ {Current.id}
      BY <2>1, <1>5
    <2>10. Contract!FillPassive(c.id, c.flags)
      BY <1>1, <1>5, <1>6, <2>5, <2>6, <2>7, <2>8, <2>9 DEF Contract!FillPassive, Contract!Current, Current
    <2>11. QED
      BY <2>2, <2>9, <2>10 DEF Contract!EngineStep, FillFlags
  <1>10. CASE Len(calls) = 1
    <2>1. /\ c = Active /\ c.fn = "onFill" /\ c.active /\ c.id = cur.id
          /\ fills[Len(fills)].id \in Resting => c.flags = "CLOSED"
      BY <1>7, <1>10 DEF InTrade, Active
    <2>2. c.flags \in FillFlags
      BY <1>2, <1>7, <2>1, CallbackFields
    <2>3. RunFill(c)
      BY <1>1, <1>7, <2>1 DEF RunNewOrder, RunModifyOrder, RunDeleteOrder, RunCancelReject, RunTrade
    <2>4. FillClient(c) = Current.client
      BY <2>1 DEF FillClient, ActiveClient
    <2>5. Contract!Emit("FILL", Current.id, Current.client, c.flags)
      BY <1>5, <2>1, <2>3, <2>4, EmplaceIsEmit DEF RunFill
    <2>6. phaseOfBroker = IF fills[Len(fills)].id \in Resting THEN "owesLastFill" ELSE "owesFill"
      BY <1>1, <1>2, <1>7, <2>1, PhaseNow DEF PhaseFacts
    <2>7. phaseOfBroker = "owesFill" \/ (phaseOfBroker = "owesLastFill" /\ c.flags = "CLOSED")
      BY <2>1, <2>6
    <2>8. phaseOfBroker' = "matching"
      BY <1>1, <1>2, <1>4, <1>10, PhaseNext DEF PhaseFacts
    <2>9. (used \ closed)' = IF c.flags = "CLOSED" THEN (used \ closed) \ {Current.id} ELSE used \ closed
      BY <1>1, <1>2, <1>5, <1>7, <2>1 DEF ClosingCall
    <2>10. Contract!FillActive(c.flags)
      BY <1>1, <1>6, <2>5, <2>7, <2>8, <2>9 DEF Contract!FillActive, Contract!Current, Current
    <2>11. QED
      BY <2>2, <2>10 DEF Contract!EngineStep, FillFlags
  <1>11. QED
    BY <1>2, <1>8, <1>9, <1>10

\* The request is popped when all its reports are out.
LEMMA FinishedPacketContract ==
    ASSUME EngineInv, FinishedPacket
    PROVE  Contract!Pop
  <1>1. /\ busy /\ calls = <<>> /\ cur = NoRequest
        /\ from_client' = Tail(from_client) /\ busy' = FALSE
        /\ UNCHANGED <<used, to_client, owner, closed>>
    BY DEF FinishedPacket, historyVars, vars, Idle, Ready
  <1>2. phaseOfBroker = "done" /\ phaseOfBroker' = "idle"
    BY <1>1, PhaseNow, PhaseNext DEF PhaseFacts
  <1>3. QED
    BY <1>1, <1>2, ContractFrame DEF Contract!Pop

\* The order entry thread appends requests and takes reports.
LEMMA OrderEntryContract ==
    ASSUME EngineInv, OrderEntry
    PROVE  Contract!Enqueued \/ Contract!Drained
  <1>1. UNCHANGED <<vars, busy, owner, fills>>
    BY DEF OrderEntry, EnqueueNew, EnqueueDelete, EnqueueModify, EnqueueReject, Enqueue, Drain, outVars
  <1>2. UNCHANGED closed
    BY DEF OrderEntry, EnqueueNew, EnqueueDelete, EnqueueModify, EnqueueReject, Drain, historyVars
  <1>3. UNCHANGED <<orders, cur, calls, used>>
    BY <1>1 DEF vars
  <1>4. UNCHANGED phaseOfBroker
    BY <1>1, <1>3 DEF phaseOfBroker, Resting
  <1>5. UNCHANGED (used \ closed) /\ UNCHANGED [id \in Ids |-> owner[OwnerKey(id)]]
    BY <1>1, <1>2, <1>3, ContractFrame
  <1>6. CASE Drain
    BY <1>4, <1>5, <1>6 DEF Drain, Contract!Drained
  <1>7. ASSUME NEW p, Enqueue(p) PROVE Contract!Enqueued
    <2>1. /\ Len(from_client) < QueueCapacity /\ from_client' = Append(from_client, p)
          /\ to_client' = to_client
      BY <1>7 DEF Enqueue
    <2>2. from_client \in Seq(Asked)
      BY DEF EngineInv, BrokerTypes
    <2>3. PICK S : from_client \in Seq(S) /\ p \in S
      <3>1. from_client \in Seq(Asked \cup {p})
        BY <2>2, SeqMonotonic
      <3>2. QED
        BY <3>1
    <2>4. /\ Len(from_client') = Len(from_client) + 1 /\ Len(from_client) \in Nat
          /\ from_client' \in Seq(S)
          /\ \A i \in 1..Len(from_client) : from_client'[i] = from_client[i]
      BY <2>1, <2>3
    <2>5. SubSeq(from_client', 1, Len(from_client)) = from_client
      <3>1. \A i \in 1..Len(from_client) : from_client'[i] \in S
        BY <2>3, <2>4
      <3>2. /\ SubSeq(from_client', 1, Len(from_client)) \in Seq(S)
            /\ Len(SubSeq(from_client', 1, Len(from_client))) = Len(from_client)
            /\ \A i \in 1..Len(from_client) : SubSeq(from_client', 1, Len(from_client))[i] = from_client'[i]
        BY <2>4, <3>1
      <3>3. QED
        BY <2>3, <2>4, <3>2, SeqEqual
    <2>6. QED
      BY <1>4, <1>5, <2>1, <2>4, <2>5 DEF Contract!Enqueued
  <1>8. QED
    BY <1>6, <1>7 DEF OrderEntry, EnqueueNew, EnqueueDelete, EnqueueModify, EnqueueReject

\* Every step of the broker is a step of the contract, or invisible in it.
LEMMA EngineStepIsContractStep ==
    ASSUME KeysDiffer, EngineInv, [EngineNext]_engineVars
    PROVE  ContractStep
  <1>1. CASE TakeNew
    BY <1>1, TakeNewContract DEF ContractStep, Contract!EngineStep
  <1>2. CASE TakeDelete \/ TakeModify
    BY <1>2, TakeChangeContract DEF ContractStep, Contract!EngineStep
  <1>3. CASE TakeReject
    BY <1>3, TakeRejectContract DEF ContractStep, Contract!EngineStep
  <1>4. CASE LadderStep
    BY <1>4, LadderStepContract DEF ContractStep, Contract!EngineStep
  <1>5. CASE Callbacks
    <2>1. Ending \/ InTrade
      BY <1>5, CallbackEffect, CallsFacts
    <2>2. QED
      BY <1>5, <2>1, EndingContract, TradeContract DEF ContractStep
  <1>6. CASE FinishedPacket
    BY <1>6, FinishedPacketContract DEF ContractStep, Contract!EngineStep
  <1>7. CASE OrderEntry
    BY <1>7, OrderEntryContract DEF ContractStep
  <1>8. CASE UNCHANGED engineVars
    <2>1. UNCHANGED <<from_client, to_client, busy, owner, fills, closed, vars>>
      BY <1>8 DEF engineVars, brokerVars, outVars, historyVars
    <2>2. UNCHANGED <<orders, cur, calls, used>>
      BY <2>1 DEF vars
    <2>3. UNCHANGED phaseOfBroker
      BY <2>1, <2>2 DEF phaseOfBroker, Resting
    <2>4. UNCHANGED Contract!contractVars
      BY <2>1, <2>2, <2>3, ContractFrame DEF Contract!contractVars
    <2>5. QED
      BY <2>4 DEF ContractStep
  <1>9. QED
    BY <1>1, <1>2, <1>3, <1>4, <1>5, <1>6, <1>7, <1>8 DEF EngineNext, BrokerStep

\* The broker implements the contract that the order entry thread relies on, and that
\* Exchange composes with it, again when the ids in use have keys of their own.
THEOREM EngineImplementsContract ==
    ASSUME KeysDiffer
    PROVE  EngineSpec => ImplementsContract
  <1>1. EngineInit => Contract!ContractInit
    <2>1. SUFFICES ASSUME EngineInit PROVE Contract!ContractInit
      OBVIOUS
    <2>2. /\ from_client = <<>> /\ to_client = <<>> /\ ~busy /\ used = {}
          /\ owner = [k \in 0..(KeySpace - 1) |-> NoClient]
      BY <2>1 DEF EngineInit, Init
    <2>3. phaseOfBroker = "idle"
      BY <2>2, PhaseNow DEF PhaseFacts
    <2>4. [id \in Ids |-> owner[OwnerKey(id)]] = [id \in Ids |-> NoClient]
      BY <2>2, OwnerKeyType
    <2>5. QED
      BY <2>2, <2>3, <2>4 DEF Contract!ContractInit
  <1>2. EngineInv /\ [EngineNext]_engineVars =>
           [Contract!EngineStep \/ Contract!Enqueued \/ Contract!Drained]_(Contract!contractVars)
    BY EngineStepIsContractStep DEF ContractStep
  <1>3. QED
    BY <1>1, <1>2, EngineInvariant, PTL DEF EngineSpec, ImplementsContract, Contract!ContractSpec

-----------------------------------------------------------------------------
(***************************************************************************)
(* The market data feed of the broker, for any orders and prices: a        *)
(* consumer that applies every message has price levels that are the sums  *)
(* of its orders and, between two packets, the ladder's orders.  Trades    *)
(* are published after the message about the order that made them, so in   *)
(* between the consumer is behind by the trades not yet published.         *)
(***************************************************************************)

(* A consumer's book. *)

BookOrder == [side : Side, price : Prices, quantity : Nat]

BookTyped(book) ==
    /\ IsFiniteSet(DOMAIN book.orders)
    /\ \A id \in DOMAIN book.orders : book.orders[id] \in BookOrder
    /\ book.orders = [id \in DOMAIN book.orders |-> book.orders[id]]
    /\ book.levels \in [Side -> [Prices -> Int]]
    /\ book = [orders |-> book.orders, levels |-> book.levels]

At(book, side, p) ==
    {id \in DOMAIN book.orders : book.orders[id].side = side /\ book.orders[id].price = p}
SizeOf(book) == [id \in DOMAIN book.orders |-> book.orders[id].quantity]

\* The levels are the sums of the orders.
AddsUp(book) ==
    \A side \in Side, p \in Prices : book.levels[side][p] = Total(SizeOf(book), At(book, side, p))

BookOK(book) == BookTyped(book) /\ AddsUp(book)

-----------------------------------------------------------------------------
(* The invariant. *)

\* The trades of the request that are not published, the one being reported included.
Unpublished ==
    IF calls # <<>> /\ calls[1].fn = "onTrade"
    THEN Append(queued_trades, [id |-> calls[1].id, quantity |-> calls[1].quantity,
                                price |-> calls[1].price])
    ELSE queued_trades

\* The order whose own message is still to come.
Underway(id) ==
    \/ cur # NoRequest /\ id = cur.id
    \/ /\ calls # <<>> /\ id = calls[1].id
       /\ calls[1].fn \in {"onNewOrder", "onModifyOrder", "onDeleteOrder"}

\* The consumer knows only orders that the ladder was given, and not the one that is
\* announced next.
BookInv ==
    /\ BookOK(view)
    /\ DOMAIN view.orders \subseteq used
    /\ cur # NoRequest /\ cur.op = "NEW" => cur.id \notin DOMAIN view.orders
    /\ calls # <<>> /\ calls[1].fn = "onNewOrder" => calls[1].id \notin DOMAIN view.orders
    /\ calls # <<>> /\ calls[1].fn = "onDeleteOrder" /\ ~calls[1].publish =>
          calls[1].id \notin DOMAIN view.orders

\* A request trades once with an order, and goes on only after it has filled the order.
TradeInv ==
    /\ ~busy => queued_trades = <<>>
    /\ \A i, j \in DOMAIN Unpublished : Unpublished[i].id = Unpublished[j].id => i = j
    /\ \A i \in DOMAIN Unpublished : ~Underway(Unpublished[i].id)
    /\ cur # NoRequest /\ cur.quantity > 0 =>
          \A i \in DOMAIN Unpublished : Unpublished[i].id \notin Resting

Left(id) == IF id \in Resting THEN orders[id].quantity ELSE 0

SamePlace(id) ==
    id \in Resting => /\ view.orders[id].side = orders[id].side
                      /\ view.orders[id].price = orders[id].price

\* What the consumer knows of an order is what rests, or rested before the trade that it
\* is not told of yet.
Mirrored(id) ==
    /\ (\A i \in DOMAIN Unpublished : Unpublished[i].id # id) =>
          /\ id \in DOMAIN view.orders <=> id \in Resting
          /\ id \in Resting => view.orders[id].quantity = orders[id].quantity /\ SamePlace(id)
    /\ \A i \in DOMAIN Unpublished : Unpublished[i].id = id =>
          /\ id \in DOMAIN view.orders
          /\ view.orders[id].quantity = Unpublished[i].quantity + Left(id)
          /\ SamePlace(id)

\* The message about to be published says of the order what is the case.
Announced(id, c) ==
    /\ c.fn = "onNewOrder" => id \in Resting <=> c.quantity > 0
    /\ c.fn = "onModifyOrder" => id \in DOMAIN view.orders /\ id \in Resting
    /\ c.fn \in {"onNewOrder", "onModifyOrder"} /\ id \in Resting =>
          /\ orders[id].side = c.side /\ orders[id].price = c.price
          /\ orders[id].quantity = c.quantity
    /\ c.fn = "onDeleteOrder" => id \notin Resting

ViewInv ==
    \A id \in Ids \ resized :
        /\ ~Underway(id) => Mirrored(id)
        /\ cur # NoRequest /\ id = cur.id /\ cur.op = "MODIFY" => id \in DOMAIN view.orders
        /\ calls # <<>> /\ id = calls[1].id => Announced(id, calls[1])

FeedInv == BookInv /\ TradeInv /\ ViewInv

-----------------------------------------------------------------------------
(* What the consumer's operations do to its levels. *)

\* A sum of natural numbers is one.
LEMMA TotalNatural ==
    ASSUME NEW f, NEW S, IsFiniteSet(S), \A x \in S : f[x] \in Nat
    PROVE  Total(f, S) \in Nat
  <1> DEFINE B == {s \in SUBSET S : Total(f, s) \notin Nat}
  <1>1. SUFFICES ASSUME B # {} PROVE FALSE
    OBVIOUS
  <1>2. PICK s \in B : \A r \in B : r \subseteq s => r = s
    <2>1. B \subseteq SUBSET S
      OBVIOUS
    <2> HIDE DEF B
    <2>2. QED
      BY <1>1, <2>1, SmallestSubset
  <1>3. s \in SUBSET S /\ Total(f, s) \notin Nat /\ IsFiniteSet(s)
    BY <1>2, FS_Subset
  <1>4. s # {}
    BY <1>3, TotalEmpty
  <1>5. PICK y : y \in s
    BY <1>4
  <1>6. Total(f, s) = f[y] + Total(f, s \ {y})
    BY <1>3, <1>5, TotalWithout
  <1>7. Total(f, s \ {y}) \in Nat
    <2>1. s \ {y} \in SUBSET S /\ s \ {y} # s
      BY <1>3, <1>5
    <2>2. QED
      BY <1>2, <2>1
  <1>8. QED
    BY <1>3, <1>5, <1>6, <1>7

\* The fields of an order of the book.
LEMMA BookFields ==
    ASSUME NEW book, BookTyped(book), NEW id \in DOMAIN book.orders
    PROVE  /\ book.orders[id].side \in Side /\ book.orders[id].price \in Prices
           /\ book.orders[id].quantity \in Nat
           /\ book.orders[id] = [side |-> book.orders[id].side, price |-> book.orders[id].price,
                                 quantity |-> book.orders[id].quantity]
           /\ SizeOf(book)[id] = book.orders[id].quantity
  BY DEF BookTyped, BookOrder, SizeOf

\* The orders of a level are finitely many and their sum is a number.
LEMMA LevelTotal ==
    ASSUME NEW book, BookTyped(book), NEW side, NEW p
    PROVE  /\ IsFiniteSet(At(book, side, p)) /\ At(book, side, p) \subseteq DOMAIN book.orders
           /\ \A x \in At(book, side, p) : SizeOf(book)[x] \in Nat
           /\ Total(SizeOf(book), At(book, side, p)) \in Nat
  <1>1. At(book, side, p) \subseteq DOMAIN book.orders
    BY DEF At
  <1>2. IsFiniteSet(At(book, side, p))
    BY <1>1, FS_Subset DEF BookTyped
  <1>3. \A x \in At(book, side, p) : SizeOf(book)[x] \in Nat
    BY <1>1, BookFields
  <1>4. QED
    BY <1>1, <1>2, <1>3, TotalNatural

\* One order more: the sum of its level grows by its quantity, the others stay.
LEMMA OneOrderMore ==
    ASSUME NEW b, NEW c, BookTyped(b), BookTyped(c), NEW id, id \notin DOMAIN b.orders,
           DOMAIN c.orders = DOMAIN b.orders \cup {id},
           \A x \in DOMAIN b.orders : c.orders[x] = b.orders[x],
           NEW side, NEW p
    PROVE  Total(SizeOf(c), At(c, side, p)) =
             Total(SizeOf(b), At(b, side, p)) +
             (IF c.orders[id].side = side /\ c.orders[id].price = p THEN c.orders[id].quantity ELSE 0)
  <1>1. /\ IsFiniteSet(At(b, side, p)) /\ At(b, side, p) \subseteq DOMAIN b.orders
        /\ Total(SizeOf(b), At(b, side, p)) \in Nat
    BY LevelTotal
  <1>2. ASSUME NEW x \in At(b, side, p)
        PROVE  SizeOf(b)[x] = SizeOf(c)[x] /\ SizeOf(c)[x] \in Nat
    <2>1. x \in DOMAIN b.orders /\ x \in DOMAIN c.orders /\ c.orders[x] = b.orders[x]
      BY <1>1
    <2>2. SizeOf(b)[x] = b.orders[x].quantity /\ b.orders[x].quantity \in Nat
      BY <2>1, BookFields
    <2>3. SizeOf(c)[x] = c.orders[x].quantity
      BY <2>1, BookFields
    <2>4. QED
      BY <2>1, <2>2, <2>3
  <1>3. Total(SizeOf(b), At(b, side, p)) = Total(SizeOf(c), At(b, side, p))
    BY <1>1, <1>2, TotalSame
  <1>4. SizeOf(c)[id] = c.orders[id].quantity /\ c.orders[id].quantity \in Nat
    BY BookFields
  <1>5. CASE c.orders[id].side = side /\ c.orders[id].price = p
    <2>1. At(c, side, p) = At(b, side, p) \cup {id} /\ id \notin At(b, side, p)
      BY <1>1, <1>5 DEF At
    <2>2. \A x \in At(b, side, p) \cup {id} : SizeOf(c)[x] \in Int
      BY <1>2, <1>4
    <2>3. Total(SizeOf(c), At(c, side, p)) = Total(SizeOf(c), At(b, side, p)) + SizeOf(c)[id]
      BY <1>1, <2>1, <2>2, TotalWith
    <2>4. QED
      BY <1>3, <1>4, <1>5, <2>3
  <1>6. CASE ~(c.orders[id].side = side /\ c.orders[id].price = p)
    <2>1. At(c, side, p) = At(b, side, p)
      BY <1>1, <1>6 DEF At
    <2>2. QED
      BY <1>1, <1>3, <1>6, <2>1
  <1>7. QED
    BY <1>5, <1>6

\* A level holds at least what each of its orders has left.
LEMMA LevelHolds ==
    ASSUME NEW b, BookOK(b), NEW id \in DOMAIN b.orders
    PROVE  LET o == b.orders[id] IN b.levels[o.side][o.price] >= o.quantity
  <1>1. PICK o : o = b.orders[id]
    OBVIOUS
  <1>2. o.side \in Side /\ o.price \in Prices /\ o.quantity \in Nat /\ SizeOf(b)[id] = o.quantity
    BY <1>1, BookFields DEF BookOK
  <1>3. PICK S : S = At(b, o.side, o.price)
    OBVIOUS
  <1>4. IsFiniteSet(S) /\ \A x \in S : SizeOf(b)[x] \in Nat
    BY <1>3, LevelTotal DEF BookOK
  <1>5. id \in S
    BY <1>1, <1>3 DEF At
  <1>6. Total(SizeOf(b), S) = SizeOf(b)[id] + Total(SizeOf(b), S \ {id})
    BY <1>4, <1>5, TotalWithout
  <1>7. Total(SizeOf(b), S \ {id}) \in Nat
    BY <1>4, FS_RemoveElement, TotalNatural
  <1>8. b.levels[o.side][o.price] = Total(SizeOf(b), S)
    BY <1>2, <1>3 DEF BookOK, AddsUp
  <1>9. QED
    BY <1>1, <1>2, <1>6, <1>7, <1>8

\* delete_order: the order is gone and its level has lost its quantity.
LEMMA DeleteEffect ==
    ASSUME NEW b, BookOK(b), NEW id \in DOMAIN b.orders
    PROVE  LET o == b.orders[id]
               c == Book!delete_order(b, id)
           IN  /\ c.orders = [x \in DOMAIN b.orders \ {id} |-> b.orders[x]]
               /\ c.levels = [b.levels EXCEPT ![o.side][o.price] = @ - o.quantity]
               /\ c = [orders |-> c.orders, levels |-> c.levels]
  <1>1. PICK o : o = b.orders[id]
    OBVIOUS
  <1>2. b.levels[o.side][o.price] >= o.quantity
    BY <1>1, LevelHolds
  <1>3. o.side \in Side /\ o.price \in Prices /\ o.quantity \in Nat
    BY <1>1, BookFields DEF BookOK
  <1>4. b.levels[o.side][o.price] \in Int
    BY <1>3 DEF BookOK, BookTyped
  <1>5. ~(b.levels[o.side][o.price] < o.quantity)
    BY <1>2, <1>3, <1>4
  <1>6. Book!LevelsWithout(b, id) = [b.levels EXCEPT ![o.side][o.price] = @ - o.quantity]
    BY <1>1, <1>5 DEF Book!LevelsWithout
  <1>7. Book!OrdersWithout(b, id) = [x \in DOMAIN b.orders \ {id} |-> b.orders[x]]
    BY DEF Book!OrdersWithout, Book!Restrict
  <1>8. Book!delete_order(b, id) = [orders |-> Book!OrdersWithout(b, id),
                                    levels |-> Book!LevelsWithout(b, id)]
    BY DEF Book!delete_order, Book!Known
  <1>9. QED
    BY <1>1, <1>6, <1>7, <1>8

\* A book with one order and its quantity taken out still adds up.
LEMMA DeleteKeepsBook ==
    ASSUME NEW b, BookOK(b), NEW id \in DOMAIN b.orders
    PROVE  BookOK(Book!delete_order(b, id))
  <1>1. PICK o : o = b.orders[id]
    OBVIOUS
  <1>2. PICK c : c = Book!delete_order(b, id)
    OBVIOUS
  <1>3. /\ c.orders = [x \in DOMAIN b.orders \ {id} |-> b.orders[x]]
        /\ c.levels = [b.levels EXCEPT ![o.side][o.price] = @ - o.quantity]
        /\ c = [orders |-> c.orders, levels |-> c.levels]
    BY <1>1, <1>2, DeleteEffect
  <1>4. o.side \in Side /\ o.price \in Prices /\ o.quantity \in Nat
    BY <1>1, BookFields DEF BookOK
  <1>5. /\ DOMAIN c.orders = DOMAIN b.orders \ {id}
        /\ \A x \in DOMAIN c.orders : c.orders[x] = b.orders[x]
    BY <1>3
  <1>6. BookTyped(c)
    <2>1. IsFiniteSet(DOMAIN c.orders)
      BY <1>5, FS_RemoveElement DEF BookOK, BookTyped
    <2>2. \A x \in DOMAIN c.orders : c.orders[x] \in BookOrder
      BY <1>5 DEF BookOK, BookTyped
    <2>3. c.levels \in [Side -> [Prices -> Int]]
      BY <1>3, <1>4 DEF BookOK, BookTyped
    <2>4. c.orders = [x \in DOMAIN c.orders |-> c.orders[x]]
      BY <1>3
    <2>5. QED
      BY <1>3, <2>1, <2>2, <2>3, <2>4 DEF BookTyped
  <1>7. ASSUME NEW side \in Side, NEW p \in Prices
        PROVE  c.levels[side][p] = Total(SizeOf(c), At(c, side, p))
    <2>1. Total(SizeOf(b), At(b, side, p)) =
            Total(SizeOf(c), At(c, side, p)) + (IF o.side = side /\ o.price = p THEN o.quantity ELSE 0)
      BY <1>1, <1>5, <1>6, OneOrderMore DEF BookOK
    <2>2. b.levels[side][p] = Total(SizeOf(b), At(b, side, p))
      BY DEF BookOK, AddsUp
    <2>3. Total(SizeOf(c), At(c, side, p)) \in Nat
      BY <1>6, LevelTotal
    <2>4. b.levels \in [Side -> [Prices -> Int]]
      BY DEF BookOK, BookTyped
    <2>5. c.levels[side][p] = b.levels[side][p] - (IF o.side = side /\ o.price = p THEN o.quantity ELSE 0)
      BY <1>3, <1>4, <2>4
    <2>6. QED
      BY <1>4, <2>1, <2>2, <2>3, <2>5
  <1>8. QED
    BY <1>2, <1>6, <1>7 DEF BookOK, AddsUp

\* c is b with this order at id, added to the levels l.
Entered(b, l, c, id, side, quantity, price) ==
    /\ c.orders = [x \in DOMAIN b.orders \cup {id} |->
                     IF x = id THEN [side |-> side, price |-> price, quantity |-> quantity]
                     ELSE b.orders[x]]
    /\ c.levels = [l EXCEPT ![side][price] = @ + quantity]
    /\ c = [orders |-> c.orders, levels |-> c.levels]

\* new_order of an order that is not known yet keeps the sums.
LEMMA NewKeepsBook ==
    ASSUME NEW b, BookOK(b), NEW id, id \notin DOMAIN b.orders,
           NEW side \in Side, NEW quantity \in Nat, NEW price \in Prices
    PROVE  /\ BookOK(Book!new_order(b, id, side, quantity, price))
           /\ Entered(b, b.levels, Book!new_order(b, id, side, quantity, price),
                      id, side, quantity, price)
  <1>1. PICK o : o = [side |-> side, price |-> price, quantity |-> quantity]
    OBVIOUS
  <1>2. PICK c : c = Book!new_order(b, id, side, quantity, price)
    OBVIOUS
  <1>3. /\ c.orders = [x \in DOMAIN b.orders \cup {id} |-> IF x = id THEN o ELSE b.orders[x]]
        /\ c.levels = [b.levels EXCEPT ![side][price] = @ + quantity]
        /\ c = [orders |-> c.orders, levels |-> c.levels]
    BY <1>1, <1>2 DEF Book!new_order, Book!Known, Book!OrdersWith
  <1>4. o.side = side /\ o.price = price /\ o.quantity = quantity /\ o \in BookOrder
    BY <1>1 DEF BookOrder
  <1>5. /\ DOMAIN c.orders = DOMAIN b.orders \cup {id}
        /\ \A x \in DOMAIN b.orders : c.orders[x] = b.orders[x]
        /\ c.orders[id] = o
    BY <1>3
  <1>6. BookTyped(c)
    <2>1. IsFiniteSet(DOMAIN c.orders)
      BY <1>5, FS_AddElement DEF BookOK, BookTyped
    <2>2. \A x \in DOMAIN c.orders : c.orders[x] \in BookOrder
      BY <1>4, <1>5 DEF BookOK, BookTyped
    <2>3. c.levels \in [Side -> [Prices -> Int]]
      BY <1>3 DEF BookOK, BookTyped
    <2>4. c.orders = [x \in DOMAIN c.orders |-> c.orders[x]]
      BY <1>3
    <2>5. QED
      BY <1>3, <2>1, <2>2, <2>3, <2>4 DEF BookTyped
  <1>7. ASSUME NEW s \in Side, NEW p \in Prices
        PROVE  c.levels[s][p] = Total(SizeOf(c), At(c, s, p))
    <2>1. Total(SizeOf(c), At(c, s, p)) =
            Total(SizeOf(b), At(b, s, p)) + (IF side = s /\ price = p THEN quantity ELSE 0)
      BY <1>4, <1>5, <1>6, OneOrderMore DEF BookOK
    <2>2. b.levels[s][p] = Total(SizeOf(b), At(b, s, p))
      BY DEF BookOK, AddsUp
    <2>3. b.levels \in [Side -> [Prices -> Int]]
      BY DEF BookOK, BookTyped
    <2>4. c.levels[s][p] = b.levels[s][p] + (IF side = s /\ price = p THEN quantity ELSE 0)
      BY <1>3, <2>3
    <2>5. QED
      BY <2>1, <2>2, <2>4
  <1>8. QED
    BY <1>1, <1>2, <1>3, <1>6, <1>7 DEF BookOK, AddsUp, Entered

\* modify_order of a known order puts it in anew, and keeps the sums.
LEMMA ModifyKeepsBook ==
    ASSUME NEW b, BookOK(b), NEW id \in DOMAIN b.orders,
           NEW side \in Side, NEW quantity \in Nat, NEW price \in Prices
    PROVE  /\ BookOK(Book!modify_order(b, id, side, quantity, price))
           /\ Entered(b, Book!LevelsWithout(b, id), Book!modify_order(b, id, side, quantity, price),
                      id, side, quantity, price)
  <1>1. PICK o : o = [side |-> side, price |-> price, quantity |-> quantity]
    OBVIOUS
  <1>2. PICK a : a = Book!delete_order(b, id)
    OBVIOUS
  <1>3. PICK d : d = Book!new_order(a, id, side, quantity, price)
    OBVIOUS
  <1>4. PICK c : c = Book!modify_order(b, id, side, quantity, price)
    OBVIOUS
  <1>5. BookOK(a) /\ a.orders = [x \in DOMAIN b.orders \ {id} |-> b.orders[x]]
    BY <1>2, DeleteKeepsBook, DeleteEffect
  <1>6. a.levels = Book!LevelsWithout(b, id)
    BY <1>2 DEF Book!delete_order, Book!Known
  <1>7. id \notin DOMAIN a.orders /\ DOMAIN a.orders = DOMAIN b.orders \ {id}
        /\ \A x \in DOMAIN a.orders : a.orders[x] = b.orders[x]
    BY <1>5
  <1>8. /\ BookOK(d) /\ d = [orders |-> d.orders, levels |-> d.levels]
        /\ d.orders = [x \in DOMAIN a.orders \cup {id} |-> IF x = id THEN o ELSE a.orders[x]]
        /\ d.levels = [a.levels EXCEPT ![side][price] = @ + quantity]
    <2>1. BookOK(d) /\ Entered(a, a.levels, d, id, side, quantity, price)
      BY <1>3, <1>5, <1>7, NewKeepsBook
    <2>2. QED
      BY <1>1, <2>1 DEF Entered
  <1>9. d.orders = [x \in DOMAIN b.orders \cup {id} |-> IF x = id THEN o ELSE b.orders[x]]
    BY <1>7, <1>8
  <1>10. /\ c.orders = [x \in DOMAIN b.orders \cup {id} |-> IF x = id THEN o ELSE b.orders[x]]
         /\ c.levels = [Book!LevelsWithout(b, id) EXCEPT ![side][price] = @ + quantity]
         /\ c = [orders |-> c.orders, levels |-> c.levels]
    BY <1>1, <1>4 DEF Book!modify_order, Book!Known, Book!OrdersWith
  <1>11. c = d
    BY <1>6, <1>8, <1>9, <1>10
  <1>12. QED
    BY <1>1, <1>4, <1>8, <1>10, <1>11 DEF Entered

\* order_trade takes the quantity out of an order that has it, and nothing from any other.
TradedFrom(b, c, id, q) ==
    /\ DOMAIN c.orders \subseteq DOMAIN b.orders
    /\ \A x \in DOMAIN b.orders \ {id} : x \in DOMAIN c.orders /\ c.orders[x] = b.orders[x]
    /\ id \in DOMAIN b.orders /\ b.orders[id].quantity = q => id \notin DOMAIN c.orders
    /\ id \in DOMAIN b.orders /\ b.orders[id].quantity > q =>
          /\ id \in DOMAIN c.orders /\ c.orders[id].quantity = b.orders[id].quantity - q
          /\ c.orders[id].side = b.orders[id].side /\ c.orders[id].price = b.orders[id].price

\* order_trade keeps the sums, whether it fills the order, leaves something of it, or
\* ignores a trade that it cannot place.
LEMMA TradeKeepsBook ==
    ASSUME NEW b, BookOK(b), NEW id, NEW q \in Nat
    PROVE  BookOK(Book!order_trade(b, id, q)) /\ TradedFrom(b, Book!order_trade(b, id, q), id, q)
  <1>1. PICK c : c = Book!order_trade(b, id, q)
    OBVIOUS
  <1>2. CASE ~(id \in DOMAIN b.orders)
    <2>1. c = b
      BY <1>1, <1>2 DEF Book!order_trade, Book!Known
    <2>2. QED
      BY <1>1, <1>2, <2>1 DEF TradedFrom
  <1>3. CASE id \in DOMAIN b.orders
    <2>1. PICK o : o = b.orders[id]
      OBVIOUS
    <2>2. /\ o.side \in Side /\ o.price \in Prices /\ o.quantity \in Nat
          /\ o = [side |-> o.side, price |-> o.price, quantity |-> o.quantity]
      BY <1>3, <2>1, BookFields DEF BookOK
    <2>3. PICK left : left = [b.levels EXCEPT ![o.side][o.price] = @ - q]
      OBVIOUS
    <2>4. b.levels \in [Side -> [Prices -> Int]] /\ b = [orders |-> b.orders, levels |-> b.levels]
      BY DEF BookOK, BookTyped
    <2>5. CASE o.quantity < q
      <3>1. c = b
        BY <1>1, <2>1, <2>5 DEF Book!order_trade
      <3>2. QED
        BY <1>1, <2>1, <2>2, <2>5, <3>1 DEF TradedFrom
    <2>6. CASE o.quantity = q
      <3>1. c = [orders |-> Book!OrdersWithout(b, id), levels |-> left]
        BY <1>1, <1>3, <2>1, <2>2, <2>3, <2>6 DEF Book!order_trade, Book!Known
      <3>2. Book!OrdersWithout(b, id) = [x \in DOMAIN b.orders \ {id} |-> b.orders[x]]
        BY DEF Book!OrdersWithout, Book!Restrict
      <3>3. c.orders = [x \in DOMAIN b.orders \ {id} |-> b.orders[x]] /\ c.levels = left
        BY <3>1, <3>2
      <3>4. PICK d : d = Book!delete_order(b, id)
        OBVIOUS
      <3>5. /\ d.orders = [x \in DOMAIN b.orders \ {id} |-> b.orders[x]]
            /\ d.levels = [b.levels EXCEPT ![o.side][o.price] = @ - o.quantity]
            /\ d = [orders |-> d.orders, levels |-> d.levels]
        BY <1>3, <2>1, <3>4, DeleteEffect
      <3>6. c = d
        BY <2>3, <2>6, <3>1, <3>3, <3>5
      <3>7. BookOK(c)
        BY <1>3, <3>4, <3>6, DeleteKeepsBook
      <3>8. TradedFrom(b, c, id, q)
        BY <2>1, <2>2, <2>6, <3>3 DEF TradedFrom
      <3>9. QED
        BY <1>1, <3>7, <3>8
    <2>7. CASE o.quantity > q
      <3>1. PICK r : r = [side |-> o.side, price |-> o.price, quantity |-> o.quantity - q]
        OBVIOUS
      <3>2. r = [o EXCEPT !.quantity = @ - q]
        BY <2>2, <3>1
      <3>3. c = [orders |-> [x \in DOMAIN b.orders |-> IF x = id THEN r ELSE b.orders[x]], levels |-> left]
        <4>1. c = [orders |-> Book!OrdersWith(b, id, [o EXCEPT !.quantity = @ - q]), levels |-> left]
          BY <1>1, <1>3, <2>1, <2>2, <2>3, <2>7 DEF Book!order_trade, Book!Known
        <4>2. DOMAIN b.orders \cup {id} = DOMAIN b.orders
          BY <1>3
        <4>3. QED
          BY <3>2, <4>1, <4>2 DEF Book!OrdersWith
      <3>4. PICK d : d = Book!modify_order(b, id, o.side, o.quantity - q, o.price)
        OBVIOUS
      <3>5. o.quantity - q \in Nat
        BY <2>2, <2>7
      <3>6. /\ BookOK(d)
            /\ d.orders = [x \in DOMAIN b.orders |-> IF x = id THEN r ELSE b.orders[x]]
            /\ d.levels = [Book!LevelsWithout(b, id) EXCEPT ![o.side][o.price] = @ + (o.quantity - q)]
            /\ d = [orders |-> d.orders, levels |-> d.levels]
        <4>1. BookOK(d) /\ Entered(b, Book!LevelsWithout(b, id), d, id, o.side, o.quantity - q, o.price)
          BY <1>3, <2>2, <3>4, <3>5, ModifyKeepsBook
        <4>2. DOMAIN b.orders \cup {id} = DOMAIN b.orders
          BY <1>3
        <4>3. QED
          BY <3>1, <4>1, <4>2 DEF Entered
      <3>7. Book!LevelsWithout(b, id) = [b.levels EXCEPT ![o.side][o.price] = @ - o.quantity]
        <4>1. PICK a : a = Book!delete_order(b, id)
          OBVIOUS
        <4>2. a.levels = Book!LevelsWithout(b, id)
          BY <1>3, <4>1 DEF Book!delete_order, Book!Known
        <4>3. QED
          BY <1>3, <2>1, <4>1, <4>2, DeleteEffect
      <3>8. d.levels = left
        <4>1. d.levels \in [Side -> [Prices -> Int]] /\ left \in [Side -> [Prices -> Int]]
          BY <2>2, <2>3, <2>4, <3>6 DEF BookOK, BookTyped
        <4>2. ASSUME NEW s \in Side, NEW p \in Prices
              PROVE  d.levels[s][p] = left[s][p]
          <5>1. b.levels[s][p] \in Int
            BY <2>4
          <5>2. CASE s = o.side /\ p = o.price
            <6>1. d.levels[s][p] = (b.levels[s][p] - o.quantity) + (o.quantity - q)
              BY <2>2, <2>4, <3>6, <3>7, <5>2
            <6>2. left[s][p] = b.levels[s][p] - q
              BY <2>2, <2>3, <2>4, <5>2
            <6>3. QED
              BY <2>2, <5>1, <6>1, <6>2
          <5>3. CASE ~(s = o.side /\ p = o.price)
            <6>1. d.levels[s][p] = b.levels[s][p]
              BY <2>2, <2>4, <3>6, <3>7, <5>3
            <6>2. left[s][p] = b.levels[s][p]
              BY <2>2, <2>3, <2>4, <5>3
            <6>3. QED
              BY <6>1, <6>2
          <5>4. QED
            BY <5>2, <5>3
        <4>3. QED
          BY <4>1, <4>2
      <3>9. c = d
        BY <3>3, <3>6, <3>8
      <3>10. TradedFrom(b, c, id, q)
        <4>1. c.orders = [x \in DOMAIN b.orders |-> IF x = id THEN r ELSE b.orders[x]]
          BY <3>3
        <4>2. r.quantity = o.quantity - q /\ r.side = o.side /\ r.price = o.price
          BY <3>1
        <4>3. QED
          BY <1>3, <2>1, <2>2, <2>7, <4>1, <4>2 DEF TradedFrom
      <3>11. QED
        BY <1>1, <3>6, <3>9, <3>10
    <2>8. QED
      BY <2>2, <2>5, <2>6, <2>7
  <1>4. QED
    BY <1>2, <1>3

-----------------------------------------------------------------------------
(* The trades of a packet, one after the other. *)

\* f[n] is the book after the first n trades.
Applies(f, book, trades) ==
    f = [n \in 0..Len(trades) |->
           IF n = 0 THEN book
           ELSE Book!order_trade(f[n - 1], trades[n].id, trades[n].quantity)]

\* The books after the first k trades.
Prefix(f, book, trades, k) ==
    f = [n \in 0..k |->
           IF n = 0 THEN book
           ELSE Book!order_trade(f[n - 1], trades[n].id, trades[n].quantity)]

\* There are such books, and ApplyTrades is the last of them.
LEMMA TradesApplied ==
    ASSUME NEW book, NEW trades, Len(trades) \in Nat
    PROVE  \E f : /\ Applies(f, book, trades)
                  /\ ApplyTrades(book, trades) = f[Len(trades)]
  <1> DEFINE S == {k \in Nat : \E f : Prefix(f, book, trades, k)}
  <1>1. 0 \in S
    <2>1. PICK f : f = [n \in 0..0 |-> book]
      OBVIOUS
    <2>2. Prefix(f, book, trades, 0)
      BY <2>1 DEF Prefix
    <2>3. QED
      BY <2>2
  <1>2. ASSUME NEW k \in 0..(Len(trades) - 1), k \in S
        PROVE  k + 1 \in S
    <2>1. PICK f : Prefix(f, book, trades, k)
      BY <1>2
    <2>2. PICK g : g = [n \in 0..(k + 1) |->
                         IF n = k + 1 THEN Book!order_trade(f[k], trades[n].id, trades[n].quantity)
                         ELSE f[n]]
      OBVIOUS
    <2>3. ASSUME NEW n \in 0..(k + 1)
          PROVE  g[n] = IF n = 0 THEN book
                        ELSE Book!order_trade(g[n - 1], trades[n].id, trades[n].quantity)
      <3>1. CASE n = k + 1
        <4>1. n # 0 /\ n - 1 = k /\ k \in 0..(k + 1) /\ k # k + 1
          BY <1>2, <3>1
        <4>2. g[n] = Book!order_trade(f[k], trades[n].id, trades[n].quantity) /\ g[k] = f[k]
          BY <2>2, <3>1, <4>1
        <4>3. QED
          BY <4>1, <4>2
      <3>2. CASE n # k + 1
        <4>1. n \in 0..k
          BY <1>2, <2>3, <3>2
        <4>2. g[n] = f[n]
          BY <2>2, <2>3, <3>2
        <4>3. f[n] = IF n = 0 THEN book
                     ELSE Book!order_trade(f[n - 1], trades[n].id, trades[n].quantity)
          BY <2>1, <4>1 DEF Prefix
        <4>4. n # 0 => g[n - 1] = f[n - 1]
          BY <1>2, <2>2, <4>1
        <4>5. QED
          BY <4>2, <4>3, <4>4
      <3>3. QED
        BY <3>1, <3>2
    <2>4. Prefix(g, book, trades, k + 1)
      BY <2>2, <2>3 DEF Prefix
    <2>5. k + 1 \in Nat
      BY <1>2
    <2>6. QED
      BY <2>4, <2>5
  <1>3. Len(trades) \in S
    <2> HIDE DEF S
    <2>1. 0..Len(trades) \subseteq S
      BY <1>1, <1>2, CountUp
    <2>2. QED
      BY <2>1
  <1>4. \E f : Applies(f, book, trades)
    BY <1>3 DEF Applies, Prefix
  <1>5. PICK f : f = CHOOSE g : Applies(g, book, trades)
    OBVIOUS
  <1>6. Applies(f, book, trades)
    BY <1>4, <1>5
  <1>7. ApplyTrades(book, trades) = f[Len(trades)]
    BY <1>5 DEF ApplyTrades, Applies
  <1>8. QED
    BY <1>6, <1>7

\* One trade of the packet.
LEMMA OneTrade ==
    ASSUME NEW book, NEW trades \in Seq(Traded), NEW f, Applies(f, book, trades),
           NEW n \in 0..(Len(trades) - 1), BookOK(f[n])
    PROVE  /\ trades[n + 1] \in Traded /\ trades[n + 1].quantity \in Nat
           /\ BookOK(f[n + 1])
           /\ TradedFrom(f[n], f[n + 1], trades[n + 1].id, trades[n + 1].quantity)
  <1>1. n + 1 \in 0..Len(trades) /\ n + 1 \in DOMAIN trades /\ n + 1 # 0 /\ (n + 1) - 1 = n
    OBVIOUS
  <1>2. trades[n + 1] \in Traded
    BY <1>1
  <1>3. trades[n + 1].quantity \in Nat
    BY <1>2 DEF Traded
  <1>4. f[n + 1] = Book!order_trade(f[n], trades[n + 1].id, trades[n + 1].quantity)
    BY <1>1 DEF Applies
  <1>5. QED
    BY <1>2, <1>3, <1>4, TradeKeepsBook

\* The sums survive a packet, and no order appears in it.
LEMMA PacketKeepsBook ==
    ASSUME NEW book, BookOK(book), NEW trades \in Seq(Traded), NEW f, Applies(f, book, trades)
    PROVE  \A n \in 0..Len(trades) :
              BookOK(f[n]) /\ DOMAIN f[n].orders \subseteq DOMAIN book.orders
  <1> DEFINE S == {n \in Nat : BookOK(f[n]) /\ DOMAIN f[n].orders \subseteq DOMAIN book.orders}
  <1>1. Len(trades) \in Nat
    OBVIOUS
  <1>2. 0 \in S
    BY <1>1 DEF Applies
  <1>3. ASSUME NEW n \in 0..(Len(trades) - 1), n \in S
        PROVE  n + 1 \in S
    <2>1. BookOK(f[n + 1]) /\ DOMAIN f[n + 1].orders \subseteq DOMAIN f[n].orders
      BY <1>3, OneTrade DEF TradedFrom
    <2>2. QED
      BY <1>3, <2>1
  <1>4. 0..Len(trades) \subseteq S
    <2> HIDE DEF S
    <2>1. QED
      BY <1>1, <1>2, <1>3, CountUp
  <1>5. QED
    BY <1>4

\* c has of this order what b has.
Unmoved(b, c, id) ==
    /\ id \in DOMAIN c.orders <=> id \in DOMAIN b.orders
    /\ id \in DOMAIN b.orders => c.orders[id] = b.orders[id]

\* Of this order c has what was left in b.
Reduced(b, c, id, left) ==
    /\ left = 0 => id \notin DOMAIN c.orders
    /\ left > 0 => /\ id \in DOMAIN c.orders /\ c.orders[id].quantity = left
                   /\ c.orders[id].side = b.orders[id].side
                   /\ c.orders[id].price = b.orders[id].price

\* Trades of other orders do not touch an order.
LEMMA PacketElsewhere ==
    ASSUME NEW book, BookOK(book), NEW trades \in Seq(Traded), NEW f, Applies(f, book, trades),
           NEW id, \A i \in DOMAIN trades : trades[i].id # id
    PROVE  Unmoved(book, f[Len(trades)], id)
  <1> DEFINE S == {n \in Nat : Unmoved(book, f[n], id)}
  <1>1. Len(trades) \in Nat
    OBVIOUS
  <1>2. 0 \in S
    BY <1>1 DEF Applies, Unmoved
  <1>3. ASSUME NEW n \in 0..(Len(trades) - 1), n \in S
        PROVE  n + 1 \in S
    <2>1. BookOK(f[n]) /\ n + 1 \in DOMAIN trades
      BY <1>3, PacketKeepsBook
    <2>2. TradedFrom(f[n], f[n + 1], trades[n + 1].id, trades[n + 1].quantity) /\ trades[n + 1].id # id
      BY <1>3, <2>1, OneTrade
    <2>3. Unmoved(book, f[n + 1], id)
      BY <1>3, <2>2 DEF TradedFrom, Unmoved
    <2>4. QED
      BY <1>3, <2>3
  <1>4. 0..Len(trades) \subseteq S
    <2> HIDE DEF S
    <2>1. QED
      BY <1>1, <1>2, <1>3, CountUp
  <1>5. QED
    BY <1>1, <1>4

\* An order that the packet trades once has left what the trade did not take.
LEMMA PacketTrades ==
    ASSUME NEW book, BookOK(book), NEW trades \in Seq(Traded), NEW f, Applies(f, book, trades),
           \A i, j \in DOMAIN trades : trades[i].id = trades[j].id => i = j,
           NEW k \in DOMAIN trades, NEW left \in Nat, trades[k].id \in DOMAIN book.orders,
           book.orders[trades[k].id].quantity = trades[k].quantity + left
    PROVE  Reduced(book, f[Len(trades)], trades[k].id, left)
  <1>1. PICK id : id = trades[k].id
    OBVIOUS
  <1> DEFINE P(n) == IF n < k THEN Unmoved(book, f[n], id) ELSE Reduced(book, f[n], id, left)
             S == {n \in Nat : P(n)}
  <1>2. Len(trades) \in Nat /\ k \in 1..Len(trades)
    OBVIOUS
  <1>3. 0 \in S
    BY <1>2 DEF Applies, Unmoved
  <1>4. ASSUME NEW n \in 0..(Len(trades) - 1), n \in S
        PROVE  n + 1 \in S
    <2>1. BookOK(f[n]) /\ n + 1 \in DOMAIN trades
      BY <1>4, PacketKeepsBook
    <2>2. PICK t : t = trades[n + 1]
      OBVIOUS
    <2>3. TradedFrom(f[n], f[n + 1], t.id, t.quantity) /\ t.quantity \in Nat
      BY <1>4, <2>1, <2>2, OneTrade
    <2>4. CASE n + 1 = k
      <3>1. n < k /\ ~(n + 1 < k)
        BY <1>2, <2>4
      <3>2. t.id = id /\ t.quantity = trades[k].quantity
        BY <1>1, <2>2, <2>4
      <3>3. /\ id \in DOMAIN f[n].orders /\ f[n].orders[id] = book.orders[id]
            /\ book.orders[id].quantity = t.quantity + left
        BY <1>1, <1>4, <3>1, <3>2 DEF Unmoved
      <3>4. left = 0 => f[n].orders[id].quantity = t.quantity
        BY <2>3, <3>3
      <3>5. left > 0 => /\ f[n].orders[id].quantity > t.quantity
                        /\ f[n].orders[id].quantity - t.quantity = left
        BY <2>3, <3>3
      <3>6. Reduced(book, f[n + 1], id, left)
        BY <2>3, <3>2, <3>3, <3>4, <3>5 DEF TradedFrom, Reduced
      <3>7. QED
        BY <1>4, <3>1, <3>6
    <2>5. CASE n + 1 # k
      <3>1. t.id # id /\ (n + 1 < k <=> n < k)
        BY <1>1, <1>2, <2>1, <2>2, <2>5
      <3>2. P(n)
        BY <1>4
      <3>3. CASE n < k
        BY <1>4, <2>3, <3>1, <3>2, <3>3 DEF TradedFrom, Unmoved
      <3>4. CASE ~(n < k)
        BY <1>4, <2>3, <3>1, <3>2, <3>4 DEF TradedFrom, Reduced
      <3>5. QED
        BY <3>3, <3>4
    <2>6. QED
      BY <2>4, <2>5
  <1>5. 0..Len(trades) \subseteq S
    <2> HIDE DEF S
    <2>1. QED
      BY <1>2, <1>3, <1>4, CountUp
  <1>6. Len(trades) \in S /\ ~(Len(trades) < k)
    BY <1>2, <1>5
  <1>7. QED
    BY <1>1, <1>6

-----------------------------------------------------------------------------
(* What the steps of the ladder do to its orders. *)

\* A step leaves the order where it is, with what it has.
Stays(x) ==
    /\ x \in Resting' <=> x \in Resting
    /\ x \in Resting => /\ orders'[x].side = orders[x].side /\ orders'[x].price = orders[x].price
                        /\ orders'[x].quantity = orders[x].quantity

\* Unlinking an order leaves the others.
LEMMA UnlinkStays ==
    ASSUME IInv, NEW id \in Resting, Unlink(id)
    PROVE  id \notin Resting' /\ \A x : x # id => Stays(x)
  BY UnlinkTypes DEF IInv, Stays

\* Unchanged orders stay.
LEMMA UnchangedStays ==
    ASSUME UNCHANGED orders
    PROVE  Resting' = Resting /\ \A x : Stays(x)
  BY DEF Stays, Resting

\* The trade that a turn of match() makes with the order id.
TradesWith(id, q, price) ==
    /\ calls' # <<>> /\ calls'[1].fn = "onTrade"
    /\ calls'[1].id = id /\ calls'[1].quantity = q /\ calls'[1].price = price
    /\ \A x : x # id => Stays(x)
    /\ orders[id].quantity = q + Left(id)'
    /\ id \in Resting' => orders'[id].side = orders[id].side /\ orders'[id].price = orders[id].price
    /\ cur'.quantity > 0 => id \notin Resting'

\* One turn of match() takes the quantity it reports from one resting order.
LEMMA MatchFeed ==
    ASSUME IInv, Match
    PROVE  \E id \in Resting, q \in Nat, price \in Prices : TradesWith(id, q, price)
  <1>1. cur # NoRequest
    BY DEF Match, Matching
  <1>2. PICK p \in MatchPrices : LET id == levels[Opposite(cur.side)][p].head
                                 IN  MatchFully(id) \/ MatchPartly(id)
    BY DEF Match
  <1>3. PICK id : id = levels[Opposite(cur.side)][p].head
    OBVIOUS
  <1>4. p \in Prices /\ id \in Resting /\ orders[id].price = p /\ orders[id] \in Order
    BY <1>1, <1>3, MatchHead DEF IInv
  <1>5. cur \in Request /\ cur.quantity \in Nat
    BY <1>1, RequestTypes DEF IInv
  <1>6. orders[id].quantity \in Nat
    BY <1>4 DEF Order
  <1>7. ASSUME NEW q \in Nat, NEW f, NEW g, calls' = TradeCalls(id, orders[id], q, f, g)
        PROVE  /\ calls' # <<>> /\ calls'[1].fn = "onTrade"
               /\ calls'[1].id = id /\ calls'[1].quantity = q /\ calls'[1].price = p
    <2>1. PICK t : t = OnTrade(id, q, p)
      OBVIOUS
    <2>2. calls' # <<>> /\ calls'[1] = t
      BY <1>4, <1>7, <2>1 DEF TradeCalls
    <2>3. QED
      BY <2>1, <2>2 DEF OnTrade
  <1>8. CASE MatchFully(id)
    <2>1. PICK g : calls' = TradeCalls(id, orders[id], orders[id].quantity, "CLOSED", g)
      BY <1>4, <1>8, AlwaysUnlinkable DEF MatchFully
    <2>2. Unlink(id)
      BY <1>4, <1>8, AlwaysUnlinkable DEF MatchFully
    <2>3. id \notin Resting' /\ \A x : x # id => Stays(x)
      BY <1>4, <2>2, UnlinkStays
    <2>4. orders[id].quantity = orders[id].quantity + Left(id)'
      BY <1>6, <2>3 DEF Left
    <2>5. TradesWith(id, orders[id].quantity, p)
      BY <1>6, <1>7, <2>1, <2>3, <2>4 DEF TradesWith
    <2>6. QED
      BY <1>4, <1>6, <2>5
  <1>9. CASE MatchPartly(id)
    <2>1. /\ orders' = [orders EXCEPT ![id].quantity = @ - cur.quantity,
                                      ![id].filled_quantity = @ + cur.quantity]
          /\ cur' = [cur EXCEPT !.quantity = 0]
          /\ calls' = TradeCalls(id, orders[id], cur.quantity, "PARTIAL_FILL", "CLOSED")
      BY <1>9 DEF MatchPartly
    <2>2. Resting' = Resting
      BY <2>1 DEF Resting
    <2>3. \A x : x # id => Stays(x)
      BY <2>1, <2>2 DEF Stays, Resting
    <2>4. /\ orders'[id].quantity = orders[id].quantity - cur.quantity
          /\ orders'[id].side = orders[id].side /\ orders'[id].price = orders[id].price
      BY <1>4, <2>1 DEF Order, Resting
    <2>5. cur'.quantity = 0
      BY <1>5, <2>1 DEF Request
    <2>6. orders[id].quantity = cur.quantity + Left(id)'
      BY <1>4, <1>5, <1>6, <2>2, <2>4 DEF Left
    <2>7. TradesWith(id, cur.quantity, p)
      BY <1>5, <1>7, <2>1, <2>3, <2>4, <2>5, <2>6 DEF TradesWith
    <2>8. QED
      BY <1>4, <1>5, <2>7
  <1>10. QED
    BY <1>2, <1>3, <1>8, <1>9

\* The callback that ends the request of cur, and what it finds in the ladder.
EndsWith(c) ==
    /\ calls' = <<c>> /\ c.id = cur.id
    /\ \/ /\ c.fn = "onNewOrder" /\ cur.op = "NEW"
          /\ cur.id \in Resting' <=> c.quantity > 0
          /\ cur.id \in Resting' => /\ orders'[cur.id].side = c.side /\ orders'[cur.id].price = c.price
                                    /\ orders'[cur.id].quantity = c.quantity
       \/ /\ c.fn = "onModifyOrder" /\ cur.op = "MODIFY" /\ cur.id \in Resting'
          /\ orders'[cur.id].side = c.side /\ orders'[cur.id].price = c.price
          /\ orders'[cur.id].quantity = c.quantity
       \/ /\ c.fn = "onDeleteOrder" /\ cur.id \notin Resting'
          /\ ~c.publish => cur.op = "NEW"

\* The end of a request: a remainder rests, with what is announced of it.
LEMMA FinishFeed ==
    ASSUME EngineInv, IInv', FinishWithoutResting \/ FinishResting
    PROVE  /\ cur # NoRequest /\ calls = <<>> /\ cur' = NoRequest
           /\ \A x : x # cur.id => Stays(x)
           /\ \/ calls' = <<>> /\ cur.op = "NEW" /\ cur.id \notin Resting'
              \/ \E c : EndsWith(c)
  <1>1. cur # NoRequest /\ calls = <<>> /\ cur' = NoRequest /\ calls' = FinishCalls
    BY DEF FinishWithoutResting, FinishResting, Matching, Ready, Throw, EngineInv, IInv, NeverThrows
  <1>2. cur.quantity \in Nat /\ cur.op \in {"NEW", "MODIFY"} /\ cur.id \notin Resting
    BY <1>1, RequestTypes DEF EngineInv, IInv
  <1>3. /\ \A x : x # cur.id => Stays(x)
        /\ cur.id \in Resting' => /\ cur.quantity > 0 /\ cur.flags # "IOC"
                                  /\ orders'[cur.id].side = cur.side
                                  /\ orders'[cur.id].price = cur.price
                                  /\ orders'[cur.id].quantity = cur.quantity
        /\ cur.quantity > 0 /\ cur.flags # "IOC" => cur.id \in Resting'
    <2>1. CASE FinishWithoutResting
      BY <1>2, <2>1, UnchangedStays DEF FinishWithoutResting
    <2>2. CASE FinishResting
      <3>1. Link /\ cur.quantity > 0 /\ cur.flags # "IOC"
        BY <2>2 DEF FinishResting, Throw, EngineInv, IInv, NeverThrows
      <3>2. /\ Resting' = Resting \cup {cur.id}
            /\ \A x \in Resting : /\ orders'[x].side = orders[x].side
                                  /\ orders'[x].price = orders[x].price
                                  /\ orders'[x].quantity = orders[x].quantity
            /\ orders'[cur.id].side = cur.side /\ orders'[cur.id].price = cur.price
            /\ orders'[cur.id].quantity = cur.quantity
        BY <1>1, <3>1, LinkTypes DEF EngineInv, IInv
      <3>3. QED
        BY <3>1, <3>2 DEF Stays
    <2>3. QED
      BY <2>1, <2>2
  <1>4. CASE cur.op = "NEW" /\ cur.flags # "IOC"
    <2>1. PICK c : c = OnNewOrder(cur.id, cur.side, cur.quantity, cur.price, cur.flags)
      OBVIOUS
    <2>2. calls' = <<c>>
      BY <1>1, <1>4, <2>1 DEF FinishCalls
    <2>3. /\ c.id = cur.id /\ c.fn = "onNewOrder" /\ c.side = cur.side /\ c.price = cur.price
          /\ c.quantity = cur.quantity
      BY <2>1 DEF OnNewOrder
    <2>4. EndsWith(c)
      BY <1>2, <1>3, <1>4, <2>2, <2>3 DEF EndsWith
    <2>5. QED
      BY <1>1, <1>3, <2>4
  <1>5. CASE cur.op = "NEW" /\ cur.flags = "IOC"
    <2>1. cur.id \notin Resting'
      BY <1>3, <1>5
    <2>2. CASE cur.quantity > 0
      <3>1. PICK c : c = OnDeleteOrder(cur.id, FALSE)
        OBVIOUS
      <3>2. calls' = <<c>>
        BY <1>1, <1>5, <2>2, <3>1 DEF FinishCalls
      <3>3. c.id = cur.id /\ c.fn = "onDeleteOrder"
        BY <3>1 DEF OnDeleteOrder
      <3>4. EndsWith(c)
        BY <1>5, <2>1, <3>2, <3>3 DEF EndsWith
      <3>5. QED
        BY <1>1, <1>3, <3>4
    <2>3. CASE ~(cur.quantity > 0)
      <3>1. calls' = <<>>
        BY <1>1, <1>5, <2>3 DEF FinishCalls
      <3>2. QED
        BY <1>1, <1>3, <1>5, <2>1, <3>1
    <2>4. QED
      BY <2>2, <2>3
  <1>6. CASE cur.op = "MODIFY"
    <2>1. CASE cur.quantity > 0
      <3>1. PICK c : c = OnModifyOrder(cur.id, cur.side, cur.quantity, cur.price)
        OBVIOUS
      <3>2. calls' = <<c>>
        BY <1>1, <1>6, <2>1, <3>1 DEF FinishCalls
      <3>3. /\ c.id = cur.id /\ c.fn = "onModifyOrder" /\ c.side = cur.side /\ c.price = cur.price
            /\ c.quantity = cur.quantity
        BY <3>1 DEF OnModifyOrder
      <3>4. cur.flags # "IOC"
        BY <1>1, <1>6 DEF EngineInv, RequestInv
      <3>5. EndsWith(c)
        BY <1>3, <1>6, <2>1, <3>2, <3>3, <3>4 DEF EndsWith
      <3>6. QED
        BY <1>1, <1>3, <3>5
    <2>2. CASE ~(cur.quantity > 0)
      <3>1. PICK c : c = OnDeleteOrder(cur.id, TRUE)
        OBVIOUS
      <3>2. calls' = <<c>>
        BY <1>1, <1>6, <2>2, <3>1 DEF FinishCalls
      <3>3. c.id = cur.id /\ c.fn = "onDeleteOrder" /\ c.publish = TRUE
        BY <3>1 DEF OnDeleteOrder
      <3>4. EndsWith(c)
        BY <1>3, <2>2, <3>2, <3>3 DEF EndsWith
      <3>5. QED
        BY <1>1, <1>3, <3>4
    <2>3. QED
      BY <2>1, <2>2
  <1>7. QED
    BY <1>2, <1>4, <1>5, <1>6

\* The callback a change of the order s makes, and what it finds in the ladder.
Changes(s) ==
    /\ \A x : x # s => Stays(x)
    /\ \/ Stays(s) /\ calls' = <<OnCancelReject(s)>> /\ cur' = NoRequest
       \/ s \in Resting /\ s \notin Resting' /\ calls' = <<OnDeleteOrder(s, TRUE)>> /\ cur' = NoRequest
       \/ /\ s \in Resting /\ s \in Resting' /\ cur' = NoRequest
          /\ \E q : /\ calls' = <<OnModifyOrder(s, orders'[s].side, q, orders'[s].price)>>
                    /\ s \in resized' \/ orders'[s].quantity = q
       \/ /\ s \in Resting /\ s \notin Resting' /\ calls' = <<>>
          /\ cur' # NoRequest /\ cur'.id = s /\ cur'.op = "MODIFY"

\* delete_order of a resting order.
LEMMA DeleteChanges ==
    ASSUME IInv, cur = NoRequest, NEW s \in Resting, DeleteResting(s)
    PROVE  Changes(s)
  <1>1. Unlink(s) /\ calls' = <<OnDeleteOrder(s, TRUE)>> /\ UNCHANGED cur
    BY AlwaysUnlinkable DEF DeleteResting
  <1>2. s \notin Resting' /\ \A x : x # s => Stays(x)
    BY <1>1, UnlinkStays
  <1>3. QED
    BY <1>1, <1>2 DEF Changes

\* delete_order and modify_order of an order that does not rest.
LEMMA RejectChanges ==
    ASSUME cur = NoRequest, NEW s, CancelReject(s)
    PROVE  Changes(s)
  <1>1. calls' = <<OnCancelReject(s)>> /\ UNCHANGED <<orders, cur>>
    BY DEF CancelReject
  <1>2. \A x : Stays(x)
    BY <1>1, UnchangedStays
  <1>3. QED
    BY <1>1, <1>2 DEF Changes

\* A delete, taken from the queue.
LEMMA TakeDeleteFeed ==
    ASSUME EngineInv, TakeDelete
    PROVE  Changes(Current.id)
  <1>1. cur = NoRequest /\ IInv
    BY TakeFacts DEF TakeDelete, EngineInv
  <1>2. QED
    BY <1>1, DeleteChanges, RejectChanges DEF TakeDelete, DeleteOrder

\* A modify, taken from the queue.  What it announces is what rests, unless the order was
\* partly filled and is resized in place.
LEMMA TakeModifyFeed ==
    ASSUME EngineInv, TakeModify
    PROVE  Changes(Current.id)
  <1>1. /\ cur = NoRequest /\ IInv /\ calls = <<>>
        /\ Current.msg_type = "MODIFY_ORDER" /\ from_client # <<>>
    BY TakeFacts DEF TakeModify, EngineInv
  <1>2. PICK s : s = Current.id
    OBVIOUS
  <1>3. PICK q : q = Current.quantity
    OBVIOUS
  <1>4. q \in Nat
    BY <1>1, <1>3, CurrentFacts DEF Quantities
  <1>5. ModifyOrder(s, Current.side, q, Current.price)
    BY <1>2, <1>3 DEF TakeModify
  <1>6. CASE s \notin Resting /\ CancelReject(s)
    BY <1>1, <1>2, <1>6, RejectChanges
  <1>7. CASE s \in Resting /\ DeleteResting(s)
    BY <1>1, <1>2, <1>7, DeleteChanges
  <1>8. ASSUME s \in Resting
        PROVE  orders[s] \in Order /\ orders[s].filled_quantity \in Nat
    BY <1>1, <1>8 DEF IInv, TypeOK, Order
  <1>9. CASE s \in Resting /\ ModifyInPlace(s, Current.side, q, Current.price)
    <2>1. /\ orders' = [orders EXCEPT ![s].quantity = q] /\ UNCHANGED cur
          /\ calls' = <<OnModifyOrder(s, Current.side, q - orders[s].filled_quantity, Current.price)>>
          /\ orders[s].side = Current.side /\ orders[s].price = Current.price
      BY <1>9 DEF ModifyInPlace
    <2>2. Resting' = Resting
      BY <2>1 DEF Resting
    <2>3. \A x : x # s => Stays(x)
      BY <2>1, <2>2 DEF Stays, Resting
    <2>4. orders'[s].side = Current.side /\ orders'[s].price = Current.price /\ orders'[s].quantity = q
      BY <1>8, <1>9, <2>1 DEF Order, Resting
    <2>5. orders[s].filled_quantity > 0 => s \in resized'
      BY <1>2, <1>9, <2>2 DEF TakeModify, Resting
    <2>6. orders[s].filled_quantity = 0 => orders'[s].quantity = q - orders[s].filled_quantity
      BY <1>4, <2>4
    <2>7. s \in resized' \/ orders'[s].quantity = q - orders[s].filled_quantity
      BY <1>8, <1>9, <2>5, <2>6
    <2>8. calls' = <<OnModifyOrder(s, orders'[s].side, q - orders[s].filled_quantity, orders'[s].price)>>
      BY <2>1, <2>4
    <2>9. \E n : /\ calls' = <<OnModifyOrder(s, orders'[s].side, n, orders'[s].price)>>
                 /\ s \in resized' \/ orders'[s].quantity = n
      BY <2>7, <2>8
    <2>10. QED
      BY <1>1, <1>2, <1>9, <2>1, <2>2, <2>3, <2>9 DEF Changes
  <1>10. CASE /\ s \in Resting /\ orders[s].filled_quantity < q
              /\ ModifyAndMove(s, Current.side, q, Current.price)
    <2>1. /\ Unlink(s) /\ calls' = <<>>
          /\ cur' = Incoming("MODIFY", s, Current.side, q, Current.price, orders[s].flags,
                             orders[s].filled_quantity)
      BY <1>1, <1>4, <1>8, <1>10, AlwaysUnlinkable DEF ModifyAndMove
    <2>2. s \notin Resting' /\ \A x : x # s => Stays(x)
      BY <1>1, <1>10, <2>1, UnlinkStays
    <2>3. cur' # NoRequest /\ cur'.id = s /\ cur'.op = "MODIFY"
      BY <2>1 DEF Incoming, NoRequest
    <2>4. QED
      BY <1>2, <1>10, <2>1, <2>2, <2>3 DEF Changes
  <1>11. QED
    BY <1>5, <1>6, <1>7, <1>9, <1>10 DEF ModifyOrder

-----------------------------------------------------------------------------
(* Every step keeps the invariant. *)

\* The trades of the order x that are not published are the same ones after the step.
SameTrades(x) ==
    /\ \A i \in DOMAIN Unpublished :
          Unpublished[i].id = x => i \in DOMAIN Unpublished' /\ Unpublished'[i] = Unpublished[i]
    /\ \A i \in DOMAIN Unpublished' :
          Unpublished'[i].id = x => i \in DOMAIN Unpublished /\ Unpublished'[i] = Unpublished[i]

\* An order that nothing happens to is mirrored as before.
LEMMA MirrorStays ==
    ASSUME NEW x, Mirrored(x), Stays(x), Unmoved(view, view', x), SameTrades(x)
    PROVE  Mirrored(x)'
  <1>1. Left(x)' = Left(x)
    BY DEF Left, Stays
  <1>2. x \in DOMAIN view.orders => (SamePlace(x) => SamePlace(x)')
    BY DEF SamePlace, Stays, Unmoved
  <1>3. CASE \A i \in DOMAIN Unpublished : Unpublished[i].id # x
    <2>1. \A i \in DOMAIN Unpublished' : Unpublished'[i].id # x
      BY <1>3 DEF SameTrades
    <2>2. x \in DOMAIN view'.orders <=> x \in Resting'
      BY <1>3 DEF Mirrored, Unmoved, Stays
    <2>3. x \in Resting => view'.orders[x].quantity = orders'[x].quantity /\ SamePlace(x)'
      BY <1>2, <1>3 DEF Mirrored, Unmoved, Stays
    <2>4. QED
      BY <2>1, <2>2, <2>3 DEF Mirrored, Stays
  <1>4. CASE ~\A i \in DOMAIN Unpublished : Unpublished[i].id # x
    <2>1. PICK k \in DOMAIN Unpublished : Unpublished[k].id = x
      BY <1>4
    <2>2. k \in DOMAIN Unpublished' /\ Unpublished'[k].id = x
      BY <2>1 DEF SameTrades
    <2>3. ASSUME NEW i \in DOMAIN Unpublished', Unpublished'[i].id = x
          PROVE  /\ x \in DOMAIN view'.orders
                 /\ view'.orders[x].quantity = Unpublished'[i].quantity + Left(x)'
                 /\ SamePlace(x)'
      <3>1. i \in DOMAIN Unpublished /\ Unpublished'[i] = Unpublished[i] /\ Unpublished[i].id = x
        BY <2>3 DEF SameTrades
      <3>2. x \in DOMAIN view.orders /\ view.orders[x].quantity = Unpublished[i].quantity + Left(x)
            /\ SamePlace(x)
        BY <3>1 DEF Mirrored
      <3>3. QED
        BY <1>1, <1>2, <3>1, <3>2 DEF Unmoved
    <2>4. QED
      BY <2>2, <2>3 DEF Mirrored
  <1>5. QED
    BY <1>3, <1>4

\* The trades not published have their type.
LEMMA UnpublishedType ==
    ASSUME EngineInv
    PROVE  Unpublished \in Seq(Traded)
  <1>1. queued_trades \in Seq(Traded)
    BY DEF EngineInv, BrokerTypes
  <1>2. ASSUME calls # <<>>, calls[1].fn = "onTrade"
        PROVE  [id |-> calls[1].id, quantity |-> calls[1].quantity, price |-> calls[1].price] \in Traded
    BY <1>2, CallsFacts, CallbackFields DEF Traded
  <1>3. QED
    BY <1>1, <1>2 DEF Unpublished

\* Between two packets the trades are all published and every order is mirrored.
LEMMA RestFacts ==
    ASSUME EngineInv, FeedInv, ~busy
    PROVE  /\ calls = <<>> /\ cur = NoRequest /\ queued_trades = <<>> /\ Unpublished = <<>>
           /\ \A x \in Ids \ resized : Mirrored(x)
  <1>1. calls = <<>> /\ cur = NoRequest /\ queued_trades = <<>>
    BY DEF EngineInv, RequestInv, FeedInv, TradeInv
  <1>2. QED
    BY <1>1 DEF FeedInv, ViewInv, Underway, Unpublished

\* A step that touches neither the ladder nor the feed.
LEMMA FeedFrame ==
    ASSUME FeedInv, UNCHANGED <<orders, cur, calls, used, queued_trades, view, resized>>, busy => busy'
    PROVE  FeedInv'
  <1>1. Unpublished' = Unpublished /\ Resting' = Resting
    BY DEF Unpublished, Resting
  <1>2. \A x : (Underway(x)' <=> Underway(x)) /\ (Mirrored(x)' <=> Mirrored(x))
    BY <1>1 DEF Underway, Mirrored, Left, SamePlace
  <1>3. BookInv'
    BY DEF FeedInv, BookInv
  <1>4. TradeInv'
    BY <1>1, <1>2 DEF FeedInv, TradeInv
  <1>5. ViewInv'
    BY <1>1, <1>2 DEF FeedInv, ViewInv, Announced
  <1>6. QED
    BY <1>3, <1>4, <1>5 DEF FeedInv

\* new_order: an order that the consumer does not know.
LEMMA TakeNewFeed ==
    ASSUME EngineInv, FeedInv, EngineInv', TakeNew
    PROVE  FeedInv'
  <1>1. /\ calls = <<>> /\ cur = NoRequest /\ queued_trades = <<>> /\ Unpublished = <<>>
        /\ \A x \in Ids \ resized : Mirrored(x)
        /\ Current.msg_type = "NEW_ORDER" /\ from_client # <<>> /\ busy'
    BY RestFacts, TakeFacts DEF TakeNew, Take
  <1>2. Current.quantity \in Quantities
    BY <1>1, CurrentFacts
  <1>3. /\ Current.id \notin used /\ used' = used \cup {Current.id}
        /\ cur' = Incoming("NEW", Current.id, Current.side, Current.quantity, Current.price, Current.flags, 0)
        /\ UNCHANGED <<orders, calls, queued_trades, view, resized>>
    BY <1>2, LadderAssumption DEF TakeNew, NewOrder, Quantities, historyVars
  <1>4. cur'.id = Current.id /\ cur'.op = "NEW" /\ cur' # NoRequest
    BY <1>3 DEF Incoming, NoRequest
  <1>5. Unpublished' = <<>>
    BY <1>1, <1>3 DEF Unpublished
  <1>6. BookInv'
    BY <1>1, <1>3, <1>4 DEF FeedInv, BookInv
  <1>7. TradeInv'
    BY <1>1, <1>5 DEF TradeInv
  <1>8. \A x : Mirrored(x) => Mirrored(x)'
    <2>1. ASSUME NEW x, Mirrored(x) PROVE Mirrored(x)'
      <3>1. Stays(x) /\ Unmoved(view, view', x) /\ SameTrades(x)
        BY <1>1, <1>3, <1>5, UnchangedStays DEF Unmoved, SameTrades
      <3>2. QED
        BY <2>1, <3>1, MirrorStays
    <2>2. QED
      BY <2>1
  <1>9. ViewInv'
    BY <1>1, <1>3, <1>4, <1>8 DEF ViewInv
  <1>10. QED
    BY <1>6, <1>7, <1>9 DEF FeedInv

\* delete_order and modify_order: what is announced is what became of the order.
LEMMA TakeChangeFeed ==
    ASSUME EngineInv, FeedInv, EngineInv', ~busy, busy', from_client # <<>>,
           Current.msg_type \in {"DELETE_ORDER", "MODIFY_ORDER"}, Changes(Current.id),
           UNCHANGED <<used, queued_trades, view>>, resized \subseteq resized'
    PROVE  FeedInv'
  <1>1. /\ calls = <<>> /\ cur = NoRequest /\ queued_trades = <<>> /\ Unpublished = <<>>
        /\ \A x \in Ids \ resized : Mirrored(x)
    BY RestFacts
  <1>2. PICK s : s = Current.id
    OBVIOUS
  <1>3. s \in used /\ s \in Ids
    BY <1>2, CurrentFacts
  <1>4. /\ \A x : x # s => Stays(x)
        /\ calls' # <<>> => /\ calls'[1].id = s
                            /\ calls'[1].fn \in {"onCancelReject", "onDeleteOrder", "onModifyOrder"}
                            /\ calls'[1].fn = "onDeleteOrder" => calls'[1].publish = TRUE /\ s \notin Resting'
                            /\ calls'[1].fn = "onCancelReject" => Stays(s)
                            /\ calls'[1].fn = "onModifyOrder" =>
                                  /\ s \in Resting /\ s \in Resting'
                                  /\ calls'[1].side = orders'[s].side /\ calls'[1].price = orders'[s].price
                                  /\ s \in resized' \/ orders'[s].quantity = calls'[1].quantity
                            /\ cur' = NoRequest
        /\ calls' = <<>> => cur' # NoRequest /\ cur'.id = s /\ cur'.op = "MODIFY" /\ s \in Resting
    <2>1. \A x : x # s => Stays(x)
      BY <1>2 DEF Changes
    <2>2. CASE Stays(s) /\ calls' = <<OnCancelReject(s)>> /\ cur' = NoRequest
      <3>1. PICK c : c = OnCancelReject(s)
        OBVIOUS
      <3>2. c.id = s /\ c.fn = "onCancelReject"
        BY <3>1 DEF OnCancelReject
      <3>3. calls' # <<>> /\ calls'[1] = c
        BY <2>2, <3>1
      <3>4. QED
        BY <2>1, <2>2, <3>2, <3>3
    <2>3. CASE s \in Resting /\ s \notin Resting' /\ calls' = <<OnDeleteOrder(s, TRUE)>> /\ cur' = NoRequest
      <3>1. PICK c : c = OnDeleteOrder(s, TRUE)
        OBVIOUS
      <3>2. c.id = s /\ c.fn = "onDeleteOrder" /\ c.publish = TRUE
        BY <3>1 DEF OnDeleteOrder
      <3>3. calls' # <<>> /\ calls'[1] = c
        BY <2>3, <3>1
      <3>4. QED
        BY <2>1, <2>3, <3>2, <3>3
    <2>4. CASE /\ s \in Resting /\ s \in Resting' /\ cur' = NoRequest
               /\ \E q : /\ calls' = <<OnModifyOrder(s, orders'[s].side, q, orders'[s].price)>>
                         /\ s \in resized' \/ orders'[s].quantity = q
      <3>1. PICK q : /\ calls' = <<OnModifyOrder(s, orders'[s].side, q, orders'[s].price)>>
                     /\ s \in resized' \/ orders'[s].quantity = q
        BY <2>4
      <3>2. PICK c : c = OnModifyOrder(s, orders'[s].side, q, orders'[s].price)
        OBVIOUS
      <3>3. /\ c.id = s /\ c.fn = "onModifyOrder" /\ c.side = orders'[s].side
            /\ c.price = orders'[s].price /\ c.quantity = q
        BY <3>2 DEF OnModifyOrder
      <3>4. calls' # <<>> /\ calls'[1] = c
        BY <3>1, <3>2
      <3>5. QED
        BY <2>1, <2>4, <3>1, <3>3, <3>4
    <2>5. QED
      BY <1>2, <2>1, <2>2, <2>3, <2>4 DEF Changes
  <1>5. Unpublished' = <<>>
    BY <1>1, <1>4 DEF Unpublished
  <1>6. BookInv'
    BY <1>1, <1>4 DEF FeedInv, BookInv
  <1>7. TradeInv'
    BY <1>5 DEF TradeInv
  <1>8. ASSUME NEW x, Mirrored(x), Stays(x) PROVE Mirrored(x)'
    <2>1. Unmoved(view, view', x) /\ SameTrades(x)
      BY <1>1, <1>5 DEF Unmoved, SameTrades
    <2>2. QED
      BY <1>8, <2>1, MirrorStays
  <1>9. ViewInv'
    <2>1. SUFFICES ASSUME NEW x \in Ids \ resized'
                   PROVE  /\ ~Underway(x)' => Mirrored(x)'
                          /\ cur' # NoRequest /\ x = cur'.id /\ cur'.op = "MODIFY" => x \in DOMAIN view'.orders
                          /\ calls' # <<>> /\ x = calls'[1].id => Announced(x, calls[1])'
      BY DEF ViewInv
    <2>2. Mirrored(x)
      BY <1>1
    <2>3. x \in Resting => x \in DOMAIN view.orders
      BY <1>1, <2>2 DEF Mirrored
    <2>4. ~Underway(x)' => Stays(x)
      BY <1>4 DEF Underway
    <2>5. cur' # NoRequest /\ x = cur'.id /\ cur'.op = "MODIFY" => x \in DOMAIN view'.orders
      BY <1>4, <2>3
    <2>6. calls' # <<>> /\ x = calls'[1].id => Announced(x, calls[1])'
      BY <1>4, <2>1, <2>3 DEF Announced
    <2>7. QED
      BY <1>8, <2>2, <2>4, <2>5, <2>6
  <1>10. QED
    BY <1>6, <1>7, <1>9 DEF FeedInv

\* One more trade of the request.
LEMMA OneTradeMore ==
    ASSUME NEW s \in Seq(Traded), NEW t
    PROVE  /\ DOMAIN s = 1..Len(s) /\ Len(s) \in Nat
           /\ DOMAIN Append(s, t) = 1..(Len(s) + 1)
           /\ \A i \in DOMAIN s : i \in DOMAIN Append(s, t) /\ Append(s, t)[i] = s[i]
           /\ Append(s, t)[Len(s) + 1] = t
           /\ \A i \in DOMAIN Append(s, t) : i \in DOMAIN s \/ i = Len(s) + 1
           /\ Len(s) + 1 \notin DOMAIN s
  OBVIOUS

\* A turn of match(): the consumer is behind by one trade more, of an order that the
\* request had not traded with before.
LEMMA MatchKeepsFeed ==
    ASSUME EngineInv, FeedInv, EngineInv', LadderStep, Match
    PROVE  FeedInv'
  <1>1. /\ cur # NoRequest /\ cur.quantity > 0 /\ calls = <<>> /\ UNCHANGED used
        /\ cur' # NoRequest /\ cur'.id = cur.id /\ cur'.op = cur.op
        /\ UNCHANGED <<busy, queued_trades, view, resized>> /\ busy /\ cur.id \notin Resting
    BY MatchEffect, RequestTypes
       DEF LadderStep, brokerVars, outVars, historyVars, EngineInv, RequestInv, IInv
  <1>2. PICK id \in Resting, q \in Nat, price \in Prices : TradesWith(id, q, price)
    BY MatchFeed DEF EngineInv
  <1>3. PICK t : t = [id |-> id, quantity |-> q, price |-> price]
    OBVIOUS
  <1>4. t.id = id /\ t.quantity = q
    BY <1>3
  <1>5. Unpublished = queued_trades /\ Unpublished' = Append(queued_trades, t)
    BY <1>1, <1>2, <1>3 DEF Unpublished, TradesWith
  <1>6. PICK n : n = Len(queued_trades)
    OBVIOUS
  <1>7. queued_trades \in Seq(Traded)
    BY DEF EngineInv, BrokerTypes
  <1>8. /\ \A i \in DOMAIN Unpublished : i \in DOMAIN Unpublished' /\ Unpublished'[i] = Unpublished[i]
        /\ n + 1 \in DOMAIN Unpublished' /\ Unpublished'[n + 1] = t
        /\ \A i \in DOMAIN Unpublished' : i \in DOMAIN Unpublished \/ i = n + 1
        /\ n + 1 \notin DOMAIN Unpublished
    BY <1>5, <1>6, <1>7, OneTradeMore
  <1>9. /\ id # cur.id
        /\ \A i \in DOMAIN Unpublished : Unpublished[i].id \notin Resting /\ Unpublished[i].id # id
    BY <1>1 DEF FeedInv, TradeInv
  <1>10. \A x : (Underway(x) <=> x = cur.id) /\ (Underway(x)' <=> x = cur.id)
    BY <1>1, <1>2 DEF Underway, TradesWith
  <1>11. BookInv'
    BY <1>1, <1>2 DEF FeedInv, BookInv, TradesWith
  <1>12. TradeInv'
    <2>1. \A i, j \in DOMAIN Unpublished' : Unpublished'[i].id = Unpublished'[j].id => i = j
      <3>1. ASSUME NEW i \in DOMAIN Unpublished', NEW j \in DOMAIN Unpublished',
                   Unpublished'[i].id = Unpublished'[j].id
            PROVE  i = j
        <4>1. CASE i \in DOMAIN Unpublished /\ j \in DOMAIN Unpublished
          BY <1>8, <3>1, <4>1 DEF FeedInv, TradeInv
        <4>2. CASE i = n + 1 /\ j \in DOMAIN Unpublished
          BY <1>4, <1>8, <1>9, <3>1, <4>2
        <4>3. CASE j = n + 1 /\ i \in DOMAIN Unpublished
          BY <1>4, <1>8, <1>9, <3>1, <4>3
        <4>4. QED
          BY <1>8, <4>1, <4>2, <4>3
      <3>2. QED
        BY <3>1
    <2>2. (\A i \in DOMAIN Unpublished : ~Underway(Unpublished[i].id))'
      <3>1. \A i \in DOMAIN Unpublished : Unpublished[i].id # cur.id
        BY <1>10 DEF FeedInv, TradeInv
      <3>2. \A i \in DOMAIN Unpublished' : Unpublished'[i].id # cur.id
        BY <1>4, <1>8, <1>9, <3>1
      <3>3. QED
        BY <1>1, <1>2, <3>2 DEF Underway, TradesWith
    <2>3. ASSUME cur'.quantity > 0, NEW i \in DOMAIN Unpublished'
          PROVE  Unpublished'[i].id \notin Resting'
      <3>1. CASE i \in DOMAIN Unpublished
        BY <1>2, <1>8, <1>9, <3>1 DEF TradesWith, Stays
      <3>2. CASE i = n + 1
        BY <1>2, <1>4, <1>8, <2>3, <3>2 DEF TradesWith
      <3>3. QED
        BY <1>8, <2>3, <3>1, <3>2
    <2>4. QED
      BY <1>1, <2>1, <2>2, <2>3 DEF TradeInv
  <1>13. ASSUME NEW x \in Ids \ resized, ~Underway(x)
         PROVE  Mirrored(x)'
    <2>1. Mirrored(x)
      BY <1>13 DEF FeedInv, ViewInv
    <2>2. CASE x # id
      <3>1. Stays(x) /\ Unmoved(view, view', x)
        BY <1>1, <1>2, <2>2 DEF TradesWith, Unmoved
      <3>2. SameTrades(x)
        BY <1>4, <1>8, <2>2 DEF SameTrades
      <3>3. QED
        BY <2>1, <3>1, <3>2, MirrorStays
    <2>3. CASE x = id
      <3>1. /\ id \in DOMAIN view.orders /\ view.orders[id].quantity = orders[id].quantity
            /\ SamePlace(id)
        BY <1>2, <1>9, <2>1, <2>3 DEF Mirrored
      <3>2. view'.orders[id].quantity = q + Left(id)' /\ SamePlace(id)'
        BY <1>1, <1>2, <3>1 DEF TradesWith, SamePlace
      <3>3. \A i \in DOMAIN Unpublished' : Unpublished'[i].id = id => Unpublished'[i] = t
        BY <1>8, <1>9
      <3>4. QED
        BY <1>1, <1>4, <1>8, <2>3, <3>1, <3>2, <3>3 DEF Mirrored
    <2>4. QED
      BY <2>2, <2>3
  <1>14. ViewInv'
    <2>1. SUFFICES ASSUME NEW x \in Ids \ resized'
                   PROVE  /\ ~Underway(x)' => Mirrored(x)'
                          /\ cur' # NoRequest /\ x = cur'.id /\ cur'.op = "MODIFY" => x \in DOMAIN view'.orders
                          /\ calls' # <<>> /\ x = calls'[1].id => Announced(x, calls[1])'
      BY DEF ViewInv
    <2>2. ~Underway(x)' => Mirrored(x)'
      BY <1>1, <1>10, <1>13
    <2>3. x = cur'.id /\ cur'.op = "MODIFY" => x \in DOMAIN view'.orders
      BY <1>1 DEF FeedInv, ViewInv
    <2>4. Announced(x, calls[1])'
      BY <1>2 DEF TradesWith, Announced
    <2>5. QED
      BY <2>2, <2>3, <2>4
  <1>15. QED
    BY <1>11, <1>12, <1>14 DEF FeedInv

\* The end of a request: its own message is announced, or none is due.
LEMMA FinishKeepsFeed ==
    ASSUME EngineInv, FeedInv, EngineInv', LadderStep, FinishWithoutResting \/ FinishResting
    PROVE  FeedInv'
  <1>1. /\ cur # NoRequest /\ calls = <<>> /\ cur' = NoRequest
        /\ \A x : x # cur.id => Stays(x)
        /\ \/ calls' = <<>> /\ cur.op = "NEW" /\ cur.id \notin Resting'
           \/ \E c : EndsWith(c)
    BY FinishFeed DEF EngineInv
  <1>2. UNCHANGED <<used, busy, queued_trades, view, resized>> /\ busy
    BY <1>1 DEF LadderStep, brokerVars, outVars, historyVars, FinishWithoutResting, FinishResting,
                EngineInv, RequestInv
  <1>3. calls' # <<>> => /\ EndsWith(calls'[1])
                         /\ calls'[1].fn \in {"onNewOrder", "onModifyOrder", "onDeleteOrder"}
    <2>1. ASSUME NEW c, EndsWith(c) PROVE calls'[1] = c
      BY <2>1 DEF EndsWith
    <2>2. QED
      BY <1>1, <2>1 DEF EndsWith
  <1>4. Unpublished = queued_trades /\ Unpublished' = queued_trades
    BY <1>1, <1>2, <1>3 DEF Unpublished
  <1>5. \A x : Underway(x) <=> x = cur.id
    BY <1>1 DEF Underway
  <1>6. \A i \in DOMAIN queued_trades : queued_trades[i].id # cur.id
    BY <1>4, <1>5 DEF FeedInv, TradeInv
  <1>7. BookInv'
    BY <1>1, <1>2, <1>3 DEF FeedInv, BookInv, EndsWith
  <1>8. TradeInv'
    <2>1. (\A i \in DOMAIN Unpublished : ~Underway(Unpublished[i].id))'
      BY <1>1, <1>3, <1>4, <1>6 DEF Underway, EndsWith
    <2>2. QED
      BY <1>1, <1>2, <1>4, <2>1 DEF FeedInv, TradeInv
  <1>9. ASSUME NEW x \in Ids \ resized, x # cur.id
        PROVE  Mirrored(x)'
    <2>1. Mirrored(x) /\ Stays(x)
      BY <1>1, <1>5, <1>9 DEF FeedInv, ViewInv
    <2>2. Unmoved(view, view', x) /\ SameTrades(x)
      BY <1>2, <1>4 DEF Unmoved, SameTrades
    <2>3. QED
      BY <2>1, <2>2, MirrorStays
  <1>10. ViewInv'
    <2>1. SUFFICES ASSUME NEW x \in Ids \ resized'
                   PROVE  /\ ~Underway(x)' => Mirrored(x)'
                          /\ cur' # NoRequest /\ x = cur'.id /\ cur'.op = "MODIFY" => x \in DOMAIN view'.orders
                          /\ calls' # <<>> /\ x = calls'[1].id => Announced(x, calls[1])'
      BY DEF ViewInv
    <2>2. ~Underway(x)' => Mirrored(x)'
      <3>1. CASE x # cur.id
        BY <1>2, <1>9, <3>1
      <3>2. CASE x = cur.id /\ calls' # <<>>
        <4>1. Underway(x)'
          BY <1>3, <3>2 DEF Underway, EndsWith
        <4>2. QED
          BY <4>1
      <3>3. CASE x = cur.id /\ calls' = <<>>
        <4>1. x \notin Resting' /\ x \notin DOMAIN view'.orders
          BY <1>1, <1>2, <3>3 DEF EndsWith, FeedInv, BookInv
        <4>2. \A i \in DOMAIN Unpublished' : Unpublished'[i].id # x
          BY <1>4, <1>6, <3>3
        <4>3. QED
          BY <4>1, <4>2 DEF Mirrored
      <3>4. QED
        BY <3>1, <3>2, <3>3
    <2>3. cur.op = "MODIFY" /\ x = cur.id => x \in DOMAIN view'.orders
      BY <1>1, <1>2 DEF FeedInv, ViewInv
    <2>4. calls' # <<>> /\ x = calls'[1].id => Announced(x, calls[1])'
      BY <1>2, <1>3, <2>3 DEF Announced, EndsWith
    <2>5. QED
      BY <1>1, <2>2, <2>4
  <1>11. QED
    BY <1>7, <1>8, <1>10 DEF FeedInv

\* The trade and the fills of a trade leave the consumer as it is.
LEMMA TradeCallbackFeed ==
    ASSUME EngineInv, FeedInv, EngineInv', Callbacks, cur # NoRequest
    PROVE  FeedInv'
  <1>1. /\ calls # <<>> /\ calls' = Tail(calls) /\ InTrade /\ busy
        /\ Len(calls) \in 1..3 /\ DOMAIN calls = 1..Len(calls)
        /\ Len(calls) = 1 <=> Tail(calls) = <<>>
        /\ \A i \in 1..(Len(calls) - 1) : Tail(calls)[i] = calls[i + 1]
        /\ UNCHANGED <<orders, cur, used, busy, resized>>
        /\ \/ RunNewOrder(calls[1]) \/ RunModifyOrder(calls[1]) \/ RunDeleteOrder(calls[1])
           \/ RunCancelReject(calls[1]) \/ RunTrade(calls[1]) \/ RunFill(calls[1])
    BY CallbackEffect, CallsFacts DEF Ending
  <1>2. /\ calls[1].fn \in {"onTrade", "onFill"}
        /\ calls' # <<>> => calls'[1].fn = "onFill"
    <2>1. CASE Len(calls) = 1
      BY <1>1, <2>1 DEF InTrade, Active
    <2>2. CASE Len(calls) = 2
      BY <1>1, <2>2 DEF InTrade, Active, PassiveFill
    <2>3. CASE Len(calls) = 3
      BY <1>1, <2>3 DEF InTrade, Active, PassiveFill
    <2>4. QED
      BY <1>1, <2>1, <2>2, <2>3
  <1>3. view' = view
    BY <1>1, <1>2 DEF RunNewOrder, RunModifyOrder, RunDeleteOrder, RunCancelReject, RunTrade, RunFill
  <1>4. Unpublished' = Unpublished
    <2>1. CASE calls[1].fn = "onTrade"
      BY <1>1, <1>2, <2>1
         DEF RunNewOrder, RunModifyOrder, RunDeleteOrder, RunCancelReject, RunTrade, RunFill, Unpublished
    <2>2. CASE calls[1].fn = "onFill"
      BY <1>1, <1>2, <2>2
         DEF RunNewOrder, RunModifyOrder, RunDeleteOrder, RunCancelReject, RunTrade, RunFill, Unpublished
    <2>3. QED
      BY <1>2, <2>1, <2>2
  <1>5. Resting' = Resting
    BY <1>1 DEF Resting
  <1>6. \A x : (Underway(x)' <=> Underway(x)) /\ (Mirrored(x)' <=> Mirrored(x))
    <2>1. \A x : Underway(x)' <=> Underway(x)
      BY <1>1, <1>2 DEF Underway
    <2>2. \A x : Mirrored(x)' <=> Mirrored(x)
      BY <1>1, <1>3, <1>4, <1>5 DEF Mirrored, Left, SamePlace
    <2>3. QED
      BY <2>1, <2>2
  <1>7. BookInv'
    BY <1>1, <1>2, <1>3 DEF FeedInv, BookInv
  <1>8. TradeInv'
    <2>1. (\A i \in DOMAIN Unpublished : ~Underway(Unpublished[i].id))'
      BY <1>1, <1>2, <1>4 DEF FeedInv, TradeInv, Underway
    <2>2. QED
      BY <1>1, <1>4, <1>5, <2>1 DEF FeedInv, TradeInv
  <1>9. ViewInv'
    <2>1. calls' # <<>> => \A x : Announced(x, calls[1])'
      BY <1>2 DEF Announced
    <2>2. QED
      BY <1>1, <1>3, <1>6, <2>1 DEF FeedInv, ViewInv
  <1>10. QED
    BY <1>7, <1>8, <1>9 DEF FeedInv

\* The book a has this order.
Holds(a, id, side, quantity, price) ==
    /\ id \in DOMAIN a.orders
    /\ a.orders[id].side = side /\ a.orders[id].price = price /\ a.orders[id].quantity = quantity

\* What the message of the callback c makes of the consumer's book.
Told(c) ==
    /\ BookOK(view') /\ DOMAIN view'.orders \subseteq DOMAIN view.orders \cup {c.id}
    /\ \A x : x # c.id => Unmoved(view, view', x)
    /\ c.fn = "onNewOrder" => IF c.quantity > 0 THEN Holds(view', c.id, c.side, c.quantity, c.price)
                              ELSE view' = view
    /\ c.fn = "onModifyOrder" /\ c.id \in DOMAIN view.orders =>
          Holds(view', c.id, c.side, c.quantity, c.price)
    /\ c.fn = "onDeleteOrder" => c.id \notin DOMAIN view'.orders
    /\ c.fn = "onCancelReject" => view' = view

\* An order entered is held, and the others are where they were.
LEMMA EnteredHolds ==
    ASSUME NEW b, NEW l, NEW c, NEW id, NEW side, NEW quantity, NEW price,
           Entered(b, l, c, id, side, quantity, price)
    PROVE  /\ Holds(c, id, side, quantity, price)
           /\ DOMAIN c.orders = DOMAIN b.orders \cup {id}
           /\ \A x : x # id => Unmoved(b, c, x)
  <1>1. PICK o : o = [side |-> side, price |-> price, quantity |-> quantity]
    OBVIOUS
  <1>2. o.side = side /\ o.price = price /\ o.quantity = quantity
    BY <1>1
  <1>3. c.orders = [x \in DOMAIN b.orders \cup {id} |-> IF x = id THEN o ELSE b.orders[x]]
    BY <1>1 DEF Entered
  <1>4. QED
    BY <1>2, <1>3 DEF Holds, Unmoved

\* Each message does to the consumer's book what it says, also one about an order that the
\* consumer does not know.
LEMMA MessageTold ==
    ASSUME EngineInv, FeedInv, Callbacks, cur = NoRequest
    PROVE  Told(calls[1])
  <1>1. PICK c : c = calls[1]
    OBVIOUS
  <1>2. /\ calls # <<>> /\ Ending /\ c \in Callback /\ c.id \in Ids
        /\ \/ RunNewOrder(c) \/ RunModifyOrder(c) \/ RunDeleteOrder(c)
           \/ RunCancelReject(c) \/ RunTrade(c) \/ RunFill(c)
    BY <1>1, CallbackEffect, CallsFacts, CallbackFields DEF InTrade
  <1>3. c.fn \in {"onNewOrder", "onModifyOrder", "onDeleteOrder", "onCancelReject"}
    BY <1>1, <1>2 DEF Ending
  <1>4. BookOK(view)
    BY DEF FeedInv, BookInv
  <1>5. ASSUME view' = view
        PROVE  /\ BookOK(view') /\ DOMAIN view'.orders \subseteq DOMAIN view.orders \cup {c.id}
               /\ \A x : x # c.id => Unmoved(view, view', x)
    BY <1>4, <1>5 DEF Unmoved
  <1>6. CASE c.fn = "onNewOrder"
    <2>1. /\ c.side \in Side /\ c.quantity \in Nat /\ c.price \in Prices
          /\ c.id \notin DOMAIN view.orders
          /\ view' = IF c.quantity > 0 THEN Book!new_order(view, c.id, c.side, c.quantity, c.price)
                     ELSE view
      BY <1>1, <1>2, <1>6
         DEF Callback, FeedInv, BookInv, RunNewOrder, RunModifyOrder, RunDeleteOrder, RunCancelReject,
             RunTrade, RunFill
    <2>2. CASE c.quantity > 0
      <3>1. BookOK(view') /\ Entered(view, view.levels, view', c.id, c.side, c.quantity, c.price)
        BY <1>4, <2>1, <2>2, NewKeepsBook
      <3>2. QED
        BY <1>1, <1>6, <2>2, <3>1, EnteredHolds DEF Told
    <2>3. CASE ~(c.quantity > 0)
      BY <1>1, <1>5, <1>6, <2>1, <2>3 DEF Told
    <2>4. QED
      BY <2>2, <2>3
  <1>7. CASE c.fn = "onModifyOrder"
    <2>1. /\ c.side \in Side /\ c.quantity \in Nat /\ c.price \in Prices
          /\ view' = Book!modify_order(view, c.id, c.side, c.quantity, c.price)
      BY <1>2, <1>7
         DEF Callback, RunNewOrder, RunModifyOrder, RunDeleteOrder, RunCancelReject, RunTrade, RunFill
    <2>2. CASE c.id \in DOMAIN view.orders
      <3>1. /\ BookOK(view')
            /\ Entered(view, Book!LevelsWithout(view, c.id), view', c.id, c.side, c.quantity, c.price)
        BY <1>4, <2>1, <2>2, ModifyKeepsBook
      <3>2. QED
        BY <1>1, <1>7, <3>1, EnteredHolds DEF Told
    <2>3. CASE c.id \notin DOMAIN view.orders
      <3>1. view' = view
        BY <2>1, <2>3 DEF Book!modify_order, Book!Known
      <3>2. QED
        BY <1>1, <1>5, <1>7, <2>3, <3>1 DEF Told
    <2>4. QED
      BY <2>2, <2>3
  <1>8. CASE c.fn = "onDeleteOrder"
    <2>1. view' = IF c.publish THEN Book!delete_order(view, c.id) ELSE view
      BY <1>2, <1>8
         DEF RunNewOrder, RunModifyOrder, RunDeleteOrder, RunCancelReject, RunTrade, RunFill
    <2>2. CASE c.id \in DOMAIN view.orders
      <3>1. view' = Book!delete_order(view, c.id)
        BY <1>1, <1>2, <1>8, <2>1, <2>2 DEF FeedInv, BookInv
      <3>2. BookOK(view') /\ view'.orders = [x \in DOMAIN view.orders \ {c.id} |-> view.orders[x]]
        BY <1>4, <2>2, <3>1, DeleteKeepsBook, DeleteEffect
      <3>3. c.id \notin DOMAIN view'.orders /\ \A x : x # c.id => Unmoved(view, view', x)
        BY <3>2 DEF Unmoved
      <3>4. QED
        BY <1>1, <1>8, <3>2, <3>3 DEF Told
    <2>3. CASE c.id \notin DOMAIN view.orders
      <3>1. view' = view
        BY <2>1, <2>3 DEF Book!delete_order, Book!Known
      <3>2. QED
        BY <1>1, <1>5, <1>8, <2>3, <3>1 DEF Told
    <2>4. QED
      BY <2>2, <2>3
  <1>9. CASE c.fn = "onCancelReject"
    <2>1. view' = view
      BY <1>2, <1>9
         DEF RunNewOrder, RunModifyOrder, RunDeleteOrder, RunCancelReject, RunTrade, RunFill
    <2>2. QED
      BY <1>1, <1>5, <1>9, <2>1 DEF Told
  <1>10. QED
    BY <1>3, <1>6, <1>7, <1>8, <1>9

\* The message that ends a request: with the trades not yet published the consumer is where
\* the ladder is.
LEMMA EndingCallbackFeed ==
    ASSUME EngineInv, FeedInv, EngineInv', Callbacks, cur = NoRequest
    PROVE  FeedInv'
  <1>1. PICK c : c = calls[1]
    OBVIOUS
  <1>2. /\ calls # <<>> /\ calls' = <<>> /\ Ending /\ busy /\ c \in Callback /\ c.id \in Ids
        /\ UNCHANGED <<orders, cur, used, busy, resized>>
        /\ \/ RunNewOrder(c) \/ RunModifyOrder(c) \/ RunDeleteOrder(c)
           \/ RunCancelReject(c) \/ RunTrade(c) \/ RunFill(c)
    BY <1>1, CallbackEffect, CallsFacts, CallbackFields DEF InTrade, Ending
  <1>3. /\ c.fn \in {"onNewOrder", "onModifyOrder", "onDeleteOrder", "onCancelReject"}
        /\ c.id \in used
    BY <1>1, <1>2 DEF Ending
  <1>4. Told(c)
    BY <1>1, MessageTold
  <1>5. queued_trades' = queued_trades
    BY <1>2, <1>3 DEF RunNewOrder, RunModifyOrder, RunDeleteOrder, RunCancelReject, RunTrade, RunFill
  <1>6. Unpublished = queued_trades /\ Unpublished' = queued_trades
    BY <1>1, <1>2, <1>3, <1>5 DEF Unpublished
  <1>7. BookInv'
    BY <1>2, <1>3, <1>4 DEF FeedInv, BookInv, Told
  <1>8. TradeInv'
    <2>1. (\A i \in DOMAIN Unpublished : ~Underway(Unpublished[i].id))'
      BY <1>2 DEF Underway
    <2>2. QED
      BY <1>2, <1>6, <2>1 DEF FeedInv, TradeInv
  <1>9. Resting' = Resting /\ \A x : Stays(x) /\ SameTrades(x)
    BY <1>2, <1>6, UnchangedStays DEF SameTrades
  <1>10. ASSUME NEW x \in Ids \ resized
         PROVE  Mirrored(x)'
    <2>1. CASE x # c.id \/ c.fn = "onCancelReject"
      <3>1. ~Underway(x)
        BY <1>1, <1>2, <2>1 DEF Underway
      <3>2. Mirrored(x)
        BY <1>10, <3>1 DEF FeedInv, ViewInv
      <3>3. Unmoved(view, view', x)
        BY <1>4, <2>1 DEF Told, Unmoved
      <3>4. QED
        BY <1>9, <3>2, <3>3, MirrorStays
    <2>2. CASE x = c.id /\ c.fn # "onCancelReject"
      <3>1. Underway(x)
        BY <1>1, <1>2, <1>3, <2>2 DEF Underway
      <3>2. \A i \in DOMAIN queued_trades : queued_trades[i].id # x
        BY <1>6, <3>1 DEF FeedInv, TradeInv
      <3>3. Announced(x, c)
        BY <1>1, <1>2, <1>10, <2>2 DEF FeedInv, ViewInv
      <3>4. x \in DOMAIN view'.orders <=> x \in Resting
        <4>1. CASE c.fn = "onNewOrder"
          BY <1>1, <1>2, <1>4, <2>2, <3>3, <4>1 DEF Told, Holds, Announced, FeedInv, BookInv
        <4>2. CASE c.fn = "onModifyOrder"
          BY <1>4, <2>2, <3>3, <4>2 DEF Told, Holds, Announced
        <4>3. CASE c.fn = "onDeleteOrder"
          BY <1>4, <2>2, <3>3, <4>3 DEF Told, Announced
        <4>4. QED
          BY <1>3, <2>2, <4>1, <4>2, <4>3
      <3>5. x \in Resting => /\ view'.orders[x].quantity = orders[x].quantity
                             /\ view'.orders[x].side = orders[x].side
                             /\ view'.orders[x].price = orders[x].price
        BY <1>3, <1>4, <2>2, <3>3 DEF Told, Holds, Announced
      <3>6. QED
        BY <1>2, <1>6, <1>9, <3>2, <3>4, <3>5 DEF Mirrored, SamePlace
    <2>3. QED
      BY <2>1, <2>2
  <1>11. ViewInv'
    BY <1>2, <1>10 DEF ViewInv
  <1>12. QED
    BY <1>7, <1>8, <1>11 DEF FeedInv

\* The packet of trades brings the consumer to where the ladder is.
LEMMA FinishedPacketFeed ==
    ASSUME EngineInv, FeedInv, FinishedPacket
    PROVE  FeedInv'
  <1>1. /\ calls = <<>> /\ cur = NoRequest /\ queued_trades' = <<>>
        /\ view' = ApplyTrades(view, queued_trades)
        /\ UNCHANGED <<orders, cur, calls, used, resized>>
    BY DEF FinishedPacket, historyVars, vars, Idle, Ready
  <1>2. queued_trades \in Seq(Traded) /\ Unpublished = queued_trades /\ Unpublished' = <<>>
    BY <1>1 DEF EngineInv, BrokerTypes, Unpublished
  <1>3. PICK f : Applies(f, view, queued_trades) /\ view' = f[Len(queued_trades)]
    BY <1>1, <1>2, TradesApplied
  <1>4. BookOK(view)
    BY DEF FeedInv, BookInv
  <1>5. BookOK(view') /\ DOMAIN view'.orders \subseteq DOMAIN view.orders
    BY <1>2, <1>3, <1>4, PacketKeepsBook
  <1>6. BookInv'
    BY <1>1, <1>5 DEF FeedInv, BookInv
  <1>7. TradeInv'
    BY <1>1, <1>2 DEF TradeInv
  <1>8. \A i, j \in DOMAIN queued_trades : queued_trades[i].id = queued_trades[j].id => i = j
    BY <1>2 DEF FeedInv, TradeInv
  <1>9. Resting' = Resting
    BY <1>1 DEF Resting
  <1>10. ASSUME NEW x \in Ids \ resized
         PROVE  Mirrored(x)'
    <2>1. Mirrored(x)
      BY <1>1, <1>10 DEF FeedInv, ViewInv, Underway
    <2>2. CASE \A i \in DOMAIN queued_trades : queued_trades[i].id # x
      <3>1. Unmoved(view, view', x)
        BY <1>2, <1>3, <1>4, <2>2, PacketElsewhere
      <3>2. Stays(x) /\ SameTrades(x)
        BY <1>1, <1>2, <2>2, UnchangedStays DEF SameTrades
      <3>3. QED
        BY <2>1, <3>1, <3>2, MirrorStays
    <2>3. CASE ~\A i \in DOMAIN queued_trades : queued_trades[i].id # x
      <3>1. PICK k \in DOMAIN queued_trades : queued_trades[k].id = x
        BY <2>3
      <3>2. PICK left : left = Left(x)
        OBVIOUS
      <3>3. left \in Nat /\ (left > 0 <=> x \in Resting) /\ (x \in Resting => left = orders[x].quantity)
        <4>1. x \in Resting => orders[x].quantity \in Nat /\ orders[x].quantity > 0
          BY DEF EngineInv, IInv, TypeOK, Order, RestingIsOpen
        <4>2. QED
          BY <3>2, <4>1 DEF Left
      <3>4. /\ x \in DOMAIN view.orders /\ view.orders[x].quantity = queued_trades[k].quantity + left
            /\ SamePlace(x)
        BY <1>2, <2>1, <3>1, <3>2 DEF Mirrored
      <3>5. Reduced(view, view', x, left)
        BY <1>2, <1>3, <1>4, <1>8, <3>1, <3>3, <3>4, PacketTrades
      <3>6. x \in DOMAIN view'.orders <=> x \in Resting
        BY <3>3, <3>5 DEF Reduced
      <3>7. x \in Resting => /\ view'.orders[x].quantity = orders[x].quantity
                             /\ view'.orders[x].side = orders[x].side
                             /\ view'.orders[x].price = orders[x].price
        BY <3>3, <3>4, <3>5 DEF Reduced, SamePlace
      <3>8. QED
        BY <1>1, <1>2, <1>9, <3>6, <3>7 DEF Mirrored, SamePlace
    <2>4. QED
      BY <2>2, <2>3
  <1>11. ViewInv'
    BY <1>1, <1>10 DEF ViewInv
  <1>12. QED
    BY <1>6, <1>7, <1>11 DEF FeedInv

-----------------------------------------------------------------------------
(* The results. *)

\* A consumer begins with an empty book, and so does the ladder.
LEMMA InitFeedInv == EngineInit => FeedInv
  <1>1. SUFFICES ASSUME EngineInit PROVE FeedInv
    OBVIOUS
  <1>2. /\ calls = <<>> /\ cur = NoRequest /\ queued_trades = <<>> /\ Unpublished = <<>>
        /\ Resting = {} /\ used = {}
        /\ view = [orders |-> <<>>, levels |-> [side \in Side |-> [p \in Prices |-> 0]]]
    BY <1>1 DEF EngineInit, Init, Unpublished, Resting, Book!Empty, Book!Side, Side
  <1>3. DOMAIN view.orders = {} /\ view.orders = <<>>
    BY <1>2
  <1>4. \A side \in Side, p \in Prices : At(view, side, p) = {}
    BY <1>3 DEF At
  <1>5. BookOK(view)
    <2>1. view.levels = [side \in Side |-> [p \in Prices |-> 0]]
      BY <1>2
    <2>2. view.orders = [id \in DOMAIN view.orders |-> view.orders[id]]
      BY <1>3
    <2>3. BookTyped(view)
      BY <1>2, <1>3, <2>1, <2>2, FS_EmptySet DEF BookTyped
    <2>4. AddsUp(view)
      BY <1>4, <2>1, TotalEmpty DEF AddsUp
    <2>5. QED
      BY <2>3, <2>4 DEF BookOK
  <1>6. BookInv
    BY <1>2, <1>3, <1>5 DEF BookInv
  <1>7. TradeInv
    BY <1>2 DEF TradeInv
  <1>8. ViewInv
    BY <1>2, <1>3 DEF ViewInv, Mirrored
  <1>9. QED
    BY <1>6, <1>7, <1>8 DEF FeedInv

\* The order entry thread does not touch the feed.
LEMMA OrderEntryFeed ==
    ASSUME FeedInv, OrderEntry
    PROVE  FeedInv'
  <1>1. UNCHANGED <<orders, cur, calls, used, queued_trades, view, resized, busy>>
    BY DEF OrderEntry, EnqueueNew, EnqueueDelete, EnqueueModify, EnqueueReject, Enqueue, Drain, vars,
           outVars, historyVars
  <1>2. QED
    BY <1>1, FeedFrame

\* Every step keeps the consumer's book in line with the ladder.
LEMMA FeedNextKeeps ==
    EngineInv /\ FeedInv /\ EngineInv' /\ [EngineNext]_engineVars => FeedInv'
  <1>1. SUFFICES ASSUME EngineInv, FeedInv, EngineInv', [EngineNext]_engineVars PROVE FeedInv'
    OBVIOUS
  <1>2. CASE UNCHANGED engineVars
    <2>1. UNCHANGED <<orders, cur, calls, used, queued_trades, view, resized, busy>>
      BY <1>2 DEF engineVars, vars, brokerVars, outVars, historyVars
    <2>2. QED
      BY <1>1, <2>1, FeedFrame
  <1>3. CASE TakeDelete
    <2>1. /\ ~busy /\ busy' /\ from_client # <<>> /\ Current.msg_type = "DELETE_ORDER"
          /\ UNCHANGED <<used, queued_trades, view, resized>>
      BY <1>3 DEF TakeDelete, Take, DeleteOrder, historyVars
    <2>2. QED
      BY <1>1, <1>3, <2>1, TakeDeleteFeed, TakeChangeFeed
  <1>4. CASE TakeModify
    <2>1. /\ ~busy /\ busy' /\ from_client # <<>> /\ Current.msg_type = "MODIFY_ORDER"
          /\ UNCHANGED <<used, queued_trades, view>> /\ resized \subseteq resized'
      BY <1>4 DEF TakeModify, Take, ModifyOrder
    <2>2. QED
      BY <1>1, <1>4, <2>1, TakeModifyFeed, TakeChangeFeed
  <1>5. CASE TakeReject
    <2>1. UNCHANGED <<orders, cur, calls, used, queued_trades, view, resized>> /\ busy'
      BY <1>5 DEF TakeReject, Take, vars, historyVars
    <2>2. QED
      BY <1>1, <2>1, FeedFrame
  <1>6. CASE LadderStep
    BY <1>1, <1>6, MatchKeepsFeed, FinishKeepsFeed DEF LadderStep
  <1>7. CASE Callbacks
    BY <1>1, <1>7, TradeCallbackFeed, EndingCallbackFeed
  <1>8. QED
    BY <1>1, <1>2, <1>3, <1>4, <1>5, <1>6, <1>7, TakeNewFeed, FinishedPacketFeed, OrderEntryFeed
       DEF EngineNext, BrokerStep

\* In every state the consumer is behind the ladder by the trades that are not published
\* and by the message of the request in progress, and by nothing else.
THEOREM FeedInvariant == EngineSpec => []FeedInv
  <1>1. QED
    BY InitFeedInv, FeedNextKeeps, EngineInvariant, PTL DEF EngineSpec

\* The consumer's price levels are the sums of its orders after every message of the feed,
\* a trade that it ignores included.
THEOREM ConsumerLevelsAddUp == EngineSpec => []LevelsAreSums
  <1>1. FeedInv => LevelsAreSums
    BY DEF FeedInv, BookInv, BookOK, AddsUp, SizeOf, At, LevelsAreSums
  <1>2. QED
    BY <1>1, FeedInvariant, PTL

\* Replaying the feed reproduces the ladder between two packets, although a packet's trades
\* come after the NEW, MODIFY or DELETE of the order that made them: for every order that
\* was not resized in place after a partial fill.
THEOREM FeedIsTheBook == EngineSpec => []FeedReproducesBook
  <1>1. EngineInv /\ FeedInv => FeedReproducesBook
    <2>1. SUFFICES ASSUME EngineInv, FeedInv PROVE FeedReproducesBook
      OBVIOUS
    <2>2. ASSUME ~busy, NEW id \in Ids \ resized
          PROVE  /\ id \in DOMAIN view.orders <=> id \in Resting
                 /\ id \in Resting => /\ view.orders[id].side = orders[id].side
                                      /\ view.orders[id].price = orders[id].price
                                      /\ view.orders[id].quantity = orders[id].quantity
      <3>1. Mirrored(id) /\ Unpublished = <<>>
        BY <2>1, <2>2, RestFacts
      <3>2. QED
        BY <3>1 DEF Mirrored, SamePlace
    <2>3. CASE AtRest
      <3>1. \A id \in Ids \ resized :
               /\ Book!Known(view, id) <=> id \in Resting
               /\ id \in Resting => /\ view.orders[id].side = orders[id].side
                                    /\ view.orders[id].price = orders[id].price
                                    /\ view.orders[id].quantity = orders[id].quantity
        BY <2>2, <2>3, Zenon DEF AtRest, Book!Known
      <3>2. QED
        BY <3>1, Zenon DEF FeedReproducesBook
    <2>4. CASE ~AtRest
      BY <2>4 DEF FeedReproducesBook
    <2>5. QED
      BY <2>3, <2>4
  <1>2. QED
    BY <1>1, FeedInvariant, EngineInvariant, PTL
=============================================================================
