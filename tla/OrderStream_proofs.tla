-------------------------- MODULE OrderStream_proofs --------------------------
(***************************************************************************)
(* The producer keeps its state well typed, and delivery_status tells a    *)
(* coherent story and inventory_updates never leaves the stock higher than *)
(* it says, for any stores, stages, orders and failures of the client.     *)
(***************************************************************************)
EXTENDS OrderStream, SequenceTheorems, TLAPS

-----------------------------------------------------------------------------
(* Types.                                                                  *)

FactoryOK == /\ level \in [Stores \X Skus -> Nat]
             /\ orders \in Seq(Order)
             /\ DOMAIN open \subseteq DOMAIN orders
             /\ \A o \in DOMAIN open : open[o] \in 0 .. LastStage - 1 /\ ~orders[o].cancelled
             /\ out \in Seq(Message)
ClientOK  == /\ queue \in [Streams -> Seq(Event)] /\ log \in [Told -> Seq(Event)]
             /\ lost \subseteq Told

LEMMA TypesSplit == TypeOK <=> FactoryOK /\ ClientOK /\ phase \in Phases /\ extras \in 0 .. 2
BY DEF TypeOK, FactoryOK, ClientOK

LEMMA EmitTypes ==
    ASSUME FactoryOK, NEW topic \in Topics, NEW s \in Stores, NEW e \in Event, Emit(topic, s, e)
    PROVE  out' \in Seq(Message)
<1>1. [to |-> <<topic, s>>, event |-> e] \in Message
  BY DEF Message, Streams
<1> QED
  BY <1>1 DEF Emit, FactoryOK

LEMMA NextOrderTypes ==
    ASSUME FactoryOK, NEW s \in Stores, NEW b \in Baskets, NEW c \in BOOLEAN, NextOrder(s, b, c)
    PROVE  FactoryOK'
<1> DEFINE id == Len(orders) + 1
           new == [store |-> s, cancelled |-> c]
<1>1. level' \in [Stores \X Skus -> Nat]
  <2>1. b \in [Skus -> Nat]
    BY StreamAssumption DEF StreamAssumption
  <2>2. \A p \in Stores \X Skus :
           level[p] \in Nat /\ level[p] - b[p[2]] \in Int /\ Clipped(level[p] - b[p[2]]) \in Nat
    BY <2>1 DEF FactoryOK, Clipped
  <2> QED
    BY <2>2 DEF NextOrder, Consumed, FactoryOK
<1>2. new \in Order /\ orders \in Seq(Order) /\ id \in Nat
  BY DEF Order, FactoryOK
<1>3. orders' = Append(orders, new)
  BY DEF NextOrder
<1>4. /\ orders' \in Seq(Order) /\ DOMAIN orders' = DOMAIN orders \cup {id}
      /\ orders'[id] = new /\ \A o \in DOMAIN orders : orders'[o] = orders[o] /\ o # id
  BY <1>2, <1>3
<1>5. /\ DOMAIN open' = DOMAIN open \cup ({id} \ IF c THEN {id} ELSE {})
      /\ \A o \in DOMAIN open' : open'[o] = IF o = id THEN 0 ELSE open[o]
  BY DEF NextOrder
<1>6. \A o \in DOMAIN open' : open'[o] \in 0 .. LastStage - 1 /\ ~orders'[o].cancelled
  <2> SUFFICES ASSUME NEW o \in DOMAIN open'
               PROVE  open'[o] \in 0 .. LastStage - 1 /\ ~orders'[o].cancelled
    OBVIOUS
  <2>1. CASE o = id
    <3>1. ~c
      BY <1>2, <1>4, <1>5, <2>1 DEF FactoryOK
    <3> QED
      BY <1>4, <1>5, <2>1, <3>1, StreamAssumption DEF StreamAssumption
  <2>2. CASE o # id
    BY <1>4, <1>5, <2>2 DEF FactoryOK
  <2> QED
    BY <2>1, <2>2
<1>7. out' \in Seq(Message)
  BY <1>2, EmitTypes DEF NextOrder, Topics, Event, OrderEvent
<1>8. DOMAIN open' \subseteq DOMAIN orders'
  BY <1>4, <1>5 DEF FactoryOK
<1> QED
  BY <1>1, <1>4, <1>6, <1>7, <1>8 DEF FactoryOK

LEMMA InventoryTypes ==
    ASSUME FactoryOK, NEW p \in Stores \X Skus, NEW delta \in Deltas, NextInventoryUpdate(p, delta)
    PROVE  FactoryOK'
<1>1. level[p] \in Nat /\ delta \in Int /\ NewLevel(p, delta) \in Nat /\ Clipped(level[p] + delta) \in Nat
  BY StreamAssumption DEF FactoryOK, NewLevel, Clipped, StreamAssumption
<1>2. [sku |-> p[2], previous |-> level[p], new |-> NewLevel(p, delta)] \in Event
  BY <1>1 DEF Event, InventoryEvent
<1>3. out' \in Seq(Message)
  BY <1>2, EmitTypes DEF NextInventoryUpdate, Topics
<1>4. level' \in [Stores \X Skus -> Nat]
  BY <1>1 DEF NextInventoryUpdate, FactoryOK
<1> QED
  BY <1>3, <1>4 DEF NextInventoryUpdate, FactoryOK

LEMMA DeliveryTypes ==
    ASSUME FactoryOK, NEW o \in DOMAIN open, NextDeliveryStatus(o)
    PROVE  /\ FactoryOK' /\ orders[o].store \in Stores /\ open[o] + 1 \in 1 .. LastStage
           /\ DOMAIN open' = {q \in DOMAIN open : q = o => open[o] + 1 < LastStage}
           /\ \A q \in DOMAIN open' : open'[q] = IF q = o THEN open[o] + 1 ELSE open[q]
           /\ Emit("delivery_status", orders[o].store, [order |-> o, stage |-> open[o] + 1])
<1> DEFINE idx == open[o] + 1
<1>1. idx \in 1 .. LastStage /\ LastStage \in Nat
  BY StreamAssumption DEF FactoryOK, StreamAssumption
<1>2. orders[o] \in Order /\ o \in Nat
  BY DEF FactoryOK
<1>3. (IF idx < LastStage THEN idx ELSE LastStage) = idx
  BY <1>1
<1>4. Emit("delivery_status", orders[o].store, [order |-> o, stage |-> idx])
  BY <1>3 DEF NextDeliveryStatus
<1>5. [order |-> o, stage |-> idx] \in Event /\ orders[o].store \in Stores
  BY <1>1, <1>2 DEF Event, DeliveryEvent, Order
<1>6. out' \in Seq(Message)
  BY <1>4, <1>5, EmitTypes DEF Topics
<1>7. /\ DOMAIN open' = DOMAIN open \ {p \in {o} : Done(idx)}
      /\ \A q \in DOMAIN open' : open'[q] = IF q = o THEN idx ELSE open[q]
      /\ level' = level /\ orders' = orders
  BY DEF NextDeliveryStatus
<1>8. DOMAIN open' = {q \in DOMAIN open : q = o => idx < LastStage}
  BY <1>1, <1>7 DEF Done
<1>9. ASSUME NEW q \in DOMAIN open' PROVE open'[q] \in 0 .. LastStage - 1
  <2>1. CASE q = o
    <3>1. open'[q] = idx /\ idx < LastStage
      BY <1>7, <1>8, <2>1
    <3> QED
      BY <1>1, <3>1
  <2>2. CASE q # o
    BY <1>7, <1>8, <2>2 DEF FactoryOK
  <2> QED
    BY <2>1, <2>2
<1>10. \A q \in DOMAIN open' : ~orders'[q].cancelled /\ q \in DOMAIN orders'
  BY <1>7, <1>8 DEF FactoryOK
<1>11. FactoryOK'
  BY <1>6, <1>7, <1>9, <1>10 DEF FactoryOK
<1> QED
  BY <1>1, <1>4, <1>5, <1>7, <1>8, <1>11

LEMMA ProduceTypes ==
    ASSUME FactoryOK, ClientOK, Produce
    PROVE  FactoryOK' /\ ClientOK' /\ Head(out) \in Message /\ Tail(out) \in Seq(Message)
<1>1. out # <<>> /\ out \in Seq(Message)
  BY DEF Produce, FactoryOK
<1>2. Head(out) \in Message /\ Tail(out) \in Seq(Message)
  BY <1>1
<1>3. Head(out).to \in Streams /\ Head(out).event \in Event
  BY <1>2 DEF Message
<1>4. queue' \in [Streams -> Seq(Event)]
  BY <1>3 DEF Produce, ClientOK
<1> QED
  BY <1>2, <1>4 DEF Produce, FactoryOK, ClientOK, factory

LEMMA AbandonTypes == ASSUME FactoryOK, ClientOK, Abandon PROVE FactoryOK' /\ ClientOK'
<1>1. out' \in Seq(Message) /\ queue' \in [Streams -> Seq(Event)]
  BY DEF Abandon
<1>2. lost' \subseteq Told
  BY DEF Abandon, ClientOK
<1> QED
  BY <1>1, <1>2 DEF Abandon, FactoryOK, ClientOK, factory

LEMMA DeliverTypes ==
    ASSUME FactoryOK, ClientOK, NEW s \in Streams, Deliver(s) \/ DeliveryFailed(s)
    PROVE  FactoryOK' /\ ClientOK'
<1>1. queue[s] \in Seq(Event) /\ queue[s] # <<>>
  BY DEF Deliver, DeliveryFailed, ClientOK
<1>2. Head(queue[s]) \in Event /\ Tail(queue[s]) \in Seq(Event)
  BY <1>1
<1>3. queue' \in [Streams -> Seq(Event)]
  BY <1>2 DEF Deliver, DeliveryFailed, ClientOK
<1>4. log' \in [Told -> Seq(Event)]
  <2>1. s \in Told => Append(log[s], Head(queue[s])) \in Seq(Event)
    BY <1>2 DEF ClientOK
  <2>2. log' = log \/ (s \in Told /\ log' = [log EXCEPT ![s] = Append(log[s], Head(queue[s]))])
    BY DEF Deliver, DeliveryFailed
  <2> QED
    BY <2>1, <2>2 DEF ClientOK
<1>5. lost' \subseteq Told
  BY DEF Deliver, DeliveryFailed, ClientOK
<1> QED
  BY <1>3, <1>4, <1>5 DEF Deliver, DeliveryFailed, FactoryOK, ClientOK, factory

LEMMA TypeStep == ASSUME TypeOK, [Next]_vars PROVE TypeOK'
<1> USE DEF Phases
<1>1. FactoryOK /\ ClientOK /\ phase \in Phases /\ extras \in 0 .. 2
  BY TypesSplit
<1>2. CASE FirstOrder
  <2>1. PICK s \in Stores, b \in Baskets, c \in BOOLEAN :
           NextOrder(s, b, c) /\ extras' = SurgeMultiplier(s) - 1
    BY <1>2 DEF FirstOrder
  <2>2. FactoryOK' /\ extras' \in 0 .. 2
    BY <1>1, <2>1, NextOrderTypes DEF SurgeMultiplier
  <2> QED
    BY <1>1, <1>2, <2>2 DEF FirstOrder, client, TypeOK, FactoryOK, ClientOK
<1>3. CASE ExtraOrder
  <2>1. PICK s \in Stores, b \in Baskets, c \in BOOLEAN : NextOrder(s, b, c)
    BY <1>3 DEF ExtraOrder
  <2>2. FactoryOK' /\ extras' \in 0 .. 2
    BY <1>1, <1>3, <2>1, NextOrderTypes DEF ExtraOrder
  <2> QED
    BY <1>1, <1>3, <2>2 DEF ExtraOrder, client, TypeOK, FactoryOK, ClientOK
<1>4. CASE Inventory
  <2>1. FactoryOK'
    <3>1. CASE \E p \in Stores \X Skus, delta \in Deltas : NextInventoryUpdate(p, delta)
      BY <1>1, <3>1, InventoryTypes
    <3>2. CASE UNCHANGED <<factory, out>>
      BY <1>1, <3>2 DEF FactoryOK, factory
    <3> QED
      BY <1>4, <3>1, <3>2 DEF Inventory
  <2> QED
    BY <1>1, <1>4, <2>1 DEF Inventory, client, TypeOK, FactoryOK, ClientOK
<1>5. CASE Delivery
  <2>1. FactoryOK'
    <3>1. CASE \E o \in DOMAIN open : NextDeliveryStatus(o)
      BY <1>1, <3>1, DeliveryTypes
    <3>2. CASE UNCHANGED <<factory, out>>
      BY <1>1, <3>2 DEF FactoryOK, factory
    <3> QED
      BY <1>5, <3>1, <3>2 DEF Delivery
  <2> QED
    BY <1>1, <1>5, <2>1 DEF Delivery, client, TypeOK, FactoryOK, ClientOK
<1>6. CASE Produce
  BY <1>1, <1>6, ProduceTypes, TypesSplit DEF Produce, TypeOK, FactoryOK, ClientOK
<1>7. CASE BufferError \/ FlushTimeout \/ Flushed
  <2>1. Abandon
    BY <1>7 DEF BufferError, FlushTimeout, Flushed
  <2>2. FactoryOK' /\ ClientOK' /\ phase' = "ended" /\ extras' = extras
    BY <1>1, <2>1, AbandonTypes DEF Abandon
  <2> QED
    BY <1>1, <2>2 DEF TypeOK, FactoryOK, ClientOK
<1>8. CASE NextTick \/ Stop \/ UNCHANGED vars
  BY <1>1, <1>8 DEF NextTick, Stop, vars, factory, client, TypeOK, FactoryOK, ClientOK
<1>9. ASSUME NEW s \in Streams, Deliver(s) \/ DeliveryFailed(s) PROVE TypeOK'
  <2>1. FactoryOK' /\ ClientOK' /\ phase' = phase /\ extras' = extras
    BY <1>1, <1>9, DeliverTypes DEF Deliver, DeliveryFailed
  <2> QED
    BY <1>1, <2>1 DEF TypeOK, FactoryOK, ClientOK
<1> QED
  BY <1>2, <1>3, <1>4, <1>5, <1>6, <1>7, <1>8, <1>9 DEF Next

LEMMA TypeInit == Init => TypeOK
<1> SUFFICES ASSUME Init PROVE TypeOK
  OBVIOUS
<1>1. level \in [Stores \X Skus -> Nat]
  BY StreamAssumption DEF Init, StreamAssumption
<1>2. /\ orders \in Seq(Order) /\ DOMAIN open = {} /\ out \in Seq(Message)
      /\ queue \in [Streams -> Seq(Event)] /\ log \in [Told -> Seq(Event)]
  BY DEF Init
<1> QED
  BY <1>1, <1>2 DEF Init, TypeOK, Phases

(* The factory, the tick and the client keep their state well typed: no    *)
(* level is negative, only orders that were placed and not cancelled are   *)
(* open, and none of them is past its last stage (order_stream.py, 89-95). *)
THEOREM TypeCorrect == Spec => []TypeOK
BY TypeInit, TypeStep, PTL DEF Spec

-----------------------------------------------------------------------------
(* Deliveries.  What a store's delivery_status has been told is what the   *)
(* topic has, what the client holds, and what the tick is still to         *)
(* produce, which is at most one event, its last.                          *)

Deliveries(s) == <<"delivery_status", s>>
IsDelivery(m) == m.to[1] = "delivery_status"

LastInTick == /\ phase \in {"order", "extras", "delivery"} => \A i \in 1 .. Len(out) : ~IsDelivery(out[i])
              /\ \A i \in 1 .. Len(out) : IsDelivery(out[i]) => i = Len(out)

Sent(s)      == log[Deliveries(s)] \o queue[Deliveries(s)]
Pending(s)   == IF out # <<>> /\ out[Len(out)].to = Deliveries(s)
                THEN <<out[Len(out)].event>> ELSE <<>>
AllTold(s)   == Sent(s) \o Pending(s)

(* It tells of orders of the store, of each in the order of its stages,    *)
(* and of an open one not beyond the stage it is in.                       *)
Coherent(events, s) ==
    \A i \in 1 .. Len(events) :
       /\ events[i] \in DeliveryEvent
       /\ events[i].order \in DOMAIN orders
       /\ orders[events[i].order] = [store |-> s, cancelled |-> FALSE]
       /\ events[i].order \in DOMAIN open => events[i].stage <= open[events[i].order]
       /\ \A j \in 1 .. i - 1 : events[j].order = events[i].order => events[j].stage < events[i].stage

(* No stage is left out before another, nor before the next one to come.   *)
Gapless(events, s) ==
    /\ \A i \in 1 .. Len(events) :
          \/ events[i].stage = 1
          \/ \E j \in 1 .. i - 1 : /\ events[j].order = events[i].order
                                   /\ events[j].stage = events[i].stage - 1
    /\ \A o \in DOMAIN open : orders[o].store = s /\ open[o] # 0 =>
          \E i \in 1 .. Len(events) : events[i].order = o /\ events[i].stage = open[o]

Story(s) == /\ Coherent(AllTold(s), s)
            /\ Deliveries(s) \notin lost => Gapless(AllTold(s), s)

IInv == TypeOK /\ LastInTick /\ \A s \in Stores : Story(s)

LEMMA StoreTypes ==
    ASSUME TypeOK, NEW s \in Stores
    PROVE  /\ Deliveries(s) \in Told /\ Deliveries(s) \in Streams
           /\ log[Deliveries(s)] \in Seq(Event) /\ queue[Deliveries(s)] \in Seq(Event)
           /\ Pending(s) \in Seq(Event) /\ Sent(s) \in Seq(Event) /\ AllTold(s) \in Seq(Event)
<1>1. Deliveries(s) \in Streams /\ Deliveries(s) \in Told
  BY DEF Deliveries, Streams, Topics, Told
<1>2. log[Deliveries(s)] \in Seq(Event) /\ queue[Deliveries(s)] \in Seq(Event)
  BY <1>1 DEF TypeOK
<1>3. out # <<>> => out[Len(out)].event \in Event
  <2>1. out \in Seq(Message)
    BY DEF TypeOK
  <2>2. out # <<>> => out[Len(out)] \in Message
    BY <2>1
  <2> QED
    BY <2>2 DEF Message
<1>4. Pending(s) \in Seq(Event)
  BY <1>3 DEF Pending
<1> QED
  BY <1>1, <1>2, <1>4 DEF Sent, AllTold

LEMMA SameStory ==
    ASSUME NEW s \in Stores, Story(s), AllTold(s)' = AllTold(s), UNCHANGED <<orders, open>>,
           lost \subseteq lost'
    PROVE  Story(s)'
<1>1. Coherent(AllTold(s), s)'
  BY DEF Story, Coherent
<1>2. Gapless(AllTold(s), s) => Gapless(AllTold(s), s)'
  BY DEF Gapless
<1> QED
  BY <1>1, <1>2 DEF Story, Deliveries

(* Leaving events out does not disturb the order of the others.            *)
LEMMA Subsequence ==
    ASSUME NEW s \in Stores, NEW A, NEW B, Coherent(A, s), Len(A) \in Nat, Len(B) \in Nat,
           NEW f \in [1 .. Len(B) -> 1 .. Len(A)],
           \A i \in 1 .. Len(B) : B[i] = A[f[i]],
           \A i \in 1 .. Len(B), j \in 1 .. Len(B) : j < i => f[j] < f[i]
    PROVE  Coherent(B, s)
<1> SUFFICES ASSUME NEW i \in 1 .. Len(B)
             PROVE  /\ B[i] \in DeliveryEvent
                    /\ B[i].order \in DOMAIN orders
                    /\ orders[B[i].order] = [store |-> s, cancelled |-> FALSE]
                    /\ B[i].order \in DOMAIN open => B[i].stage <= open[B[i].order]
                    /\ \A j \in 1 .. i - 1 : B[j].order = B[i].order => B[j].stage < B[i].stage
  BY DEF Coherent
<1>1. B[i] = A[f[i]] /\ f[i] \in 1 .. Len(A)
  OBVIOUS
<1>2. \A j \in 1 .. i - 1 : j \in 1 .. Len(B) /\ B[j] = A[f[j]] /\ f[j] \in 1 .. f[i] - 1
  OBVIOUS
<1> QED
  BY <1>1, <1>2 DEF Coherent

(* An event that is no delivery_status changes nothing that is told.       *)
LEMMA NothingPending ==
    ASSUME TypeOK, LastInTick, phase \in {"order", "extras", "delivery"}, NEW s \in Stores
    PROVE  Pending(s) = <<>>
<1>1. out # <<>> => Len(out) \in 1 .. Len(out)
  BY DEF TypeOK
<1>2. out # <<>> => ~IsDelivery(out[Len(out)])
  BY <1>1 DEF LastInTick
<1> QED
  BY <1>2 DEF Pending, IsDelivery, Deliveries

LEMMA OtherEvent ==
    ASSUME TypeOK, TypeOK', LastInTick, phase \in {"order", "extras", "delivery"},
           NEW topic \in {"orders", "inventory_updates"}, NEW t \in Stores, NEW e,
           Emit(topic, t, e), UNCHANGED client
    PROVE  LastInTick' /\ \A s \in Stores : AllTold(s)' = AllTold(s)
<1> DEFINE m == [to |-> <<topic, t>>, event |-> e]
<1>1. out \in Seq(Message) /\ out' = Append(out, m)
  BY DEF Emit, TypeOK
<1>2. /\ Len(out') = Len(out) + 1 /\ Len(out) \in Nat
      /\ \A i \in 1 .. Len(out) + 1 : out'[i] = IF i <= Len(out) THEN out[i] ELSE m
  BY <1>1
<1>3. ~IsDelivery(m)
  BY DEF IsDelivery
<1>4. \A i \in 1 .. Len(out') : ~IsDelivery(out'[i])
  BY <1>2, <1>3 DEF LastInTick
<1>5. LastInTick'
  BY <1>4 DEF LastInTick, IsDelivery
<1>6. ASSUME NEW s \in Stores PROVE AllTold(s)' = AllTold(s)
  <2>1. Pending(s) = <<>>
    BY NothingPending
  <2>2. out'[Len(out')] = m
    BY <1>2
  <2>3. m.to # Deliveries(s)
    BY DEF Deliveries
  <2>4. Pending(s)' = <<>>
    BY <2>2, <2>3 DEF Pending, Deliveries
  <2> QED
    BY <2>1, <2>4 DEF AllTold, Sent, client, Deliveries
<1> QED
  BY <1>5, <1>6

LEMMA OrderStory ==
    ASSUME IInv, TypeOK', phase \in {"order", "extras"}, NEW t \in Stores, NEW b \in Baskets, NEW c \in BOOLEAN,
           NextOrder(t, b, c), UNCHANGED client
    PROVE  LastInTick' /\ \A s \in Stores : Story(s)'
<1> DEFINE id == Len(orders) + 1
<1>1. LastInTick' /\ \A s \in Stores : AllTold(s)' = AllTold(s)
  BY OtherEvent DEF NextOrder, IInv
<1>2. /\ orders \in Seq(Order) /\ Len(orders) \in Nat
      /\ \A o \in DOMAIN orders : orders'[o] = orders[o] /\ o # id /\ o \in DOMAIN orders'
  <2>1. orders \in Seq(Order) /\ orders' = Append(orders, [store |-> t, cancelled |-> c])
    BY DEF NextOrder, IInv, TypeOK
  <2> QED
    BY <2>1
<1>3. /\ DOMAIN open' = DOMAIN open \cup ({id} \ IF c THEN {id} ELSE {})
      /\ \A o \in DOMAIN open' : open'[o] = IF o = id THEN 0 ELSE open[o]
      /\ DOMAIN open \subseteq DOMAIN orders
  BY DEF NextOrder, IInv, TypeOK
<1>4. \A o \in DOMAIN orders : o \in DOMAIN open' => o \in DOMAIN open /\ open'[o] = open[o]
  BY <1>2, <1>3
<1>5. \A o \in DOMAIN open' : open'[o] # 0 => o \in DOMAIN open /\ open'[o] = open[o] /\ orders'[o] = orders[o]
  BY <1>2, <1>3
<1>6. ASSUME NEW s \in Stores PROVE Story(s)'
  <2>1. Story(s) /\ AllTold(s)' = AllTold(s) /\ lost' = lost
    BY <1>1 DEF IInv, client
  <2>2. Coherent(AllTold(s), s)'
    BY <1>2, <1>4, <2>1 DEF Story, Coherent
  <2>3. Gapless(AllTold(s), s) => Gapless(AllTold(s), s)'
    BY <1>5, <2>1 DEF Gapless
  <2> QED
    BY <2>1, <2>2, <2>3 DEF Story, Deliveries
<1> QED
  BY <1>1, <1>6

LEMMA InventoryStory ==
    ASSUME IInv, TypeOK', Inventory
    PROVE  LastInTick' /\ \A s \in Stores : Story(s)'
<1>1. phase = "extras" /\ phase' = "delivery" /\ UNCHANGED client
  BY DEF Inventory
<1>2. CASE \E p \in Stores \X Skus, delta \in Deltas : NextInventoryUpdate(p, delta)
  <2>1. PICK p \in Stores \X Skus, delta \in Deltas : NextInventoryUpdate(p, delta)
    BY <1>2
  <2>2. LastInTick' /\ \A s \in Stores : AllTold(s)' = AllTold(s)
    BY <1>1, <2>1, OtherEvent DEF NextInventoryUpdate, IInv
  <2>3. UNCHANGED <<orders, open, lost>>
    BY <1>1, <2>1 DEF NextInventoryUpdate, client
  <2> QED
    BY <2>2, <2>3, SameStory DEF IInv
<1>3. CASE UNCHANGED <<factory, out>>
  <2>1. LastInTick'
    BY <1>1, <1>3 DEF LastInTick, IInv, IsDelivery
  <2>2. \A s \in Stores : AllTold(s)' = AllTold(s)
    BY <1>1, <1>3 DEF AllTold, Sent, Pending, Deliveries, client
  <2> QED
    BY <1>1, <1>3, <2>1, <2>2, SameStory DEF IInv, factory, client
<1> QED
  BY <1>2, <1>3 DEF Inventory

(* The next stage of an open order is one more than the last one told.     *)
LEMMA StageStory ==
    ASSUME IInv, TypeOK', phase = "delivery", phase' = "produce", UNCHANGED client,
           NEW o \in DOMAIN open, NextDeliveryStatus(o)
    PROVE  LastInTick' /\ \A s \in Stores : Story(s)'
<1>0. FactoryOK /\ TypeOK
  BY TypesSplit DEF IInv
<1>a. PICK store \in Stores, e \in Event :
         store = orders[o].store /\ e = [order |-> o, stage |-> open[o] + 1]
  <2>1. o \in Nat
    BY <1>0 DEF FactoryOK
  <2> QED
    BY <1>0, <2>1, DeliveryTypes DEF Event, DeliveryEvent
<1> DEFINE m == [to |-> <<"delivery_status", store>>, event |-> e]
<1>1. /\ open[o] + 1 \in 1 .. LastStage
      /\ DOMAIN open' = {q \in DOMAIN open : q = o => open[o] + 1 < LastStage}
      /\ \A q \in DOMAIN open' : open'[q] = IF q = o THEN open[o] + 1 ELSE open[q]
      /\ out' = Append(out, m)
  BY <1>0, <1>a, DeliveryTypes DEF Emit
<1>2. orders' = orders /\ lost' = lost /\ log' = log /\ queue' = queue
  BY DEF NextDeliveryStatus, client
<1>3. /\ Len(out') = Len(out) + 1 /\ Len(out) \in Nat /\ out' # <<>>
      /\ \A i \in 1 .. Len(out) + 1 : out'[i] = IF i <= Len(out) THEN out[i] ELSE m
  <2>1. out \in Seq(Message)
    BY <1>0 DEF TypeOK
  <2> QED
    BY <1>1, <2>1
<1>4. LastInTick'
  <2>1. \A i \in 1 .. Len(out) : ~IsDelivery(out[i])
    BY DEF IInv, LastInTick
  <2>2. \A i \in 1 .. Len(out') : IsDelivery(out'[i]) => i = Len(out')
    BY <1>3, <2>1
  <2> QED
    BY <2>2 DEF LastInTick, IsDelivery
<1>5. \A s \in Stores : Pending(s) = <<>>
  BY <1>0, NothingPending DEF IInv
<1>6. open[o] \in Nat /\ o \in DOMAIN orders /\ orders[o] = [store |-> store, cancelled |-> FALSE]
  <2>1. orders[o] \in Order /\ o \in DOMAIN orders /\ ~orders[o].cancelled /\ open[o] \in Nat
    BY <1>0 DEF TypeOK
  <2> QED
    BY <1>a, <2>1 DEF Order
<1>7. \A q \in DOMAIN open' : q \in DOMAIN open /\ open[q] \in Nat /\ open'[q] \in Nat /\ open[q] <= open'[q]
  BY <1>0, <1>1, <1>6 DEF TypeOK
<1>8. ASSUME NEW s \in Stores, s # store PROVE Story(s)'
  <2>1. m.to # Deliveries(s) /\ out'[Len(out')] = m
    BY <1>3, <1>8 DEF Deliveries
  <2>2. AllTold(s)' = AllTold(s)
    BY <1>2, <1>5, <2>1 DEF AllTold, Sent, Pending, Deliveries
  <2>3. Story(s)
    BY DEF IInv
  <2>4. \A i \in 1 .. Len(AllTold(s)) : AllTold(s)[i].order # o
    BY <1>6, <1>8, <2>3 DEF Story, Coherent
  <2>5. Coherent(AllTold(s), s)'
    BY <1>1, <1>2, <2>2, <2>3, <2>4 DEF Story, Coherent
  <2>6. Gapless(AllTold(s), s) => Gapless(AllTold(s), s)'
    BY <1>a, <1>1, <1>2, <1>8, <2>2 DEF Gapless
  <2> QED
    BY <1>2, <2>3, <2>5, <2>6 DEF Story, Deliveries
<1>9. Story(store)'
  <2>0. PICK A, B : A = AllTold(store) /\ B = AllTold(store)'
    OBVIOUS
  <2>1. /\ A \in Seq(Event) /\ Story(store)
        /\ log[Deliveries(store)] \in Seq(Event) /\ queue[Deliveries(store)] \in Seq(Event)
    BY <1>0, <2>0, StoreTypes DEF IInv
  <2>2. B = Append(A, e)
    <3>1. Pending(store)' = <<e>>
      BY <1>3 DEF Pending, Deliveries
    <3>2. A = Sent(store) \o <<>> /\ Sent(store) \in Seq(Event) /\ B = Sent(store) \o <<e>>
      BY <1>0, <1>2, <1>5, <2>0, <3>1, StoreTypes DEF AllTold, Sent, Deliveries
    <3> QED
      BY <3>2
  <2>3. /\ Len(B) = Len(A) + 1 /\ Len(A) \in Nat /\ B[Len(B)] = e
        /\ \A i \in 1 .. Len(A) : B[i] = A[i]
    BY <2>1, <2>2
  <2>4. e \in DeliveryEvent /\ e.order = o /\ e.stage = open[o] + 1
    BY <1>a, <1>1, <1>6, <1>0 DEF DeliveryEvent, TypeOK
  <2>5. \A i \in 1 .. Len(A) : /\ A[i] \in DeliveryEvent /\ A[i].stage \in Nat /\ A[i].order \in DOMAIN orders
                               /\ orders[A[i].order] = [store |-> store, cancelled |-> FALSE]
                               /\ A[i].order \in DOMAIN open => A[i].stage <= open[A[i].order]
                               /\ \A j \in 1 .. i - 1 : A[j].order = A[i].order => A[j].stage < A[i].stage
    <3>1. Coherent(A, store)
      BY <2>0, <2>1 DEF Story
    <3>2. \A v \in DeliveryEvent : v.stage \in Nat
      BY StreamAssumption DEF DeliveryEvent, StreamAssumption
    <3> QED
      BY <3>1, <3>2 DEF Coherent
  <2>6. Coherent(B, store)'
    <3> SUFFICES ASSUME NEW i \in 1 .. Len(B)
                 PROVE  /\ B[i] \in DeliveryEvent
                        /\ B[i].order \in DOMAIN orders
                        /\ orders[B[i].order] = [store |-> store, cancelled |-> FALSE]
                        /\ B[i].order \in DOMAIN open' => B[i].stage <= open'[B[i].order]
                        /\ \A j \in 1 .. i - 1 : B[j].order = B[i].order => B[j].stage < B[i].stage
      BY <1>2 DEF Coherent
    <3>1. CASE i = Len(B)
      <4>1. B[i] = e /\ \A j \in 1 .. i - 1 : j \in 1 .. Len(A) /\ B[j] = A[j]
        BY <2>3, <3>1
      <4>2. o \in DOMAIN open' => e.stage <= open'[o]
        BY <1>1, <1>6, <2>4
      <4>3. \A j \in 1 .. Len(A) : A[j].order = o => A[j].stage < e.stage
        BY <1>6, <2>4, <2>5
      <4>4. B[i].order = o /\ B[i] \in DeliveryEvent
        BY <2>4, <4>1
      <4> QED
        BY <1>6, <4>1, <4>2, <4>3, <4>4
    <3>2. CASE i # Len(B)
      <4>1. i \in 1 .. Len(A) /\ B[i] = A[i] /\ \A j \in 1 .. i - 1 : j \in 1 .. Len(A) /\ B[j] = A[j]
        BY <2>3, <3>2
      <4>2. /\ A[i] \in DeliveryEvent /\ A[i].order \in DOMAIN orders /\ A[i].stage \in Nat
            /\ orders[A[i].order] = [store |-> store, cancelled |-> FALSE]
            /\ A[i].order \in DOMAIN open => A[i].stage <= open[A[i].order]
            /\ \A j \in 1 .. i - 1 : A[j].order = A[i].order => A[j].stage < A[i].stage
        BY <2>5, <4>1
      <4>3. A[i].order \in DOMAIN open' => A[i].stage <= open'[A[i].order]
        BY <1>7, <4>2
      <4> QED
        BY <4>1, <4>2, <4>3
    <3> QED
      BY <3>1, <3>2
  <2>7. ASSUME Gapless(A, store) PROVE Gapless(B, store)'
    <3>1. ASSUME NEW i \in 1 .. Len(B)
          PROVE  \/ B[i].stage = 1
                 \/ \E j \in 1 .. i - 1 : B[j].order = B[i].order /\ B[j].stage = B[i].stage - 1
      <4>1. CASE i = Len(B)
        <5>1. open[o] = 0 \/ \E j \in 1 .. Len(A) : A[j].order = o /\ A[j].stage = open[o]
          BY <1>a, <2>7 DEF Gapless
        <5>2. B[i] = e /\ \A j \in 1 .. Len(A) : j \in 1 .. i - 1 /\ B[j] = A[j]
          BY <2>3, <4>1
        <5>3. e.stage - 1 = open[o] /\ (open[o] = 0 => e.stage = 1)
          BY <1>6, <2>4
        <5> QED
          BY <2>4, <5>1, <5>2, <5>3
      <4>2. CASE i # Len(B)
        <5>1. i \in 1 .. Len(A) /\ B[i] = A[i] /\ \A j \in 1 .. i - 1 : B[j] = A[j]
          BY <2>3, <4>2
        <5> QED
          BY <2>7, <5>1 DEF Gapless
      <4> QED
        BY <4>1, <4>2
    <3>2. ASSUME NEW q \in DOMAIN open', orders'[q].store = store, open'[q] # 0
          PROVE  \E i \in 1 .. Len(B) : B[i].order = q /\ B[i].stage = open'[q]
      <4>1. CASE q = o
        BY <1>1, <2>3, <2>4, <4>1
      <4>2. CASE q # o
        <5>1. PICK i \in 1 .. Len(A) : A[i].order = q /\ A[i].stage = open[q]
          BY <1>1, <1>2, <2>7, <3>2, <4>2 DEF Gapless
        <5> QED
          BY <1>1, <2>3, <4>2, <5>1
      <4> QED
        BY <4>1, <4>2
    <3> QED
      BY <3>1, <3>2 DEF Gapless
  <2> QED
    BY <1>2, <2>0, <2>1, <2>6, <2>7 DEF Story, Deliveries
<1> QED
  BY <1>4, <1>8, <1>9

-----------------------------------------------------------------------------
(* What the client does moves events on, or takes some away.               *)

LEMMA ProduceStory ==
    ASSUME IInv, TypeOK', Produce
    PROVE  LastInTick' /\ \A s \in Stores : Story(s)'
<1>0. TypeOK /\ out \in Seq(Message) /\ out # <<>>
  BY DEF IInv, TypeOK, Produce
<1>1. /\ out' = Tail(out) /\ log' = log /\ UNCHANGED <<orders, open, lost>> /\ phase = "produce" /\ phase' = phase
      /\ queue' = [queue EXCEPT ![Head(out).to] = Append(@, Head(out).event)]
  BY DEF Produce, factory
<1>2. /\ Len(out) \in Nat \ {0} /\ Len(out') = Len(out) - 1 /\ Head(out) = out[1]
      /\ \A i \in 1 .. Len(out') : out'[i] = out[i + 1]
  BY <1>0, <1>1
<1>3. \A i \in 1 .. Len(out) : IsDelivery(out[i]) => i = Len(out)
  BY DEF IInv, LastInTick
<1>4. LastInTick'
  <2>1. \A i \in 1 .. Len(out') : IsDelivery(out'[i]) => i = Len(out')
    BY <1>2, <1>3
  <2> QED
    BY <1>1, <2>1 DEF LastInTick, IsDelivery
<1>5. ASSUME NEW s \in Stores PROVE AllTold(s)' = AllTold(s)
  <2>1. log[Deliveries(s)] \in Seq(Event) /\ queue[Deliveries(s)] \in Seq(Event)
    BY <1>0, StoreTypes
  <2>2. CASE Head(out).to = Deliveries(s)
    <3>1. IsDelivery(out[1])
      BY <1>2, <2>2 DEF IsDelivery, Deliveries
    <3>2. Len(out) = 1 /\ out' = <<>>
      <4>1. Len(out) = 1 /\ Len(out') = 0
        BY <1>2, <1>3, <3>1
      <4>2. out' \in Seq(Message)
        BY <1>0, <1>1
      <4> QED
        BY <4>1, <4>2
    <3>3. Pending(s) = <<Head(out).event>> /\ Pending(s)' = <<>>
      BY <1>0, <1>2, <2>2, <3>2 DEF Pending
    <3>4. queue'[Deliveries(s)] = Append(queue[Deliveries(s)], Head(out).event) /\ Head(out).event \in Event
      <4>1. out[1] \in Message /\ queue \in [Streams -> Seq(Event)]
        BY <1>0, <1>2 DEF TypeOK
      <4> QED
        BY <1>0, <1>1, <1>2, <2>2, <4>1, StoreTypes DEF Message
    <3>5. ASSUME NEW l \in Seq(Event), NEW q \in Seq(Event), NEW e \in Event
          PROVE  (l \o Append(q, e)) \o <<>> = (l \o q) \o <<e>>
      OBVIOUS
    <3> QED
      BY <1>1, <2>1, <3>3, <3>4, <3>5 DEF AllTold, Sent, Deliveries
  <2>3. CASE Head(out).to # Deliveries(s)
    <3>1. queue'[Deliveries(s)] = queue[Deliveries(s)]
      BY <1>0, <1>1, <2>3, StoreTypes DEF TypeOK
    <3>2. CASE Len(out) = 1
      <4>1. out' = <<>> /\ out[Len(out)].to # Deliveries(s)
        BY <1>0, <1>1, <1>2, <2>3, <3>2
      <4>2. Pending(s)' = <<>> /\ Pending(s) = <<>>
        BY <4>1 DEF Pending
      <4> QED
        BY <1>1, <3>1, <4>2 DEF AllTold, Sent, Deliveries
    <3>3. CASE Len(out) # 1
      <4>1. out'[Len(out')] = out[Len(out)] /\ out' # <<>>
        <5>1. Len(out') \in 1 .. Len(out') /\ Len(out') + 1 = Len(out)
          BY <1>2, <3>3
        <5>2. out'[Len(out')] = out[Len(out') + 1]
          BY <1>2, <5>1
        <5> QED
          BY <5>1, <5>2
      <4>2. Pending(s)' = Pending(s)
        BY <1>0, <4>1 DEF Pending, Deliveries
      <4> QED
        BY <1>1, <3>1, <4>2 DEF AllTold, Sent, Deliveries
    <3> QED
      BY <3>2, <3>3
  <2> QED
    BY <2>2, <2>3
<1> QED
  BY <1>1, <1>4, <1>5, SameStory DEF IInv

(* Abandoning leaves the topic as it is, a part of what was told, and all  *)
(* of it where nothing was held or to be produced.                         *)
LEMMA AbandonStory ==
    ASSUME IInv, TypeOK', Abandon
    PROVE  LastInTick' /\ \A s \in Stores : Story(s)'
<1>0. /\ out' = <<>> /\ log' = log /\ UNCHANGED <<orders, open>> /\ queue' = [s \in Streams |-> <<>>]
      /\ lost' = lost \cup (Told \cap (Unsent \cup {m.to : m \in Range(out)}))
  BY DEF Abandon, factory
<1>1. LastInTick'
  BY <1>0 DEF LastInTick, IsDelivery
<1>2. ASSUME NEW s \in Stores PROVE Story(s)'
  <2> DEFINE D == Deliveries(s)
  <2>1. /\ log[D] \in Seq(Event) /\ queue[D] \in Seq(Event) /\ D \in Told /\ D \in Streams
        /\ Pending(s) \in Seq(Event) /\ Story(s)
    BY StoreTypes DEF IInv
  <2>2. AllTold(s)' = log[D]
    <3>1. queue'[D] = <<>> /\ Pending(s)' = <<>>
      BY <1>0, <2>1 DEF Pending
    <3> QED
      BY <1>0, <2>1, <3>1 DEF AllTold, Sent, Deliveries
  <2>3. PICK A, B : A = AllTold(s) /\ B = log[D]
    OBVIOUS
  <2>4. Len(A) \in Nat /\ Len(B) \in 0 .. Len(A) /\ \A i \in 1 .. Len(B) : B[i] = A[i]
    <3>1. ASSUME NEW l \in Seq(Event), NEW q \in Seq(Event), NEW p \in Seq(Event)
          PROVE  /\ Len((l \o q) \o p) \in Nat /\ Len(l) \in 0 .. Len((l \o q) \o p)
                 /\ \A i \in 1 .. Len(l) : l[i] = ((l \o q) \o p)[i]
      <4>1. /\ l \o q \in Seq(Event) /\ Len(l \o q) = Len(l) + Len(q)
            /\ \A i \in 1 .. Len(l) : l[i] = (l \o q)[i]
        OBVIOUS
      <4> QED
        BY <4>1
    <3>2. PICK l \in Seq(Event), q \in Seq(Event), p \in Seq(Event) :
             l = log[D] /\ q = queue[D] /\ p = Pending(s)
      BY <2>1
    <3>3. A = (l \o q) \o p /\ B = l
      BY <2>3, <3>2 DEF AllTold, Sent
    <3> QED
      BY <3>1, <3>3
  <2>5. Coherent(B, s)
    <3>1. Coherent(A, s)
      BY <2>1, <2>3 DEF Story
    <3> DEFINE f == [i \in 1 .. Len(B) |-> i]
    <3>2. f \in [1 .. Len(B) -> 1 .. Len(A)] /\ \A i \in 1 .. Len(B) : f[i] = i
      BY <2>4
    <3> HIDE DEF f
    <3> QED
      BY <2>4, <3>1, <3>2, Subsequence
  <2>6. ASSUME D \notin lost' PROVE Gapless(B, s) /\ D \notin lost
    <3>1. queue[D] = <<>>
      BY <1>0, <2>1, <2>6 DEF Unsent
    <3>2. Pending(s) = <<>>
      <4>1. out # <<>> => out[Len(out)] \in Range(out)
        BY DEF IInv, TypeOK, Range
      <4> QED
        BY <1>0, <2>1, <2>6, <4>1 DEF Pending
    <3>3. AllTold(s) = log[D]
      BY <2>1, <3>1, <3>2 DEF AllTold, Sent
    <3> QED
      BY <1>0, <2>1, <2>3, <2>6, <3>3 DEF Story
  <2>7. Coherent(B, s)' /\ (Gapless(B, s) => Gapless(B, s)')
    BY <1>0, <2>5 DEF Coherent, Gapless
  <2> QED
    BY <2>2, <2>3, <2>6, <2>7 DEF Story, Deliveries
<1> QED
  BY <1>1, <1>2

(* The client moves the head of its queue to the topic: nothing changes in *)
(* what both hold together.                                                *)
LEMMA HeadMoves ==
    ASSUME NEW l \in Seq(Event), NEW q \in Seq(Event), q # <<>>
    PROVE  Append(l, Head(q)) \o Tail(q) = l \o q
<1>1. /\ Head(q) \in Event /\ Tail(q) \in Seq(Event) /\ Len(Tail(q)) = Len(q) - 1
      /\ \A i \in 1 .. Len(Tail(q)) : Tail(q)[i] = q[i + 1]
  BY HeadTailProperties
<1>2. PICK h \in Event, u \in Seq(Event) : h = Head(q) /\ u = Tail(q)
  BY <1>1
<1>3. <<h>> \o u = q
  <2>1. <<h>> \in Seq(Event) /\ Len(<<h>>) = 1 /\ <<h>>[1] = h
    OBVIOUS
  <2>2. /\ <<h>> \o u \in Seq(Event) /\ Len(<<h>> \o u) = 1 + Len(u)
        /\ \A i \in 1 .. 1 + Len(u) : (<<h>> \o u)[i] = IF i <= 1 THEN h ELSE u[i - 1]
    BY <2>1
  <2>3. Len(q) \in Nat /\ Len(u) = Len(q) - 1 /\ h = q[1]
    BY <1>1, <1>2
  <2>4. ASSUME NEW i \in 1 .. Len(q) PROVE (<<h>> \o u)[i] = q[i]
    <3>1. CASE i = 1
      BY <2>2, <2>3, <3>1
    <3>2. CASE i # 1
      <4>1. i - 1 \in 1 .. Len(u) /\ (i - 1) + 1 = i
        BY <2>3, <3>2
      <4>2. u[i - 1] = q[i]
        BY <1>1, <1>2, <4>1
      <4> QED
        BY <2>2, <2>3, <3>2, <4>2
    <3> QED
      BY <3>1, <3>2
  <2>5. Len(<<h>> \o u) = Len(q) /\ \A i \in 1 .. Len(<<h>> \o u) : (<<h>> \o u)[i] = q[i]
    BY <2>2, <2>3, <2>4
  <2> QED
    BY <2>2, <2>5, SeqEqual
<1>4. Append(l, h) = l \o <<h>>
  BY AppendIsConcat
<1>5. (l \o <<h>>) \o u = l \o (<<h>> \o u)
  <2>1. <<h>> \in Seq(Event)
    OBVIOUS
  <2> QED
    BY <2>1, ConcatAssociative
<1> QED
  BY <1>2, <1>3, <1>4, <1>5

LEMMA DeliverStory ==
    ASSUME IInv, TypeOK', NEW t \in Streams, Deliver(t)
    PROVE  LastInTick' /\ \A s \in Stores : Story(s)'
<1>0. /\ UNCHANGED <<orders, open, out, phase, lost>> /\ queue[t] # <<>>
      /\ queue' = [queue EXCEPT ![t] = Tail(@)]
      /\ log' = IF t \in Told THEN [log EXCEPT ![t] = Append(@, Head(queue[t]))] ELSE log
      /\ queue \in [Streams -> Seq(Event)] /\ log \in [Told -> Seq(Event)]
  BY DEF Deliver, factory, IInv, TypeOK
<1>1. LastInTick'
  BY <1>0 DEF IInv, LastInTick, IsDelivery
<1>2. ASSUME NEW s \in Stores PROVE AllTold(s)' = AllTold(s)
  <2> DEFINE D == Deliveries(s)
  <2>1. log[D] \in Seq(Event) /\ queue[D] \in Seq(Event) /\ D \in Told /\ D \in Streams
    BY StoreTypes DEF IInv
  <2>2. Pending(s)' = Pending(s)
    BY <1>0 DEF Pending, Deliveries
  <2>3. CASE t = D
    <3>1. queue'[D] = Tail(queue[D]) /\ log'[D] = Append(log[D], Head(queue[D])) /\ queue[D] # <<>>
      BY <1>0, <2>1, <2>3
    <3>2. log'[D] \o queue'[D] = log[D] \o queue[D]
      BY <2>1, <3>1, HeadMoves
    <3> QED
      BY <2>2, <3>2 DEF AllTold, Sent, Deliveries
  <2>4. CASE t # D
    <3>1. queue'[D] = queue[D] /\ log'[D] = log[D]
      BY <1>0, <2>1, <2>4
    <3> QED
      BY <2>2, <3>1 DEF AllTold, Sent, Deliveries
  <2> QED
    BY <2>3, <2>4
<1> QED
  BY <1>0, <1>1, <1>2, SameStory DEF IInv

(* A failed delivery leaves one event out, and is remembered as lost.      *)
LEMMA FailedStory ==
    ASSUME IInv, TypeOK', NEW t \in Streams, DeliveryFailed(t)
    PROVE  LastInTick' /\ \A s \in Stores : Story(s)'
<1>0. /\ UNCHANGED <<orders, open, out, phase, log>> /\ queue[t] # <<>>
      /\ queue' = [queue EXCEPT ![t] = Tail(@)] /\ lost' = lost \cup ({t} \cap Told)
      /\ queue \in [Streams -> Seq(Event)]
  BY DEF DeliveryFailed, factory, IInv, TypeOK
<1>1. LastInTick'
  BY <1>0 DEF IInv, LastInTick, IsDelivery
<1>2. ASSUME NEW s \in Stores PROVE Story(s)'
  <2> DEFINE D == Deliveries(s)
  <2>1. /\ log[D] \in Seq(Event) /\ queue[D] \in Seq(Event) /\ D \in Told /\ D \in Streams
        /\ Pending(s) \in Seq(Event) /\ Story(s)
    BY StoreTypes DEF IInv
  <2>2. Pending(s)' = Pending(s)
    BY <1>0 DEF Pending, Deliveries
  <2>3. CASE t = D
    <3>1. D \in lost' /\ queue'[D] = Tail(queue[D]) /\ queue[D] # <<>> /\ log'[D] = log[D]
      BY <1>0, <2>1, <2>3
    <3>2. PICK l \in Seq(Event), q \in Seq(Event), p \in Seq(Event) :
             l = log[D] /\ q = queue[D] /\ p = Pending(s)
      BY <2>1
    <3>3. PICK A, B : A = (l \o q) \o p /\ B = (l \o Tail(q)) \o p
      OBVIOUS
    <3>4. AllTold(s) = A /\ AllTold(s)' = B
      BY <2>2, <3>1, <3>2, <3>3 DEF AllTold, Sent, Deliveries
    <3> DEFINE f == [i \in 1 .. Len(B) |-> IF i <= Len(l) THEN i ELSE i + 1]
    <3>5. /\ Len(l) \in Nat /\ Len(B) \in Nat /\ Len(A) = Len(B) + 1 /\ Len(l) <= Len(B)
          /\ \A i \in 1 .. Len(B) : B[i] = IF i <= Len(l) THEN A[i] ELSE A[i + 1]
      <4>1. /\ Tail(q) \in Seq(Event) /\ Len(q) \in Nat \ {0} /\ Len(Tail(q)) = Len(q) - 1
            /\ \A i \in 1 .. Len(q) - 1 : Tail(q)[i] = q[i + 1]
        BY <3>1, <3>2
      <4>2. /\ l \o q \in Seq(Event) /\ Len(l \o q) = Len(l) + Len(q) /\ Len(l) \in Nat
            /\ \A i \in 1 .. Len(l) + Len(q) : (l \o q)[i] = IF i <= Len(l) THEN l[i] ELSE q[i - Len(l)]
        OBVIOUS
      <4>3. /\ l \o Tail(q) \in Seq(Event) /\ Len(l \o Tail(q)) = Len(l) + Len(q) - 1
            /\ \A i \in 1 .. Len(l) + Len(q) - 1 :
                  (l \o Tail(q))[i] = IF i <= Len(l) THEN l[i] ELSE Tail(q)[i - Len(l)]
        BY <4>1
      <4>4. \A i \in 1 .. Len(l) + Len(q) - 1 :
               (l \o Tail(q))[i] = IF i <= Len(l) THEN (l \o q)[i] ELSE (l \o q)[i + 1]
        <5> SUFFICES ASSUME NEW i \in 1 .. Len(l) + Len(q) - 1
                     PROVE  (l \o Tail(q))[i] = IF i <= Len(l) THEN (l \o q)[i] ELSE (l \o q)[i + 1]
          OBVIOUS
        <5>1. CASE i <= Len(l)
          BY <4>1, <4>2, <4>3, <5>1
        <5>2. CASE i > Len(l)
          <6>1. /\ i - Len(l) \in 1 .. Len(q) - 1 /\ i + 1 \in 1 .. Len(l) + Len(q)
                /\ (i - Len(l)) + 1 = (i + 1) - Len(l) /\ ~(i + 1 <= Len(l))
            BY <4>1, <4>2, <5>2
          <6>2. (l \o q)[i + 1] = q[(i + 1) - Len(l)]
            BY <4>2, <6>1
          <6>3. (l \o Tail(q))[i] = q[(i - Len(l)) + 1]
            BY <4>1, <4>2, <4>3, <5>2, <6>1
          <6> QED
            BY <4>2, <5>2, <6>1, <6>2, <6>3
        <5> QED
          BY <4>2, <5>1, <5>2
      <4>5. /\ Len(A) = Len(l) + Len(q) + Len(p) /\ Len(p) \in Nat
            /\ \A i \in 1 .. Len(A) : A[i] = IF i <= Len(l) + Len(q) THEN (l \o q)[i]
                                             ELSE p[i - (Len(l) + Len(q))]
        BY <3>3, <4>2
      <4>6. /\ Len(B) = Len(l) + Len(q) - 1 + Len(p)
            /\ \A i \in 1 .. Len(B) : B[i] = IF i <= Len(l) + Len(q) - 1 THEN (l \o Tail(q))[i]
                                             ELSE p[i - (Len(l) + Len(q) - 1)]
        BY <3>3, <4>3
      <4>7. /\ Len(l) \in Nat /\ Len(B) \in Nat /\ Len(A) = Len(B) + 1 /\ Len(l) <= Len(B)
        BY <4>1, <4>2, <4>5, <4>6
      <4>8. ASSUME NEW i \in 1 .. Len(B) PROVE B[i] = IF i <= Len(l) THEN A[i] ELSE A[i + 1]
        <5>1. CASE i <= Len(l) + Len(q) - 1
          <6>1. /\ i \in 1 .. Len(l) + Len(q) - 1 /\ i \in 1 .. Len(A) /\ i + 1 \in 1 .. Len(A)
                /\ i <= Len(l) + Len(q) /\ i + 1 <= Len(l) + Len(q)
            BY <4>1, <4>2, <4>7, <5>1
          <6>2. A[i] = (l \o q)[i] /\ A[i + 1] = (l \o q)[i + 1] /\ B[i] = (l \o Tail(q))[i]
            BY <4>5, <4>6, <5>1, <6>1
          <6> QED
            BY <4>4, <6>1, <6>2
        <5>2. CASE ~(i <= Len(l) + Len(q) - 1)
          <6>1. /\ ~(i <= Len(l)) /\ i + 1 \in 1 .. Len(A) /\ ~(i + 1 <= Len(l) + Len(q))
                /\ i - (Len(l) + Len(q) - 1) = (i + 1) - (Len(l) + Len(q))
            BY <4>1, <4>2, <4>7, <5>2
          <6>2. A[i + 1] = p[(i + 1) - (Len(l) + Len(q))]
            BY <4>5, <6>1
          <6>3. B[i] = p[i - (Len(l) + Len(q) - 1)]
            BY <4>6, <5>2
          <6> QED
            BY <6>1, <6>2, <6>3
        <5> QED
          BY <5>1, <5>2
      <4> QED
        BY <4>7, <4>8
    <3>6. /\ f \in [1 .. Len(B) -> 1 .. Len(A)]
          /\ \A i \in 1 .. Len(B) : f[i] = IF i <= Len(l) THEN i ELSE i + 1
      BY <3>5
    <3> HIDE DEF f
    <3>7. Coherent(A, s)
      BY <2>1, <3>4 DEF Story
    <3>8. Coherent(B, s)
      <4>1. \A i \in 1 .. Len(B), j \in 1 .. Len(B) : j < i => f[j] < f[i]
        BY <3>5, <3>6
      <4>2. \A i \in 1 .. Len(B) : B[i] = A[f[i]]
        BY <3>5, <3>6
      <4>3. Len(A) \in Nat /\ Len(B) \in Nat /\ f \in [1 .. Len(B) -> 1 .. Len(A)]
        BY <3>5, <3>6
      <4> QED
        BY <3>7, <4>1, <4>2, <4>3, Subsequence
    <3>9. Coherent(B, s)'
      BY <1>0, <3>8 DEF Coherent
    <3> QED
      BY <3>1, <3>4, <3>9 DEF Story, Deliveries
  <2>4. CASE t # D
    <3>1. queue'[D] = queue[D] /\ log'[D] = log[D] /\ lost \subseteq lost'
      BY <1>0, <2>1, <2>4
    <3>2. AllTold(s)' = AllTold(s)
      BY <2>2, <3>1 DEF AllTold, Sent, Deliveries
    <3> QED
      BY <1>0, <2>1, <3>1, <3>2, SameStory
  <2> QED
    BY <2>3, <2>4
<1> QED
  BY <1>1, <1>2

LEMMA IInvInit == Init => IInv
<1> SUFFICES ASSUME Init PROVE IInv
  OBVIOUS
<1>1. TypeOK /\ out = <<>> /\ DOMAIN open = {}
  BY TypeInit DEF Init
<1>2. LastInTick
  BY <1>1 DEF LastInTick
<1>3. ASSUME NEW s \in Stores PROVE Story(s)
  <2>1. Pending(s) = <<>>
    BY <1>1 DEF Pending
  <2>2. log[Deliveries(s)] = <<>> /\ queue[Deliveries(s)] = <<>>
    BY <1>1, StoreTypes DEF Init
  <2>3. Len(AllTold(s)) = 0
    BY <2>1, <2>2 DEF AllTold, Sent
  <2> QED
    BY <1>1, <2>3 DEF Story, Coherent, Gapless
<1> QED
  BY <1>1, <1>2, <1>3 DEF IInv

LEMMA IInvStep == ASSUME IInv, [Next]_vars PROVE IInv'
<1>0. TypeOK' /\ FactoryOK /\ TypeOK /\ phase \in Phases
  BY TypeStep, TypesSplit DEF IInv
<1> SUFFICES LastInTick' /\ \A s \in Stores : Story(s)'
  BY <1>0 DEF IInv
<1>1. CASE FirstOrder \/ ExtraOrder
  <2>1. /\ phase \in {"order", "extras"} /\ phase' = "extras" /\ UNCHANGED client
        /\ \E s \in Stores, b \in Baskets, c \in BOOLEAN : NextOrder(s, b, c)
    BY <1>1 DEF FirstOrder, ExtraOrder
  <2> QED
    BY <1>0, <2>1, OrderStory
<1>2. CASE Inventory
  BY <1>0, <1>2, InventoryStory
<1>3. CASE Delivery
  <2>1. phase = "delivery" /\ phase' = "produce" /\ UNCHANGED client
    BY <1>3 DEF Delivery
  <2>2. CASE \E o \in DOMAIN open : NextDeliveryStatus(o)
    BY <1>0, <2>1, <2>2, StageStory
  <2>3. CASE UNCHANGED <<factory, out>>
    <3>1. LastInTick'
      BY <2>1, <2>3 DEF IInv, LastInTick, IsDelivery
    <3>2. ASSUME NEW s \in Stores
          PROVE  AllTold(s)' = AllTold(s) /\ UNCHANGED <<orders, open>> /\ lost' = lost
      BY <2>1, <2>3 DEF AllTold, Sent, Pending, Deliveries, client, factory
    <3> QED
      BY <3>1, <3>2, SameStory DEF IInv
  <2> QED
    BY <1>3, <2>2, <2>3 DEF Delivery
<1>4. CASE Produce
  BY <1>0, <1>4, ProduceStory
<1>5. CASE BufferError \/ FlushTimeout \/ Flushed
  BY <1>0, <1>5, AbandonStory DEF BufferError, FlushTimeout, Flushed
<1>6. CASE NextTick \/ Stop \/ UNCHANGED vars
  <2>1. /\ UNCHANGED <<orders, open, out, queue, log, lost>>
        /\ phase' = phase \/ out = <<>> \/ phase' = "flush"
    BY <1>6 DEF NextTick, Stop, vars, factory, client
  <2>2. LastInTick'
    BY <2>1 DEF IInv, LastInTick, IsDelivery
  <2>3. ASSUME NEW s \in Stores PROVE AllTold(s)' = AllTold(s)
    BY <2>1 DEF AllTold, Sent, Pending, Deliveries
  <2> QED
    BY <2>1, <2>2, <2>3, SameStory DEF IInv
<1>7. ASSUME NEW t \in Streams, Deliver(t) \/ DeliveryFailed(t)
      PROVE  LastInTick' /\ \A s \in Stores : Story(s)'
  BY <1>0, <1>7, DeliverStory, FailedStory
<1> QED
  BY <1>1, <1>2, <1>3, <1>4, <1>5, <1>6, <1>7 DEF Next

(* What a store's delivery_status has been told, on the topic, in the      *)
(* client or in the tick, is coherent at every step, and without a gap as  *)
(* long as no message of it was lost (order_stream.py, 178-204).           *)
THEOREM Invariance == Spec => []IInv
BY IInvInit, IInvStep, PTL DEF Spec

LEMMA StoryOnTopic == IInv => DeliveriesCoherent
<1> SUFFICES ASSUME IInv, NEW s \in Stores, NEW events, events = log[Deliveries(s)],
                    NEW i \in DOMAIN events
             PROVE  LET before == {j \in 1 .. i - 1 : events[j].order = events[i].order}
                    IN  /\ events[i].order \in DOMAIN orders
                        /\ orders[events[i].order] = [store |-> s, cancelled |-> FALSE]
                        /\ \A j \in before : events[j].stage < events[i].stage
                        /\ \/ <<"delivery_status", s>> \in lost
                           \/ events[i].stage = 1
                           \/ \E j \in before : events[j].stage = events[i].stage - 1
  BY DEF DeliveriesCoherent, Deliveries
<1>1. PICK l \in Seq(Event), q \in Seq(Event), p \in Seq(Event) :
         l = events /\ q = queue[Deliveries(s)] /\ p = Pending(s)
  BY StoreTypes DEF IInv
<1>2. PICK told \in Seq(Event) : told = (l \o q) \o p
  <2>1. (l \o q) \o p \in Seq(Event)
    OBVIOUS
  <2> QED
    BY <2>1
<1>3. told = AllTold(s) /\ Coherent(told, s) /\ (Deliveries(s) \notin lost => Gapless(told, s))
  BY <1>1, <1>2 DEF IInv, Story, AllTold, Sent
<1>4. i \in 1 .. Len(told) /\ \A j \in 1 .. i : events[j] = told[j]
  <2>1. /\ l \o q \in Seq(Event) /\ Len(l \o q) = Len(l) + Len(q) /\ Len(l) \in Nat /\ Len(q) \in Nat
        /\ \A j \in 1 .. Len(l) : (l \o q)[j] = l[j]
    OBVIOUS
  <2>2. /\ Len(told) = Len(l \o q) + Len(p) /\ Len(p) \in Nat
        /\ \A j \in 1 .. Len(l \o q) : told[j] = (l \o q)[j]
    BY <1>2, <2>1
  <2>3. i \in 1 .. Len(l)
    BY <1>1
  <2>4. /\ i \in 1 .. Len(told)
        /\ \A j \in 1 .. i : j \in 1 .. Len(l) /\ j \in 1 .. Len(l \o q)
    BY <2>1, <2>2, <2>3
  <2>5. ASSUME NEW j \in 1 .. i PROVE l[j] = told[j]
    BY <2>1, <2>2, <2>4
  <2> QED
    BY <1>1, <2>4, <2>5
<1>5. i \in 1 .. i /\ events[i] = told[i] /\ \A j \in 1 .. i - 1 : j \in 1 .. i /\ events[j] = told[j]
  BY <1>4
<1>6. /\ events[i].order \in DOMAIN orders
      /\ orders[events[i].order] = [store |-> s, cancelled |-> FALSE]
      /\ \A j \in 1 .. i - 1 : events[j].order = events[i].order => events[j].stage < events[i].stage
  BY <1>3, <1>4, <1>5 DEF Coherent
<1>7. \/ Deliveries(s) \in lost
      \/ events[i].stage = 1
      \/ \E j \in 1 .. i - 1 : events[j].order = events[i].order /\ events[j].stage = events[i].stage - 1
  <2> SUFFICES ASSUME Deliveries(s) \notin lost, events[i].stage # 1
               PROVE  \E j \in 1 .. i - 1 : /\ events[j].order = events[i].order
                                            /\ events[j].stage = events[i].stage - 1
    OBVIOUS
  <2>1. PICK j \in 1 .. i - 1 : told[j].order = told[i].order /\ told[j].stage = told[i].stage - 1
    BY <1>3, <1>4, <1>5 DEF Gapless
  <2>2. events[j] = told[j]
    BY <1>5, <2>1
  <2> QED
    BY <1>5, <2>1, <2>2
<1> QED
  BY <1>6, <1>7 DEF Deliveries

(* On the topic, whatever the client delivers, fails to deliver or still   *)
(* holds when the process ends, each delivery_status is of an order of its *)
(* store that was not cancelled, stages come in order, and none is left    *)
(* out unless a delivery failed (order_stream.py, 82-86 and 199-204).      *)
THEOREM DeliveriesAreCoherent == Spec => []DeliveriesCoherent
BY Invariance, StoryOnTopic, PTL

-----------------------------------------------------------------------------
(* Inventory updates.  What a store's inventory_updates has been told is   *)
(* what the topic has, what the client holds, and the one update that the  *)
(* tick may still have to produce, wherever it is among the tick's events. *)

Updates(s)  == <<"inventory_updates", s>>
IsUpdate(m) == m.to[1] = "inventory_updates"

NoUpdateIn(o)   == \A i \in 1 .. Len(o) : ~IsUpdate(o[i])
OneUpdateIn(o)  == \A i, j \in 1 .. Len(o) : IsUpdate(o[i]) /\ IsUpdate(o[j]) => i = j
WaitingIn(o, s) == IF \E i \in 1 .. Len(o) : o[i].to = Updates(s)
                   THEN <<o[CHOOSE i \in 1 .. Len(o) : o[i].to = Updates(s)].event>> ELSE <<>>

OneInTick == OneUpdateIn(out) /\ (phase \in {"order", "extras"} => NoUpdateIn(out))

AllUpdates(s) == (log[Updates(s)] \o queue[Updates(s)]) \o WaitingIn(out, s)

(* The next update of a SKU starts no higher than where one ended, and the *)
(* stock is no higher than where the last one did.                         *)
Drained(events, s) ==
    \A i \in 1 .. Len(events) :
       /\ events[i] \in InventoryEvent
       /\ \A j \in Later(events, i) :
             (\A k \in Later(events, i) : j <= k) => events[j].previous <= events[i].new
       /\ Later(events, i) = {} => level[<<s, events[i].sku>>] <= events[i].new

LevelsTold(s) == Updates(s) \notin lost => Drained(AllUpdates(s), s)

(* Orders only drain a level between two updates of it, so what was told   *)
(* follows from update to update, unless a message of it was lost.         *)
UInv == TypeOK /\ OneInTick /\ \A s \in Stores : LevelsTold(s)

LEMMA WaitingIs ==
    ASSUME NEW o \in Seq(Message), OneUpdateIn(o), NEW s \in Stores
    PROVE  /\ (\A i \in 1 .. Len(o) : o[i].to # Updates(s)) => WaitingIn(o, s) = <<>>
           /\ \A i \in 1 .. Len(o) : o[i].to = Updates(s) => WaitingIn(o, s) = <<o[i].event>>
           /\ WaitingIn(o, s) \in Seq(Event)
<1>1. (\A i \in 1 .. Len(o) : o[i].to # Updates(s)) => WaitingIn(o, s) = <<>>
  BY DEF WaitingIn
<1>2. ASSUME NEW i \in 1 .. Len(o), o[i].to = Updates(s)
      PROVE  WaitingIn(o, s) = <<o[i].event>> /\ o[i].event \in Event
  <2> DEFINE c == CHOOSE j \in 1 .. Len(o) : o[j].to = Updates(s)
  <2>1. c \in 1 .. Len(o) /\ o[c].to = Updates(s)
    BY <1>2
  <2> HIDE DEF c
  <2>2. c = i
    BY <1>2, <2>1 DEF OneUpdateIn, IsUpdate, Updates
  <2>3. o[i] \in Message
    OBVIOUS
  <2> QED
    BY <1>2, <2>2, <2>3 DEF WaitingIn, c, Message
<1>3. WaitingIn(o, s) \in Seq(Event)
  <2>0. <<>> \in Seq(Event) /\ \A e \in Event : <<e>> \in Seq(Event)
    OBVIOUS
  <2>1. CASE \A i \in 1 .. Len(o) : o[i].to # Updates(s)
    BY <1>1, <2>0, <2>1, Zenon
  <2>2. CASE \E i \in 1 .. Len(o) : o[i].to = Updates(s)
    <3>1. PICK i \in 1 .. Len(o) : o[i].to = Updates(s)
      BY <2>2
    <3>2. WaitingIn(o, s) = <<o[i].event>> /\ o[i].event \in Event
      BY <1>2, <3>1
    <3> QED
      BY <2>0, <3>2, Zenon
  <2> QED
    BY <2>1, <2>2
<1> QED
  BY <1>1, <1>2, <1>3

LEMMA OtherEmitted ==
    ASSUME NEW o \in Seq(Message), OneUpdateIn(o), NEW m \in Message, ~IsUpdate(m), NEW s \in Stores
    PROVE  /\ OneUpdateIn(Append(o, m))
           /\ NoUpdateIn(o) => NoUpdateIn(Append(o, m))
           /\ WaitingIn(Append(o, m), s) = WaitingIn(o, s)
<1>1. PICK p \in Seq(Message) : p = Append(o, m)
  <2>1. Append(o, m) \in Seq(Message)
    OBVIOUS
  <2> QED
    BY <2>1, Zenon
<1>2. /\ Len(p) = Len(o) + 1 /\ Len(o) \in Nat
      /\ \A i \in 1 .. Len(p) : p[i] = IF i <= Len(o) THEN o[i] ELSE m
  BY <1>1
<1>3. OneUpdateIn(p) /\ (NoUpdateIn(o) => NoUpdateIn(p))
  BY <1>2 DEF OneUpdateIn, NoUpdateIn
<1>4. m.to # Updates(s)
  BY DEF IsUpdate, Updates
<1>5. WaitingIn(p, s) = WaitingIn(o, s)
  <2>1. CASE \E i \in 1 .. Len(o) : o[i].to = Updates(s)
    <3>1. PICK i \in 1 .. Len(o) : o[i].to = Updates(s)
      BY <2>1
    <3>2. i \in 1 .. Len(p) /\ p[i] = o[i]
      BY <1>2
    <3> QED
      BY <1>3, <3>1, <3>2, WaitingIs
  <2>2. CASE \A i \in 1 .. Len(o) : o[i].to # Updates(s)
    <3>1. \A i \in 1 .. Len(p) : p[i].to # Updates(s)
      BY <1>2, <1>4, <2>2
    <3> QED
      BY <1>3, <2>2, <3>1, WaitingIs
  <2> QED
    BY <2>1, <2>2
<1> QED
  BY <1>1, <1>3, <1>5

LEMMA UpdateEmitted ==
    ASSUME NEW o \in Seq(Message), NoUpdateIn(o), NEW t \in Stores,
           NEW m \in Message, m.to = Updates(t), NEW s \in Stores
    PROVE  /\ OneUpdateIn(Append(o, m)) /\ WaitingIn(o, s) = <<>>
           /\ WaitingIn(Append(o, m), s) = IF s = t THEN <<m.event>> ELSE <<>>
<1>1. PICK p \in Seq(Message) : p = Append(o, m)
  <2>1. Append(o, m) \in Seq(Message)
    OBVIOUS
  <2> QED
    BY <2>1, Zenon
<1>2. /\ Len(p) = Len(o) + 1 /\ Len(o) \in Nat
      /\ \A i \in 1 .. Len(p) : p[i] = IF i <= Len(o) THEN o[i] ELSE m
  BY <1>1
<1>3. OneUpdateIn(p) /\ OneUpdateIn(o)
  BY <1>2 DEF OneUpdateIn, NoUpdateIn
<1>4. \A i \in 1 .. Len(o) : o[i].to # Updates(s)
  BY DEF NoUpdateIn, IsUpdate, Updates
<1>5. WaitingIn(p, s) = IF s = t THEN <<m.event>> ELSE <<>>
  <2>1. CASE s = t
    <3>1. Len(p) \in 1 .. Len(p) /\ p[Len(p)] = m
      BY <1>2
    <3> QED
      BY <1>3, <2>1, <3>1, WaitingIs
  <2>2. CASE s # t
    <3>1. \A i \in 1 .. Len(p) : p[i].to # Updates(s)
      BY <1>2, <1>4, <2>2 DEF Updates
    <3> QED
      BY <1>3, <2>2, <3>1, WaitingIs
  <2> QED
    BY <2>1, <2>2
<1> QED
  BY <1>1, <1>3, <1>4, <1>5, WaitingIs

LEMMA HeadProduced ==
    ASSUME NEW o \in Seq(Message), OneUpdateIn(o), o # <<>>, NEW s \in Stores
    PROVE  /\ OneUpdateIn(Tail(o))
           /\ IF Head(o).to = Updates(s)
              THEN WaitingIn(o, s) = <<Head(o).event>> /\ WaitingIn(Tail(o), s) = <<>>
              ELSE WaitingIn(Tail(o), s) = WaitingIn(o, s)
<1>1. PICK p \in Seq(Message) : p = Tail(o)
  <2>1. Tail(o) \in Seq(Message)
    OBVIOUS
  <2> QED
    BY <2>1, Zenon
<1>2. /\ Len(o) \in Nat \ {0} /\ Len(p) = Len(o) - 1 /\ Head(o) = o[1]
      /\ \A i \in 1 .. Len(p) : p[i] = o[i + 1]
  BY <1>1
<1>3. OneUpdateIn(p)
  BY <1>2 DEF OneUpdateIn
<1>4. CASE Head(o).to = Updates(s)
  <2>1. 1 \in 1 .. Len(o) /\ IsUpdate(o[1])
    BY <1>2, <1>4 DEF IsUpdate, Updates
  <2>2. \A i \in 1 .. Len(p) : ~IsUpdate(p[i])
    BY <1>2, <2>1 DEF OneUpdateIn
  <2>3. \A i \in 1 .. Len(p) : p[i].to # Updates(s)
    BY <2>2 DEF IsUpdate, Updates
  <2> QED
    BY <1>1, <1>2, <1>3, <1>4, <2>1, <2>3, WaitingIs
<1>5. CASE Head(o).to # Updates(s)
  <2>1. CASE \E i \in 1 .. Len(o) : o[i].to = Updates(s)
    <3>1. PICK i \in 1 .. Len(o) : o[i].to = Updates(s)
      BY <2>1
    <3>2. i - 1 \in 1 .. Len(p) /\ (i - 1) + 1 = i
      BY <1>2, <1>5, <3>1
    <3>3. p[i - 1] = o[i]
      BY <1>2, <3>2
    <3>4. WaitingIn(p, s) = <<o[i].event>> /\ WaitingIn(o, s) = <<o[i].event>>
      BY <1>3, <3>1, <3>2, <3>3, WaitingIs
    <3> QED
      BY <1>1, <1>3, <1>5, <3>4
  <2>2. CASE \A i \in 1 .. Len(o) : o[i].to # Updates(s)
    <3>1. \A i \in 1 .. Len(p) : p[i].to # Updates(s)
      BY <1>2, <2>2
    <3> QED
      BY <1>1, <1>3, <1>5, <2>2, <3>1, WaitingIs
  <2> QED
    BY <2>1, <2>2
<1> QED
  BY <1>1, <1>3, <1>4, <1>5

LEMMA UpdateTypes ==
    ASSUME TypeOK, OneInTick, NEW s \in Stores
    PROVE  /\ Updates(s) \in Told /\ Updates(s) \in Streams
           /\ log[Updates(s)] \in Seq(Event) /\ queue[Updates(s)] \in Seq(Event)
           /\ WaitingIn(out, s) \in Seq(Event) /\ AllUpdates(s) \in Seq(Event)
<1>1. Updates(s) \in Streams /\ Updates(s) \in Told
  BY DEF Updates, Streams, Topics, Told
<1>2. log[Updates(s)] \in Seq(Event) /\ queue[Updates(s)] \in Seq(Event)
  BY <1>1 DEF TypeOK
<1>3. WaitingIn(out, s) \in Seq(Event)
  BY WaitingIs DEF OneInTick, TypeOK
<1> QED
  BY <1>1, <1>2, <1>3 DEF AllUpdates

(* A lower level takes nothing away from what was told.                    *)
LEMMA SameLevels ==
    ASSUME TypeOK, TypeOK', NEW s \in Stores, LevelsTold(s), AllUpdates(s)' = AllUpdates(s),
           lost \subseteq lost', \A k \in Skus : level'[<<s, k>>] <= level[<<s, k>>]
    PROVE  LevelsTold(s)'
<1> SUFFICES ASSUME Updates(s) \notin lost PROVE Drained(AllUpdates(s), s)'
  BY DEF LevelsTold, Updates
<1>1. PICK A : A = AllUpdates(s) /\ A = AllUpdates(s)'
  OBVIOUS
<1>2. Drained(A, s)
  BY <1>1 DEF LevelsTold
<1>3. ASSUME NEW i \in 1 .. Len(A), Later(A, i) = {} PROVE level'[<<s, A[i].sku>>] <= A[i].new
  <2>1. A[i] \in InventoryEvent /\ level[<<s, A[i].sku>>] <= A[i].new
    BY <1>2, <1>3 DEF Drained
  <2>2. A[i].sku \in Skus /\ A[i].new \in Nat
    BY <2>1 DEF InventoryEvent
  <2>3. level[<<s, A[i].sku>>] \in Nat /\ level'[<<s, A[i].sku>>] \in Nat
    BY <2>2 DEF TypeOK
  <2> QED
    BY <2>1, <2>2, <2>3
<1>4. Drained(A, s)'
  BY <1>2, <1>3 DEF Drained, Later
<1> QED
  BY <1>1, <1>4

(* One more update, that starts where the level is and ends where it goes. *)
LEMMA OneMoreTold ==
    ASSUME NEW A \in Seq(Event), NEW s \in Stores, Drained(A, s), NEW e \in InventoryEvent, e \in Event,
           e.previous = level[<<s, e.sku>>], level'[<<s, e.sku>>] = e.new,
           \A k \in Skus : k # e.sku => level'[<<s, k>>] = level[<<s, k>>]
    PROVE  Drained(Append(A, e), s)'
<1>1. PICK B \in Seq(Event) : B = Append(A, e)
  <2>1. Append(A, e) \in Seq(Event)
    OBVIOUS
  <2> QED
    BY <2>1, Zenon
<1>2. /\ Len(B) = Len(A) + 1 /\ Len(A) \in Nat /\ DOMAIN A = 1 .. Len(A) /\ DOMAIN B = 1 .. Len(B)
      /\ B[Len(B)] = e /\ \A i \in 1 .. Len(A) : B[i] = A[i]
  BY <1>1
<1>3. ASSUME NEW i \in 1 .. Len(A)
      PROVE  Later(B, i) = Later(A, i) \cup (IF e.sku = A[i].sku THEN {Len(B)} ELSE {})
  BY <1>2 DEF Later
<1>4. Later(B, Len(B)) = {}
  BY <1>2 DEF Later
<1>5. ASSUME NEW i \in 1 .. Len(A)
      PROVE  /\ B[i] \in InventoryEvent
             /\ \A j \in Later(B, i) :
                   (\A k \in Later(B, i) : j <= k) => B[j].previous <= B[i].new
             /\ Later(B, i) = {} => level'[<<s, B[i].sku>>] <= B[i].new
  <2>1. /\ A[i] \in InventoryEvent /\ B[i] = A[i] /\ A[i].sku \in Skus
        /\ \A j \in Later(A, i) :
              (\A k \in Later(A, i) : j <= k) => A[j].previous <= A[i].new
        /\ Later(A, i) = {} => level[<<s, A[i].sku>>] <= A[i].new
    BY <1>2 DEF Drained, InventoryEvent
  <2>2. \A j \in Later(A, i) : j \in 1 .. Len(A) /\ j < Len(B) /\ B[j] = A[j]
    BY <1>2 DEF Later
  <2>3. ASSUME NEW j \in Later(B, i), \A k \in Later(B, i) : j <= k
        PROVE  B[j].previous <= B[i].new
    <3>1. CASE Later(A, i) = {}
      <4>1. j = Len(B) /\ e.sku = A[i].sku
        BY <1>3, <2>3, <3>1
      <4> QED
        BY <1>2, <2>1, <3>1, <4>1
    <3>2. CASE Later(A, i) # {}
      <4>1. PICK n \in Later(A, i) : TRUE
        BY <3>2
      <4>2. j <= n /\ n < Len(B)
        BY <1>3, <2>2, <2>3, <4>1
      <4>3. j \in Later(A, i)
        <5>1. n \in Nat /\ Len(B) \in Nat
          BY <1>2, <2>2, <4>1
        <5>2. j # Len(B)
          BY <4>2, <5>1
        <5> QED
          BY <1>3, <2>3, <5>2
      <4>4. \A k \in Later(A, i) : j <= k
        BY <1>3, <2>3
      <4> QED
        BY <2>1, <2>2, <4>3, <4>4
    <3> QED
      BY <3>1, <3>2
  <2>4. ASSUME Later(B, i) = {} PROVE level'[<<s, B[i].sku>>] <= B[i].new
    <3>1. Later(A, i) = {} /\ e.sku # A[i].sku
      BY <1>3, <2>4
    <3> QED
      BY <2>1, <3>1
  <2> QED
    BY <2>1, <2>3, <2>4
<1>6. level'[<<s, e.sku>>] <= e.new
  BY DEF InventoryEvent
<1>7. ASSUME NEW i \in 1 .. Len(B)
      PROVE  /\ B[i] \in InventoryEvent
             /\ \A j \in Later(B, i) :
                   (\A k \in Later(B, i) : j <= k) => B[j].previous <= B[i].new
             /\ Later(B, i) = {} => level'[<<s, B[i].sku>>] <= B[i].new
  <2>1. CASE i = Len(B)
    BY <1>2, <1>4, <1>6, <2>1
  <2>2. CASE i # Len(B)
    <3>1. i \in 1 .. Len(A)
      BY <1>2, <2>2
    <3> QED
      BY <1>5, <3>1
  <2> QED
    BY <2>1, <2>2
<1>8. Drained(B, s)'
  BY <1>7 DEF Drained, Later
<1> QED
  BY <1>1, <1>8

(* An order drains levels and a delivery leaves them alone; neither is an  *)
(* update.                                                                 *)
LEMMA OtherEventLevels ==
    ASSUME UInv, TypeOK', NEW topic \in {"orders", "delivery_status"}, NEW t \in Stores, NEW e \in Event,
           Emit(topic, t, e), UNCHANGED client,
           phase \in {"order", "extras"} \/ phase' \notin {"order", "extras"},
           \A p \in Stores \X Skus : level'[p] <= level[p]
    PROVE  OneInTick' /\ \A s \in Stores : LevelsTold(s)'
<1> DEFINE m == [to |-> <<topic, t>>, event |-> e]
<1>1. out \in Seq(Message) /\ OneUpdateIn(out) /\ (phase \in {"order", "extras"} => NoUpdateIn(out))
  BY DEF UInv, TypeOK, OneInTick
<1>2. m \in Message /\ ~IsUpdate(m) /\ out' = Append(out, m)
  BY DEF Message, Streams, Topics, IsUpdate, Emit
<1> HIDE DEF m
<1>3. ASSUME NEW s \in Stores
      PROVE  /\ OneUpdateIn(out') /\ (NoUpdateIn(out) => NoUpdateIn(out'))
             /\ WaitingIn(out', s) = WaitingIn(out, s)
  BY <1>1, <1>2, OtherEmitted
<1>4. OneInTick'
  BY <1>1, <1>3 DEF OneInTick, OneUpdateIn, NoUpdateIn
<1>5. ASSUME NEW s \in Stores PROVE LevelsTold(s)'
  <2>1. AllUpdates(s)' = AllUpdates(s)
    BY <1>3 DEF AllUpdates, WaitingIn, Updates, client
  <2>2. \A k \in Skus : level'[<<s, k>>] <= level[<<s, k>>]
    OBVIOUS
  <2> QED
    BY <2>1, <2>2, SameLevels DEF UInv, client
<1> QED
  BY <1>4, <1>5

LEMMA OrderLevels ==
    ASSUME UInv, TypeOK', phase \in {"order", "extras"},
           NEW t \in Stores, NEW b \in Baskets, NEW c \in BOOLEAN, NextOrder(t, b, c), UNCHANGED client
    PROVE  OneInTick' /\ \A s \in Stores : LevelsTold(s)'
<1>1. [order |-> Len(orders) + 1] \in Event
  <2>1. Len(orders) + 1 \in Nat
    BY DEF UInv, TypeOK
  <2> QED
    BY <2>1 DEF Event, OrderEvent
<1>2. ASSUME NEW p \in Stores \X Skus PROVE level'[p] <= level[p]
  <2>1. level[p] \in Nat /\ p[2] \in Skus /\ p \in DOMAIN level
    BY DEF UInv, TypeOK
  <2>2. b[p[2]] \in Nat
    BY <2>1, StreamAssumption DEF StreamAssumption
  <2>3. level'[p] = IF p[1] = t THEN Clipped(level[p] - b[p[2]]) ELSE level[p]
    BY <2>1 DEF NextOrder, Consumed
  <2> QED
    BY <2>1, <2>2, <2>3 DEF Clipped
<1>3. Emit("orders", t, [order |-> Len(orders) + 1])
  BY DEF NextOrder
<1> QED
  BY <1>1, <1>2, <1>3, OtherEventLevels

LEMMA DeliveryLevels ==
    ASSUME UInv, TypeOK', phase' \notin {"order", "extras"}, UNCHANGED client,
           NEW o \in DOMAIN open, NextDeliveryStatus(o)
    PROVE  OneInTick' /\ \A s \in Stores : LevelsTold(s)'
<1>1. FactoryOK
  BY TypesSplit DEF UInv
<1>2. /\ orders[o].store \in Stores /\ open[o] + 1 \in 1 .. LastStage /\ o \in Nat
      /\ Emit("delivery_status", orders[o].store, [order |-> o, stage |-> open[o] + 1])
  <2>1. o \in Nat
    BY <1>1 DEF FactoryOK
  <2> QED
    BY <1>1, <2>1, DeliveryTypes
<1>3. [order |-> o, stage |-> open[o] + 1] \in Event
  BY <1>2 DEF Event, DeliveryEvent
<1>4. \A p \in Stores \X Skus : level'[p] <= level[p]
  BY <1>1 DEF NextDeliveryStatus, FactoryOK
<1> QED
  BY <1>2, <1>3, <1>4, OtherEventLevels

LEMMA UpdateLevels ==
    ASSUME UInv, TypeOK', phase \in {"order", "extras"}, phase' \notin {"order", "extras"}, UNCHANGED client,
           NEW p \in Stores \X Skus, NEW delta \in Deltas, NextInventoryUpdate(p, delta)
    PROVE  OneInTick' /\ \A s \in Stores : LevelsTold(s)'
<1>1. /\ p[1] \in Stores /\ p[2] \in Skus /\ p = <<p[1], p[2]>>
      /\ level[p] \in Nat /\ NewLevel(p, delta) \in Nat
  BY StreamAssumption DEF UInv, TypeOK, NewLevel, Clipped, StreamAssumption
<1>2. PICK e \in Event : /\ e = [sku |-> p[2], previous |-> level[p], new |-> NewLevel(p, delta)]
                        /\ e \in InventoryEvent
  <2>1. [sku |-> p[2], previous |-> level[p], new |-> NewLevel(p, delta)] \in InventoryEvent
    BY <1>1 DEF InventoryEvent
  <2> QED
    BY <2>1, Zenon DEF Event
<1>a. e.sku = p[2] /\ e.previous = level[p] /\ e.new = NewLevel(p, delta)
  BY <1>2
<1> DEFINE m == [to |-> <<"inventory_updates", p[1]>>, event |-> e]
<1>3. /\ level'[p] = NewLevel(p, delta)
      /\ \A q \in Stores \X Skus : q # p => level'[q] = level[q]
  BY DEF NextInventoryUpdate, NewLevel, UInv, TypeOK
<1>4. m \in Message /\ m.to = Updates(p[1]) /\ m.event = e
  BY <1>1, <1>2 DEF Message, Streams, Topics, Updates
<1>5. out' = Append(out, m)
  BY <1>2 DEF NextInventoryUpdate, Emit
<1> HIDE DEF m
<1>6. out \in Seq(Message) /\ NoUpdateIn(out)
  BY DEF UInv, TypeOK, OneInTick
<1>7. ASSUME NEW s \in Stores
      PROVE  /\ OneUpdateIn(out') /\ WaitingIn(out, s) = <<>>
             /\ WaitingIn(out', s) = IF s = p[1] THEN <<e>> ELSE <<>>
  BY <1>1, <1>4, <1>5, <1>6, UpdateEmitted
<1>8. OneInTick'
  BY <1>1, <1>7 DEF OneInTick, OneUpdateIn
<1>9. ASSUME NEW s \in Stores PROVE LevelsTold(s)'
  <2>1. CASE s # p[1]
    <3>1. AllUpdates(s)' = AllUpdates(s)
      BY <1>7, <2>1 DEF AllUpdates, WaitingIn, Updates, client
    <3>2. ASSUME NEW k \in Skus PROVE level'[<<s, k>>] <= level[<<s, k>>]
      <4>1. level'[<<s, k>>] = level[<<s, k>>] /\ level[<<s, k>>] \in Nat
        BY <1>3, <2>1 DEF UInv, TypeOK
      <4> QED
        BY <4>1
    <3> QED
      BY <3>1, <3>2, SameLevels DEF UInv, client
  <2>2. CASE s = p[1]
    <3> SUFFICES ASSUME Updates(s) \notin lost PROVE Drained(AllUpdates(s), s)'
      BY DEF LevelsTold, Updates, client
    <3>1. PICK A \in Seq(Event) : A = AllUpdates(s)
      BY UpdateTypes DEF UInv
    <3>2. Drained(A, s)
      BY <3>1 DEF UInv, LevelsTold
    <3>3. Drained(Append(A, e), s)'
      <4>1. e.previous = level[<<s, e.sku>>] /\ level'[<<s, e.sku>>] = e.new
        BY <1>1, <1>a, <1>3, <2>2
      <4>2. \A k \in Skus : k # e.sku => level'[<<s, k>>] = level[<<s, k>>]
        BY <1>1, <1>a, <1>3, <2>2
      <4> QED
        BY <1>2, <3>2, <4>1, <4>2, OneMoreTold
    <3>4. AllUpdates(s)' = Append(A, e)
      <4>1. ASSUME NEW l \in Seq(Event), NEW q \in Seq(Event)
            PROVE  (l \o q) \o <<e>> = Append((l \o q) \o <<>>, e)
        <5>1. (l \o q) \o <<>> = l \o q /\ l \o q \in Seq(Event)
          OBVIOUS
        <5> QED
          BY <5>1, AppendIsConcat
      <4>2. A = (log[Updates(s)] \o queue[Updates(s)]) \o <<>>
        BY <1>7, <3>1 DEF AllUpdates
      <4>3. AllUpdates(s)' = (log[Updates(s)] \o queue[Updates(s)]) \o <<e>>
        BY <1>7, <2>2 DEF AllUpdates, WaitingIn, Updates, client
      <4> QED
        BY <4>1, <4>2, <4>3, UpdateTypes DEF UInv
    <3> QED
      BY <3>3, <3>4
  <2> QED
    BY <2>1, <2>2
<1> QED
  BY <1>8, <1>9

(* What the tick produces it hands to the client; a store has one queue.   *)
LEMMA ProduceLevels ==
    ASSUME UInv, TypeOK', Produce
    PROVE  OneInTick' /\ \A s \in Stores : LevelsTold(s)'
<1>0. /\ TypeOK /\ OneInTick /\ out \in Seq(Message) /\ out # <<>> /\ queue \in [Streams -> Seq(Event)]
      /\ OneUpdateIn(out)
  BY DEF UInv, TypeOK, OneInTick, Produce
<1>1. /\ out' = Tail(out) /\ UNCHANGED <<log, lost, level>> /\ phase = "produce" /\ phase' = phase
      /\ queue' = [queue EXCEPT ![Head(out).to] = Append(@, Head(out).event)]
  BY DEF Produce, factory
<1>2. ASSUME NEW s \in Stores
      PROVE  /\ OneUpdateIn(out')
             /\ IF Head(out).to = Updates(s)
                THEN WaitingIn(out, s) = <<Head(out).event>> /\ WaitingIn(out', s) = <<>>
                ELSE WaitingIn(out', s) = WaitingIn(out, s)
  BY <1>0, <1>1, HeadProduced
<1>3. OneInTick'
  <2>1. CASE Stores = {}
    <3>1. Message = {}
      BY <2>1 DEF Message, Streams
    <3> QED
      BY <1>0, <3>1
  <2>2. CASE Stores # {}
    BY <1>1, <1>2, <2>2 DEF OneInTick, OneUpdateIn
  <2> QED
    BY <2>1, <2>2
<1>4. Head(out) \in Message
  BY <1>0
<1>5. ASSUME NEW s \in Stores PROVE LevelsTold(s)'
  <2>1. PICK l \in Seq(Event), q \in Seq(Event) : l = log[Updates(s)] /\ q = queue[Updates(s)]
    BY <1>0, UpdateTypes
  <2>2. CASE Head(out).to = Updates(s)
    <3>1. PICK e \in Event : e = Head(out).event
      BY <1>4 DEF Message
    <3>2. queue'[Updates(s)] = Append(q, e) /\ log'[Updates(s)] = l
      BY <1>0, <1>1, <2>1, <2>2, <3>1, UpdateTypes
    <3>3. (l \o Append(q, e)) \o <<>> = (l \o q) \o <<e>>
      OBVIOUS
    <3>4. AllUpdates(s) = (l \o q) \o <<e>> /\ AllUpdates(s)' = (l \o Append(q, e)) \o <<>>
      BY <1>2, <2>1, <2>2, <3>1, <3>2 DEF AllUpdates, WaitingIn, Updates
    <3>5. \A k \in Skus : level'[<<s, k>>] <= level[<<s, k>>]
      BY <1>0, <1>1 DEF TypeOK
    <3> QED
      BY <1>0, <1>1, <3>3, <3>4, <3>5, SameLevels DEF UInv
  <2>3. CASE Head(out).to # Updates(s)
    <3>1. queue'[Updates(s)] = q /\ log'[Updates(s)] = l
      BY <1>0, <1>1, <2>1, <2>3, UpdateTypes
    <3>2. AllUpdates(s)' = AllUpdates(s)
      BY <1>2, <2>1, <2>3, <3>1 DEF AllUpdates, WaitingIn, Updates
    <3>3. \A k \in Skus : level'[<<s, k>>] <= level[<<s, k>>]
      BY <1>0, <1>1 DEF TypeOK
    <3> QED
      BY <1>0, <1>1, <3>2, <3>3, SameLevels DEF UInv
  <2> QED
    BY <2>2, <2>3
<1> QED
  BY <1>3, <1>5

(* Abandoned with nothing held or to be produced, a stream has it all.     *)
LEMMA AbandonLevels ==
    ASSUME UInv, TypeOK', Abandon
    PROVE  OneInTick' /\ \A s \in Stores : LevelsTold(s)'
<1>0. /\ TypeOK /\ OneInTick /\ out \in Seq(Message) /\ out' = <<>> /\ UNCHANGED <<log, level>>
      /\ queue' = [s \in Streams |-> <<>>]
      /\ lost' = lost \cup (Told \cap (Unsent \cup {m.to : m \in Range(out)}))
  BY DEF Abandon, factory, UInv, TypeOK
<1>1. OneInTick'
  BY <1>0 DEF OneInTick, OneUpdateIn, NoUpdateIn
<1>2. ASSUME NEW s \in Stores PROVE LevelsTold(s)'
  <2> SUFFICES ASSUME Updates(s) \notin lost' PROVE LevelsTold(s)'
    BY DEF LevelsTold, Updates
  <2>1. Updates(s) \in Told /\ Updates(s) \in Streams
    BY <1>0, UpdateTypes
  <2>2. queue[Updates(s)] = <<>> /\ queue'[Updates(s)] = <<>>
    BY <1>0, <2>1 DEF Unsent
  <2>3. \A i \in 1 .. Len(out) : out[i].to # Updates(s)
    <3>1. \A m \in Range(out) : m.to # Updates(s)
      BY <1>0, <2>1
    <3>2. \A i \in 1 .. Len(out) : out[i] \in Range(out)
      BY <1>0 DEF Range
    <3> QED
      BY <3>1, <3>2
  <2>4. WaitingIn(out, s) = <<>> /\ WaitingIn(out, s)' = <<>>
    <3>1. WaitingIn(out, s) = <<>>
      BY <1>0, <2>3, WaitingIs DEF OneInTick
    <3>2. \A i \in 1 .. Len(out') : FALSE
      BY <1>0
    <3> QED
      BY <3>1, <3>2 DEF WaitingIn
  <2>5. AllUpdates(s)' = AllUpdates(s)
    BY <1>0, <2>2, <2>4 DEF AllUpdates, Updates
  <2>6. \A k \in Skus : level'[<<s, k>>] <= level[<<s, k>>]
    BY <1>0 DEF TypeOK
  <2> QED
    BY <1>0, <2>5, <2>6, SameLevels DEF UInv
<1> QED
  BY <1>1, <1>2

LEMMA DeliverLevels ==
    ASSUME UInv, TypeOK', NEW t \in Streams, Deliver(t) \/ DeliveryFailed(t)
    PROVE  OneInTick' /\ \A s \in Stores : LevelsTold(s)'
<1>0. /\ TypeOK /\ OneInTick /\ UNCHANGED <<level, out, phase>> /\ lost \subseteq lost' /\ queue[t] # <<>>
      /\ queue' = [queue EXCEPT ![t] = Tail(@)]
      /\ queue \in [Streams -> Seq(Event)] /\ log \in [Told -> Seq(Event)]
      /\ \/ log' = IF t \in Told THEN [log EXCEPT ![t] = Append(@, Head(queue[t]))] ELSE log
         \/ log' = log /\ lost' = lost \cup ({t} \cap Told)
  BY DEF Deliver, DeliveryFailed, factory, UInv, TypeOK
<1>1. OneInTick'
  BY <1>0 DEF OneInTick, OneUpdateIn, NoUpdateIn, IsUpdate
<1>2. ASSUME NEW s \in Stores PROVE LevelsTold(s)'
  <2> SUFFICES ASSUME Updates(s) \notin lost' PROVE LevelsTold(s)'
    BY DEF LevelsTold, Updates
  <2>1. /\ Updates(s) \in Told /\ Updates(s) \in Streams
        /\ log[Updates(s)] \in Seq(Event) /\ queue[Updates(s)] \in Seq(Event)
    BY <1>0, UpdateTypes
  <2>2. log'[Updates(s)] \o queue'[Updates(s)] = log[Updates(s)] \o queue[Updates(s)]
    <3>1. CASE t = Updates(s)
      <4>1. /\ queue'[t] = Tail(queue[t]) /\ log'[t] = Append(log[t], Head(queue[t]))
        BY <1>0, <2>1, <3>1
      <4> QED
        BY <1>0, <2>1, <3>1, <4>1, HeadMoves
    <3>2. CASE t # Updates(s)
      <4>1. queue'[Updates(s)] = queue[Updates(s)] /\ log'[Updates(s)] = log[Updates(s)]
        BY <1>0, <2>1, <3>2
      <4> QED
        BY <4>1
    <3> QED
      BY <3>1, <3>2
  <2>3. AllUpdates(s)' = AllUpdates(s)
    BY <1>0, <2>2 DEF AllUpdates, WaitingIn, Updates
  <2>4. \A k \in Skus : level'[<<s, k>>] <= level[<<s, k>>]
    BY <1>0 DEF TypeOK
  <2> QED
    BY <1>0, <2>3, <2>4, SameLevels DEF UInv
<1> QED
  BY <1>1, <1>2

LEMMA UInvInit == Init => UInv
<1> SUFFICES ASSUME Init PROVE UInv
  OBVIOUS
<1>1. TypeOK /\ out = <<>> /\ Len(out) = 0
  BY TypeInit DEF Init
<1>2. OneInTick
  BY <1>1 DEF OneInTick, OneUpdateIn, NoUpdateIn
<1>3. ASSUME NEW s \in Stores PROVE LevelsTold(s)
  <2>1. log[Updates(s)] = <<>> /\ queue[Updates(s)] = <<>>
    BY <1>1, <1>2, UpdateTypes DEF Init
  <2>2. WaitingIn(out, s) = <<>>
    BY <1>1 DEF WaitingIn
  <2>3. Len(AllUpdates(s)) = 0
    BY <2>1, <2>2 DEF AllUpdates
  <2> QED
    BY <2>3 DEF LevelsTold, Drained
<1> QED
  BY <1>1, <1>2, <1>3 DEF UInv

LEMMA UInvStep == ASSUME UInv, [Next]_vars PROVE UInv'
<1>0. TypeOK /\ TypeOK'
  BY TypeStep DEF UInv
<1> SUFFICES OneInTick' /\ \A s \in Stores : LevelsTold(s)'
  BY <1>0 DEF UInv
<1>1. CASE FirstOrder \/ ExtraOrder
  <2>1. /\ phase \in {"order", "extras"} /\ UNCHANGED client
        /\ \E s \in Stores, b \in Baskets, c \in BOOLEAN : NextOrder(s, b, c)
    BY <1>1 DEF FirstOrder, ExtraOrder
  <2> QED
    BY <1>0, <2>1, OrderLevels
<1>2. ASSUME UNCHANGED <<level, out, client>>,
             \/ phase' = phase
             \/ phase' = "order" /\ out = <<>>
             \/ phase' \notin {"order", "extras"}
      PROVE  OneInTick' /\ \A s \in Stores : LevelsTold(s)'
  <2>1. OneInTick'
    BY <1>2 DEF UInv, OneInTick, OneUpdateIn, NoUpdateIn, IsUpdate
  <2>2. ASSUME NEW s \in Stores PROVE LevelsTold(s)'
    <3>1. AllUpdates(s)' = AllUpdates(s)
      BY <1>2 DEF AllUpdates, WaitingIn, Updates, client
    <3>2. \A k \in Skus : level'[<<s, k>>] <= level[<<s, k>>]
      BY <1>0, <1>2 DEF TypeOK
    <3> QED
      BY <1>0, <1>2, <3>1, <3>2, SameLevels DEF UInv, client
  <2> QED
    BY <2>1, <2>2
<1>3. CASE Inventory
  <2>1. /\ phase \in {"order", "extras"} /\ phase' \notin {"order", "extras"} /\ UNCHANGED client
    BY <1>3 DEF Inventory
  <2>2. CASE UNCHANGED <<factory, out>>
    BY <1>2, <2>1, <2>2 DEF factory
  <2>3. ASSUME NEW p \in Stores \X Skus, NEW delta \in Deltas, NextInventoryUpdate(p, delta)
        PROVE  OneInTick' /\ \A s \in Stores : LevelsTold(s)'
    BY <1>0, <2>1, <2>3, UpdateLevels
  <2> QED
    BY <1>3, <2>2, <2>3 DEF Inventory
<1>4. CASE Delivery
  <2>1. phase' \notin {"order", "extras"} /\ UNCHANGED client
    BY <1>4 DEF Delivery
  <2>2. CASE UNCHANGED <<factory, out>>
    BY <1>2, <2>1, <2>2 DEF factory
  <2>3. ASSUME NEW o \in DOMAIN open, NextDeliveryStatus(o)
        PROVE  OneInTick' /\ \A s \in Stores : LevelsTold(s)'
    BY <1>0, <2>1, <2>3, DeliveryLevels
  <2> QED
    BY <1>4, <2>2, <2>3 DEF Delivery
<1>5. CASE Produce
  BY <1>0, <1>5, ProduceLevels
<1>6. CASE BufferError \/ FlushTimeout \/ Flushed
  BY <1>0, <1>6, AbandonLevels DEF BufferError, FlushTimeout, Flushed
<1>7. CASE NextTick \/ Stop \/ UNCHANGED vars
  <2>1. UNCHANGED <<level, out, client>>
    BY <1>7 DEF NextTick, Stop, vars, factory
  <2>2. \/ phase' = phase
        \/ phase' = "order" /\ out = <<>>
        \/ phase' \notin {"order", "extras"}
    BY <1>7 DEF NextTick, Stop, vars
  <2> QED
    BY <1>2, <2>1, <2>2
<1>8. ASSUME NEW t \in Streams, Deliver(t) \/ DeliveryFailed(t)
      PROVE  OneInTick' /\ \A s \in Stores : LevelsTold(s)'
  BY <1>0, <1>8, DeliverLevels
<1> QED
  BY <1>1, <1>3, <1>4, <1>5, <1>6, <1>7, <1>8 DEF Next

(* What lies where in three sequences one after the other: the first ends  *)
(* at n, the second at sent.                                               *)
ThreeParts(A, l, q, w) ==
    \E n, sent \in Nat :
       /\ n <= sent /\ DOMAIN l = 1 .. n
       /\ Len(A) = sent + Len(w) /\ Len(w) \in Nat /\ DOMAIN A = 1 .. Len(A)
       /\ \A j \in 1 .. n : A[j] = l[j]
       /\ \A j \in n + 1 .. sent : j - n \in DOMAIN q /\ A[j] = q[j - n]
       /\ \A j \in sent + 1 .. Len(A) : j - sent \in 1 .. Len(w) /\ A[j] = w[j - sent]

LEMMA ThreeInARow ==
  ASSUME NEW l \in Seq(Event), NEW q \in Seq(Event), NEW w \in Seq(Event),
         NEW A \in Seq(Event), A = (l \o q) \o w
  PROVE  ThreeParts(A, l, q, w)
<1>n. PICK n \in Nat : n = Len(l)
  OBVIOUS
<1>s. PICK sent \in Nat : sent = Len(l) + Len(q)
  OBVIOUS
<1>1. PICK both \in Seq(Event) : both = l \o q
  <2>1. l \o q \in Seq(Event)
    OBVIOUS
  <2> QED
    BY <2>1, Zenon
<1>2. /\ Len(both) = sent /\ n = Len(l) /\ sent = n + Len(q) /\ Len(l) \in Nat /\ Len(q) \in Nat
      /\ DOMAIN l = 1 .. Len(l) /\ DOMAIN q = 1 .. Len(q)
  BY <1>n, <1>s, <1>1
<1>3. \A j \in 1 .. Len(both) : both[j] = IF j <= Len(l) THEN l[j] ELSE q[j - Len(l)]
  BY <1>1
<1>4. /\ A = both \o w /\ Len(A) = Len(both) + Len(w) /\ Len(w) \in Nat
      /\ DOMAIN A = 1 .. Len(A)
  BY <1>1
<1>5. \A j \in 1 .. Len(A) : A[j] = IF j <= Len(both) THEN both[j] ELSE w[j - Len(both)]
  BY <1>4
<1>6. ASSUME NEW j \in 1 .. n PROVE A[j] = l[j]
  <2>1. j \in 1 .. Len(A) /\ j \in 1 .. Len(both) /\ j <= Len(both) /\ j <= Len(l)
    BY <1>2, <1>4
  <2> QED
    BY <2>1, <1>3, <1>5
<1>7. ASSUME NEW j \in n + 1 .. sent
      PROVE  j - n \in DOMAIN q /\ A[j] = q[j - n]
  <2>1. /\ j \in 1 .. Len(A) /\ j \in 1 .. Len(both) /\ j <= Len(both)
        /\ ~(j <= Len(l)) /\ j - Len(l) \in 1 .. Len(q)
    BY <1>2, <1>4
  <2> QED
    BY <2>1, <1>2, <1>3, <1>5
<1>8. ASSUME NEW j \in sent + 1 .. Len(A)
      PROVE  /\ j - sent \in 1 .. Len(w)
             /\ A[j] = w[j - sent]
  <2>1. j \in 1 .. Len(A) /\ ~(j <= Len(both)) /\ j - Len(both) \in 1 .. Len(w)
    BY <1>2, <1>4
  <2> QED
    BY <2>1, <1>2, <1>5
<1> USE DEF ThreeParts
<1> WITNESS n \in Nat, sent \in Nat
<1> QED
  BY <1>2, <1>4, <1>6, <1>7, <1>8

(* What a sequence says of the levels, its first part says too, unless a   *)
(* later update of the SKU is in the rest.                                 *)
LEMMA FirstPart ==
  ASSUME NEW s \in Stores, NEW l \in Seq(Event), NEW q \in Seq(Event), NEW w \in Seq(Event),
         NEW A \in Seq(Event), A = (l \o q) \o w, Drained(A, s),
         level \in [Stores \X Skus -> Nat], NEW i \in DOMAIN l
  PROVE  /\ \A j \in Later(l, i) :
               (\A k \in Later(l, i) : j <= k) => l[j].previous <= l[i].new
         /\ Later(l, i) = {} => \/ \E k \in DOMAIN q : q[k].sku = l[i].sku
                                \/ \E k \in DOMAIN w : w[k].sku = l[i].sku
                                \/ level[<<s, l[i].sku>>] <= l[i].new
<1>0. ThreeParts(A, l, q, w)
  BY ThreeInARow
<1>1. PICK n, sent \in Nat :
      /\ n <= sent /\ DOMAIN l = 1 .. n
      /\ Len(A) = sent + Len(w) /\ Len(w) \in Nat /\ DOMAIN A = 1 .. Len(A)
      /\ \A j \in 1 .. n : A[j] = l[j]
      /\ \A j \in n + 1 .. sent : j - n \in DOMAIN q /\ A[j] = q[j - n]
      /\ \A j \in sent + 1 .. Len(A) : j - sent \in 1 .. Len(w) /\ A[j] = w[j - sent]
  BY <1>0 DEF ThreeParts
<1>2. i \in 1 .. n /\ i \in 1 .. Len(A) /\ A[i] = l[i]
  BY <1>1
<1>3. Later(l, i) = {j \in Later(A, i) : j <= n}
  <2>1. \A j \in 1 .. n : j \in 1 .. Len(A) /\ A[j] = l[j]
    BY <1>1
  <2> QED
    BY <1>1, <1>2, <2>1 DEF Later
<1>4. ASSUME NEW j \in Later(l, i), \A k \in Later(l, i) : j <= k
      PROVE  l[j].previous <= l[i].new
  <2>1. j \in Later(A, i) /\ j \in 1 .. n /\ A[j] = l[j]
    <3>1. j \in 1 .. n
      BY <1>1 DEF Later
    <3> QED
      BY <1>1, <1>3, <3>1
  <2>2. \A k \in Later(A, i) : j <= k
    <3>1. \A k \in Later(A, i) : k \in Nat
      BY <1>1 DEF Later
    <3> QED
      BY <1>1, <1>3, <1>4, <2>1, <3>1
  <2> QED
    BY <1>2, <2>1, <2>2 DEF Drained
<1>5. ASSUME Later(l, i) = {}, NEW j \in Later(A, i)
      PROVE  \/ \E k \in DOMAIN q : q[k].sku = l[i].sku
             \/ \E k \in DOMAIN w : w[k].sku = l[i].sku
  <2>1. j \in 1 .. Len(A) /\ A[j].sku = l[i].sku /\ j > n
    <3>1. j \in 1 .. Len(A) /\ A[j].sku = l[i].sku
      BY <1>1, <1>2 DEF Later
    <3> QED
      BY <1>1, <1>3, <1>5, <3>1
  <2>2. CASE j <= sent
    <3>1. j \in n + 1 .. sent
      BY <1>1, <2>1, <2>2
    <3> QED
      BY <1>1, <2>1, <3>1
  <2>3. CASE j > sent
    <3>1. j \in sent + 1 .. Len(A) /\ DOMAIN w = 1 .. Len(w)
      BY <1>1, <2>1, <2>3
    <3> QED
      BY <1>1, <2>1, <3>1
  <2> QED
    BY <1>1, <2>1, <2>2, <2>3
<1>6. ASSUME Later(A, i) = {} PROVE level[<<s, l[i].sku>>] <= l[i].new
  BY <1>2, <1>6 DEF Drained
<1> QED
  BY <1>4, <1>5, <1>6

\* The topic is the first part of what was told: what it lacks is coming.
LEMMA LevelsOnTopic == UInv => NeverUnderstated
<1> SUFFICES ASSUME UInv, NEW s \in Stores, Updates(s) \notin lost,
                    NEW events, events = log[Updates(s)], NEW i \in DOMAIN events
             PROVE  /\ \A j \in Later(events, i) :
                          (\A k \in Later(events, i) : j <= k) => events[j].previous <= events[i].new
                    /\ Later(events, i) = {} =>
                          \/ \E e \in Range(queue[Updates(s)]) : e.sku = events[i].sku
                          \/ \E m \in Range(out) : m.to = Updates(s) /\ m.event.sku = events[i].sku
                          \/ level[<<s, events[i].sku>>] <= events[i].new
  BY DEF NeverUnderstated, Updates
<1>1. PICK l \in Seq(Event), q \in Seq(Event), w \in Seq(Event) :
         l = events /\ q = queue[Updates(s)] /\ w = WaitingIn(out, s)
  BY UpdateTypes DEF UInv
<1>2. PICK A \in Seq(Event) : A = (l \o q) \o w
  <2>1. (l \o q) \o w \in Seq(Event)
    OBVIOUS
  <2> QED
    BY <2>1, Zenon
<1>3. Drained(A, s) /\ level \in [Stores \X Skus -> Nat] /\ i \in DOMAIN l
  BY <1>1, <1>2 DEF UInv, LevelsTold, AllUpdates, TypeOK
<1>4. /\ \A j \in Later(l, i) :
            (\A k \in Later(l, i) : j <= k) => l[j].previous <= l[i].new
      /\ Later(l, i) = {} => \/ \E k \in DOMAIN q : q[k].sku = l[i].sku
                             \/ \E k \in DOMAIN w : w[k].sku = l[i].sku
                             \/ level[<<s, l[i].sku>>] <= l[i].new
  BY <1>2, <1>3, FirstPart
<1>5. ASSUME NEW k \in DOMAIN q, q[k].sku = l[i].sku
      PROVE  \E e \in Range(queue[Updates(s)]) : e.sku = events[i].sku
  BY <1>1, <1>5 DEF Range
<1>6. ASSUME NEW k \in DOMAIN w, w[k].sku = l[i].sku
      PROVE  \E m \in Range(out) : m.to = Updates(s) /\ m.event.sku = events[i].sku
  <2>1. PICK t \in 1 .. Len(out) : out[t].to = Updates(s)
    <3>1. SUFFICES ASSUME \A t \in 1 .. Len(out) : out[t].to # Updates(s) PROVE FALSE
      OBVIOUS
    <3>2. w = <<>>
      BY <1>1, <3>1 DEF WaitingIn
    <3> QED
      BY <1>6, <3>2
  <2>2. w = <<out[t].event>> /\ out \in Seq(Message)
    BY <1>1, <2>1, WaitingIs DEF UInv, TypeOK, OneInTick
  <2>3. w[k] = out[t].event
    BY <2>2
  <2>4. out[t] \in Range(out)
    BY <2>2 DEF Range
  <2> QED
    BY <1>1, <1>6, <2>1, <2>3, <2>4
<1> QED
  BY <1>1, <1>4, <1>5, <1>6

(* Whatever orders, restocks and failures come between them, a store's     *)
(* updates on the topic follow from each other, and the stock is at most   *)
(* what the last one of a SKU says, unless another of it is on its way.    *)
THEOREM LevelsNotUnderstated == Spec => []NeverUnderstated
<1>1. Spec => []UInv
  BY UInvInit, UInvStep, PTL DEF Spec
<1> QED
  BY <1>1, LevelsOnTopic, PTL
=============================================================================
