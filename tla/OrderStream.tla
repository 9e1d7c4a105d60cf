----------------------------- MODULE OrderStream -----------------------------
(***************************************************************************)
(* producer/order_stream.py: the EventFactory (open orders on their way to *)
(* delivery, stock levels of the dark stores) and the loop that produces   *)
(* its events to three topics, keyed by store.                             *)
(*                                                                         *)
(* Everything the factory tells is told by events, and the Kafka client    *)
(* may fail to deliver any of them: on_delivery prints that, and the later *)
(* ones of the same store still arrive.  A full buffer raises, and ends    *)
(* the process with what was not sent; flush(30) gives up after its time.  *)
(*                                                                         *)
(* Modelled: a tick with its extra orders in a surge, what it draws at     *)
(* random as choices, one client queue per topic and key.  Several stores  *)
(* share a partition, but nothing compares them.  Left out: times, prices, *)
(* names; a log is kept of the topics that tell about state.               *)
(***************************************************************************)
EXTENDS Integers, SequencesExt

CONSTANTS Stores, Skus,
          SurgeStores,   \* _surge_zones: two stores if it rains, or none
          LastStage,     \* index of "delivered" in DELIVERY_STAGES: 4
          Baskets,       \* what an order may take of each SKU
          Deltas,        \* what an inventory update may add: restocks, adjustments
          Seeds,         \* initial levels
          BufferSize,    \* messages the client holds
          MaxOrders      \* bound: orders the factory places

ASSUME StreamAssumption ==
    /\ SurgeStores \subseteq Stores /\ LastStage \in Nat \ {0}
    /\ Baskets \subseteq [Skus -> Nat] /\ Deltas \subseteq Int /\ Seeds \subseteq Nat
    /\ BufferSize \in Nat /\ MaxOrders \in Nat

VARIABLES
    level,     \* _inventory
    orders,    \* every order placed; its id is its place
    open,      \* _open_orders: stage_idx of the orders under way
    phase,     \* where the tick is
    extras,    \* orders the surge still adds to this tick
    out,       \* events of this tick not produced yet, with topic and key
    queue,     \* in flight, for each topic and key
    log,       \* what the topic has, for each key
    lost       \* history: topics and keys some message of which failed

factory == <<level, orders, open>>
client  == <<queue, log, lost>>
vars    == <<factory, phase, extras, out, client>>

Topics   == {"orders", "inventory_updates", "delivery_status"}
Streams  == Topics \X Stores
Told     == {s \in Streams : s[1] # "orders"}
Phases   == {"order", "extras", "delivery", "produce", "flush", "ended"}
Order    == [store : Stores, cancelled : BOOLEAN]
OrderEvent     == [order : Nat]
InventoryEvent == [sku : Skus, previous : Nat, new : Nat]
DeliveryEvent  == [order : Nat, stage : 1 .. LastStage]
Event   == OrderEvent \cup InventoryEvent \cup DeliveryEvent
Message == [to : Streams, event : Event]

TypeOK == /\ level \in [Stores \X Skus -> Nat]
          /\ orders \in Seq(Order)
          /\ DOMAIN open \subseteq DOMAIN orders
          /\ \A o \in DOMAIN open : open[o] \in 0 .. LastStage - 1 /\ ~orders[o].cancelled
          /\ phase \in Phases /\ extras \in 0 .. 2
          /\ out \in Seq(Message)
          /\ queue \in [Streams -> Seq(Event)] /\ log \in [Told -> Seq(Event)]
          /\ lost \subseteq Told

Init == /\ level \in [Stores \X Skus -> Seeds]
        /\ orders = <<>> /\ open = <<>>
        /\ phase = "order" /\ extras = 0 /\ out = <<>>
        /\ queue = [s \in Streams |-> <<>>] /\ log = [s \in Told |-> <<>>] /\ lost = {}

-----------------------------------------------------------------------------
(* EventFactory.                                                           *)

Clipped(n) == IF n < 0 THEN 0 ELSE n
Emit(topic, store, event) == out' = Append(out, [to |-> <<topic, store>>, event |-> event])

Oversold(store, basket) ==                                            \* mutant
    [p \in DOMAIN level |-> IF p[1] = store THEN level[p] - basket[p[2]] ELSE level[p]]
Consumed(store, basket) ==
    [p \in DOMAIN level |-> IF p[1] = store THEN Clipped(level[p] - basket[p[2]]) ELSE level[p]]

NextOrder(store, basket, cancelled) ==
    LET id == Len(orders) + 1
    IN  /\ level' = Consumed(store, basket)
        /\ orders' = Append(orders, [store |-> store, cancelled |-> cancelled])
        /\ open' = [o \in DOMAIN open \cup ({id} \ IF cancelled THEN {id} ELSE {}) |->
                       IF o = id THEN 0 ELSE open[o]]
        /\ Emit("orders", store, [order |-> id])

Uncorrected(p, delta) == level[p]                                     \* mutant: the event has the old level
NewLevel(p, delta)    == Clipped(level[p] + delta)

NextInventoryUpdate(p, delta) ==
    /\ level' = [level EXCEPT ![p] = Clipped(@ + delta)]
    /\ Emit("inventory_updates", p[1], [sku |-> p[2], previous |-> level[p], new |-> NewLevel(p, delta)])
    /\ UNCHANGED <<orders, open>>

NeverDone(stage) == FALSE                                             \* mutant
Done(stage)      == stage >= LastStage

NextDeliveryStatus(o) ==
    LET idx == open[o] + 1
    IN  /\ open' = [q \in DOMAIN open \ {p \in {o} : Done(idx)} |-> IF q = o THEN idx ELSE open[q]]
        /\ Emit("delivery_status", orders[o].store,
                [order |-> o, stage |-> IF idx < LastStage THEN idx ELSE LastStage])
        /\ UNCHANGED <<level, orders>>

SurgeMultiplier(store) == IF store \in SurgeStores THEN 3 ELSE 1

-----------------------------------------------------------------------------
(* iter_events.  The extra orders are drawn from all stores.               *)

FirstOrder == /\ phase = "order"
              /\ \E s \in Stores, b \in Baskets, c \in BOOLEAN :
                    /\ Len(orders) + SurgeMultiplier(s) <= MaxOrders
                    /\ NextOrder(s, b, c) /\ extras' = SurgeMultiplier(s) - 1
              /\ phase' = "extras" /\ UNCHANGED client

ExtraOrder == /\ phase = "extras" /\ extras > 0
              /\ \E s \in Stores, b \in Baskets, c \in BOOLEAN : NextOrder(s, b, c)
              /\ extras' = extras - 1 /\ UNCHANGED <<phase, client>>

Inventory == /\ phase = "extras" /\ extras = 0 /\ phase' = "delivery"
             /\ \/ \E p \in Stores \X Skus, delta \in Deltas : NextInventoryUpdate(p, delta)
                \/ UNCHANGED <<factory, out>>
             /\ UNCHANGED <<extras, client>>

Delivery == /\ phase = "delivery" /\ phase' = "produce"
            /\ \/ \E o \in DOMAIN open : NextDeliveryStatus(o)
               \/ UNCHANGED <<factory, out>>
            /\ UNCHANGED <<extras, client>>

-----------------------------------------------------------------------------
(* stream, and the client's thread.                                        *)

Unsent == {s \in Streams : queue[s] # <<>>}
Held   == FoldFunction(LAMBDA messages, n : Len(messages) + n, 0, queue)

Produce == /\ phase = "produce" /\ out # <<>> /\ Held < BufferSize
           /\ queue' = [queue EXCEPT ![Head(out).to] = Append(@, Head(out).event)]
           /\ out' = Tail(out)
           /\ UNCHANGED <<factory, phase, extras, log, lost>>

(* BufferError is not caught: no flush, and what is held or still to be    *)
(* produced is lost.                                                       *)
Abandon == /\ phase' = "ended" /\ out' = <<>>
           /\ queue' = [s \in Streams |-> <<>>]
           /\ lost' = lost \cup (Told \cap (Unsent \cup {m.to : m \in Range(out)}))
           /\ UNCHANGED <<factory, extras, log>>

BufferError  == phase = "produce" /\ out # <<>> /\ Held >= BufferSize /\ Abandon
FlushTimeout == phase = "flush" /\ Unsent # {} /\ Abandon
Flushed      == phase = "flush" /\ Unsent = {} /\ Abandon

NextTick == /\ phase = "produce" /\ out = <<>> /\ phase' = "order"
            /\ UNCHANGED <<factory, extras, out, client>>

(* The duration is over, or SIGINT set the flag.                           *)
Stop == /\ phase = "order" /\ phase' = "flush"
        /\ UNCHANGED <<factory, extras, out, client>>

(* The factory shares nothing with the client's thread, so what that does  *)
(* while a tick is drawn, it may as well do before.                        *)
Sending == phase \in {"produce", "flush"}

Deliver(s) == /\ Sending /\ queue[s] # <<>>
              /\ queue' = [queue EXCEPT ![s] = Tail(@)]
              /\ log' = IF s \in Told THEN [log EXCEPT ![s] = Append(@, Head(queue[s]))] ELSE log
              /\ UNCHANGED <<factory, phase, extras, out, lost>>

DeliveryFailed(s) == /\ Sending /\ queue[s] # <<>>
                     /\ queue' = [queue EXCEPT ![s] = Tail(@)]
                     /\ lost' = lost \cup ({s} \cap Told)
                     /\ UNCHANGED <<factory, phase, extras, out, log>>

Next == \/ FirstOrder \/ ExtraOrder \/ Inventory \/ Delivery
        \/ Produce \/ BufferError \/ NextTick \/ Stop \/ Flushed \/ FlushTimeout
        \/ \E s \in Streams : Deliver(s) \/ DeliveryFailed(s)

Spec == Init /\ [][Next]_vars

-----------------------------------------------------------------------------
(* Properties.                                                             *)

(* A delivery_status event tells of an order that was placed at its store  *)
(* and not cancelled, and the stages of an order come in their order,      *)
(* without a gap unless a delivery to Kafka failed (order_stream.py,       *)
(* 82-86 and 199-204).                                                     *)
DeliveriesCoherent ==
    \A s \in Stores :
        LET events == log[<<"delivery_status", s>>]
        IN  \A i \in DOMAIN events :
               LET before == {j \in 1 .. i - 1 : events[j].order = events[i].order}
               IN  /\ events[i].order \in DOMAIN orders
                   /\ orders[events[i].order] = [store |-> s, cancelled |-> FALSE]
                   /\ \A j \in before : events[j].stage < events[i].stage
                   /\ \/ <<"delivery_status", s>> \in lost
                      \/ events[i].stage = 1
                      \/ \E j \in before : events[j].stage = events[i].stage - 1

(* The last level published of a pair is never below the stock, and each   *)
(* update starts at or below where the one before it ended: between them   *)
(* orders only drain it (order_stream.py, 82-86 and 133-136).  What the    *)
(* level was drained by is not published, and a failed delivery voids it.  *)
Later(events, i) == {j \in DOMAIN events : j > i /\ events[j].sku = events[i].sku}
NeverUnderstated ==
    \A s \in Stores :
        LET stream == <<"inventory_updates", s>>
            events == log[stream]
            Coming(sku) == \/ \E e \in Range(queue[stream]) : e.sku = sku
                           \/ \E m \in Range(out) : m.to = stream /\ m.event.sku = sku
        IN  stream \notin lost =>
               \A i \in DOMAIN events :
                  /\ \A j \in Later(events, i) :
                        (\A k \in Later(events, i) : j <= k) => events[j].previous <= events[i].new
                  /\ Later(events, i) = {} =>
                        Coming(events[i].sku) \/ level[<<s, events[i].sku>>] <= events[i].new
=============================================================================
