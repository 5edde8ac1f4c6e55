------------------------------ MODULE Pipeline ------------------------------
(***************************************************************************)
(* The generator, Kafka and the consumer together: what the generator      *)
(* simulates against what the consumer stores.                             *)
(*                                                                         *)
(* The producer is idempotent: messages with the same routing key keep     *)
(* their order and none is duplicated.  A message that could not be        *)
(* delivered is logged and forgotten, and a service that stops may leave   *)
(* some behind.  The consumer is its specification, Projection, which      *)
(* ConsumerWorker implements.  It takes the messages of each partition in  *)
(* order, but goes past one whose handling raises or that a paused loop    *)
(* polls, and may get it again at any later time.  The migrations may run  *)
(* again next to it.                                                       *)
(*                                                                         *)
(* Nobody else publishes events about the generator's products.            *)
(*                                                                         *)
(* The module extends TrafficGenerator, whose Init, Next and vars are the  *)
(* generator's own, and adds the way of its events to the tables.          *)
(***************************************************************************)
EXTENDS TrafficGenerator

CONSTANTS
    Partitions,         \* the partitions of the warehouse-events topic
    PartitionOf,        \* the partition that a product or order, as routing key, is hashed to
    FirstCapacity,      \* the capacities that the migrations write first (004)
    MaxLosses,          \* bound on messages that are never delivered
    MaxSkips,           \* bound on messages the consumer goes past
    MaxMigrations       \* bound on runs of the migrations

ASSUME KeysArePlaced == /\ IsFiniteSet(Partitions)
                        /\ PartitionOf \in [Products \cup OrderIds -> Partitions]
                        /\ {MaxLosses, MaxSkips, MaxMigrations} \subseteq Nat

ASSUME ZonesGrow == /\ FirstCapacity \in [Zones -> Nat]
                    /\ \A z \in Zones : FirstCapacity[z] <= Capacity[z]

VARIABLES
    \* Projection
    inventory, totals, orders, processed, history,
    \* Kafka and the producer's queue
    inTransit,          \* per partition, the messages not handled yet, in order
    routedBy,           \* the routing keys of the open orders (SimulatedOrder.routing_key)
    lost,               \* messages that were never delivered
    \* the consumer and the migrations
    skipped,            \* the messages the consumer went past
    migrations          \* the runs of the migrations next to the consumer

Consumer == INSTANCE Projection

tables   == <<inventory, totals, orders, processed, history>>
consumer == <<skipped, migrations>>
pipeline == <<vars, tables, inTransit, routedBy, lost, consumer>>

(* EventProcessor with the zones and capacities that the consumer reads.   *)
Handler(capacity) ==
    INSTANCE EventProcessor WITH Zones <- DOMAIN capacity, Capacity <- capacity

PipelineInit ==
    /\ Init
    /\ Consumer!Init
    /\ inTransit = [q \in Partitions |-> <<>>]
    /\ routedBy = [o \in OrderIds |-> NoText]
    /\ lost = 0
    /\ skipped = {} /\ migrations = 0

(* Mutant: the private _routing_key is ignored.                            *)
RoutingKeyOfRecord(e) == IF e.event_type \in OrderEventTypes THEN e.order_id ELSE e.product_id

(* Events go by their product, orders by the product of their first item,  *)
(* their completion included.                                              *)
RoutingKey(e) ==
    CASE e.event_type = "ORDER_CREATED"   -> e.items[1].product_id
      [] e.event_type = "ORDER_COMPLETED" -> routedBy[e.order_id]
      [] OTHER                            -> e.product_id

(* One operation of the generator; its event, if the publication did not   *)
(* raise, is in the producer's queue.                                      *)
Generate ==
    /\ Operate
    /\ IF sent' = sent THEN UNCHANGED <<inTransit, routedBy>>
       ELSE LET e == sent'[Len(sent')]
            IN  /\ inTransit' = [inTransit EXCEPT ![PartitionOf[RoutingKey(e)]] = Append(@, e)]
                /\ routedBy' = IF e.event_type = "ORDER_CREATED"
                               THEN [routedBy EXCEPT ![e.order_id] = RoutingKey(e)]
                               ELSE routedBy
    /\ UNCHANGED <<tables, lost, consumer>>

Control ==
    /\ WaitForResume \/ Pause \/ Resume
    /\ UNCHANGED <<tables, inTransit, routedBy, lost, consumer>>

(* Once the migrations have run next to the consumer, it may read for any  *)
(* zone the capacity it had at first, or no row: while they run, until the *)
(* last writes have come to every replica, or if the run broke off.  What  *)
(* it then decides may be recorded later.                                  *)
Readings ==
    {[z \in seen |-> IF z \in outdated THEN FirstCapacity[z] ELSE Capacity[z]] :
        seen \in SUBSET Zones, outdated \in SUBSET Zones}

(* The event is refused for its zones, though the warehouse has room.      *)
Refuse(e) ==
    /\ migrations > 0
    /\ ProcessAction(Consumer!store, processed, e) = "applied"
    /\ \E capacity \in Readings :
          Handler(capacity)!ProcessAction(Consumer!store, processed, e) = "dlq"
    /\ Consumer!Record(e, "DLQ")
    /\ UNCHANGED <<inventory, totals, orders>>

Handle(e) == Consumer!Apply(e) \/ Consumer!Ignore(e) \/ Consumer!Reject(e) \/ Refuse(e)

(* The consumer handles the next message of a partition.                   *)
Consume(q) ==
    /\ inTransit[q] # <<>>
    /\ Handle(Head(inTransit[q]))
    /\ inTransit' = [inTransit EXCEPT ![q] = Tail(@)]
    /\ UNCHANGED <<vars, routedBy, lost, consumer>>

(* Handling the message raised, or the loop was paused when it was polled. *)
Skip(q) ==
    /\ inTransit[q] # <<>>
    /\ Cardinality(skipped) < MaxSkips
    /\ skipped' = skipped \cup {Head(inTransit[q])}
    /\ inTransit' = [inTransit EXCEPT ![q] = Tail(@)]
    /\ UNCHANGED <<vars, tables, routedBy, lost, migrations>>

(* A consumer that starts again before a later commit gets it again; what  *)
(* it had handled behind it is known by its processed mark.                *)
Redeliver(e) ==
    /\ Handle(e)
    /\ UNCHANGED <<vars, inTransit, routedBy, lost, consumer>>

(* The deployment is brought up again while the generator is working.      *)
Migrate ==
    /\ migrations < MaxMigrations
    /\ migrations' = migrations + 1
    /\ UNCHANGED <<vars, tables, inTransit, routedBy, lost, skipped>>

(* The producer gives a message up; those behind it are delivered.         *)
LoseMessage(q) ==
    /\ inTransit[q] # <<>>
    /\ lost < MaxLosses
    /\ lost' = lost + 1
    /\ inTransit' = [inTransit EXCEPT ![q] = Tail(@)]
    /\ UNCHANGED <<vars, tables, routedBy, consumer>>

(* A stop flushes the queue for at most ten seconds, and not at all when   *)
(* the task had failed, whose exception stop() raises again; a kill never  *)
(* does.  The last messages of each partition may be left behind.          *)
RestartService ==
    /\ Restart
    /\ \E kept \in [Partitions -> 0 .. MaxEvents] :
          /\ \A q \in Partitions : kept[q] <= Len(inTransit[q])
          /\ inTransit' = [q \in Partitions |-> SubSeq(inTransit[q], 1, kept[q])]
          /\ lost' = lost + SumFunctionOnSet([q \in Partitions |-> Len(inTransit[q]) - kept[q]],
                                             Partitions)
          /\ lost' <= MaxLosses
    /\ UNCHANGED <<tables, routedBy, consumer>>

PipelineNext ==
    \/ Generate \/ Control \/ RestartService \/ Migrate
    \/ \E q \in Partitions : Consume(q) \/ Skip(q) \/ LoseMessage(q)
    \/ \E e \in skipped : Redeliver(e)

PipelineSpec == PipelineInit /\ [][PipelineNext]_pipeline

-----------------------------------------------------------------------------
Drained == \A q \in Partitions : inTransit[q] = <<>>

(* An order whose items are in several partitions is only ordered with     *)
(* the events of its first product.                                        *)
SplitOrder(items) ==
    \E i, j \in DOMAIN items :
        PartitionOf[items[i].product_id] # PartitionOf[items[j].product_id]

(* All that was ever put into a zone would not fit at once: then the order *)
(* of the partitions among each other may matter.                          *)
Added(e, z) ==
    CASE e.event_type = "PRODUCT_RECEIVED" /\ e.zone_id = z  -> e.quantity
      [] e.event_type = "PRODUCT_MOVED" /\ e.to_zone_id = z  -> e.quantity
      [] e.event_type = "INVENTORY_COUNTED" /\ e.zone_id = z -> e.counted_quantity
      [] OTHER -> 0

Crowded ==
    /\ Cardinality(Partitions) > 1
    /\ \E z \in Zones :
          SumFunctionOnSet([i \in DOMAIN sent |-> Added(sent[i], z)], DOMAIN sent) > Capacity[z]

(* What may make the stored stock another one than the simulated stock.    *)
Undisturbed ==
    /\ lost = 0 /\ restarts = 0 /\ ~overplanned /\ ~collided
    /\ skipped = {} /\ migrations = 0
    /\ \A i \in DOMAIN sent : ~SplitOrder(sent[i].items)
    /\ ~Crowded

(* Every generated event is accepted: the consumer refuses or ignores one  *)
(* only after a message was lost or skipped, the generator forgot its      *)
(* stock, planned what the warehouse does not hold or used an order id     *)
(* twice, the migrations ran next to the consumer, or where events of      *)
(* different partitions depend on each other.                              *)
GeneratedEventsApplied ==
    Undisturbed => \A h \in history : h.outcome = "APPLIED"

(* Once everything is handled, the tables hold what the generator          *)
(* simulates: the stock, the suppliers and the open orders.                *)
SimulationMatches ==
    Undisturbed /\ Drained /\ task # "failed" =>
        /\ \A k \in Positions :
              /\ inventory[k].available = sim[k].available
              /\ inventory[k].reserved = sim[k].reserved_manual + sim[k].reserved_order
              /\ inventory[k].supplier_id = sim[k].supplier_id
        /\ \A o \in OrderIds :
              IF open[o] = <<>> THEN orders[o] = NoOrder \/ orders[o].status = "COMPLETED"
              ELSE /\ orders[o] # NoOrder
                   /\ orders[o].status = "CREATED" /\ orders[o].items = open[o]

(* After a restart the generator starts from an empty stock, the tables do *)
(* not.  As long as nothing was lost, skipped or refused and no order id   *)
(* was used twice, there is at least as much in the tables as it           *)
(* simulates: it never plans with stock that is gone.                      *)
SimulationNeverAhead ==
    (/\ lost = 0 /\ skipped = {} /\ ~collided /\ Drained /\ task # "failed"
     /\ \A h \in history : h.outcome = "APPLIED"
     /\ \A i \in DOMAIN sent : ~SplitOrder(sent[i].items)) =>
        \A k \in Positions :
            /\ inventory[k].available >= sim[k].available
            /\ inventory[k].reserved >= sim[k].reserved_manual + sim[k].reserved_order
=============================================================================
