-------------------------- MODULE Pipeline_proofs --------------------------
(***************************************************************************)
(* What holds of the tables and of the stock that the generator simulates, *)
(* for every list of products, zones and partitions, every hash of keys to *)
(* partitions and every number of events, failures, losses and restarts.   *)
(*                                                                         *)
(* The two stocks are compared through a third, the trace: the inventories *)
(* that the events sent so far make, one after the other, of the empty one.*)
(*                                                                         *)
(*  - An event makes alike inventories of alike ones (AlikeStays), and     *)
(*    what each operation of the generator publishes tells the change that *)
(*    the simulated stock went through (Mirrors).  So the trace ends with  *)
(*    the simulated stock, and is ahead of it after a restart.             *)
(*  - The messages of a partition that wait are the last ones sent to it.  *)
(*    Without split orders a row changes with the messages of one partition*)
(*    only, so the stored row is the row of the trace at the message that  *)
(*    waits first (Matched), however far the other partitions are.         *)
(*  - A simulation that oversells and overfills nothing gives a trace that *)
(*    the consumer accepts: the rows by the point above, the zones because *)
(*    there is one partition, or all that was ever put there fits.         *)
(*                                                                         *)
(* The last sections put these facts about logs, queues and traces into an *)
(* inductive invariant, PipelineInv.  It promises them as long as the      *)
(* state is Trusted: no order id was used twice, the consumer went past no *)
(* message and the migrations made it refuse none.  What ends the trust    *)
(* stays, so a step into a trusted state came from one (TrustStays).       *)
(***************************************************************************)
EXTENDS Pipeline, TrafficGenerator_proofs

-----------------------------------------------------------------------------
(* What an event does to two inventories that are alike.  The inventories  *)
(* are loose: nothing says that their quantities are not negative.         *)
LooseRows == [available : Int, reserved : Int, last_event_ts : Int,
              supplier_id : Suppliers \cup {NoText}]

(* The order that e completes has well-formed items in s, and e names keys *)
(* of the generator's positions.                                           *)
Placed(s, e) ==
    /\ WellFormed(e)
    /\ TouchedKeys(s, e) \subseteq Positions
    /\ e.event_type = "ORDER_COMPLETED" =>
          /\ s.orders[e.order_id].items \in Seq(Items)
          /\ ItemsWellFormed(s.orders[e.order_id].items)

SameOrder(s, t, e) ==
    e.event_type = "ORDER_COMPLETED" =>
        s.orders[e.order_id].items = t.orders[e.order_id].items

LEMMA SameTouched ==
    ASSUME NEW s, NEW t, NEW e, WellFormed(e), SameOrder(s, t, e)
    PROVE  TouchedKeys(s, e) = TouchedKeys(t, e)
<1>1. e.event_type \in EventTypes
    BY DEF WellFormed
<1>2. CASE e.event_type = "ORDER_COMPLETED"
    BY <1>2 DEF SameOrder, TouchedKeys, ProductEventTypes
<1>3. CASE e.event_type = "ORDER_CREATED"
    BY <1>3 DEF TouchedKeys, ProductEventTypes
<1>4. CASE e.event_type = "PRODUCT_MOVED"
    BY <1>4 DEF TouchedKeys, ProductEventTypes
<1>5. CASE e.event_type \in ProductEventTypes
    BY <1>5 DEF TouchedKeys
<1> QED BY <1>1, <1>2, <1>3, <1>4, <1>5 DEF EventTypes, OrderEventTypes

LEMMA SameReserved ==
    ASSUME NEW s, NEW t, NEW e, SameOrder(s, t, e), NEW k
    PROVE  DeltaReserved(s, e, k) = DeltaReserved(t, e, k)
<1>1. CASE e.event_type = "ORDER_COMPLETED"
    BY <1>1 DEF SameOrder, DeltaReserved
<1>2. CASE e.event_type # "ORDER_COMPLETED"
    BY <1>2 DEF DeltaReserved
<1> QED BY <1>1, <1>2

(* A count sets the free stock; every other event changes it by as much,   *)
(* whatever it is.                                                         *)
LEMMA SameAvailable ==
    ASSUME NEW s, NEW t, NEW e, NEW k, e.event_type # "INVENTORY_COUNTED"
    PROVE  DeltaAvailable(s, e, k) = DeltaAvailable(t, e, k)
BY DEF DeltaAvailable

LEMMA CountedAvailable ==
    ASSUME NEW s, NEW e \in EventRecords, NEW k, e.event_type = "INVENTORY_COUNTED",
           s.inventory[k].available \in Int
    PROVE  s.inventory[k].available + DeltaAvailable(s, e, k) = e.counted_quantity
<1>1. DeltaAvailable(s, e, k) = e.counted_quantity - s.inventory[k].available
    BY DEF DeltaAvailable
<1>2. e.counted_quantity \in Int
    BY DEF EventRecords
<1> QED BY <1>1, <1>2

LEMMA DeltasTyped ==
    ASSUME NEW s, NEW e \in EventRecords, Placed(s, e), NEW k,
           s.inventory[k].available \in Int
    PROVE  DeltaAvailable(s, e, k) \in Int /\ DeltaReserved(s, e, k) \in Int
<1>1. e.quantity \in Int /\ e.counted_quantity \in Int /\ e.items \in Seq(Items)
    BY DEF EventRecords
<1>2. WellFormed(e) /\ e.event_type \in EventTypes
    BY DEF Placed, WellFormed
<1>3. CASE e.event_type = "ORDER_CREATED"
    <2>1. GroupedQuantity(e.items, k) \in Nat
        BY <1>1, <1>2, <1>3, GroupedItems DEF WellFormed
    <2>2. /\ DeltaAvailable(s, e, k) = -GroupedQuantity(e.items, k)
          /\ DeltaReserved(s, e, k) = GroupedQuantity(e.items, k)
        BY <1>3 DEF DeltaAvailable, DeltaReserved
    <2> QED BY <2>1, <2>2
<1>4. CASE e.event_type = "ORDER_COMPLETED"
    <2>1. GroupedQuantity(s.orders[e.order_id].items, k) \in Nat
        BY <1>4, GroupedItems DEF Placed
    <2>2. /\ DeltaAvailable(s, e, k) = 0
          /\ DeltaReserved(s, e, k) = -GroupedQuantity(s.orders[e.order_id].items, k)
        BY <1>4 DEF DeltaAvailable, DeltaReserved
    <2> QED BY <2>1, <2>2
<1>5. CASE e.event_type \in ProductEventTypes \cup {"PRODUCT_MOVED"}
    <2>1. DeltaAvailable(s, e, k) \in {e.quantity, -e.quantity,
                                       e.counted_quantity - s.inventory[k].available}
        BY <1>5 DEF DeltaAvailable, ProductEventTypes
    <2>2. DeltaReserved(s, e, k) \in {e.quantity, -e.quantity, 0}
        BY <1>5 DEF DeltaReserved, ProductEventTypes
    <2> QED BY <1>1, <2>1, <2>2
<1> QED BY <1>2, <1>3, <1>4, <1>5 DEF EventTypes, OrderEventTypes

LEMMA SupplierOf ==
    ASSUME NEW s, NEW e \in EventRecords, NEW k,
           s.inventory[k].supplier_id \in Suppliers \cup {NoText},
           e.event_type = "PRODUCT_MOVED" =>
              s.inventory[<<e.product_id, e.from_zone_id>>].supplier_id \in Suppliers \cup {NoText}
    PROVE  NewSupplier(s, e, k) \in Suppliers \cup {NoText}
<1>1. e.supplier_id \in Suppliers \cup {NoText}
    BY DEF EventRecords
<1>2. CASE e.event_type = "PRODUCT_RECEIVED"
    BY <1>1, <1>2 DEF NewSupplier
<1>3. CASE e.event_type = "PRODUCT_MOVED"
    BY <1>3 DEF NewSupplier
<1>4. CASE e.event_type \notin {"PRODUCT_RECEIVED", "PRODUCT_MOVED"}
    BY <1>4 DEF NewSupplier
<1> QED BY <1>2, <1>3, <1>4

(* A move touches the row it takes from.                                   *)
LEMMA SourceTouched ==
    ASSUME NEW s, NEW e, e.event_type = "PRODUCT_MOVED"
    PROVE  <<e.product_id, e.from_zone_id>> \in TouchedKeys(s, e)
BY DEF TouchedKeys, ProductEventTypes

LEMMA UpdatedLoose ==
    ASSUME NEW s, NEW e \in EventRecords, Placed(s, e), s.inventory \in [Keys -> LooseRows]
    PROVE  UpdatedInventory(s, e) \in [Keys -> LooseRows]
<1>1. ASSUME NEW k \in TouchedKeys(s, e)
      PROVE  UpdatedRow(s, e, k) \in LooseRows
    <2>1. k \in Keys
        BY PositionsFinite DEF Placed
    <2>2. s.inventory[k] \in LooseRows
        BY <2>1
    <2>3. s.inventory[k].available \in Int /\ s.inventory[k].reserved \in Int
          /\ s.inventory[k].supplier_id \in Suppliers \cup {NoText}
        BY <2>2 DEF LooseRows
    <2>4. DeltaAvailable(s, e, k) \in Int /\ DeltaReserved(s, e, k) \in Int
        BY <2>3, DeltasTyped
    <2>5. e.occurred_at \in Int
        BY DEF EventRecords
    <2>6. NewSupplier(s, e, k) \in Suppliers \cup {NoText}
        <3>1. ASSUME e.event_type = "PRODUCT_MOVED"
              PROVE  s.inventory[<<e.product_id, e.from_zone_id>>].supplier_id
                        \in Suppliers \cup {NoText}
            <4>1. <<e.product_id, e.from_zone_id>> \in Keys
                BY <3>1, SourceTouched, PositionsFinite DEF Placed
            <4>2. s.inventory[<<e.product_id, e.from_zone_id>>] \in LooseRows
                BY <4>1
            <4> QED BY <4>2 DEF LooseRows
        <3> QED BY <2>3, <3>1, SupplierOf
    <2> QED BY <2>3, <2>4, <2>5, <2>6 DEF UpdatedRow, LooseRows
<1> QED BY <1>1 DEF UpdatedInventory

(* Of two inventories that hold the same rows where the event is, the      *)
(* event makes the same.                                                   *)
LEMMA SameRow ==
    ASSUME NEW s, NEW t, NEW e \in EventRecords, SameOrder(s, t, e), NEW k,
           s.inventory[k] = t.inventory[k],
           \A j \in TouchedKeys(s, e) : s.inventory[j] = t.inventory[j]
    PROVE  UpdatedRow(s, e, k) = UpdatedRow(t, e, k)
<1>1. DeltaReserved(s, e, k) = DeltaReserved(t, e, k)
    BY SameReserved
<1>2. DeltaAvailable(s, e, k) = DeltaAvailable(t, e, k)
    BY DEF DeltaAvailable
<1>3. NewSupplier(s, e, k) = NewSupplier(t, e, k)
    <2>1. CASE e.event_type = "PRODUCT_MOVED"
        <3>1. s.inventory[<<e.product_id, e.from_zone_id>>]
                = t.inventory[<<e.product_id, e.from_zone_id>>]
            BY <2>1, SourceTouched
        <3> QED BY <2>1, <3>1 DEF NewSupplier
    <2>2. CASE e.event_type # "PRODUCT_MOVED"
        BY <2>2 DEF NewSupplier
    <2> QED BY <2>1, <2>2
<1> QED BY <1>1, <1>2, <1>3 DEF UpdatedRow

LEMMA SameInventory ==
    ASSUME NEW s, NEW t, NEW e \in EventRecords, WellFormed(e), SameOrder(s, t, e),
           s.inventory = t.inventory
    PROVE  UpdatedInventory(s, e) = UpdatedInventory(t, e)
<1>1. TouchedKeys(s, e) = TouchedKeys(t, e)
    BY SameTouched
<1>2. \A k : UpdatedRow(s, e, k) = UpdatedRow(t, e, k)
    BY SameRow
<1> QED BY <1>1, <1>2 DEF UpdatedInventory

(* Alike: the same quantities and supplier.  Ahead: no less of anything.   *)
Alike(r, v) == r.available = v.available /\ r.reserved = v.reserved /\ r.supplier_id = v.supplier_id
Ahead(r, v) == r.available >= v.available /\ r.reserved >= v.reserved

LEMMA UpdatedTouched ==
    ASSUME NEW s, NEW e, NEW k \in Keys
    PROVE  UpdatedInventory(s, e)[k] = IF k \in TouchedKeys(s, e) THEN UpdatedRow(s, e, k)
                                       ELSE s.inventory[k]
BY DEF UpdatedInventory

LEMMA AlikeStays ==
    ASSUME NEW s, NEW t, NEW e \in EventRecords, WellFormed(e), SameOrder(s, t, e), NEW k \in Keys,
           Alike(s.inventory[k], t.inventory[k]),
           e.event_type = "PRODUCT_MOVED" =>
              s.inventory[<<e.product_id, e.from_zone_id>>].supplier_id
                = t.inventory[<<e.product_id, e.from_zone_id>>].supplier_id
    PROVE  Alike(UpdatedInventory(s, e)[k], UpdatedInventory(t, e)[k])
<1>1. TouchedKeys(s, e) = TouchedKeys(t, e)
    BY SameTouched
<1>2. DeltaReserved(s, e, k) = DeltaReserved(t, e, k)
    BY SameReserved
<1>3. DeltaAvailable(s, e, k) = DeltaAvailable(t, e, k)
    BY DEF DeltaAvailable, Alike
<1>4. NewSupplier(s, e, k) = NewSupplier(t, e, k)
    <2>1. CASE e.event_type = "PRODUCT_MOVED"
        BY <2>1 DEF NewSupplier, Alike
    <2>2. CASE e.event_type # "PRODUCT_MOVED"
        BY <2>2 DEF NewSupplier, Alike
    <2> QED BY <2>1, <2>2
<1>5. Alike(UpdatedRow(s, e, k), UpdatedRow(t, e, k))
    BY <1>2, <1>3, <1>4 DEF UpdatedRow, Alike
<1> QED BY <1>1, <1>5, UpdatedTouched

LEMMA AheadStays ==
    ASSUME NEW s, NEW t, NEW e \in EventRecords, Placed(s, e), SameOrder(s, t, e), NEW k \in Keys,
           s.inventory[k].available \in Int, s.inventory[k].reserved \in Int,
           t.inventory[k].available \in Int, t.inventory[k].reserved \in Int,
           Ahead(s.inventory[k], t.inventory[k])
    PROVE  Ahead(UpdatedInventory(s, e)[k], UpdatedInventory(t, e)[k])
<1>1. TouchedKeys(s, e) = TouchedKeys(t, e)
    BY SameTouched DEF Placed
<1>2. DeltaReserved(s, e, k) = DeltaReserved(t, e, k)
    BY SameReserved
<1>3. DeltaAvailable(s, e, k) \in Int /\ DeltaReserved(s, e, k) \in Int
    BY DeltasTyped
<1>4. s.inventory[k].reserved + DeltaReserved(s, e, k)
        >= t.inventory[k].reserved + DeltaReserved(t, e, k)
    BY <1>2, <1>3 DEF Ahead
<1>5. s.inventory[k].available + DeltaAvailable(s, e, k)
        >= t.inventory[k].available + DeltaAvailable(t, e, k)
    <2>1. CASE e.event_type = "INVENTORY_COUNTED"
        <3>1. s.inventory[k].available + DeltaAvailable(s, e, k) = e.counted_quantity
            BY <2>1, CountedAvailable
        <3>2. t.inventory[k].available + DeltaAvailable(t, e, k) = e.counted_quantity
            BY <2>1, CountedAvailable
        <3>3. e.counted_quantity \in Int
            BY DEF EventRecords
        <3> QED BY <3>1, <3>2, <3>3
    <2>2. CASE e.event_type # "INVENTORY_COUNTED"
        <3>1. DeltaAvailable(s, e, k) = DeltaAvailable(t, e, k)
            BY <2>2, SameAvailable
        <3> QED BY <1>3, <3>1 DEF Ahead
    <2> QED BY <2>1, <2>2
<1>6. Ahead(UpdatedRow(s, e, k), UpdatedRow(t, e, k))
    BY <1>4, <1>5 DEF UpdatedRow, Ahead
<1> QED BY <1>1, <1>6, UpdatedTouched

-----------------------------------------------------------------------------
(* What the generator simulates, seen as an inventory, and the orders that *)
(* it sent as the orders of a store: an event that completes order o       *)
(* finds the items of o in the event numbered o.                           *)
ViewOf(position) == [available     |-> position.available,
                     reserved      |-> position.reserved_manual + position.reserved_order,
                     last_event_ts |-> 0,
                     supplier_id   |-> position.supplier_id]
SimView(s)       == [k \in Keys |-> IF k \in Positions THEN ViewOf(s[k]) ELSE EmptyRow]
SimStore(s, log) == [inventory |-> SimView(s), orders |-> log]

(* The simulated stock t is what event e makes of the simulated stock s.   *)
Mirrors(s, t, log, e) ==
    \A k \in Positions : Alike(UpdatedInventory(SimStore(s, log), e)[k], ViewOf(t[k]))

LEMMA ViewRow ==
    ASSUME NEW s \in Stocks, NEW log, NEW k \in Positions
    PROVE  /\ SimStore(s, log).inventory[k] = ViewOf(s[k])
           /\ SimStore(s, log).inventory[k].available = s[k].available
           /\ SimStore(s, log).inventory[k].reserved = s[k].reserved_manual + s[k].reserved_order
           /\ SimStore(s, log).inventory[k].supplier_id = s[k].supplier_id
           /\ ViewOf(s[k]) \in LooseRows
<1>1. k \in Keys
    BY PositionsFinite
<1>2. SimStore(s, log).inventory[k] = ViewOf(s[k])
    BY <1>1 DEF SimStore, SimView
<1>3. s[k] \in PositionRows
    BY DEF Stocks
<1>4. ViewOf(s[k]) \in LooseRows
    BY <1>3 DEF PositionRows, ViewOf, LooseRows
<1> QED BY <1>2, <1>4 DEF ViewOf

LEMMA ProductTouched ==
    ASSUME NEW s, NEW e, e.event_type \in ProductEventTypes
    PROVE  TouchedKeys(s, e) = {<<e.product_id, e.zone_id>>}
<1>1. e.event_type \notin {"PRODUCT_MOVED", "ORDER_CREATED"}
    BY DEF ProductEventTypes
<1>2. \A j : j \in TouchedKeys(s, e) => j = <<e.product_id, e.zone_id>>
    BY <1>1 DEF TouchedKeys
<1>3. <<e.product_id, e.zone_id>> \in TouchedKeys(s, e)
    BY <1>1 DEF TouchedKeys
<1> QED BY <1>2, <1>3

(* An event about one position changes that position as it would a row.    *)
LEMMA OneMirrored ==
    ASSUME NEW s \in Stocks, NEW t, NEW log, NEW k \in Positions,
           NEW e, e.event_type \in ProductEventTypes, <<e.product_id, e.zone_id>> = k,
           \A j \in Positions : j # k => t[j] = s[j],
           t[k].available = s[k].available + DeltaAvailable(SimStore(s, log), e, k),
           t[k].reserved_manual + t[k].reserved_order
              = s[k].reserved_manual + s[k].reserved_order + DeltaReserved(SimStore(s, log), e, k),
           t[k].supplier_id = NewSupplier(SimStore(s, log), e, k)
    PROVE  TouchedKeys(SimStore(s, log), e) = {k} /\ Mirrors(s, t, log, e)
<1>1. PICK store : store = SimStore(s, log)
    OBVIOUS
<1>2. TouchedKeys(store, e) = {k}
    BY ProductTouched
<1>3. /\ store.inventory[k].available = s[k].available
      /\ store.inventory[k].reserved = s[k].reserved_manual + s[k].reserved_order
    BY <1>1, ViewRow
<1>4. Alike(UpdatedRow(store, e, k), ViewOf(t[k]))
    BY <1>1, <1>3 DEF UpdatedRow, Alike, ViewOf
<1>5. ASSUME NEW j \in Positions
      PROVE  Alike(UpdatedInventory(store, e)[j], ViewOf(t[j]))
    <2>1. j \in Keys
        BY PositionsFinite
    <2>2. CASE j = k
        BY <1>2, <1>4, <2>1, <2>2, UpdatedTouched
    <2>3. CASE j # k
        <3>1. store.inventory[j] = ViewOf(s[j])
            BY <1>1, ViewRow
        <3>2. UpdatedInventory(store, e)[j] = ViewOf(s[j])
            BY <1>2, <2>1, <2>3, <3>1, UpdatedTouched
        <3> QED BY <2>3, <3>2 DEF Alike
    <2> QED BY <2>2, <2>3
<1> QED BY <1>1, <1>2, <1>5 DEF Mirrors

-----------------------------------------------------------------------------
(* What the generator's operations publish.  The event tells the consumer  *)
(* the change that the simulated stock went through.                       *)
Announced(e) ==
    /\ e.event_id = Now /\ e.occurred_at = Now
    /\ Placed(SimStore(sim, sent), e)
    /\ Mirrors(sim, sim', sent, e)
    /\ \/ e.event_type \notin OrderEventTypes /\ open' = open
       \/ /\ e.event_type = "ORDER_CREATED" /\ e.order_id = Now
          /\ open' = [open EXCEPT ![Now] = e.items]
       \/ /\ e.event_type = "ORDER_COMPLETED" /\ e.order_id \in OrderIds
          /\ open[e.order_id] # <<>> /\ open' = [open EXCEPT ![e.order_id] = <<>>]

LEMMA PositionFields ==
    ASSUME NEW type, NEW k \in Positions, NEW n
    PROVE  LET e == PositionEvent(type, k, n)
           IN  /\ e.event_type = type /\ e.event_id = Now /\ e.occurred_at = Now
               /\ e.product_id = k[1] /\ e.zone_id = k[2] /\ e.quantity = n
BY DEF PositionEvent, EventOf

LEMMA OneAnnounced ==
    ASSUME TypeOK, NEW k \in Positions, NEW e \in EventRecords,
           e.event_id = Now, e.occurred_at = Now,
           e.event_type \in ProductEventTypes, e.product_id = k[1], e.zone_id = k[2],
           e.event_type = "INVENTORY_COUNTED" => e.counted_quantity >= 0,
           e.event_type # "INVENTORY_COUNTED" => e.quantity > 0,
           open' = open, \A j \in Positions : j # k => sim'[j] = sim[j],
           sim'[k].available = sim[k].available + DeltaAvailable(SimStore(sim, sent), e, k),
           sim'[k].reserved_manual + sim'[k].reserved_order
              = sim[k].reserved_manual + sim[k].reserved_order
                  + DeltaReserved(SimStore(sim, sent), e, k),
           sim'[k].supplier_id = NewSupplier(SimStore(sim, sent), e, k)
    PROVE  Announced(e)
<1>1. sim \in Stocks
    BY RowOf
<1>2. k[1] \in Products /\ k[2] \in Zones /\ k = <<k[1], k[2]>>
    BY DEF Positions
<1>3. k[1] # NoText /\ k[2] # NoText
    BY <1>2, ZonesAreKnown, NoTextIsNoId
<1>4. <<e.product_id, e.zone_id>> = k
    BY <1>2
<1>5. PICK t : t = sim'
    OBVIOUS
<1>6. TouchedKeys(SimStore(sim, sent), e) = {k} /\ Mirrors(sim, t, sent, e)
    BY <1>1, <1>4, <1>5, OneMirrored
<1>7. e.event_type \notin OrderEventTypes \cup {"PRODUCT_MOVED"}
    BY DEF ProductEventTypes, OrderEventTypes
<1>8. WellFormed(e)
    BY <1>3, <1>7 DEF WellFormed, EventTypes, OrderEventTypes
<1>9. Placed(SimStore(sim, sent), e)
    BY <1>6, <1>7, <1>8 DEF Placed, OrderEventTypes
<1> QED BY <1>5, <1>6, <1>7, <1>9 DEF Announced

LEMMA ReceiveAnnounced ==
    ASSUME TypeOK, Len(sent) < MaxEvents, Receive
    PROVE  \E e \in EventRecords : Announced(e) /\ Publish(e)
<1>1. PICK p \in Products, z \in ReceivingZones, size \in Sizes["receive"], s \in Suppliers :
        LET k == <<p, z>>
            n == Smaller(size, Remaining(z))
        IN  /\ sim' = [sim EXCEPT ![k].available = @ + n, ![k].supplier_id = s]
            /\ UNCHANGED open
            /\ Publish([PositionEvent("PRODUCT_RECEIVED", k, n) EXCEPT !.supplier_id = s])
    BY DEF Receive
<1>2. z \in Zones /\ Remaining(z) > 0
    BY TableHasTheZones, ElementOfSeq, LenProperties DEF ReceivingZones
<1>3. PICK k \in Positions : k = <<p, z>>
    BY <1>2 DEF Positions
<1>4. PICK n : n = Smaller(size, Remaining(z))
    OBVIOUS
<1>5. PICK e : e = [PositionEvent("PRODUCT_RECEIVED", k, n) EXCEPT !.supplier_id = s]
    OBVIOUS
<1>6. /\ sim' = [sim EXCEPT ![k].available = @ + n, ![k].supplier_id = s]
      /\ open' = open /\ Publish(e)
    BY <1>1, <1>3, <1>4, <1>5
<1>7. n \in Int /\ n > 0
    <2>1. LoadOf(sim, z) \in Int /\ Capacity[z] \in Nat /\ ZoneLoad(z) = LoadOf(sim, z)
        BY <1>2, <1>3, RowOf, ZoneLoadIsLoadOf, LoadIsInt, ZonesAreKnown
    <2>2. Remaining(z) \in Int
        BY <2>1 DEF Remaining
    <2>3. size \in Nat /\ size > 0
        BY SizeTyped DEF Sized
    <2> QED BY <1>2, <1>4, <2>2, <2>3 DEF Smaller
<1>8. PICK b \in EventRecords : b = PositionEvent("PRODUCT_RECEIVED", k, n)
    BY <1>7, PositionEventTyped DEF EventTypes, ProductEventTypes
<1>9. /\ b.event_type = "PRODUCT_RECEIVED" /\ b.event_id = Now /\ b.occurred_at = Now
      /\ b.product_id = k[1] /\ b.zone_id = k[2] /\ b.quantity = n
    BY <1>8, PositionFields
<1>10. /\ e \in EventRecords /\ e.event_type = "PRODUCT_RECEIVED"
       /\ e.event_id = Now /\ e.occurred_at = Now
       /\ e.product_id = k[1] /\ e.zone_id = k[2] /\ e.quantity = n /\ e.supplier_id = s
    BY <1>5, <1>8, <1>9 DEF EventRecords
<1>11. sim \in Stocks /\ sim[k] \in PositionRows
    BY RowOf
<1>12. /\ sim'[k].available = sim[k].available + n /\ sim'[k].supplier_id = s
       /\ sim'[k].reserved_manual = sim[k].reserved_manual
       /\ sim'[k].reserved_order = sim[k].reserved_order
       /\ \A j \in Positions : j # k => sim'[j] = sim[j]
    BY <1>6, <1>11 DEF Stocks, PositionRows
<1>13. /\ DeltaAvailable(SimStore(sim, sent), e, k) = n
       /\ DeltaReserved(SimStore(sim, sent), e, k) = 0
       /\ NewSupplier(SimStore(sim, sent), e, k) = s
    BY <1>10 DEF DeltaAvailable, DeltaReserved, NewSupplier
<1>14. sim[k].reserved_manual \in Nat /\ sim[k].reserved_order \in Nat
    BY RowOf
<1>15. Announced(e)
    <2>1. "PRODUCT_RECEIVED" \in ProductEventTypes
        BY DEF ProductEventTypes
    <2>2. sim[k].reserved_manual + sim[k].reserved_order
            = sim[k].reserved_manual + sim[k].reserved_order + 0
        BY <1>14
    <2> QED BY <1>6, <1>7, <1>10, <1>12, <1>13, <2>1, <2>2, OneAnnounced
<1> QED BY <1>6, <1>10, <1>15

(* Shipping, reserving and releasing a quantity n of position k.           *)
LEMMA ShiftAnnounced ==
    ASSUME TypeOK, Len(sent) < MaxEvents, NEW k \in Positions, NEW n \in Nat, n > 0,
           NEW type \in {"PRODUCT_SHIPPED", "PRODUCT_RESERVED", "PRODUCT_RELEASED"},
           open' = open, \A j \in Positions : j # k => sim'[j] = sim[j],
           sim'[k].available = IF type = "PRODUCT_RELEASED" THEN sim[k].available + n
                               ELSE sim[k].available - n,
           sim'[k].reserved_manual =
              CASE type = "PRODUCT_RESERVED" -> sim[k].reserved_manual + n
                [] type = "PRODUCT_RELEASED" -> sim[k].reserved_manual - n
                [] OTHER -> sim[k].reserved_manual,
           sim'[k].reserved_order = sim[k].reserved_order, sim'[k].supplier_id = sim[k].supplier_id
    PROVE  /\ PositionEvent(type, k, n) \in EventRecords
           /\ Announced(PositionEvent(type, k, n))
<1>1. PICK e \in EventRecords : e = PositionEvent(type, k, n)
    <2>1. n \in Int /\ type \in EventTypes
        BY DEF EventTypes, ProductEventTypes
    <2> QED BY <2>1, PositionEventTyped
<1>2. /\ e.event_type = type /\ e.event_id = Now /\ e.occurred_at = Now
      /\ e.product_id = k[1] /\ e.zone_id = k[2] /\ e.quantity = n
    BY <1>1, PositionFields
<1>3. /\ sim[k].reserved_manual \in Nat /\ sim[k].reserved_order \in Nat /\ sim[k].available \in Int
      /\ sim \in Stocks
    BY RowOf
<1>4. NewSupplier(SimStore(sim, sent), e, k) = sim[k].supplier_id
    <2>1. SimStore(sim, sent).inventory[k].supplier_id = sim[k].supplier_id
        BY <1>3, ViewRow
    <2> QED BY <1>2, <2>1 DEF NewSupplier
<1>5. type \in ProductEventTypes /\ type # "INVENTORY_COUNTED"
    BY DEF ProductEventTypes
<1>6. sim'[k].reserved_manual + sim'[k].reserved_order
        = sim[k].reserved_manual + sim[k].reserved_order + DeltaReserved(SimStore(sim, sent), e, k)
    <2>1. CASE type = "PRODUCT_SHIPPED"
        BY <1>2, <1>3, <2>1 DEF DeltaReserved
    <2>2. CASE type = "PRODUCT_RESERVED"
        BY <1>2, <1>3, <2>2 DEF DeltaReserved
    <2>3. CASE type = "PRODUCT_RELEASED"
        BY SMTT(30), <1>2, <1>3, <2>3 DEF DeltaReserved
    <2> QED BY <2>1, <2>2, <2>3
<1>7. sim'[k].available = sim[k].available + DeltaAvailable(SimStore(sim, sent), e, k)
    <2>1. CASE type = "PRODUCT_RELEASED"
        BY <1>2, <1>3, <2>1 DEF DeltaAvailable
    <2>2. CASE type \in {"PRODUCT_SHIPPED", "PRODUCT_RESERVED"}
        BY <1>2, <1>3, <2>2 DEF DeltaAvailable
    <2> QED BY <2>1, <2>2
<1>8. Announced(e)
    BY <1>2, <1>4, <1>5, <1>6, <1>7, OneAnnounced
<1> QED BY <1>1, <1>8

LEMMA ShipAnnounced ==
    ASSUME TypeOK, Len(sent) < MaxEvents, Ship
    PROVE  \E e \in EventRecords : Announced(e) /\ Publish(e)
<1>1. PICK k \in PickAvailable("ship"), n \in Sizes["ship"] :
        /\ sim' = [sim EXCEPT ![k].available = @ - n]
        /\ open' = open
        /\ Publish(PositionEvent("PRODUCT_SHIPPED", k, n))
    BY DEF Ship
<1>2. k \in Positions /\ n \in Nat /\ n > 0
    BY SizeTyped DEF PickAvailable, Sized
<1>3. sim \in Stocks /\ sim[k] \in PositionRows
    BY <1>2, RowOf
<1>4. /\ sim'[k].available = sim[k].available - n
      /\ sim'[k].reserved_manual = sim[k].reserved_manual
      /\ sim'[k].reserved_order = sim[k].reserved_order
      /\ sim'[k].supplier_id = sim[k].supplier_id
      /\ \A j \in Positions : j # k => sim'[j] = sim[j]
    BY <1>1, <1>2, <1>3 DEF Stocks, PositionRows
<1>5. /\ PositionEvent("PRODUCT_SHIPPED", k, n) \in EventRecords
      /\ Announced(PositionEvent("PRODUCT_SHIPPED", k, n))
    BY <1>1, <1>2, <1>4, ShiftAnnounced
<1> QED BY <1>1, <1>5

LEMMA ReserveAnnounced ==
    ASSUME TypeOK, Len(sent) < MaxEvents, Reserve
    PROVE  \E e \in EventRecords : Announced(e) /\ Publish(e)
<1>1. PICK k \in PickAvailable("reserve"), n \in Sizes["reserve"] :
        /\ sim' = [sim EXCEPT ![k].available = @ - n, ![k].reserved_manual = @ + n]
        /\ open' = open
        /\ Publish(PositionEvent("PRODUCT_RESERVED", k, n))
    BY DEF Reserve
<1>2. k \in Positions /\ n \in Nat /\ n > 0
    BY SizeTyped DEF PickAvailable, Sized
<1>3. sim \in Stocks /\ sim[k] \in PositionRows
    BY <1>2, RowOf
<1>4. /\ sim'[k].available = sim[k].available - n
      /\ sim'[k].reserved_manual = sim[k].reserved_manual + n
      /\ sim'[k].reserved_order = sim[k].reserved_order
      /\ sim'[k].supplier_id = sim[k].supplier_id
      /\ \A j \in Positions : j # k => sim'[j] = sim[j]
    BY <1>1, <1>2, <1>3 DEF Stocks, PositionRows
<1>5. /\ PositionEvent("PRODUCT_RESERVED", k, n) \in EventRecords
      /\ Announced(PositionEvent("PRODUCT_RESERVED", k, n))
    BY <1>1, <1>2, <1>4, ShiftAnnounced
<1> QED BY <1>1, <1>5

LEMMA ReleaseAnnounced ==
    ASSUME TypeOK, Len(sent) < MaxEvents, Release
    PROVE  \E e \in EventRecords : Announced(e) /\ Publish(e)
<1>1. PICK k \in PickReserved, n \in Sizes["release"] :
        /\ sim' = [sim EXCEPT ![k].available = @ + n, ![k].reserved_manual = @ - n]
        /\ open' = open
        /\ Publish(PositionEvent("PRODUCT_RELEASED", k, n))
    BY DEF Release
<1>2. k \in Positions /\ n \in Nat /\ n > 0
    BY SizeTyped DEF PickReserved, Sized
<1>3. sim \in Stocks /\ sim[k] \in PositionRows
    BY <1>2, RowOf
<1>4. /\ sim'[k].available = sim[k].available + n
      /\ sim'[k].reserved_manual = sim[k].reserved_manual - n
      /\ sim'[k].reserved_order = sim[k].reserved_order
      /\ sim'[k].supplier_id = sim[k].supplier_id
      /\ \A j \in Positions : j # k => sim'[j] = sim[j]
    BY <1>1, <1>2, <1>3 DEF Stocks, PositionRows
<1>5. /\ PositionEvent("PRODUCT_RELEASED", k, n) \in EventRecords
      /\ Announced(PositionEvent("PRODUCT_RELEASED", k, n))
    BY <1>1, <1>2, <1>4, ShiftAnnounced
<1> QED BY <1>1, <1>5

LEMMA CountAnnounced ==
    ASSUME TypeOK, Len(sent) < MaxEvents, NEW k \in Positions, NEW n \in Nat, ApplyCount(k, n)
    PROVE  \E e \in EventRecords : Announced(e) /\ Publish(e)
<1>1. PICK e : e = [PositionEvent("INVENTORY_COUNTED", k, 0) EXCEPT !.counted_quantity = n]
    OBVIOUS
<1>2. sim' = [sim EXCEPT ![k].available = n] /\ open' = open /\ Publish(e)
    BY <1>1 DEF ApplyCount
<1>3. sim \in Stocks /\ sim[k] \in PositionRows
    BY RowOf
<1>4. /\ sim'[k].available = n
      /\ sim'[k].reserved_manual = sim[k].reserved_manual
      /\ sim'[k].reserved_order = sim[k].reserved_order
      /\ sim'[k].supplier_id = sim[k].supplier_id
      /\ \A j \in Positions : j # k => sim'[j] = sim[j]
    BY <1>2, <1>3 DEF Stocks, PositionRows
<1>5. PICK b \in EventRecords : b = PositionEvent("INVENTORY_COUNTED", k, 0)
    <2>1. 0 \in Int /\ "INVENTORY_COUNTED" \in EventTypes
        BY DEF EventTypes, ProductEventTypes
    <2> QED BY <2>1, PositionEventTyped
<1>6. /\ b.event_type = "INVENTORY_COUNTED" /\ b.event_id = Now /\ b.occurred_at = Now
      /\ b.product_id = k[1] /\ b.zone_id = k[2]
    BY <1>5, PositionFields
<1>7. /\ e \in EventRecords /\ e.event_type = "INVENTORY_COUNTED"
      /\ e.event_id = Now /\ e.occurred_at = Now
      /\ e.product_id = k[1] /\ e.zone_id = k[2] /\ e.counted_quantity = n
    BY <1>1, <1>5, <1>6 DEF EventRecords
<1>8. /\ sim[k].available \in Int /\ sim[k].reserved_manual \in Nat /\ sim[k].reserved_order \in Nat
    BY RowOf
<1>9. /\ SimStore(sim, sent).inventory[k].supplier_id = sim[k].supplier_id
      /\ SimStore(sim, sent).inventory[k].available = sim[k].available
    BY <1>3, ViewRow
<1>10. /\ DeltaAvailable(SimStore(sim, sent), e, k) = n - sim[k].available
       /\ DeltaReserved(SimStore(sim, sent), e, k) = 0
       /\ NewSupplier(SimStore(sim, sent), e, k) = sim[k].supplier_id
    BY <1>7, <1>9 DEF DeltaAvailable, DeltaReserved, NewSupplier
<1>11. /\ sim'[k].available = sim[k].available + DeltaAvailable(SimStore(sim, sent), e, k)
       /\ sim'[k].reserved_manual + sim'[k].reserved_order
            = sim[k].reserved_manual + sim[k].reserved_order
                + DeltaReserved(SimStore(sim, sent), e, k)
       /\ sim'[k].supplier_id = NewSupplier(SimStore(sim, sent), e, k)
    BY <1>4, <1>8, <1>10
<1>12. Announced(e)
    BY <1>2, <1>4, <1>7, <1>11, OneAnnounced DEF ProductEventTypes
<1> QED BY <1>2, <1>7, <1>12

LEMMA MoveFields ==
    ASSUME TypeOK, Len(sent) < MaxEvents, NEW k \in Positions, NEW to \in Zones, NEW n \in Int
    PROVE  LET e == MoveEvent(k[1], k[2], to, n)
           IN  /\ e \in EventRecords /\ e.event_type = "PRODUCT_MOVED"
               /\ e.event_id = Now /\ e.occurred_at = Now
               /\ e.product_id = k[1] /\ e.from_zone_id = k[2] /\ e.to_zone_id = to
               /\ e.quantity = n
<1>1. EventOf("PRODUCT_MOVED") \in EventRecords
    BY EventOfTyped DEF EventTypes
<1>2. k[1] \in Products /\ k[2] \in ZoneIds /\ to \in ZoneIds
    BY ZonesAreKnown DEF Positions
<1>3. MoveEvent(k[1], k[2], to, n) \in EventRecords
    BY <1>1, <1>2 DEF MoveEvent, EventRecords
<1> QED BY <1>3 DEF MoveEvent, EventOf

LEMMA MovedTouched ==
    ASSUME NEW s, NEW e, e.event_type = "PRODUCT_MOVED"
    PROVE  TouchedKeys(s, e) = {<<e.product_id, e.from_zone_id>>, <<e.product_id, e.to_zone_id>>}
BY DEF TouchedKeys, ProductEventTypes

LEMMA MoveAnnounced ==
    ASSUME TypeOK, Len(sent) < MaxEvents, Move
    PROVE  \E e \in EventRecords : Announced(e) /\ Publish(e)
<1>1. PICK k \in PickAvailable("move"), to \in Zones, size \in Sizes["move"] :
        LET target == <<k[1], to>>
            n == Smaller(Smaller(size, sim[k].available), Remaining(to))
        IN  /\ to # k[2] /\ n > 0
            /\ sim' = [sim EXCEPT ![k].available = @ - n,
                                  ![target].available = @ + n,
                                  ![target].supplier_id =
                                        IF @ = NoText THEN sim[k].supplier_id ELSE @]
            /\ UNCHANGED open
            /\ Publish(MoveEvent(k[1], k[2], to, n))
    BY DEF Move
<1>2. PICK target : target = <<k[1], to>>
    OBVIOUS
<1>3. PICK n : n = Smaller(Smaller(size, sim[k].available), Remaining(to))
    OBVIOUS
<1>4. PICK e : e = MoveEvent(k[1], k[2], to, n)
    OBVIOUS
<1>5. /\ to # k[2] /\ n > 0
      /\ sim' = [sim EXCEPT ![k].available = @ - n,
                            ![target].available = @ + n,
                            ![target].supplier_id =
                                  IF @ = NoText THEN sim[k].supplier_id ELSE @]
      /\ open' = open /\ Publish(e)
    BY <1>1, <1>2, <1>3, <1>4
<1>6. /\ k \in Positions /\ target \in Positions /\ target # k /\ target[2] = to
      /\ k[1] \in Products /\ k[2] \in Zones /\ k = <<k[1], k[2]>>
    BY <1>2, <1>5 DEF PickAvailable, Positions
<1>7. /\ sim \in Stocks /\ sim[k] \in PositionRows /\ sim[target] \in PositionRows
    BY <1>6, RowOf
<1>8. sim[k].available \in Int /\ sim[target].available \in Int
    BY <1>6, RowOf
<1>9. n \in Int
    <2>1. LoadOf(sim, to) \in Int /\ Capacity[to] \in Nat /\ ZoneLoad(to) = LoadOf(sim, to)
        BY <1>7, ZoneLoadIsLoadOf, LoadIsInt, ZonesAreKnown
    <2>2. Remaining(to) \in Int
        BY <2>1 DEF Remaining
    <2>3. size \in Nat
        BY SizeTyped DEF Sized
    <2> QED BY <1>3, <1>8, <2>2, <2>3 DEF Smaller
<1>10. /\ e \in EventRecords /\ e.event_type = "PRODUCT_MOVED"
       /\ e.event_id = Now /\ e.occurred_at = Now
       /\ e.product_id = k[1] /\ e.from_zone_id = k[2] /\ e.to_zone_id = to /\ e.quantity = n
    BY <1>4, <1>6, <1>9, MoveFields
<1>11. PICK t : t = sim'
    OBVIOUS
<1>12. /\ t[k].available = sim[k].available - n
       /\ t[k].reserved_manual = sim[k].reserved_manual
       /\ t[k].reserved_order = sim[k].reserved_order
       /\ t[k].supplier_id = sim[k].supplier_id
       /\ t[target].available = sim[target].available + n
       /\ t[target].reserved_manual = sim[target].reserved_manual
       /\ t[target].reserved_order = sim[target].reserved_order
       /\ t[target].supplier_id = IF sim[target].supplier_id = NoText THEN sim[k].supplier_id
                                  ELSE sim[target].supplier_id
       /\ \A j \in Positions : j \notin {k, target} => t[j] = sim[j]
    BY <1>5, <1>6, <1>7, <1>11 DEF Stocks, PositionRows
<1>13. PICK store : store = SimStore(sim, sent)
    OBVIOUS
<1>14. TouchedKeys(store, e) = {k, target}
    BY <1>2, <1>6, <1>10, MovedTouched
<1>15. /\ store.inventory[k] = ViewOf(sim[k])
       /\ store.inventory[target] = ViewOf(sim[target])
    BY <1>6, <1>7, <1>13, ViewRow
<1>16. Alike(UpdatedRow(store, e, k), ViewOf(t[k]))
    <2>1. DeltaAvailable(store, e, k) = -n /\ DeltaReserved(store, e, k) = 0
        BY <1>10 DEF DeltaAvailable, DeltaReserved
    <2>2. NewSupplier(store, e, k) = store.inventory[k].supplier_id
        BY <1>5, <1>10 DEF NewSupplier
    <2>3. sim[k].reserved_manual + sim[k].reserved_order \in Int
        BY <1>6, RowOf
    <2> QED BY <1>8, <1>9, <1>12, <1>15, <2>1, <2>2, <2>3 DEF UpdatedRow, Alike, ViewOf
<1>17. Alike(UpdatedRow(store, e, target), ViewOf(t[target]))
    <2>1. DeltaAvailable(store, e, target) = n /\ DeltaReserved(store, e, target) = 0
        BY <1>5, <1>6, <1>10 DEF DeltaAvailable, DeltaReserved
    <2>2. NewSupplier(store, e, target) = IF store.inventory[target].supplier_id = NoText
                                          THEN store.inventory[k].supplier_id
                                          ELSE store.inventory[target].supplier_id
        BY <1>6, <1>10 DEF NewSupplier
    <2>3. sim[target].reserved_manual + sim[target].reserved_order \in Int
        BY <1>6, RowOf
    <2> QED BY <1>12, <1>15, <2>1, <2>2, <2>3 DEF UpdatedRow, Alike, ViewOf
<1>18. Mirrors(sim, t, sent, e)
    <2>1. ASSUME NEW j \in Positions
          PROVE  Alike(UpdatedInventory(store, e)[j], ViewOf(t[j]))
        <3>1. j \in Keys
            BY PositionsFinite
        <3>2. CASE j \in {k, target}
            BY <1>14, <1>16, <1>17, <3>1, <3>2, UpdatedTouched
        <3>3. CASE j \notin {k, target}
            <4>1. UpdatedInventory(store, e)[j] = store.inventory[j]
                BY <1>14, <3>1, <3>3, UpdatedTouched
            <4>2. store.inventory[j] = ViewOf(sim[j])
                BY <1>7, <1>13, ViewRow
            <4> QED BY <1>12, <3>3, <4>1, <4>2 DEF Alike
        <3> QED BY <3>2, <3>3
    <2> QED BY <1>13, <2>1 DEF Mirrors
<1>19. WellFormed(e)
    <2>1. k[1] # NoText /\ k[2] # NoText /\ to # NoText
        BY <1>6, ZonesAreKnown, NoTextIsNoId
    <2> QED BY <1>5, <1>10, <2>1 DEF WellFormed, EventTypes, ProductEventTypes, OrderEventTypes
<1>20. Placed(store, e)
    BY <1>6, <1>10, <1>14, <1>19 DEF Placed
<1>21. Announced(e)
    BY <1>5, <1>10, <1>11, <1>13, <1>18, <1>20 DEF Announced, OrderEventTypes
<1> QED BY <1>5, <1>10, <1>21

(* An order takes nothing from a position that none of its lines names.    *)
LEMMA NotAsked ==
    ASSUME NEW items, NEW k, k \notin ItemKeys(items)
    PROVE  GroupedQuantity(items, k) = 0
<1>1. {i \in DOMAIN items : <<items[i].product_id, items[i].zone_id>> = k} = {}
    BY DEF ItemKeys
<1> QED BY <1>1, SumEmpty DEF GroupedQuantity

(* The id of the order is a new one, unless the generator has used it.     *)
LEMMA CreateAnnounced ==
    ASSUME TypeOK, Len(sent) < MaxEvents, CreateOrder, ~collided'
    PROVE  \E e \in EventRecords : Announced(e) /\ Publish(e)
<1>1. PICK items \in OrderItems :
        /\ sim' = [k \in Positions |->
                      [sim[k] EXCEPT !.available = @ - GroupedQuantity(items, k),
                                     !.reserved_order = @ + GroupedQuantity(items, k)]]
        /\ open' = [open EXCEPT ![Now] = items]
        /\ Publish([EventOf("ORDER_CREATED") EXCEPT !.order_id = Now, !.items = items])
    <2>1. PICK items \in OrderItems, o \in OrderIdsDrawn :
            /\ sim' = [k \in Positions |->
                          [sim[k] EXCEPT !.available = @ - GroupedQuantity(items, k),
                                         !.reserved_order = @ + GroupedQuantity(items, k)]]
            /\ open' = [open EXCEPT ![o] = items]
            /\ Publish([EventOf("ORDER_CREATED") EXCEPT !.order_id = o, !.items = items])
        BY DEF CreateOrder
    <2>2. PICK created :
            created = [EventOf("ORDER_CREATED") EXCEPT !.order_id = o, !.items = items]
        OBVIOUS
    <2>3. created.event_type = "ORDER_CREATED" /\ created.order_id = o
        BY <2>2 DEF EventOf
    <2>4. Publish(created)
        BY <2>1, <2>2
    <2>5. o = Now
        BY <2>3, <2>4 DEF Publish
    <2> QED BY <2>1, <2>5
<1>2. PICK e : e = [EventOf("ORDER_CREATED") EXCEPT !.order_id = Now, !.items = items]
    OBVIOUS
<1>3. /\ items \in Seq(Items) /\ ItemsWellFormed(items) /\ ItemKeys(items) \subseteq Positions
    BY DrawnItems DEF ItemKeys
<1>4. \A k : GroupedQuantity(items, k) \in Nat
    BY <1>3, GroupedItems
<1>5. /\ e \in EventRecords /\ e.event_type = "ORDER_CREATED"
      /\ e.event_id = Now /\ e.occurred_at = Now /\ e.order_id = Now /\ e.items = items
    <2>1. EventOf("ORDER_CREATED") \in EventRecords /\ Now \in OrderIds
        BY NowIsNew, EventOfTyped DEF EventTypes, OrderEventTypes
    <2> QED BY <1>2, <1>3, <2>1 DEF EventRecords, EventOf
<1>6. sim \in Stocks
    BY <1>1, DrawnItems DEF TypeOK, Stocks, PositionRows
<1>7. PICK t : t = sim'
    OBVIOUS
<1>8. PICK store : store = SimStore(sim, sent)
    OBVIOUS
<1>9. TouchedKeys(store, e) = ItemKeys(items)
    BY <1>5 DEF TouchedKeys, ProductEventTypes
<1>10. ASSUME NEW k \in Positions
       PROVE  Alike(UpdatedInventory(store, e)[k], ViewOf(t[k]))
    <2>1. PICK n \in Nat : n = GroupedQuantity(items, k)
        BY <1>4
    <2>2. PICK old \in PositionRows : old = sim[k]
        BY RowOf
    <2>3. t[k] = [old EXCEPT !.available = @ - n, !.reserved_order = @ + n]
        BY <1>1, <1>7, <2>1, <2>2
    <2>4. /\ t[k].available = old.available - n /\ t[k].reserved_order = old.reserved_order + n
          /\ t[k].reserved_manual = old.reserved_manual /\ t[k].supplier_id = old.supplier_id
          /\ old.available \in Int /\ old.reserved_manual \in Nat /\ old.reserved_order \in Nat
        BY <2>2, <2>3 DEF PositionRows
    <2>5. store.inventory[k] = ViewOf(old) /\ k \in Keys
        BY <1>6, <1>8, <2>2, ViewRow, PositionsFinite
    <2>6. CASE k \in ItemKeys(items)
        <3>1. /\ DeltaAvailable(store, e, k) = -n /\ DeltaReserved(store, e, k) = n
              /\ NewSupplier(store, e, k) = store.inventory[k].supplier_id
            BY <1>5, <2>1 DEF DeltaAvailable, DeltaReserved, NewSupplier
        <3>2. Alike(UpdatedRow(store, e, k), ViewOf(t[k]))
            BY <2>4, <2>5, <3>1 DEF UpdatedRow, Alike, ViewOf
        <3> QED BY <1>9, <2>5, <2>6, <3>2, UpdatedTouched
    <2>7. CASE k \notin ItemKeys(items)
        <3>1. n = 0
            BY <2>1, <2>7, NotAsked
        <3>2. UpdatedInventory(store, e)[k] = ViewOf(old)
            BY <1>9, <2>5, <2>7, UpdatedTouched
        <3> QED BY <2>4, <3>1, <3>2 DEF Alike, ViewOf
    <2> QED BY <2>6, <2>7
<1>11. WellFormed(e)
    <2>1. Now # NoText
        BY NowIsNew, NoTextIsNoId
    <2> QED BY <1>3, <1>5, <2>1 DEF WellFormed, EventTypes, ProductEventTypes, OrderEventTypes
<1>12. Placed(store, e)
    BY <1>3, <1>5, <1>9, <1>11 DEF Placed
<1>13. Mirrors(sim, t, sent, e)
    BY <1>8, <1>10 DEF Mirrors
<1>14. Announced(e)
    BY <1>1, <1>5, <1>7, <1>8, <1>12, <1>13 DEF Announced
<1> QED BY <1>1, <1>2, <1>5, <1>14

LEMMA CompleteAnnounced ==
    ASSUME GenInv, Len(sent) < MaxEvents, CompleteOrder,
           \A o \in OrderIds : open[o] # <<>> =>
              sent[o].items = open[o] /\ ItemKeys(open[o]) \subseteq Positions
    PROVE  \E e \in EventRecords : Announced(e) /\ Publish(e)
<1>1. PICK o \in OrderIds :
        /\ open[o] # <<>>
        /\ sim' = [k \in Positions |->
                      [sim[k] EXCEPT !.reserved_order = @ - GroupedQuantity(open[o], k)]]
        /\ open' = [open EXCEPT ![o] = <<>>]
        /\ Publish([EventOf("ORDER_COMPLETED") EXCEPT !.order_id = o])
    BY DEF CompleteOrder
<1>2. PICK e : e = [EventOf("ORDER_COMPLETED") EXCEPT !.order_id = o]
    OBVIOUS
<1>3. TypeOK /\ open \in [OrderIds -> Seq(Items)]
    BY DEF GenInv, TypeOK
<1>4. PICK items \in Seq(Items) :
        items = open[o] /\ ItemsWellFormed(items) /\ ItemKeys(items) \subseteq Positions
           /\ sent[o].items = items
    BY <1>1, <1>3 DEF GenInv, OpenWellFormed
<1>5. \A k : GroupedQuantity(items, k) \in Nat
    BY <1>4, GroupedItems
<1>6. /\ e \in EventRecords /\ e.event_type = "ORDER_COMPLETED"
      /\ e.event_id = Now /\ e.occurred_at = Now /\ e.order_id = o
    <2>1. EventOf("ORDER_COMPLETED") \in EventRecords
        BY <1>3, EventOfTyped DEF EventTypes, OrderEventTypes
    <2> QED BY <1>2, <2>1 DEF EventRecords, EventOf
<1>7. sim \in Stocks
    BY <1>3 DEF TypeOK, Stocks, PositionRows
<1>8. PICK t : t = sim'
    OBVIOUS
<1>9. PICK store : store = SimStore(sim, sent)
    OBVIOUS
<1>10. store.orders[e.order_id].items = items
    BY <1>4, <1>6, <1>9 DEF SimStore
<1>11. TouchedKeys(store, e) = ItemKeys(items)
    BY <1>6, <1>10 DEF TouchedKeys, ProductEventTypes
<1>12. ASSUME NEW k \in Positions
       PROVE  Alike(UpdatedInventory(store, e)[k], ViewOf(t[k]))
    <2>1. PICK n \in Nat : n = GroupedQuantity(items, k)
        BY <1>5
    <2>2. PICK old \in PositionRows : old = sim[k]
        BY <1>3, RowOf
    <2>3. t[k] = [old EXCEPT !.reserved_order = @ - n]
        BY <1>1, <1>4, <1>8, <2>1, <2>2
    <2>4. /\ t[k].available = old.available /\ t[k].reserved_order = old.reserved_order - n
          /\ t[k].reserved_manual = old.reserved_manual /\ t[k].supplier_id = old.supplier_id
          /\ old.available \in Int /\ old.reserved_manual \in Nat /\ old.reserved_order \in Nat
        BY <2>2, <2>3 DEF PositionRows
    <2>5. store.inventory[k] = ViewOf(old) /\ k \in Keys
        BY <1>7, <1>9, <2>2, ViewRow, PositionsFinite
    <2>6. CASE k \in ItemKeys(items)
        <3>1. /\ DeltaAvailable(store, e, k) = 0 /\ DeltaReserved(store, e, k) = -n
              /\ NewSupplier(store, e, k) = store.inventory[k].supplier_id
            BY <1>6, <1>10, <2>1 DEF DeltaAvailable, DeltaReserved, NewSupplier
        <3>2. Alike(UpdatedRow(store, e, k), ViewOf(t[k]))
            BY <2>4, <2>5, <3>1 DEF UpdatedRow, Alike, ViewOf
        <3> QED BY <1>11, <2>5, <2>6, <3>2, UpdatedTouched
    <2>7. CASE k \notin ItemKeys(items)
        <3>1. n = 0
            BY <2>1, <2>7, NotAsked
        <3>2. UpdatedInventory(store, e)[k] = ViewOf(old)
            BY <1>11, <2>5, <2>7, UpdatedTouched
        <3> QED BY <2>4, <3>1, <3>2 DEF Alike, ViewOf
    <2> QED BY <2>6, <2>7
<1>13. WellFormed(e)
    <2>1. o # NoText
        BY NoTextIsNoId
    <2> QED BY <1>6, <2>1 DEF WellFormed, EventTypes, ProductEventTypes, OrderEventTypes
<1>14. Placed(store, e)
    BY <1>4, <1>10, <1>11, <1>13 DEF Placed
<1>15. Mirrors(sim, t, sent, e)
    BY <1>9, <1>12 DEF Mirrors
<1>16. Announced(e)
    BY <1>1, <1>6, <1>8, <1>9, <1>14, <1>15 DEF Announced
<1> QED BY <1>1, <1>2, <1>6, <1>16

LEMMA OperateAnnounced ==
    ASSUME GenInv, Operate, ~collided',
           \A o \in OrderIds : open[o] # <<>> =>
              sent[o].items = open[o] /\ ItemKeys(open[o]) \subseteq Positions
    PROVE  \E e \in EventRecords : Announced(e) /\ Publish(e)
<1>1. Len(sent) < MaxEvents /\ TypeOK
    BY DEF Operate, GenInv
<1>2. CASE Count
    <2>1. PICK k \in Positions, delta \in CountDeltas : ApplyCount(k, Counted(k, delta))
        BY <1>2 DEF Count
    <2>2. Counted(k, delta) \in Nat
        <3>1. sim[k].available \in Int /\ delta \in Int
            BY <1>1, RowOf, SizesArePositive
        <3> QED BY <3>1 DEF Counted
    <2> QED BY <1>1, <2>1, <2>2, CountAnnounced
<1>3. CASE CountAsEmpty
    <2>1. PICK k : k = <<FirstProduct, ZoneOrder[1]>>
        OBVIOUS
    <2>2. k \in Positions
        <3>1. ZoneOrder \in Seq(Zones) /\ ZoneOrder # <<>>
            BY TableHasTheZones, EmptySeq
        <3>2. ZoneOrder[1] \in Zones
            BY <3>1, ElementOfSeq, EmptySeq, LenProperties
        <3> QED BY <2>1, <3>2, ListIsNotEmpty DEF Positions
    <2>3. ApplyCount(k, 0) /\ 0 \in Nat
        BY <1>3, <2>1 DEF CountAsEmpty
    <2> QED BY <1>1, <2>2, <2>3, CountAnnounced
<1> QED BY <1>1, <1>2, <1>3, ReceiveAnnounced, ShipAnnounced, MoveAnnounced, ReserveAnnounced,
           ReleaseAnnounced, CreateAnnounced, CompleteAnnounced DEF Operate

-----------------------------------------------------------------------------
(* The log of the events that were sent: their numbers, which are their    *)
(* ids, their times and, for a new order, its id, and the ways they take.  *)
OrderStore(log)    == [orders |-> log]
IsOrder(log, o)    == o \in DOMAIN log /\ log[o].event_type = "ORDER_CREATED"
Completes(e, o)    == e.event_type = "ORDER_COMPLETED" /\ e.order_id = o
NoSplit(log)       == \A i \in DOMAIN log : ~SplitOrder(log[i].items)

Route(log, m) ==
    CASE log[m].event_type = "ORDER_CREATED"   -> log[m].items[1].product_id
      [] log[m].event_type = "ORDER_COMPLETED" -> log[log[m].order_id].items[1].product_id
      [] OTHER                                 -> log[m].product_id
Dest(log, m) == PartitionOf[Route(log, m)]
Home(k)      == PartitionOf[k[1]]

(* What every log is.                                                      *)
Numbered(log) ==
    \A m \in DOMAIN log :
        /\ log[m].event_id = m /\ log[m].occurred_at = m
        /\ log[m].event_type = "ORDER_CREATED" => log[m].order_id = m
        /\ log[m].event_type = "ORDER_COMPLETED" =>
              IsOrder(log, log[m].order_id) /\ log[m].order_id < m

EventsPlaced(log) == \A m \in DOMAIN log : Placed(OrderStore(log), log[m])

CompletedOnce(log) ==
    \A m, n \in DOMAIN log : \A o : Completes(log[m], o) /\ Completes(log[n], o) => m = n

LogOK(log) ==
    log \in Seq(EventRecords) /\ Numbered(log) /\ EventsPlaced(log) /\ CompletedOnce(log)

LEMMA PlacedSame ==
    ASSUME NEW s, NEW t, NEW e, SameOrder(s, t, e), Placed(s, e)
    PROVE  Placed(t, e)
<1>1. TouchedKeys(s, e) = TouchedKeys(t, e)
    BY SameTouched DEF Placed
<1> QED BY <1>1 DEF Placed, SameOrder

LEMMA InLog ==
    ASSUME NEW log, log \in Seq(EventRecords)
    PROVE  /\ Len(log) \in Nat /\ DOMAIN log = 1 .. Len(log)
           /\ \A m \in DOMAIN log : log[m] \in EventRecords /\ m \in Nat /\ m > 0
<1>1. Len(log) \in Nat /\ DOMAIN log = 1 .. Len(log)
    BY LenProperties
<1>2. \A m \in DOMAIN log : log[m] \in EventRecords
    BY <1>1, ElementOfSeq
<1> QED BY <1>1, <1>2

LEMMA Longer ==
    ASSUME NEW log \in Seq(EventRecords), NEW e \in EventRecords
    PROVE  /\ Append(log, e) \in Seq(EventRecords)
           /\ Len(Append(log, e)) = Len(log) + 1
           /\ DOMAIN Append(log, e) = DOMAIN log \cup {Len(log) + 1}
           /\ Len(log) + 1 \notin DOMAIN log
           /\ Append(log, e)[Len(log) + 1] = e
           /\ \A m \in DOMAIN log : Append(log, e)[m] = log[m]
<1>1. PICK new : new = Append(log, e)
    OBVIOUS
<1>2. /\ new \in Seq(EventRecords) /\ Len(new) = Len(log) + 1 /\ new[Len(log) + 1] = e
      /\ \A m \in 1 .. Len(log) : new[m] = log[m]
    BY <1>1, AppendProperties
<1>3. Len(log) \in Nat /\ DOMAIN log = 1 .. Len(log) /\ DOMAIN new = 1 .. Len(log) + 1
    BY <1>2, LenProperties
<1> QED BY <1>1, <1>2, <1>3

(* The keys that the event numbered m touches, and the partition it takes. *)
LEMMA ItemHome ==
    ASSUME NEW items \in Seq(Items), ItemsWellFormed(items)
    PROVE  /\ 1 \in DOMAIN items /\ items[1].product_id \in Products
           /\ ~SplitOrder(items) =>
                 \A k \in ItemKeys(items) : Home(k) = PartitionOf[items[1].product_id]
<1>1. DOMAIN items = 1 .. Len(items) /\ Len(items) \in Nat /\ items # <<>>
    BY LenProperties DEF ItemsWellFormed
<1>2. 1 \in DOMAIN items
    BY <1>1, EmptySeq
<1>3. items[1] \in Items
    BY <1>1, <1>2, ElementOfSeq
<1>4. items[1].product_id \in Products
    BY <1>2, <1>3 DEF Items, ItemsWellFormed
<1>5. ASSUME ~SplitOrder(items), NEW k \in ItemKeys(items)
      PROVE  Home(k) = PartitionOf[items[1].product_id]
    <2>1. PICK i \in DOMAIN items : k = <<items[i].product_id, items[i].zone_id>>
        BY <1>5 DEF ItemKeys
    <2>2. PartitionOf[items[i].product_id] = PartitionOf[items[1].product_id]
        BY <1>2, <1>5, <2>1 DEF SplitOrder
    <2> QED BY <2>1, <2>2 DEF Home
<1> QED BY <1>2, <1>4, <1>5

LEMMA Destination ==
    ASSUME NEW log, LogOK(log), NEW m \in DOMAIN log
    PROVE  /\ Route(log, m) \in Products /\ Dest(log, m) \in Partitions
           /\ NoSplit(log) =>
                 \A k \in TouchedKeys(OrderStore(log), log[m]) : Home(k) = Dest(log, m)
<1>1. log[m] \in EventRecords /\ Placed(OrderStore(log), log[m])
    BY InLog DEF LogOK, EventsPlaced
<1>2. WellFormed(log[m]) /\ TouchedKeys(OrderStore(log), log[m]) \subseteq Positions
    BY <1>1 DEF Placed
<1>3. CASE log[m].event_type = "ORDER_CREATED"
    <2>1. log[m].items \in Seq(Items) /\ ItemsWellFormed(log[m].items)
        BY <1>1, <1>2, <1>3 DEF EventRecords, WellFormed
    <2>2. Route(log, m) = log[m].items[1].product_id
        BY <1>3 DEF Route
    <2>3. TouchedKeys(OrderStore(log), log[m]) = ItemKeys(log[m].items)
        BY <1>3 DEF TouchedKeys, ProductEventTypes
    <2>4. NoSplit(log) => ~SplitOrder(log[m].items)
        BY DEF NoSplit
    <2> QED BY <2>1, <2>2, <2>3, <2>4, ItemHome, KeysArePlaced DEF Dest
<1>4. CASE log[m].event_type = "ORDER_COMPLETED"
    <2>1. PICK o \in DOMAIN log : o = log[m].order_id
        BY <1>4 DEF LogOK, Numbered, IsOrder
    <2>2. log[o].items \in Seq(Items) /\ ItemsWellFormed(log[o].items)
        BY <1>1, <1>4, <2>1 DEF Placed, OrderStore
    <2>3. Route(log, m) = log[o].items[1].product_id
        BY <1>4, <2>1 DEF Route
    <2>4. TouchedKeys(OrderStore(log), log[m]) = ItemKeys(log[o].items)
        BY <1>4, <2>1 DEF TouchedKeys, ProductEventTypes, OrderStore
    <2>5. NoSplit(log) => ~SplitOrder(log[o].items)
        BY DEF NoSplit
    <2> QED BY <2>2, <2>3, <2>4, <2>5, ItemHome, KeysArePlaced DEF Dest
<1>5. CASE log[m].event_type \in ProductEventTypes \cup {"PRODUCT_MOVED"}
    <2>1. Route(log, m) = log[m].product_id
        BY <1>5 DEF Route, ProductEventTypes
    <2>2. log[m].product_id \in Products
        BY <1>1, <1>2, <1>5 DEF EventRecords, WellFormed
    <2>3. \A k \in TouchedKeys(OrderStore(log), log[m]) : k[1] = log[m].product_id
        <3>1. CASE log[m].event_type = "PRODUCT_MOVED"
            BY <3>1, MovedTouched
        <3>2. CASE log[m].event_type \in ProductEventTypes
            BY <3>2, ProductTouched
        <3> QED BY <1>5, <3>1, <3>2
    <2> QED BY <2>1, <2>2, <2>3, KeysArePlaced DEF Dest, Home
<1> QED BY <1>2, <1>3, <1>4, <1>5 DEF WellFormed, EventTypes, OrderEventTypes

LEMMA EmptyLog == LogOK(<<>>)
<1>1. <<>> \in Seq(EventRecords) /\ DOMAIN <<>> = {}
    BY EmptySeq
<1> QED BY <1>1 DEF LogOK, Numbered, EventsPlaced, CompletedOnce

LEMMA LogGrows ==
    ASSUME NEW log, LogOK(log), NEW e \in EventRecords,
           e.event_id = Len(log) + 1, e.occurred_at = Len(log) + 1,
           Placed(OrderStore(log), e),
           e.event_type = "ORDER_CREATED" => e.order_id = Len(log) + 1,
           e.event_type = "ORDER_COMPLETED" =>
              /\ IsOrder(log, e.order_id)
              /\ \A m \in DOMAIN log : ~Completes(log[m], e.order_id)
    PROVE  LogOK(Append(log, e)) /\ \A m \in DOMAIN log : Dest(Append(log, e), m) = Dest(log, m)
<1>1. PICK n, new : n = Len(log) + 1 /\ new = Append(log, e)
    OBVIOUS
<1>2. /\ log \in Seq(EventRecords) /\ new \in Seq(EventRecords) /\ Len(new) = n
      /\ DOMAIN new = DOMAIN log \cup {n} /\ n \notin DOMAIN log
      /\ new[n] = e /\ \A m \in DOMAIN log : new[m] = log[m]
    BY <1>1, Longer DEF LogOK
<1>3. \A m \in DOMAIN log : m \in Nat /\ m < n
    BY <1>1, <1>2, InLog
<1>4. \A o : IsOrder(log, o) => IsOrder(new, o) /\ o < n /\ new[o] = log[o]
    BY <1>2, <1>3 DEF IsOrder
<1>5. Numbered(new)
    <2>1. ASSUME NEW m \in DOMAIN new
          PROVE  /\ new[m].event_id = m /\ new[m].occurred_at = m
                 /\ new[m].event_type = "ORDER_CREATED" => new[m].order_id = m
                 /\ new[m].event_type = "ORDER_COMPLETED" =>
                       IsOrder(new, new[m].order_id) /\ new[m].order_id < m
        <3>1. CASE m \in DOMAIN log
            BY <1>2, <1>4, <3>1 DEF LogOK, Numbered
        <3>2. CASE m = n
            BY <1>1, <1>2, <1>4, <3>2
        <3> QED BY <1>2, <3>1, <3>2
    <2> QED BY <2>1 DEF Numbered
<1>6. EventsPlaced(new)
    <2>1. ASSUME NEW m \in DOMAIN new
          PROVE  Placed(OrderStore(log), new[m]) /\ SameOrder(OrderStore(log), OrderStore(new), new[m])
        <3>1. CASE m \in DOMAIN log
            <4>1. Placed(OrderStore(log), new[m])
                BY <1>2, <3>1 DEF LogOK, EventsPlaced
            <4>2. new[m].event_type = "ORDER_COMPLETED" => new[new[m].order_id] = log[new[m].order_id]
                BY <1>2, <1>4, <3>1 DEF LogOK, Numbered
            <4> QED BY <4>1, <4>2 DEF SameOrder, OrderStore
        <3>2. CASE m = n
            <4>1. e.event_type = "ORDER_COMPLETED" => new[e.order_id] = log[e.order_id]
                BY <1>4
            <4> QED BY <1>2, <3>2, <4>1 DEF SameOrder, OrderStore
        <3> QED BY <1>2, <3>1, <3>2
    <2> QED BY <2>1, PlacedSame DEF EventsPlaced
<1>7. CompletedOnce(new)
    <2> SUFFICES ASSUME NEW i \in DOMAIN new, NEW j \in DOMAIN new, NEW o,
                        Completes(new[i], o), Completes(new[j], o)
                 PROVE  i = j
        BY DEF CompletedOnce
    <2>1. CASE i \in DOMAIN log /\ j \in DOMAIN log
        BY <1>2, <2>1 DEF LogOK, CompletedOnce
    <2>2. CASE i = n /\ j \in DOMAIN log
        <3>1. e.event_type = "ORDER_COMPLETED" /\ e.order_id = o
            BY <1>2, <2>2 DEF Completes
        <3> QED BY <1>2, <2>2, <3>1
    <2>3. CASE j = n /\ i \in DOMAIN log
        <3>1. e.event_type = "ORDER_COMPLETED" /\ e.order_id = o
            BY <1>2, <2>3 DEF Completes
        <3> QED BY <1>2, <2>3, <3>1
    <2> QED BY <1>2, <2>1, <2>2, <2>3
<1>8. ASSUME NEW m \in DOMAIN log PROVE Dest(new, m) = Dest(log, m)
    <2>1. new[m] = log[m]
        BY <1>2
    <2>2. log[m].event_type = "ORDER_COMPLETED" => new[log[m].order_id] = log[log[m].order_id]
        BY <1>4 DEF LogOK, Numbered
    <2>3. Route(new, m) = Route(log, m)
        <3>1. CASE log[m].event_type = "ORDER_COMPLETED"
            BY <2>1, <2>2, <3>1 DEF Route
        <3>2. CASE log[m].event_type # "ORDER_COMPLETED"
            BY <2>1, <3>2 DEF Route
        <3> QED BY <3>1, <3>2
    <2> QED BY <2>3 DEF Dest
<1> QED BY <1>1, <1>2, <1>5, <1>6, <1>7, <1>8 DEF LogOK

LEMMA NoSplitBefore ==
    ASSUME NEW log \in Seq(EventRecords), NEW e \in EventRecords, NoSplit(Append(log, e))
    PROVE  NoSplit(log)
BY Longer DEF NoSplit

-----------------------------------------------------------------------------
(* The trace of a log: the inventories that its events make, one after the *)
(* other, of the empty one.  T[m] is what the tables hold after the event  *)
(* numbered m if all of them are applied in the order they were sent.      *)
StoreAt(T, log, m) == [inventory |-> T[m - 1], orders |-> log]

IsTrace(T, log) ==
    /\ T \in [0 .. Len(log) -> [Keys -> LooseRows]]
    /\ T[0] = EmptyStore.inventory
    /\ \A m \in DOMAIN log : T[m] = UpdatedInventory(StoreAt(T, log, m), log[m])

(* No row is newer than the last event, and without split orders a row     *)
(* only changes with the messages of its own partition.                    *)
RowsInTime(T, log) == \A m \in 0 .. Len(log), k \in Keys : T[m][k].last_event_ts <= m

Quiet(log, k, i, j) == \A m \in DOMAIN log : i < m /\ m <= j => Dest(log, m) # Home(k)

QuietRowsStay(T, log) ==
    NoSplit(log) =>
        \A k \in Keys : \A i, j \in 0 .. Len(log) :
            i <= j /\ Quiet(log, k, i, j) => T[i][k] = T[j][k]

TraceOK(T, log) == IsTrace(T, log) /\ RowsInTime(T, log) /\ QuietRowsStay(T, log)

LEMMA TraceStarts == \E T : TraceOK(T, <<>>)
<1>1. PICK T : T = [m \in 0 .. 0 |-> EmptyStore.inventory]
    OBVIOUS
<1>2. Len(<<>>) = 0 /\ DOMAIN <<>> = {} /\ 0 .. 0 = {0}
    BY EmptySeq
<1>3. EmptyStore.inventory \in [Keys -> LooseRows]
    BY DEF EmptyStore, EmptyRow, LooseRows
<1>4. T[0] = EmptyStore.inventory
    BY <1>1
<1>5. IsTrace(T, <<>>)
    BY <1>1, <1>2, <1>3, <1>4 DEF IsTrace
<1>6. \A k \in Keys : T[0][k].last_event_ts = 0
    BY <1>4 DEF EmptyStore, EmptyRow
<1>7. RowsInTime(T, <<>>) /\ QuietRowsStay(T, <<>>)
    BY <1>2, <1>6 DEF RowsInTime, QuietRowsStay
<1> QED BY <1>5, <1>7 DEF TraceOK

LEMMA TraceGrows ==
    ASSUME NEW log, NEW e \in EventRecords, LogOK(log), LogOK(Append(log, e)),
           \A m \in DOMAIN log : Dest(Append(log, e), m) = Dest(log, m),
           NEW T, TraceOK(T, log)
    PROVE  \E U : /\ TraceOK(U, Append(log, e))
                  /\ \A m \in 0 .. Len(log) : U[m] = T[m]
<1>1. PICK n, new : n = Len(log) + 1 /\ new = Append(log, e)
    OBVIOUS
<1>2. /\ log \in Seq(EventRecords) /\ Len(new) = n /\ LogOK(new)
      /\ DOMAIN new = DOMAIN log \cup {n}
      /\ new[n] = e /\ \A m \in DOMAIN log : new[m] = log[m]
    BY <1>1, Longer DEF LogOK
<1>3. /\ Len(log) \in Nat /\ n \in Nat /\ n - 1 = Len(log) /\ DOMAIN log = 1 .. Len(log)
      /\ 0 .. n = (0 .. Len(log)) \cup {n} /\ n \notin 0 .. Len(log)
    BY <1>1, <1>2, InLog
<1>4. /\ T \in [0 .. Len(log) -> [Keys -> LooseRows]] /\ T[0] = EmptyStore.inventory
      /\ \A m \in DOMAIN log : T[m] = UpdatedInventory(StoreAt(T, log, m), log[m])
    BY DEF TraceOK, IsTrace
<1>5. PICK last : last = [inventory |-> T[Len(log)], orders |-> new]
    OBVIOUS
<1>6. PICK U : U = [m \in 0 .. n |-> IF m = n THEN UpdatedInventory(last, e) ELSE T[m]]
    OBVIOUS
<1>7. U[n] = UpdatedInventory(last, e) /\ \A m \in 0 .. Len(log) : U[m] = T[m]
    BY <1>3, <1>6
<1>8. \A m \in DOMAIN new : Placed(OrderStore(new), new[m])
    BY <1>2 DEF LogOK, EventsPlaced
<1>9. Placed(last, e)
    <2>1. Placed(OrderStore(new), e)
        BY <1>2, <1>8
    <2>2. SameOrder(OrderStore(new), last, e)
        BY <1>5 DEF SameOrder, OrderStore
    <2> QED BY <2>1, <2>2, PlacedSame
<1>10. UpdatedInventory(last, e) \in [Keys -> LooseRows]
    <2>1. last.inventory \in [Keys -> LooseRows]
        BY <1>3, <1>4, <1>5
    <2> QED BY <1>9, <2>1, UpdatedLoose
<1>11. U \in [0 .. n -> [Keys -> LooseRows]]
    BY <1>3, <1>4, <1>6, <1>10
<1>12. ASSUME NEW m \in DOMAIN new
       PROVE  U[m] = UpdatedInventory(StoreAt(U, new, m), new[m])
    <2>1. CASE m = n
        <3>1. StoreAt(U, new, m) = last
            BY <1>3, <1>5, <1>7, <2>1 DEF StoreAt
        <3> QED BY <1>2, <1>7, <2>1, <3>1
    <2>2. CASE m \in DOMAIN log
        <3>1. m \in 0 .. Len(log) /\ m - 1 \in 0 .. Len(log)
            BY <1>3, <2>2
        <3>2. new[m] = log[m] /\ new[m] \in EventRecords /\ WellFormed(new[m])
            BY <1>2, <1>8, <2>2, InLog DEF Placed
        <3>3. U[m] = UpdatedInventory(StoreAt(T, log, m), new[m])
            BY <1>4, <1>7, <2>2, <3>1, <3>2
        <3>4. StoreAt(T, log, m).inventory = StoreAt(U, new, m).inventory
            BY <1>7, <3>1 DEF StoreAt
        <3>5. SameOrder(StoreAt(T, log, m), StoreAt(U, new, m), new[m])
            <4>1. log[m].event_type = "ORDER_COMPLETED" => log[m].order_id \in DOMAIN log
                BY <2>2 DEF LogOK, Numbered, IsOrder
            <4> QED BY <1>2, <3>2, <4>1 DEF SameOrder, StoreAt
        <3> QED BY <3>2, <3>3, <3>4, <3>5, SameInventory
    <2> QED BY <1>2, <2>1, <2>2
<1>13. U[0] = EmptyStore.inventory
    BY <1>3, <1>4, <1>7
<1>14. IsTrace(U, new)
    BY <1>2, <1>11, <1>12, <1>13 DEF IsTrace
<1>15. \A k \in Keys : U[n][k] = IF k \in TouchedKeys(last, e) THEN UpdatedRow(last, e, k)
                                 ELSE T[Len(log)][k]
    BY <1>5, <1>7, UpdatedTouched
<1>16. RowsInTime(U, new)
    <2>1. ASSUME NEW m \in 0 .. n, NEW k \in Keys
          PROVE  U[m][k].last_event_ts <= m
        <3>1. CASE m \in 0 .. Len(log)
            BY <1>7, <3>1 DEF TraceOK, RowsInTime
        <3>2. CASE m = n
            <4>1. CASE k \in TouchedKeys(last, e)
                <5>1. UpdatedRow(last, e, k).last_event_ts = e.occurred_at
                    BY DEF UpdatedRow
                <5>2. e.occurred_at = n
                    BY <1>2 DEF LogOK, Numbered
                <5> QED BY <1>3, <1>15, <3>2, <4>1, <5>1, <5>2
            <4>2. CASE k \notin TouchedKeys(last, e)
                <5>1. T[Len(log)][k].last_event_ts <= Len(log)
                    BY <1>3 DEF TraceOK, RowsInTime
                <5>2. T[Len(log)][k].last_event_ts \in Int
                    <6>1. T[Len(log)][k] \in LooseRows
                        BY <1>3, <1>4
                    <6> QED BY <6>1 DEF LooseRows
                <5> QED BY <1>1, <1>3, <1>15, <3>2, <4>2, <5>1, <5>2
            <4> QED BY <4>1, <4>2
        <3> QED BY <1>3, <3>1, <3>2
    <2> QED BY <1>2, <2>1 DEF RowsInTime
<1>17. QuietRowsStay(U, new)
    <2> SUFFICES ASSUME NoSplit(new), NEW k \in Keys, NEW i \in 0 .. n, NEW j \in 0 .. n,
                        i <= j, Quiet(new, k, i, j)
                 PROVE  U[i][k] = U[j][k]
        BY <1>2 DEF QuietRowsStay
    <2>1. NoSplit(log)
        BY <1>1, <1>2, NoSplitBefore
    <2>2. ASSUME NEW a \in 0 .. Len(log), NEW b \in 0 .. Len(log), a <= b, Quiet(new, k, a, b)
          PROVE  U[a][k] = U[b][k]
        <3>1. Quiet(log, k, a, b)
            BY <1>1, <1>2, <2>2 DEF Quiet
        <3>2. T[a][k] = T[b][k]
            BY <2>1, <2>2, <3>1 DEF TraceOK, QuietRowsStay
        <3> QED BY <1>7, <3>2
    <2>3. CASE j \in 0 .. Len(log)
        <3>1. i \in 0 .. Len(log)
            BY <1>3, <2>3
        <3> QED BY <2>2, <2>3, <3>1
    <2>4. CASE i = n
        BY <1>3, <2>4
    <2>5. CASE j = n /\ i \in 0 .. Len(log)
        <3>1. Dest(new, n) # Home(k)
            BY <1>2, <1>3, <2>5 DEF Quiet
        <3>2. k \notin TouchedKeys(last, e)
            <4>1. TouchedKeys(OrderStore(new), e) = TouchedKeys(last, e)
                <5>1. SameOrder(OrderStore(new), last, e) /\ WellFormed(e)
                    BY <1>5, <1>9 DEF SameOrder, OrderStore, Placed
                <5> QED BY <5>1, SameTouched
            <4>2. n \in DOMAIN new
                BY <1>2
            <4>3. \A x \in TouchedKeys(OrderStore(new), new[n]) : Home(x) = Dest(new, n)
                BY <1>2, <4>2, Destination
            <4> QED BY <1>2, <3>1, <4>1, <4>3
        <3>3. U[n][k] = U[Len(log)][k]
            BY <1>3, <1>7, <1>15, <3>2
        <3>4. Quiet(new, k, i, Len(log)) /\ i <= Len(log) /\ Len(log) \in 0 .. Len(log)
            <4>1. \A m \in DOMAIN new : i < m /\ m <= Len(log) => i < m /\ m <= n
                BY <1>2, <1>3
            <4> QED BY <1>3, <2>5, <4>1 DEF Quiet
        <3>5. U[i][k] = U[Len(log)][k]
            BY <2>2, <2>5, <3>4
        <3> QED BY <2>5, <3>3, <3>5
    <2> QED BY <1>3, <2>3, <2>4, <2>5
<1> QED BY <1>1, <1>7, <1>14, <1>16, <1>17 DEF TraceOK

-----------------------------------------------------------------------------
(* The last inventory of the trace and the simulated stock.                *)
Fine(r) == r.available >= 0 /\ r.reserved >= 0

FollowsSim(T, log, s) == \A k \in Positions : Alike(T[Len(log)][k], ViewOf(s[k]))

AheadOfSim(T, log, s) ==
    \A k \in Positions :
        (\A m \in 0 .. Len(log) : Fine(T[m][k])) => Ahead(T[Len(log)][k], ViewOf(s[k]))

Feasible(T, log) ==
    \A m \in 0 .. Len(log) :
        /\ \A k \in Positions : Fine(T[m][k])
        /\ \A z \in Zones : ZoneTotal(T[m], z) <= Capacity[z]

LEMMA ViewTyped ==
    ASSUME NEW s \in Stocks, NEW k \in Positions
    PROVE  ViewOf(s[k]).available \in Int /\ ViewOf(s[k]).reserved \in Nat
<1>1. s[k] \in PositionRows
    BY DEF Stocks
<1> QED BY <1>1 DEF ViewOf, PositionRows

(* An event that is sent: its effect on the trace and on the simulation.   *)
LEMMA LastStep ==
    ASSUME NEW log, LogOK(log), NEW e \in EventRecords, LogOK(Append(log, e)),
           NEW U, IsTrace(U, Append(log, e)), NEW s \in Stocks
    PROVE  \E store :
              /\ store.inventory = U[Len(log)] /\ U[Len(log)] \in [Keys -> LooseRows]
              /\ U[Len(log) + 1] = UpdatedInventory(store, e)
              /\ SameOrder(store, SimStore(s, log), e)
              /\ Placed(store, e)
<1>1. PICK n, new : n = Len(log) + 1 /\ new = Append(log, e)
    OBVIOUS
<1>2. /\ log \in Seq(EventRecords) /\ Len(new) = n /\ DOMAIN new = DOMAIN log \cup {n}
      /\ new[n] = e /\ \A m \in DOMAIN log : new[m] = log[m]
    BY <1>1, Longer DEF LogOK
<1>3. Len(log) \in Nat /\ n - 1 = Len(log) /\ Len(log) \in 0 .. n /\ n \in DOMAIN new
    BY <1>1, <1>2, InLog
<1>4. PICK store : store = StoreAt(U, new, n)
    OBVIOUS
<1>5. store.inventory = U[Len(log)] /\ store.orders = new
    BY <1>3, <1>4 DEF StoreAt
<1>6. U[n] = UpdatedInventory(store, e)
    BY <1>1, <1>2, <1>3, <1>4 DEF IsTrace
<1>7. U[Len(log)] \in [Keys -> LooseRows]
    BY <1>1, <1>2, <1>3 DEF IsTrace
<1>8. e.event_type = "ORDER_COMPLETED" => new[e.order_id] = log[e.order_id]
    <2>1. ASSUME e.event_type = "ORDER_COMPLETED"
          PROVE  e.order_id \in DOMAIN new /\ e.order_id < n
        BY <1>1, <1>2, <1>3, <2>1 DEF LogOK, Numbered, IsOrder
    <2>2. ~(n < n)
        BY <1>1, <1>3
    <2> QED BY <1>2, <2>1, <2>2
<1>9. SameOrder(store, SimStore(s, log), e)
    BY <1>5, <1>8 DEF SameOrder, SimStore
<1>10. Placed(store, e)
    <2>1. Placed(OrderStore(new), e)
        BY <1>1, <1>2, <1>3 DEF LogOK, EventsPlaced
    <2>2. SameOrder(OrderStore(new), store, e)
        BY <1>5 DEF SameOrder, OrderStore
    <2> QED BY <2>1, <2>2, PlacedSame
<1> QED BY <1>1, <1>5, <1>6, <1>7, <1>9, <1>10

LEMMA SimFollowed ==
    ASSUME NEW log, LogOK(log), NEW e \in EventRecords, LogOK(Append(log, e)),
           NEW U, IsTrace(U, Append(log, e)), NEW s \in Stocks, NEW t,
           Mirrors(s, t, log, e), FollowsSim(U, log, s)
    PROVE  FollowsSim(U, Append(log, e), t)
<1>1. PICK store :
        /\ store.inventory = U[Len(log)]
        /\ U[Len(log) + 1] = UpdatedInventory(store, e)
        /\ SameOrder(store, SimStore(s, log), e)
        /\ Placed(store, e)
    BY LastStep
<1>2. Len(Append(log, e)) = Len(log) + 1
    BY Longer DEF LogOK
<1>3. ASSUME NEW k \in Positions
      PROVE  Alike(UpdatedInventory(store, e)[k], ViewOf(t[k]))
    <2>1. PICK view : view = SimStore(s, log)
        OBVIOUS
    <2>2. \A j \in Positions : Alike(store.inventory[j], view.inventory[j])
        BY <1>1, <2>1, ViewRow DEF FollowsSim
    <2>3. e.event_type = "PRODUCT_MOVED" =>
            store.inventory[<<e.product_id, e.from_zone_id>>].supplier_id
              = view.inventory[<<e.product_id, e.from_zone_id>>].supplier_id
        BY <1>1, <2>2, SourceTouched DEF Placed, Alike
    <2>4. WellFormed(e) /\ SameOrder(store, view, e) /\ k \in Keys
        BY <1>1, <2>1, PositionsFinite DEF Placed
    <2>5. Alike(UpdatedInventory(store, e)[k], UpdatedInventory(view, e)[k])
        BY <2>2, <2>3, <2>4, AlikeStays
    <2>6. Alike(UpdatedInventory(view, e)[k], ViewOf(t[k]))
        BY <2>1 DEF Mirrors
    <2> QED BY <2>5, <2>6 DEF Alike
<1> QED BY <1>1, <1>2, <1>3 DEF FollowsSim

LEMMA StaysAhead ==
    ASSUME NEW log, LogOK(log), NEW e \in EventRecords, LogOK(Append(log, e)),
           NEW U, IsTrace(U, Append(log, e)), NEW s \in Stocks, NEW t,
           Mirrors(s, t, log, e), AheadOfSim(U, log, s)
    PROVE  AheadOfSim(U, Append(log, e), t)
<1>1. PICK store :
        /\ store.inventory = U[Len(log)] /\ U[Len(log)] \in [Keys -> LooseRows]
        /\ U[Len(log) + 1] = UpdatedInventory(store, e)
        /\ SameOrder(store, SimStore(s, log), e)
        /\ Placed(store, e)
    BY LastStep
<1>2. Len(Append(log, e)) = Len(log) + 1 /\ Len(log) \in Nat
    BY Longer, InLog DEF LogOK
<1>3. ASSUME NEW k \in Positions, \A m \in 0 .. Len(log) + 1 : Fine(U[m][k])
      PROVE  Ahead(UpdatedInventory(store, e)[k], ViewOf(t[k]))
    <2>1. PICK view : view = SimStore(s, log)
        OBVIOUS
    <2>2. k \in Keys
        BY PositionsFinite
    <2>3. Ahead(U[Len(log)][k], ViewOf(s[k]))
        <3>1. \A m \in 0 .. Len(log) : m \in 0 .. Len(log) + 1
            BY <1>2
        <3> QED BY <1>3, <3>1 DEF AheadOfSim
    <2>4. view.inventory[k] = ViewOf(s[k])
        BY <2>1, ViewRow
    <2>5. U[Len(log)][k].available \in Int /\ U[Len(log)][k].reserved \in Int
        BY <1>1, <2>2 DEF LooseRows
    <2>6. view.inventory[k].available \in Int /\ view.inventory[k].reserved \in Int
        BY <2>4, ViewTyped
    <2>7. Ahead(UpdatedInventory(store, e)[k], UpdatedInventory(view, e)[k])
        BY <1>1, <2>1, <2>2, <2>3, <2>4, <2>5, <2>6, AheadStays
    <2>8. Alike(UpdatedInventory(view, e)[k], ViewOf(t[k]))
        BY <2>1 DEF Mirrors
    <2> QED BY <2>7, <2>8 DEF Alike, Ahead
<1> QED BY <1>1, <1>2, <1>3 DEF AheadOfSim

(* A stock that follows a possible simulation is a possible one.           *)
LEMMA ZoneTotalIsLoad ==
    ASSUME NEW inv, NEW s \in Stocks, \A k \in Positions : Alike(inv[k], ViewOf(s[k])),
           NEW z \in Zones
    PROVE  ZoneTotal(inv, z) = LoadOf(s, z)
<1> DEFINE f == [k \in Keys |-> Total(inv[k])]
           g == [k \in Positions |-> Held(s[k])]
           S == {k \in Positions : k[2] = z}
<1>1. S = {k \in Keys : k[2] = z}
    BY PositionsFinite DEF Positions, Keys
<1>2. IsFiniteSet(S)
    BY ZoneFinite
<1>3. ASSUME NEW k \in S PROVE f[k] = g[k]
    <2>1. k \in Positions /\ k \in Keys
        BY PositionsFinite
    <2>2. s[k] \in PositionRows
        BY <2>1 DEF Stocks
    <2>3. inv[k].available = s[k].available
          /\ inv[k].reserved = s[k].reserved_manual + s[k].reserved_order
        BY <2>1 DEF Alike, ViewOf
    <2>4. Total(inv[k]) = Held(s[k])
        BY <2>2, <2>3 DEF Total, Held, PositionRows
    <2> QED BY <2>1, <2>4
<1>4. ZoneTotal(inv, z) = SumFunctionOnSet(f, S) /\ LoadOf(s, z) = SumFunctionOnSet(g, S)
    BY <1>1 DEF ZoneTotal, LoadOf
<1> HIDE DEF f, g, S
<1> QED BY <1>2, <1>3, <1>4, SumEqual

LEMMA StaysFeasible ==
    ASSUME NEW log, LogOK(log), NEW e \in EventRecords,
           NEW U, IsTrace(U, Append(log, e)), NEW t \in Stocks,
           FollowsSim(U, Append(log, e), t), Feasible(U, log),
           \A k \in Positions : t[k].available >= 0,
           \A z \in Zones : LoadOf(t, z) <= Capacity[z]
    PROVE  Feasible(U, Append(log, e))
<1>1. PICK n, new : n = Len(log) + 1 /\ new = Append(log, e)
    OBVIOUS
<1>2. Len(new) = n /\ Len(log) \in Nat /\ 0 .. n = (0 .. Len(log)) \cup {n}
    BY <1>1, Longer, InLog DEF LogOK
<1>3. \A k \in Positions : Alike(U[n][k], ViewOf(t[k]))
    BY <1>1, <1>2 DEF FollowsSim
<1>4. ASSUME NEW k \in Positions PROVE Fine(U[n][k])
    <2>1. ViewOf(t[k]).reserved \in Nat /\ ViewOf(t[k]).available = t[k].available
        BY ViewTyped DEF ViewOf
    <2> QED BY <1>3, <2>1 DEF Fine, Alike
<1>5. \A z \in Zones : ZoneTotal(U[n], z) <= Capacity[z]
    BY <1>3, ZoneTotalIsLoad
<1> QED BY <1>1, <1>2, <1>4, <1>5 DEF Feasible

-----------------------------------------------------------------------------
(* The messages of a partition: in the order they were sent, behind every  *)
(* message of the partition that was handled.                              *)
QueueOK(queue, log, done, q) ==
    /\ queue \in Seq(EventRecords)
    /\ \A i \in DOMAIN queue :
          /\ queue[i].event_id \in DOMAIN log /\ log[queue[i].event_id] = queue[i]
          /\ Dest(log, queue[i].event_id) = q
          /\ \A j \in DOMAIN queue : i < j => queue[i].event_id < queue[j].event_id
          /\ \A n \in done : Dest(log, n) = q => n < queue[i].event_id

(* Nothing is missing: a message was handled or is still to come.          *)
NothingMissing(queues, log, done) ==
    \A m \in DOMAIN log : \/ m \in done
                          \/ \E i \in DOMAIN queues[Dest(log, m)] :
                                queues[Dest(log, m)][i].event_id = m

QueuesOK(queues, log, done) == \A q \in Partitions : QueueOK(queues[q], log, done, q)

LEMMA QueueKept ==
    ASSUME NEW log, LogOK(log), NEW e \in EventRecords,
           \A m \in DOMAIN log : Dest(Append(log, e), m) = Dest(log, m),
           NEW done, done \subseteq DOMAIN log, NEW queue, NEW q, QueueOK(queue, log, done, q)
    PROVE  QueueOK(queue, Append(log, e), done, q)
<1>1. PICK new : new = Append(log, e)
    OBVIOUS
<1>2. \A m \in DOMAIN log : m \in DOMAIN new /\ new[m] = log[m] /\ Dest(new, m) = Dest(log, m)
    BY <1>1, Longer DEF LogOK
<1> QED BY <1>1, <1>2 DEF QueueOK

LEMMA QueueExtended ==
    ASSUME NEW log, LogOK(log), NEW e \in EventRecords, LogOK(Append(log, e)),
           \A m \in DOMAIN log : Dest(Append(log, e), m) = Dest(log, m),
           NEW done, done \subseteq DOMAIN log, NEW queue, NEW q, QueueOK(queue, log, done, q),
           Dest(Append(log, e), Len(log) + 1) = q
    PROVE  QueueOK(Append(queue, e), Append(log, e), done, q)
<1>1. PICK n, new, longer : n = Len(log) + 1 /\ new = Append(log, e) /\ longer = Append(queue, e)
    OBVIOUS
<1>2. \A m \in DOMAIN log : m \in DOMAIN new /\ new[m] = log[m] /\ Dest(new, m) = Dest(log, m)
    BY <1>1, Longer DEF LogOK
<1>3. n \in DOMAIN new /\ new[n] = e /\ Dest(new, n) = q
    BY <1>1, Longer DEF LogOK
<1>4. e.event_id = n
    BY <1>1, <1>3 DEF LogOK, Numbered
<1>5. \A m \in DOMAIN log : m < n
    BY <1>1, InLog DEF LogOK
<1>6. /\ longer \in Seq(EventRecords) /\ DOMAIN longer = DOMAIN queue \cup {Len(queue) + 1}
      /\ longer[Len(queue) + 1] = e /\ \A i \in DOMAIN queue : longer[i] = queue[i]
      /\ Len(queue) + 1 \notin DOMAIN queue
    BY <1>1, Longer DEF QueueOK
<1>7. DOMAIN queue = 1 .. Len(queue) /\ Len(queue) \in Nat
    BY LenProperties DEF QueueOK
<1>8. ASSUME NEW i \in DOMAIN longer
      PROVE  /\ longer[i].event_id \in DOMAIN new /\ new[longer[i].event_id] = longer[i]
             /\ Dest(new, longer[i].event_id) = q
             /\ \A j \in DOMAIN longer : i < j => longer[i].event_id < longer[j].event_id
             /\ \A m \in done : Dest(new, m) = q => m < longer[i].event_id
    <2>1. CASE i \in DOMAIN queue
        <3>1. longer[i] = queue[i] /\ queue[i].event_id \in DOMAIN log
            BY <1>6, <2>1 DEF QueueOK
        <3>2. ASSUME NEW j \in DOMAIN longer, i < j
              PROVE  longer[i].event_id < longer[j].event_id
            <4>1. CASE j \in DOMAIN queue
                BY <1>6, <2>1, <3>2, <4>1 DEF QueueOK
            <4>2. CASE j = Len(queue) + 1
                BY <1>4, <1>5, <1>6, <3>1, <4>2
            <4> QED BY <1>6, <4>1, <4>2
        <3> QED BY <1>2, <2>1, <3>1, <3>2 DEF QueueOK
    <2>2. CASE i = Len(queue) + 1
        <3>1. \A j \in DOMAIN longer : ~(i < j)
            BY <1>6, <1>7, <2>2
        <3> QED BY <1>3, <1>4, <1>5, <1>6, <2>2, <3>1
    <2> QED BY <1>6, <2>1, <2>2
<1> QED BY <1>1, <1>6, <1>8 DEF QueueOK

(* The messages behind the first one.                                      *)
Behind(queue, tail) ==
    /\ tail \in Seq(EventRecords) /\ Len(tail) = Len(queue) - 1
    /\ \A i \in 1 .. Len(tail) : tail[i] = queue[i + 1]

LEMMA TailIsBehind ==
    ASSUME NEW queue \in Seq(EventRecords), queue # <<>>
    PROVE  Head(queue) = queue[1] /\ \E tail : tail = Tail(queue) /\ Behind(queue, tail)
<1>1. PICK tail : tail = Tail(queue)
    OBVIOUS
<1>2. /\ tail \in Seq(EventRecords) /\ Len(tail) = Len(queue) - 1
      /\ \A i \in 1 .. Len(tail) : tail[i] = queue[i + 1]
    BY <1>1, HeadTailProperties
<1>3. Behind(queue, tail)
    BY <1>2 DEF Behind
<1>4. Head(queue) = queue[1]
    BY LenProperties, EmptySeq
<1> QED BY <1>1, <1>3, <1>4

LEMMA QueueShortened ==
    ASSUME NEW log, NEW done, NEW queue, NEW q, QueueOK(queue, log, done, q), queue # <<>>,
           NEW tail, Behind(queue, tail),
           NEW after, \A n \in after : n \in done \/ n = queue[1].event_id
    PROVE  /\ 1 \in DOMAIN queue
           /\ QueueOK(tail, log, after, q)
           /\ \A i \in DOMAIN queue : i = 1 \/ \E j \in DOMAIN tail : tail[j] = queue[i]
<1>1. queue \in Seq(EventRecords)
    BY DEF QueueOK
<1>3. DOMAIN queue = 1 .. Len(queue) /\ Len(queue) \in Nat /\ Len(queue) >= 1
    BY <1>1, LenProperties, EmptySeq
<1>4. /\ tail \in Seq(EventRecords) /\ Len(tail) = Len(queue) - 1
      /\ \A i \in 1 .. Len(tail) : tail[i] = queue[i + 1]
    BY DEF Behind
<1>5. DOMAIN tail = 1 .. Len(queue) - 1
    BY <1>4, LenProperties
<1>6. \A i \in DOMAIN tail : /\ i + 1 \in DOMAIN queue /\ tail[i] = queue[i + 1]
                             /\ 1 < i + 1
                             /\ \A j \in DOMAIN tail : i < j => i + 1 < j + 1
    BY <1>3, <1>4, <1>5
<1>7. 1 \in DOMAIN queue
    BY <1>3
<1>9. \A i \in DOMAIN tail : queue[1].event_id < tail[i].event_id
    BY <1>6, <1>7 DEF QueueOK
<1>10. QueueOK(tail, log, after, q)
    <2>1. ASSUME NEW i \in DOMAIN tail
          PROVE  /\ tail[i].event_id \in DOMAIN log /\ log[tail[i].event_id] = tail[i]
                 /\ Dest(log, tail[i].event_id) = q
                 /\ \A j \in DOMAIN tail : i < j => tail[i].event_id < tail[j].event_id
                 /\ \A n \in done : Dest(log, n) = q => n < tail[i].event_id
        BY <1>6 DEF QueueOK
    <2> QED BY <1>4, <1>9, <2>1 DEF QueueOK
<1>11. ASSUME NEW i \in DOMAIN queue, i # 1
       PROVE  \E j \in DOMAIN tail : tail[j] = queue[i]
    <2>1. i - 1 \in DOMAIN tail /\ (i - 1) + 1 = i
        BY <1>3, <1>5, <1>11
    <2> QED BY <1>6, <2>1
<1> QED BY <1>3, <1>7, <1>10, <1>11

LEMMA QueueCut ==
    ASSUME NEW log, NEW done, NEW queue, NEW q, QueueOK(queue, log, done, q),
           NEW n \in Nat, n <= Len(queue)
    PROVE  /\ QueueOK(SubSeq(queue, 1, n), log, done, q)
           /\ n = Len(queue) => SubSeq(queue, 1, n) = queue
<1>1. queue \in Seq(EventRecords)
    BY DEF QueueOK
<1>2. DOMAIN queue = 1 .. Len(queue) /\ Len(queue) \in Nat
    BY <1>1, LenProperties
<1>3. PICK cut : cut = SubSeq(queue, 1, n)
    OBVIOUS
<1>4. \A i \in 1 .. n : queue[i] \in EventRecords
    BY <1>1, <1>2, ElementOfSeq
<1>5. cut \in Seq(EventRecords) /\ Len(cut) = n /\ \A i \in 1 .. n : cut[i] = queue[i]
    BY <1>1, <1>2, <1>3, <1>4, SubSeqProperties
<1>6. DOMAIN cut = 1 .. n /\ DOMAIN cut \subseteq DOMAIN queue
    BY <1>2, <1>5, LenProperties
<1>7. QueueOK(cut, log, done, q)
    BY <1>5, <1>6 DEF QueueOK
<1>8. ASSUME n = Len(queue) PROVE cut = queue
    BY <1>1, <1>2, <1>5, <1>6, <1>8, SeqEqual
<1> QED BY <1>3, <1>7, <1>8

LEMMA QueueOther ==
    ASSUME NEW log, NEW done, NEW queue, NEW q, QueueOK(queue, log, done, q),
           NEW after, \A n \in after : n \in done \/ Dest(log, n) # q
    PROVE  QueueOK(queue, log, after, q)
BY DEF QueueOK

(* How far the messages of a partition were handled: up to the one before  *)
(* the first that waits.  A row is caught up with the trace at r.          *)
Reached(log, queue) == IF queue = <<>> THEN Len(log) ELSE queue[1].event_id - 1

Caught(T, row, k, r) == row = T[r][k] /\ \A m \in 0 .. r : Fine(T[m][k])

Matched(T, log, queues, inv) ==
    \A k \in Keys : Caught(T, inv[k], k, Reached(log, queues[Home(k)]))

LEMMA HomeTyped == ASSUME NEW k \in Keys PROVE Home(k) \in Partitions
BY KeysArePlaced DEF Home, Keys

LEMMA FirstOfQueue ==
    ASSUME NEW log, LogOK(log), NEW done, NEW queue, NEW q, QueueOK(queue, log, done, q),
           queue # <<>>
    PROVE  /\ 1 \in DOMAIN queue /\ queue[1].event_id \in DOMAIN log
           /\ queue[1].event_id \in Nat /\ queue[1].event_id > 0
           /\ queue[1].event_id <= Len(log)
           /\ queue[1] = log[queue[1].event_id] /\ queue[1] \in EventRecords
           /\ Dest(log, queue[1].event_id) = q
           /\ queue[1].event_id \notin done
           /\ Reached(log, queue) = queue[1].event_id - 1
<1>1. queue \in Seq(EventRecords) /\ log \in Seq(EventRecords)
    BY DEF QueueOK, LogOK
<1>2. 1 \in DOMAIN queue
    BY <1>1, LenProperties, EmptySeq
<1>3. PICK m : m = queue[1].event_id
    OBVIOUS
<1>4. m \in DOMAIN log /\ log[m] = queue[1] /\ Dest(log, m) = q
    BY <1>2, <1>3 DEF QueueOK
<1>5. m \in Nat /\ m > 0 /\ m <= Len(log) /\ log[m] \in EventRecords
    BY <1>1, <1>4, InLog
<1>6. m \notin done
    <2>1. ASSUME m \in done PROVE m < m
        BY <1>2, <1>3, <1>4, <2>1 DEF QueueOK
    <2>2. ~(m < m)
        BY <1>5
    <2> QED BY <2>1, <2>2
<1>7. Reached(log, queue) = m - 1
    BY <1>3 DEF Reached
<1> QED BY <1>2, <1>3, <1>4, <1>5, <1>6, <1>7

LEMMA ReachedTyped ==
    ASSUME NEW log, LogOK(log), NEW done, NEW queue, NEW q, QueueOK(queue, log, done, q)
    PROVE  Reached(log, queue) \in 0 .. Len(log)
<1>1. Len(log) \in Nat
    BY InLog DEF LogOK
<1>2. CASE queue = <<>>
    BY <1>1, <1>2 DEF Reached
<1>3. CASE queue # <<>>
    BY <1>1, <1>3, FirstOfQueue
<1> QED BY <1>2, <1>3

LEMMA CaughtLater ==
    ASSUME NEW T, NEW log, TraceOK(T, log), NoSplit(log), log \in Seq(EventRecords),
           NEW k \in Keys, NEW row,
           NEW i \in 0 .. Len(log), NEW j \in 0 .. Len(log), i <= j, Quiet(log, k, i, j),
           Caught(T, row, k, i)
    PROVE  Caught(T, row, k, j)
<1>1. Len(log) \in Nat /\ i \in Nat /\ j \in Nat /\ j <= Len(log)
    BY InLog
<1>2. ASSUME NEW m \in 0 .. j, i <= m
      PROVE  T[m][k] = T[i][k]
    <2>1. m \in 0 .. Len(log)
        BY <1>1
    <2>2. Quiet(log, k, i, m)
        <3>1. \A n \in DOMAIN log : n <= m => n <= j
            BY <1>1, <2>1, InLog
        <3> QED BY <3>1 DEF Quiet
    <2> QED BY <1>2, <2>1, <2>2 DEF TraceOK, QuietRowsStay
<1>3. T[j][k] = T[i][k]
    BY <1>1, <1>2
<1>4. Fine(T[i][k])
    BY <1>1 DEF Caught
<1>5. ASSUME NEW m \in 0 .. j PROVE Fine(T[m][k])
    <2>1. CASE i <= m
        BY <1>2, <1>4, <2>1
    <2>2. CASE ~(i <= m)
        <3>1. m \in 0 .. i
            BY <1>1, <2>2
        <3> QED BY <3>1 DEF Caught
    <2> QED BY <2>1, <2>2
<1> QED BY <1>3, <1>5 DEF Caught

(* After the first message of a partition comes nothing of the partition   *)
(* before the next one that waits.                                         *)
LEMMA AfterFirst ==
    ASSUME NEW log, LogOK(log), NEW done, NEW queues, NEW q, QueueOK(queues[q], log, done, q),
           queues[q] # <<>>, NothingMissing(queues, log, done),
           NEW tail, Behind(queues[q], tail), NEW k, Home(k) = q
    PROVE  /\ queues[q][1].event_id <= Reached(log, tail)
           /\ Quiet(log, k, queues[q][1].event_id, Reached(log, tail))
<1>1. PICK queue, m : queue = queues[q] /\ m = queue[1].event_id
    OBVIOUS
<1>2. /\ m \in Nat /\ m > 0 /\ m <= Len(log) /\ m \notin done
      /\ 1 \in DOMAIN queue /\ Len(log) \in Nat
    BY <1>1, FirstOfQueue, InLog DEF LogOK
<1>3. /\ QueueOK(tail, log, done \cup {m}, q)
      /\ \A i \in DOMAIN queue : i = 1 \/ \E j \in DOMAIN tail : tail[j] = queue[i]
    <2>1. queue # <<>> /\ QueueOK(queue, log, done, q) /\ Behind(queue, tail)
        BY <1>1
    <2>2. PICK after : after = done \cup {m}
        OBVIOUS
    <2>3. \A n \in after : n \in done \/ n = queue[1].event_id
        BY <1>1, <2>2
    <2> QED BY <2>1, <2>2, <2>3, QueueShortened
<1>4. m <= Reached(log, tail)
    <2>1. CASE tail = <<>>
        BY <1>2, <2>1 DEF Reached
    <2>2. CASE tail # <<>>
        <3>1. /\ 1 \in DOMAIN tail /\ Reached(log, tail) = tail[1].event_id - 1
              /\ tail[1].event_id \in Nat
            BY <1>3, <2>2, FirstOfQueue
        <3>2. m < tail[1].event_id
            <4>1. Dest(log, m) = q
                BY <1>1, FirstOfQueue
            <4> QED BY <1>3, <3>1, <4>1 DEF QueueOK
        <3> QED BY <1>2, <3>1, <3>2
    <2> QED BY <2>1, <2>2
<1>5. ASSUME NEW n \in DOMAIN log, m < n, n <= Reached(log, tail), Dest(log, n) = q
      PROVE  FALSE
    <2>1. n \in Nat
        BY InLog DEF LogOK
    <2>2. n \notin done
        <3>1. n \in done => n < m
            BY <1>1, <1>2, <1>5 DEF QueueOK
        <3> QED BY <1>2, <1>5, <2>1, <3>1
    <2>3. PICK i \in DOMAIN queue : queue[i].event_id = n
        BY <1>1, <1>5, <2>2 DEF NothingMissing
    <2>4. i # 1
        BY <1>1, <1>2, <1>5, <2>1, <2>3
    <2>5. PICK j \in DOMAIN tail : tail[j].event_id = n
        BY <1>3, <2>3, <2>4
    <2>6. tail \in Seq(EventRecords)
        BY <1>3 DEF QueueOK
    <2>7. tail # <<>> /\ (j = 1 \/ 1 < j)
        BY <2>5, <2>6, LenProperties, EmptySeq
    <2>8. 1 \in DOMAIN tail /\ Reached(log, tail) = tail[1].event_id - 1 /\ tail[1].event_id \in Nat
        BY <1>3, <2>7, FirstOfQueue
    <2>9. tail[1].event_id <= n
        <3>1. 1 < j => tail[1].event_id < n
            BY <1>3, <2>5, <2>8 DEF QueueOK
        <3> QED BY <2>1, <2>5, <2>7, <2>8, <3>1
    <2> QED BY <1>5, <2>1, <2>8, <2>9
<1> QED BY <1>1, <1>4, <1>5 DEF Quiet

LEMMA MissingSent ==
    ASSUME NEW log, LogOK(log), NEW e \in EventRecords, LogOK(Append(log, e)),
           \A m \in DOMAIN log : Dest(Append(log, e), m) = Dest(log, m),
           NEW done, NEW queues, NothingMissing(queues, log, done),
           NEW t,
           \A q \in Partitions :
              /\ queues[q] \in Seq(EventRecords)
              /\ t[q] = IF q = Dest(Append(log, e), Len(log) + 1) THEN Append(queues[q], e)
                        ELSE queues[q]
    PROVE  NothingMissing(t, Append(log, e), done)
<1>1. PICK n, new : n = Len(log) + 1 /\ new = Append(log, e)
    OBVIOUS
<1>2. /\ DOMAIN new = DOMAIN log \cup {n} /\ n \in DOMAIN new /\ new[n] = e
    BY <1>1, Longer DEF LogOK
<1>3. e.event_id = n
    BY <1>1, <1>2 DEF LogOK, Numbered
<1>4. ASSUME NEW m \in DOMAIN new, m \notin done
      PROVE  \E i \in DOMAIN t[Dest(new, m)] : t[Dest(new, m)][i].event_id = m
    <2>1. PICK q \in Partitions : q = Dest(new, m)
        BY <1>1, <1>4, Destination
    <2>2. PICK old, queue : old = queues[q] /\ queue = Append(old, e)
        OBVIOUS
    <2>3. old \in Seq(EventRecords)
        BY <2>2
    <2>4. /\ DOMAIN queue = DOMAIN old \cup {Len(old) + 1}
          /\ queue[Len(old) + 1] = e
          /\ \A i \in DOMAIN old : queue[i] = old[i]
        BY <2>2, <2>3, Longer
    <2>5. t[q] = IF q = Dest(new, n) THEN queue ELSE old
        BY <1>1, <2>2
    <2>6. CASE m = n
        BY <1>3, <2>1, <2>4, <2>5, <2>6
    <2>7. CASE m \in DOMAIN log
        <3>1. q = Dest(log, m)
            BY <1>1, <2>1, <2>7
        <3>2. PICK i \in DOMAIN old : old[i].event_id = m
            BY <1>4, <2>2, <2>7, <3>1 DEF NothingMissing
        <3> QED BY <2>1, <2>4, <2>5, <3>2
    <2> QED BY <1>2, <1>4, <2>6, <2>7
<1> QED BY <1>1, <1>4 DEF NothingMissing

LEMMA MissingHandled ==
    ASSUME NEW log, LogOK(log), NEW done, NEW queues, NEW q \in Partitions,
           QueueOK(queues[q], log, done, q), queues[q] # <<>>,
           NothingMissing(queues, log, done),
           NEW t, Behind(queues[q], t[q]),
           \A p \in Partitions : p # q => t[p] = queues[p],
           NEW after, \A n \in done : n \in after, queues[q][1].event_id \in after
    PROVE  NothingMissing(t, log, after)
<1>1. ASSUME NEW m \in DOMAIN log, m \notin after
      PROVE  \E i \in DOMAIN t[Dest(log, m)] : t[Dest(log, m)][i].event_id = m
    <2>1. PICK p \in Partitions : p = Dest(log, m)
        BY Destination
    <2>2. PICK i \in DOMAIN queues[p] : queues[p][i].event_id = m
        BY <1>1, <2>1 DEF NothingMissing
    <2>3. CASE p # q
        BY <2>1, <2>2, <2>3
    <2>4. CASE p = q
        <3>1. i # 1
            BY <1>1, <2>2, <2>4
        <3>2. PICK queue, tail : queue = queues[q] /\ tail = t[q]
            OBVIOUS
        <3>3. \A j \in DOMAIN queue : j = 1 \/ \E l \in DOMAIN tail : tail[l] = queue[j]
            BY <3>2, QueueShortened
        <3>4. PICK l \in DOMAIN tail : tail[l] = queue[i]
            BY <2>2, <2>4, <3>1, <3>2, <3>3
        <3> QED BY <2>1, <2>2, <2>4, <3>2, <3>4
    <2> QED BY <2>3, <2>4
<1> QED BY <1>1 DEF NothingMissing

LEMMA MatchedSent ==
    ASSUME NEW log, LogOK(log), NEW e \in EventRecords, LogOK(Append(log, e)),
           NoSplit(Append(log, e)),
           NEW T, NEW U, TraceOK(U, Append(log, e)), \A m \in 0 .. Len(log) : U[m] = T[m],
           NEW done, NEW queues, QueuesOK(queues, log, done),
           NEW inv, Matched(T, log, queues, inv),
           NEW t,
           \A q \in Partitions :
              t[q] = IF q = Dest(Append(log, e), Len(log) + 1) THEN Append(queues[q], e)
                     ELSE queues[q]
    PROVE  Matched(U, Append(log, e), t, inv)
<1>1. PICK n, new : n = Len(log) + 1 /\ new = Append(log, e)
    OBVIOUS
<1>2. /\ Len(log) \in Nat /\ Len(new) = n /\ DOMAIN new = DOMAIN log \cup {n} /\ new[n] = e
      /\ new \in Seq(EventRecords)
    BY <1>1, Longer, InLog DEF LogOK
<1>3. e.event_id = n
    BY <1>1, <1>2 DEF LogOK, Numbered
<1>4. ASSUME NEW k \in Keys
      PROVE  Caught(U, inv[k], k, Reached(new, t[Home(k)]))
    <2>1. PICK q \in Partitions : q = Home(k)
        BY HomeTyped
    <2>2. PICK queue, r : queue = queues[q] /\ r = Reached(log, queue)
        OBVIOUS
    <2>3. QueueOK(queue, log, done, q)
        BY <2>2 DEF QueuesOK
    <2>4. r \in 0 .. Len(log)
        BY <2>2, <2>3, ReachedTyped
    <2>5. Caught(T, inv[k], k, r)
        BY <2>1, <2>2 DEF Matched
    <2>6. Caught(U, inv[k], k, r)
        <3>1. \A m \in 0 .. r : m \in 0 .. Len(log)
            BY <1>2, <2>4
        <3> QED BY <2>4, <2>5, <3>1 DEF Caught
    <2>7. queue \in Seq(EventRecords)
        BY <2>3 DEF QueueOK
    <2>8. PICK longer : longer = Append(queue, e)
        OBVIOUS
    <2>9. /\ DOMAIN longer = DOMAIN queue \cup {Len(queue) + 1}
          /\ longer[Len(queue) + 1] = e
          /\ \A i \in DOMAIN queue : longer[i] = queue[i]
          /\ longer \in Seq(EventRecords)
        BY <2>7, <2>8, Longer
    <2>10. longer # <<>>
        BY <2>9, LenProperties, EmptySeq
    <2>11. t[q] = IF q = Dest(new, n) THEN longer ELSE queue
        BY <1>1, <2>2, <2>8
    <2>12. CASE queue # <<>>
        <3>1. 1 \in DOMAIN queue
            BY <2>7, <2>12, LenProperties, EmptySeq
        <3>2. t[q] # <<>> /\ t[q][1] = queue[1]
            BY <2>9, <2>10, <2>11, <2>12, <3>1
        <3>3. Reached(new, t[q]) = r
            BY <2>2, <2>12, <3>2 DEF Reached
        <3> QED BY <2>1, <2>6, <3>3
    <2>13. CASE queue = <<>> /\ q = Dest(new, n)
        <3>1. Len(queue) = 0
            BY <2>13, EmptySeq
        <3>2. t[q] = longer /\ t[q][1] = e
            BY <2>9, <2>11, <2>13, <3>1
        <3>3. Reached(new, t[q]) = r
            BY <1>1, <1>2, <1>3, <2>2, <2>10, <2>13, <3>2 DEF Reached
        <3> QED BY <2>1, <2>6, <3>3
    <2>14. CASE queue = <<>> /\ q # Dest(new, n)
        <3>1. r = Len(log) /\ Reached(new, t[q]) = n
            BY <1>2, <2>2, <2>11, <2>14 DEF Reached
        <3>2. Quiet(new, k, r, n)
            <4>1. \A m \in DOMAIN log : m <= Len(log) /\ m \in Nat
                BY InLog DEF LogOK
            <4>2. \A m \in DOMAIN new : r < m => m = n
                BY <1>2, <3>1, <4>1
            <4> QED BY <2>1, <2>14, <4>2 DEF Quiet
        <3>3. r \in 0 .. Len(new) /\ n \in 0 .. Len(new) /\ r <= n
            BY <1>1, <1>2, <3>1
        <3>4. TraceOK(U, new) /\ NoSplit(new)
            BY <1>1
        <3>5. Caught(U, inv[k], k, n)
            BY <1>2, <2>6, <3>2, <3>3, <3>4, CaughtLater
        <3> QED BY <2>1, <3>1, <3>5
    <2> QED BY <2>12, <2>13, <2>14
<1> QED BY <1>1, <1>4 DEF Matched

(* The first message of a partition makes of the stored rows of the        *)
(* partition what the trace has next, and of no other row anything.        *)
LEMMA NextRow ==
    ASSUME NEW log, LogOK(log), NoSplit(log), NEW T, TraceOK(T, log),
           NEW done, NEW queue, NEW q, QueueOK(queue, log, done, q), queue # <<>>,
           NEW s, \A j \in Keys : Home(j) = q => s.inventory[j] = T[Reached(log, queue)][j],
           NEW e, e = queue[1], SameOrder(s, OrderStore(log), e), NEW k \in Keys
    PROVE  /\ Home(k) = q => UpdatedInventory(s, e)[k] = T[e.event_id][k]
           /\ Home(k) # q => k \notin TouchedKeys(s, e)
<1>1. PICK m : m = e.event_id
    OBVIOUS
<1>2. /\ m \in DOMAIN log /\ log[m] = e /\ e \in EventRecords /\ Dest(log, m) = q
      /\ Reached(log, queue) = m - 1 /\ m \in Nat /\ m > 0
    BY <1>1, FirstOfQueue
<1>3. Placed(OrderStore(log), e)
    BY <1>2 DEF LogOK, EventsPlaced
<1>4. PICK before : before = StoreAt(T, log, m)
    OBVIOUS
<1>5. T[m] = UpdatedInventory(before, e) /\ before.inventory = T[m - 1]
    BY <1>2, <1>4 DEF TraceOK, IsTrace, StoreAt
<1>6. SameOrder(OrderStore(log), before, e) /\ SameOrder(s, before, e)
    BY <1>4 DEF SameOrder, OrderStore, StoreAt
<1>7. WellFormed(e) /\ TouchedKeys(OrderStore(log), e) \subseteq Keys
    BY <1>3, PositionsFinite DEF Placed
<1>8. TouchedKeys(s, e) = TouchedKeys(OrderStore(log), e) /\ TouchedKeys(s, e) = TouchedKeys(before, e)
    <2>1. PICK known : known = OrderStore(log)
        OBVIOUS
    <2>2. SameOrder(s, known, e) /\ SameOrder(s, before, e) /\ WellFormed(e)
        BY <1>6, <1>7, <2>1
    <2>3. TouchedKeys(s, e) = TouchedKeys(known, e)
        BY <2>2, SameTouched
    <2>4. TouchedKeys(s, e) = TouchedKeys(before, e)
        BY <2>2, SameTouched
    <2> QED BY <2>1, <2>3, <2>4
<1>9. \A j \in TouchedKeys(s, e) : j \in Keys /\ Home(j) = q
    BY <1>2, <1>7, <1>8, Destination
<1>10. \A j \in Keys : Home(j) = q => s.inventory[j] = before.inventory[j]
    BY <1>2, <1>5
<1>11. ASSUME Home(k) = q
       PROVE  UpdatedInventory(s, e)[k] = T[m][k]
    <2>1. CASE k \in TouchedKeys(s, e)
        <3>1. \A j \in TouchedKeys(s, e) : s.inventory[j] = before.inventory[j]
            BY <1>9, <1>10
        <3>2. UpdatedRow(s, e, k) = UpdatedRow(before, e, k)
            BY <1>2, <1>6, <2>1, <3>1, SameRow
        <3> QED BY <1>5, <1>8, <2>1, <3>2, UpdatedTouched
    <2>2. CASE k \notin TouchedKeys(s, e)
        BY <1>5, <1>8, <1>10, <1>11, <2>2, UpdatedTouched
    <2> QED BY <2>1, <2>2
<1> QED BY <1>1, <1>9, <1>11

LEMMA MatchedHandled ==
    ASSUME NEW log, LogOK(log), NoSplit(log), NEW T, TraceOK(T, log),
           NEW done, NEW queues, QueuesOK(queues, log, done),
           NEW q \in Partitions, queues[q] # <<>>, NothingMissing(queues, log, done),
           NEW s, Matched(T, log, queues, s.inventory),
           NEW e, e = queues[q][1], SameOrder(s, OrderStore(log), e),
           NEW new, new = UpdatedInventory(s, e), \A k \in Keys : new[k] \in Rows,
           NEW t, Behind(queues[q], t[q]), \A p \in Partitions : p # q => t[p] = queues[p]
    PROVE  Matched(T, log, t, new)
<1>1. QueueOK(queues[q], log, done, q)
    BY DEF QueuesOK
<1>2. PICK queue : queue = queues[q]
    OBVIOUS
<1>3. /\ QueueOK(queue, log, done, q) /\ queue # <<>> /\ e = queue[1]
      /\ \A j \in Keys : Home(j) = q => s.inventory[j] = T[Reached(log, queue)][j]
    BY <1>2, <1>1 DEF Matched, Caught
<1>4. \A k \in Keys : /\ Home(k) = q => UpdatedInventory(s, e)[k] = T[e.event_id][k]
                      /\ Home(k) # q => k \notin TouchedKeys(s, e)
    BY <1>3, NextRow
<1>5. ASSUME NEW k \in Keys
      PROVE  Caught(T, new[k], k, Reached(log, t[Home(k)]))
    <2>1. CASE Home(k) # q
        <3>1. Home(k) \in Partitions
            BY HomeTyped
        <3>2. k \notin TouchedKeys(s, e)
            BY <1>4, <2>1
        <3>3. new[k] = s.inventory[k]
            BY <3>2, UpdatedTouched
        <3>4. t[Home(k)] = queues[Home(k)]
            BY <2>1, <3>1
        <3> QED BY <3>3, <3>4 DEF Matched
    <2>2. CASE Home(k) = q
        <3>1. PICK m, r : m = e.event_id /\ r = Reached(log, t[q])
            OBVIOUS
        <3>2. m \in Nat /\ m > 0 /\ m <= Len(log) /\ Reached(log, queues[q]) = m - 1
            BY <1>1, <3>1, FirstOfQueue
        <3>3. m <= r /\ Quiet(log, k, m, r)
            BY <1>1, <2>2, <3>1, AfterFirst
        <3>4. new[k] = T[m][k]
            BY <1>4, <2>2, <3>1
        <3>5. new[k] \in Rows
            OBVIOUS
        <3>6. Fine(T[m][k])
            <4>1. T[m][k] \in Rows
                BY <3>4, <3>5
            <4> QED BY <4>1 DEF Fine, Rows
        <3>7. Caught(T, new[k], k, m)
            <4>1. \A i \in 0 .. m - 1 : Fine(T[i][k])
                BY <2>2, <3>2 DEF Matched, Caught
            <4>2. \A i \in 0 .. m : i = m \/ i \in 0 .. m - 1
                BY <3>2
            <4> QED BY <3>4, <3>6, <4>1, <4>2 DEF Caught
        <3>8. m \in 0 .. Len(log) /\ r \in 0 .. Len(log) /\ log \in Seq(EventRecords)
            <4>1. PICK after : after = done \cup {m}
                OBVIOUS
            <4>2. \A n \in after : n \in done \/ n = queues[q][1].event_id
                BY <3>1, <4>1
            <4>3. QueueOK(t[q], log, after, q)
                BY <1>1, <4>2, QueueShortened
            <4>4. Len(log) \in Nat
                BY InLog DEF LogOK
            <4> QED BY <3>1, <3>2, <4>3, <4>4, ReachedTyped DEF LogOK
        <3>9. Caught(T, new[k], k, r)
            BY <3>3, <3>7, <3>8, CaughtLater
        <3> QED BY <2>2, <3>1, <3>9
    <2> QED BY <2>1, <2>2
<1> QED BY <1>5 DEF Matched

-----------------------------------------------------------------------------
(* An event whose rows stay without negative quantities passes the checks. *)
LEMMA EnoughStock ==
    ASSUME NEW s, NEW e \in EventRecords, Placed(s, e),
           e.event_type = "ORDER_CREATED" => s.orders[e.order_id] = NoOrder,
           e.event_type = "ORDER_COMPLETED" =>
              s.orders[e.order_id] # NoOrder /\ s.orders[e.order_id].status = "CREATED",
           \A k \in TouchedKeys(s, e) :
              /\ s.inventory[k].available \in Int /\ s.inventory[k].reserved \in Int
              /\ s.inventory[k].available + DeltaAvailable(s, e, k) >= 0
              /\ s.inventory[k].reserved + DeltaReserved(s, e, k) >= 0
    PROVE  Checked(s, e)
<1>1. WellFormed(e) /\ e.quantity \in Int
    BY DEF Placed, EventRecords
<1>2. PICK row : row = <<e.product_id, e.zone_id>>
    OBVIOUS
<1>3. e.event_type \in ProductEventTypes => row \in TouchedKeys(s, e)
    BY <1>2, ProductTouched
<1>4. e.event_type \in {"PRODUCT_SHIPPED", "PRODUCT_RESERVED"} =>
        s.inventory[row].available >= e.quantity
    <2>1. ASSUME e.event_type \in {"PRODUCT_SHIPPED", "PRODUCT_RESERVED"}
          PROVE  s.inventory[row].available >= e.quantity
        <3>1. row \in TouchedKeys(s, e)
            BY <1>3, <2>1 DEF ProductEventTypes
        <3>2. DeltaAvailable(s, e, row) = -e.quantity
            BY <2>1 DEF DeltaAvailable
        <3> QED BY <1>1, <3>1, <3>2
    <2> QED BY <2>1
<1>5. e.event_type = "PRODUCT_RELEASED" => s.inventory[row].reserved >= e.quantity
    <2>1. ASSUME e.event_type = "PRODUCT_RELEASED"
          PROVE  s.inventory[row].reserved >= e.quantity
        <3>1. row \in TouchedKeys(s, e)
            BY <1>3, <2>1 DEF ProductEventTypes
        <3>2. DeltaReserved(s, e, row) = -e.quantity
            BY <2>1 DEF DeltaReserved
        <3> QED BY <1>1, <3>1, <3>2
    <2> QED BY <2>1
<1>6. PICK source : source = <<e.product_id, e.from_zone_id>>
    OBVIOUS
<1>7. e.event_type = "PRODUCT_MOVED" => s.inventory[source].available >= e.quantity
    <2>1. ASSUME e.event_type = "PRODUCT_MOVED"
          PROVE  s.inventory[source].available >= e.quantity
        <3>1. source \in TouchedKeys(s, e)
            BY <1>6, <2>1, SourceTouched
        <3>2. DeltaAvailable(s, e, source) = -e.quantity
            BY <1>6, <2>1 DEF DeltaAvailable
        <3> QED BY <1>1, <3>1, <3>2
    <2> QED BY <2>1
<1>8. StockSuffices(s, e)
    BY <1>2, <1>4, <1>5, <1>6, <1>7 DEF StockSuffices
<1>9. e.event_type = "ORDER_CREATED" =>
        \A k \in ItemKeys(e.items) : s.inventory[k].available >= GroupedQuantity(e.items, k)
    <2>1. ASSUME e.event_type = "ORDER_CREATED", NEW k \in ItemKeys(e.items)
          PROVE  s.inventory[k].available >= GroupedQuantity(e.items, k)
        <3>1. k \in TouchedKeys(s, e)
            BY <2>1 DEF TouchedKeys, ProductEventTypes
        <3>2. DeltaAvailable(s, e, k) = -GroupedQuantity(e.items, k)
            BY <2>1 DEF DeltaAvailable
        <3>3. GroupedQuantity(e.items, k) \in Nat
            BY <1>1, <2>1, GroupedItems DEF WellFormed, EventRecords
        <3> QED BY <3>1, <3>2, <3>3
    <2> QED BY <2>1
<1>10. PICK order : order = s.orders[e.order_id]
    OBVIOUS
<1>11. e.event_type = "ORDER_COMPLETED" =>
        \A k \in ItemKeys(order.items) : s.inventory[k].reserved >= GroupedQuantity(order.items, k)
    <2>1. ASSUME e.event_type = "ORDER_COMPLETED", NEW k \in ItemKeys(order.items)
          PROVE  s.inventory[k].reserved >= GroupedQuantity(order.items, k)
        <3>1. k \in TouchedKeys(s, e)
            BY <1>10, <2>1 DEF TouchedKeys, ProductEventTypes
        <3>2. DeltaReserved(s, e, k) = -GroupedQuantity(order.items, k)
            BY <1>10, <2>1 DEF DeltaReserved
        <3>3. GroupedQuantity(order.items, k) \in Nat
            BY <1>10, <2>1, GroupedItems DEF Placed
        <3> QED BY <3>1, <3>2, <3>3
    <2> QED BY <2>1
<1>12. OrderAllows(s, e)
    BY <1>9, <1>10, <1>11 DEF OrderAllows
<1> QED BY <1>1, <1>8, <1>12 DEF Checked

(* The totals are the sums of the rows: then a checked event leaves no     *)
(* total negative, and the sums stay right.                                *)
TotalsSummed(s) ==
    \A p \in Products :
        LET S == {k \in Keys : k[1] = p}
        IN  /\ s.totals[p].available = SumFunctionOnSet([k \in Keys |-> s.inventory[k].available], S)
            /\ s.totals[p].reserved = SumFunctionOnSet([k \in Keys |-> s.inventory[k].reserved], S)

LEMMA CheckedTotals ==
    ASSUME NEW s, StoreOK(s), TotalsSummed(s), NEW e \in EventRecords, Checked(s, e)
    PROVE  TotalsNonNegative(s, e)
<1>1. ASSUME NEW k \in Keys
      PROVE  /\ UpdatedInventory(s, e)[k].available \in Nat
             /\ UpdatedInventory(s, e)[k].reserved \in Nat
    <2>1. s.inventory[k].available \in Nat /\ s.inventory[k].reserved \in Nat
        BY DEF StoreOK, Rows
    <2>2. CASE k \in TouchedKeys(s, e)
        <3>1. /\ DeltaAvailable(s, e, k) \in Int /\ DeltaReserved(s, e, k) \in Int
              /\ s.inventory[k].available + DeltaAvailable(s, e, k) >= 0
              /\ s.inventory[k].reserved + DeltaReserved(s, e, k) >= 0
            BY <2>2, CheckedRows
        <3>2. UpdatedInventory(s, e)[k] = UpdatedRow(s, e, k)
            BY <2>2, UpdatedTouched
        <3> QED BY <2>1, <3>1, <3>2 DEF UpdatedRow
    <2>3. CASE k \notin TouchedKeys(s, e)
        BY <2>1, <2>3, UpdatedTouched
    <2> QED BY <2>2, <2>3
<1>2. ASSUME NEW k0 \in TouchedKeys(s, e)
      PROVE  UpdatedTotal(s, e, k0[1]).available >= 0 /\ UpdatedTotal(s, e, k0[1]).reserved >= 0
    <2>1. PICK p \in Products : p = k0[1]
        BY CheckedRows DEF Keys
    <2> DEFINE S   == {k \in Keys : k[1] = p}
               new == UpdatedInventory(s, e)
               ga  == [k \in Keys |-> new[k].available]
               gr  == [k \in Keys |-> new[k].reserved]
    <2>2. IsFiniteSet(S)
        BY KeysFinite, FS_Subset
    <2>3. \A k \in S : ga[k] \in Nat /\ gr[k] \in Nat
        BY <1>1
    <2>4. UpdatedTotals(s, e)[p] = UpdatedTotal(s, e, p)
        <3>1. KeysOf(s, e, p) # {}
            BY <2>1 DEF KeysOf
        <3> QED BY <3>1 DEF UpdatedTotals
    <2>5. /\ UpdatedTotals(s, e)[p].available = SumFunctionOnSet(ga, S)
          /\ UpdatedTotals(s, e)[p].reserved = SumFunctionOnSet(gr, S)
        <3>1. /\ s.totals[p].available = SumFunctionOnSet([k \in Keys |-> s.inventory[k].available], S)
              /\ s.totals[p].reserved = SumFunctionOnSet([k \in Keys |-> s.inventory[k].reserved], S)
            BY DEF TotalsSummed
        <3> QED BY ZenonT(30), <3>1, TotalsUpdated
    <2> HIDE DEF S, new, ga, gr
    <2>6. SumFunctionOnSet(ga, S) \in Nat /\ SumFunctionOnSet(gr, S) \in Nat
        BY <2>2, <2>3, SumNat
    <2> QED BY <2>1, <2>4, <2>5, <2>6
<1> QED BY <1>2 DEF TotalsNonNegative

-----------------------------------------------------------------------------
(* What the events put into a zone bounds what is there.                   *)
AddedSum(log, done, z) == SumFunctionOnSet([i \in DOMAIN log |-> Added(log[i], z)], done)

LEMMA AddedTyped ==
    ASSUME NEW e \in EventRecords, WellFormed(e), NEW z
    PROVE  Added(e, z) \in Nat
<1>1. e.quantity \in Int /\ e.counted_quantity \in Int
    BY DEF EventRecords
<1>2. e.event_type = "PRODUCT_RECEIVED" \/ e.event_type = "PRODUCT_MOVED" => e.quantity > 0
    BY DEF WellFormed, ProductEventTypes
<1>3. e.event_type = "INVENTORY_COUNTED" => e.counted_quantity >= 0
    BY DEF WellFormed
<1> QED BY <1>1, <1>2, <1>3 DEF Added

LEMMA AddedSums ==
    ASSUME NEW log, LogOK(log), NEW done, done \subseteq DOMAIN log, NEW z
    PROVE  /\ IsFiniteSet(done) /\ IsFiniteSet(DOMAIN log)
           /\ AddedSum(log, done, z) \in Nat
           /\ AddedSum(log, done, z) <= AddedSum(log, DOMAIN log, z)
           /\ \A m \in DOMAIN log : Added(log[m], z) \in Nat
<1> DEFINE f == [i \in DOMAIN log |-> Added(log[i], z)]
           D == DOMAIN log
<1>1. IsFiniteSet(D)
    BY InLog, FS_Interval DEF LogOK
<1>2. IsFiniteSet(done) /\ IsFiniteSet(D \ done)
    BY <1>1, FS_Subset
<1>3. \A m \in D : Added(log[m], z) \in Nat
    BY InLog, AddedTyped DEF LogOK, EventsPlaced, Placed
<1>4. \A m \in D : f[m] \in Nat
    BY <1>3
<1>5. AddedSum(log, done, z) = SumFunctionOnSet(f, done) /\ AddedSum(log, D, z) = SumFunctionOnSet(f, D)
    BY DEF AddedSum
<1>6. D = done \cup (D \ done)
    OBVIOUS
<1> HIDE DEF f
<1>7. SumFunctionOnSet(f, done) \in Nat /\ SumFunctionOnSet(f, D \ done) \in Nat
    BY <1>2, <1>4, SumNat
<1>8. SumFunctionOnSet(f, done \cup (D \ done))
        = SumFunctionOnSet(f, done) + SumFunctionOnSet(f, D \ done)
    <2>1. \A x \in done \cup (D \ done) : f[x] \in Int
        BY <1>4
    <2>2. done \cap (D \ done) = {}
        OBVIOUS
    <2> HIDE DEF D
    <2> QED BY <1>2, <2>1, <2>2, SumUnion
<1> QED BY <1>1, <1>2, <1>3, <1>5, <1>6, <1>7, <1>8

LEMMA AddedOne ==
    ASSUME NEW log, LogOK(log), NEW done, done \subseteq DOMAIN log, NEW z,
           NEW m \in DOMAIN log, m \notin done
    PROVE  AddedSum(log, done \cup {m}, z) = AddedSum(log, done, z) + Added(log[m], z)
<1> DEFINE f == [i \in DOMAIN log |-> Added(log[i], z)]
           D == done \cup {m}
<1>1. D \subseteq DOMAIN log /\ m \in D /\ D \ {m} = done
    OBVIOUS
<1>2. IsFiniteSet(D)
    BY <1>1, AddedSums
<1>3. \A i \in D : f[i] \in Int
    BY AddedSums
<1>4. f[m] = Added(log[m], z) /\ f[m] \in Int
    BY <1>1, <1>3
<1>5. AddedSum(log, D, z) = SumFunctionOnSet(f, D) /\ AddedSum(log, done, z) = SumFunctionOnSet(f, done)
    BY DEF AddedSum
<1>6. AddedSum(log, done, z) \in Nat
    BY AddedSums
<1> HIDE DEF f, D
<1>7. SumFunctionOnSet(f, D) = f[m] + SumFunctionOnSet(f, D \ {m})
    BY <1>1, <1>2, <1>3, SumRemove
<1>8. SumFunctionOnSet(f, D \ {m}) = SumFunctionOnSet(f, done)
    BY <1>1, Zenon
<1>9. AddedSum(log, D, z) = AddedSum(log, done, z) + Added(log[m], z)
    BY <1>4, <1>5, <1>6, <1>7, <1>8
<1> QED BY <1>9, Zenon DEF D

LEMMA AddedLonger ==
    ASSUME NEW log, LogOK(log), NEW e \in EventRecords, LogOK(Append(log, e)), NEW z
    PROVE  /\ \A done : done \subseteq DOMAIN log =>
                 AddedSum(Append(log, e), done, z) = AddedSum(log, done, z)
           /\ AddedSum(log, DOMAIN log, z)
                <= AddedSum(Append(log, e), DOMAIN Append(log, e), z)
<1>1. PICK new : new = Append(log, e)
    OBVIOUS
<1>2. DOMAIN log \subseteq DOMAIN new /\ \A m \in DOMAIN log : new[m] = log[m]
    BY <1>1, Longer DEF LogOK
<1>3. ASSUME NEW done, done \subseteq DOMAIN log
      PROVE  AddedSum(new, done, z) = AddedSum(log, done, z)
    <2> DEFINE f == [i \in DOMAIN log |-> Added(log[i], z)]
               g == [i \in DOMAIN new |-> Added(new[i], z)]
    <2>1. IsFiniteSet(done)
        BY <1>3, AddedSums
    <2>2. \A i \in done : g[i] = f[i]
        BY <1>2, <1>3
    <2>3. AddedSum(new, done, z) = SumFunctionOnSet(g, done) /\ AddedSum(log, done, z) = SumFunctionOnSet(f, done)
        BY DEF AddedSum
    <2> HIDE DEF f, g
    <2> QED BY <2>1, <2>2, <2>3, SumEqual
<1>4. AddedSum(new, DOMAIN log, z) <= AddedSum(new, DOMAIN new, z)
    BY <1>1, <1>2, AddedSums
<1>5. AddedSum(new, DOMAIN log, z) = AddedSum(log, DOMAIN log, z)
    BY <1>3
<1> QED BY <1>1, <1>3, <1>4, <1>5

LEMMA SumNotPositive ==
    ASSUME NEW d, NEW S, IsFiniteSet(S), \A x \in S : d[x] \in Int /\ d[x] <= 0
    PROVE  SumFunctionOnSet(d, S) <= 0
<1> DEFINE n == [x \in S |-> -d[x]]
           o == [x \in S |-> 0]
<1>1. \A x \in S : n[x] \in Nat /\ n[x] \in Int /\ o[x] \in Int /\ o[x] = d[x] + n[x]
    OBVIOUS
<1>2. \A x \in S \ {} : o[x] = 0
    OBVIOUS
<1>3. {} \in SUBSET S
    OBVIOUS
<1> HIDE DEF n, o
<1>4. SumFunctionOnSet(o, S) = SumFunctionOnSet(d, S) + SumFunctionOnSet(n, S)
    BY <1>1, SumAdd
<1>5. SumFunctionOnSet(o, S) = 0
    <2>1. SumFunctionOnSet(o, S) = SumFunctionOnSet(o, {})
        BY <1>1, <1>2, <1>3, SumSupport
    <2> QED BY <2>1, SumEmpty
<1>6. SumFunctionOnSet(n, S) \in Nat /\ SumFunctionOnSet(d, S) \in Int
    BY <1>1, SumNat, SumInt
<1> QED BY <1>4, <1>5, <1>6

(* An event puts no more into a zone than what it adds there.              *)
LEMMA AddedBound ==
    ASSUME NEW s, StoreOK(s), NEW e \in EventRecords, Checked(s, e), NEW z
    PROVE  SumFunctionOnSet([k \in Keys |-> DeltaAvailable(s, e, k) + DeltaReserved(s, e, k)],
                            {k \in TouchedKeys(s, e) : k[2] = z}) <= Added(e, z)
<1> DEFINE d == [k \in Keys |-> DeltaAvailable(s, e, k) + DeltaReserved(s, e, k)]
           D == {k \in TouchedKeys(s, e) : k[2] = z}
<1>1. /\ WellFormed(e) /\ e.quantity \in Int /\ e.counted_quantity \in Int
      /\ e.items \in Seq(Items) /\ Added(e, z) \in Nat
    BY AddedTyped DEF Checked, EventRecords
<1>2. D \subseteq Keys /\ IsFiniteSet(D)
    <2>1. D \subseteq Keys
        BY CheckedRows
    <2> QED BY <2>1, KeysFinite, FS_Subset
<1>3. \A k \in D : /\ d[k] = DeltaAvailable(s, e, k) + DeltaReserved(s, e, k)
                   /\ DeltaAvailable(s, e, k) \in Int /\ DeltaReserved(s, e, k) \in Int
                   /\ k \in TouchedKeys(s, e) /\ k[2] = z
                   /\ s.inventory[k].available \in Nat
    BY <1>2, CheckedRows DEF StoreOK, Rows
<1>4. ASSUME \A k \in D : d[k] <= 0
      PROVE  SumFunctionOnSet(d, D) <= Added(e, z)
    <2>1. \A k \in D : d[k] \in Int /\ d[k] <= 0
        BY <1>3, <1>4
    <2>2. SumFunctionOnSet(d, D) \in Int
        <3> HIDE DEF d, D
        <3> QED BY <1>2, <2>1, SumInt
    <2>3. SumFunctionOnSet(d, D) <= 0
        <3> HIDE DEF d, D
        <3> QED BY <1>2, <2>1, SumNotPositive
    <2> HIDE DEF d, D
    <2> QED BY <1>1, <2>2, <2>3
<1>5. ASSUME NEW k0, D \subseteq {k0}, \A k \in D : d[k] <= Added(e, z)
      PROVE  SumFunctionOnSet(d, D) <= Added(e, z)
    <2>1. \A k \in D : d[k] \in Int
        BY <1>3
    <2>2. CASE D = {}
        <3> HIDE DEF d, D
        <3>1. SumFunctionOnSet(d, {}) = 0
            BY SumEmpty
        <3> QED BY <1>1, <2>2, <3>1
    <2>3. CASE D = {k0}
        <3> HIDE DEF d, D
        <3>1. d[k0] \in Int /\ d[k0] <= Added(e, z)
            BY <1>5, <2>1, <2>3
        <3>2. SumFunctionOnSet(d, {k0}) = d[k0]
            BY <3>1, SumOne
        <3> QED BY <2>3, <3>1, <3>2
    <2> QED BY <1>5, <2>2, <2>3
<1>6. CASE e.event_type \in ProductEventTypes
    <2>1. D \subseteq {<<e.product_id, e.zone_id>>}
        BY <1>6, ProductTouched
    <2>2. \A k \in D : e.zone_id = z
        BY <1>6, ProductTouched
    <2>3. \A k \in D : d[k] <= Added(e, z)
        <3>1. CASE e.event_type = "PRODUCT_RECEIVED"
            BY <1>1, <1>3, <2>2, <3>1 DEF DeltaAvailable, DeltaReserved, Added
        <3>2. CASE e.event_type \in {"PRODUCT_SHIPPED", "PRODUCT_RESERVED", "PRODUCT_RELEASED"}
            <4>1. e.quantity > 0
                BY <1>1, <3>2 DEF WellFormed, ProductEventTypes
            <4>2. \A k \in D : d[k] <= 0
                <5>1. CASE e.event_type = "PRODUCT_SHIPPED"
                    BY <1>1, <1>3, <4>1, <5>1 DEF DeltaAvailable, DeltaReserved
                <5>2. CASE e.event_type = "PRODUCT_RESERVED"
                    BY <1>1, <1>3, <4>1, <5>2 DEF DeltaAvailable, DeltaReserved
                <5>3. CASE e.event_type = "PRODUCT_RELEASED"
                    BY <1>1, <1>3, <4>1, <5>3 DEF DeltaAvailable, DeltaReserved
                <5> QED BY <3>2, <5>1, <5>2, <5>3
            <4> QED BY <1>1, <1>3, <4>2
        <3>3. CASE e.event_type = "INVENTORY_COUNTED"
            <4>1. Added(e, z) = IF e.zone_id = z THEN e.counted_quantity ELSE 0
                BY <3>3 DEF Added
            <4> SUFFICES ASSUME NEW k \in D
                         PROVE  d[k] <= Added(e, z)
                OBVIOUS
            <4>2. DeltaAvailable(s, e, k) = e.counted_quantity - s.inventory[k].available
                BY <3>3 DEF DeltaAvailable
            <4>3. DeltaReserved(s, e, k) = 0
                BY <3>3 DEF DeltaReserved
            <4>4. d[k] = e.counted_quantity - s.inventory[k].available
                <5>1. /\ d[k] = DeltaAvailable(s, e, k) + DeltaReserved(s, e, k)
                      /\ DeltaAvailable(s, e, k) \in Int
                    BY <1>3
                <5> HIDE DEF d, D
                <5> QED BY <5>1, <4>2, <4>3
            <4>5. e.counted_quantity >= 0
                BY <1>1, <3>3 DEF WellFormed
            <4>6. s.inventory[k].available \in Nat /\ Added(e, z) = e.counted_quantity
                BY <1>3, <2>2, <4>1
            <4> HIDE DEF d, D
            <4> QED BY <1>1, <4>4, <4>5, <4>6
        <3> QED BY <1>6, <3>1, <3>2, <3>3 DEF ProductEventTypes
    <2> QED BY <1>5, <2>1, <2>3
<1>7. CASE e.event_type = "PRODUCT_MOVED"
    <2>1. e.quantity > 0 /\ e.from_zone_id # e.to_zone_id
        BY <1>1, <1>7 DEF WellFormed
    <2>2. \A k \in D : k = <<e.product_id, e.from_zone_id>> \/ k = <<e.product_id, e.to_zone_id>>
        BY <1>7, MovedTouched
    <2>3. D \subseteq {<<e.product_id, z>>}
        BY <1>3, <2>2
    <2>4. ASSUME NEW k \in D PROVE d[k] <= Added(e, z)
        <3>1. d[k] = (IF z = e.from_zone_id THEN -e.quantity ELSE e.quantity) + 0
            BY <1>3, <1>7 DEF DeltaAvailable, DeltaReserved
        <3>2. z # e.from_zone_id => e.to_zone_id = z
            BY <1>3, <2>2
        <3>3. Added(e, z) = IF e.to_zone_id = z THEN e.quantity ELSE 0
            BY <1>7 DEF Added
        <3> QED BY <1>1, <2>1, <3>1, <3>2, <3>3
    <2> QED BY <1>5, <2>3, <2>4
<1>8. CASE e.event_type = "ORDER_CREATED"
    <2>1. ASSUME NEW k \in D PROVE d[k] <= 0
        <3>1. GroupedQuantity(e.items, k) \in Nat
            BY <1>1, <1>8, GroupedItems DEF WellFormed
        <3>2. /\ DeltaAvailable(s, e, k) = -GroupedQuantity(e.items, k)
              /\ DeltaReserved(s, e, k) = GroupedQuantity(e.items, k)
            BY <1>8 DEF DeltaAvailable, DeltaReserved
        <3> QED BY <1>3, <3>1, <3>2
    <2> QED BY <1>4, <2>1
<1>9. CASE e.event_type = "ORDER_COMPLETED"
    <2>1. ASSUME NEW k \in D PROVE d[k] <= 0
        <3>1. PICK items : items = s.orders[e.order_id].items
            OBVIOUS
        <3>2. GroupedQuantity(items, k) \in Nat
            <4>1. e.order_id \in OrderIds
                BY <1>1, <1>9 DEF WellFormed, EventRecords, OrderEventTypes
            <4>2. s.orders[e.order_id] # NoOrder
                BY <1>9 DEF Checked, OrderAllows
            <4>3. items \in Seq(Items) /\ ItemsWellFormed(items)
                BY <3>1, <4>1, <4>2 DEF StoreOK, OrderRows
            <4> QED BY <4>3, GroupedItems
        <3>3. DeltaAvailable(s, e, k) = 0 /\ DeltaReserved(s, e, k) = -GroupedQuantity(items, k)
            BY <1>9, <3>1 DEF DeltaAvailable, DeltaReserved
        <3> QED BY <1>3, <3>2, <3>3
    <2> QED BY <1>4, <2>1
<1> QED BY <1>1, <1>6, <1>7, <1>8, <1>9 DEF WellFormed, EventTypes, OrderEventTypes

-----------------------------------------------------------------------------
(* The state.  An open order was sent, nothing completes it yet, and its   *)
(* routing key is the one of its first item; an order that is not open any *)
(* more was completed, unless the generator forgot it.                     *)
OrdersSent ==
    task # "failed" =>
        \A o \in OrderIds : open[o] # <<>> =>
            /\ IsOrder(sent, o) /\ sent[o].items = open[o]
            /\ routedBy[o] = sent[o].items[1].product_id
            /\ \A m \in DOMAIN sent : ~Completes(sent[m], o)

OrdersGone ==
    restarts = 0 /\ task # "failed" =>
        \A o \in OrderIds : IsOrder(sent, o) /\ open[o] = <<>> =>
            \E m \in DOMAIN sent : Completes(sent[m], o)

LogInv ==
    /\ LogOK(sent)
    /\ routedBy \in [OrderIds -> Products \cup {NoText}]
    /\ OrdersSent /\ OrdersGone

(* The steps of the generator: it sends event e, or the log stays.  The    *)
(* log stays as well when the migrations run.                              *)
Sending(e) ==
    /\ sent' = Append(sent, e) /\ task # "failed" /\ task' = "sleeping" /\ restarts' = restarts
    /\ Announced(e)
    /\ overplanned' = (overplanned \/ ~(SimulationIsPossible'))
    /\ collided => collided'
    /\ tables' = tables /\ lost' = lost /\ consumer' = consumer
    /\ inTransit' \in [Partitions -> Seq(EventRecords)]
    /\ \A q : q \in Partitions =>
          inTransit'[q] = IF q = Dest(Append(sent, e), Len(sent) + 1)
                          THEN Append(inTransit[q], e) ELSE inTransit[q]
    /\ routedBy' = IF e.event_type = "ORDER_CREATED"
                   THEN [routedBy EXCEPT ![Now] = e.items[1].product_id] ELSE routedBy

Silent ==
    /\ sent' = sent /\ tables' = tables /\ inTransit' = inTransit /\ routedBy' = routedBy
    /\ lost' = lost /\ restarts' = restarts
    /\ overplanned => overplanned'
    /\ collided => collided'
    /\ skipped' = skipped /\ (migrations' = 0 => migrations = 0)
    /\ task' # "failed" => task # "failed" /\ sim' = sim /\ open' = open

LEMMA EventsNumbered ==
    ASSUME NEW log, LogOK(log), NEW m \in DOMAIN log
    PROVE  m \in OrderIds /\ m \in EventIds /\ log[m].event_id = m
<1>1. log[m] \in EventRecords /\ log[m].event_id = m
    BY InLog DEF LogOK, Numbered
<1> QED BY <1>1, NumberedEvents DEF EventRecords

(* The event that is sent continues the log.                               *)
LEMMA SentContinues ==
    ASSUME LogInv, sent \in Seq(EventRecords), NEW e \in EventRecords, task # "failed",
           Announced(e)
    PROVE  /\ LogOK(Append(sent, e))
           /\ \A m \in DOMAIN sent : Dest(Append(sent, e), m) = Dest(sent, m)
           /\ e.event_type = "ORDER_COMPLETED" =>
                 IsOrder(sent, e.order_id) /\ open[e.order_id] # <<>> /\ e.order_id \in OrderIds
<1>1. LogOK(sent) /\ Placed(SimStore(sim, sent), e)
    BY DEF LogInv, Announced
<1>2. Placed(OrderStore(sent), e)
    <2>1. SameOrder(SimStore(sim, sent), OrderStore(sent), e)
        BY DEF SameOrder, SimStore, OrderStore
    <2> QED BY <1>1, <2>1, PlacedSame
<1>3. e.event_id = Len(sent) + 1 /\ e.occurred_at = Len(sent) + 1
    BY DEF Announced, Now
<1>4. e.event_type = "ORDER_CREATED" => e.order_id = Len(sent) + 1
    BY DEF Announced, Now, OrderEventTypes
<1>5. e.event_type = "ORDER_COMPLETED" =>
         /\ IsOrder(sent, e.order_id) /\ \A m \in DOMAIN sent : ~Completes(sent[m], e.order_id)
         /\ open[e.order_id] # <<>> /\ e.order_id \in OrderIds
    BY DEF Announced, LogInv, OrdersSent, OrderEventTypes
<1> QED BY <1>1, <1>2, <1>3, <1>4, <1>5, LogGrows

LEMMA GenerateSends ==
    ASSUME GenInv, LogInv, inTransit \in [Partitions -> Seq(EventRecords)], Generate,
           ~collided'
    PROVE  Silent \/ \E e \in EventRecords : Sending(e)
<1>1. Operate /\ task # "failed" /\ TypeOK /\ sent \in Seq(EventRecords)
    BY DEF Generate, Operate, Awake, GenInv, TypeOK
<1>2. \A o \in OrderIds : open[o] # <<>> =>
         sent[o].items = open[o] /\ ItemKeys(open[o]) \subseteq Positions
    <2> SUFFICES ASSUME NEW o \in OrderIds, open[o] # <<>>
                 PROVE  sent[o].items = open[o] /\ ItemKeys(open[o]) \subseteq Positions
        OBVIOUS
    <2>1. IsOrder(sent, o) /\ sent[o].items = open[o]
        BY <1>1 DEF LogInv, OrdersSent
    <2>2. Placed(OrderStore(sent), sent[o]) /\ sent[o].event_type = "ORDER_CREATED"
        BY <2>1 DEF LogInv, LogOK, EventsPlaced, IsOrder
    <2>3. TouchedKeys(OrderStore(sent), sent[o]) = ItemKeys(sent[o].items)
        BY <2>2 DEF TouchedKeys, ProductEventTypes
    <2> QED BY <2>1, <2>2, <2>3 DEF Placed
<1>3. PICK e \in EventRecords : Announced(e) /\ Publish(e)
    BY <1>1, <1>2, OperateAnnounced
<1>4. /\ overplanned' = (overplanned \/ ~(SimulationIsPossible')) /\ restarts' = restarts
      /\ collided => collided'
      /\ tables' = tables /\ lost' = lost /\ consumer' = consumer
    BY <1>3 DEF Publish, Generate
<1>5. CASE sent' = sent /\ task' = "failed"
    <2>1. inTransit' = inTransit /\ routedBy' = routedBy
        BY <1>5 DEF Generate
    <2> QED BY <1>4, <1>5, <2>1 DEF Silent, consumer
<1>6. CASE /\ sent' = Append(sent, e) /\ task' = "sleeping"
           /\ Len(sent') = Len(sent) + 1 /\ sent'[Len(sent')] = e
    <2>1. PICK new, n : new = Append(sent, e) /\ n = Len(sent) + 1
        OBVIOUS
    <2>2. /\ new = sent' /\ new[n] = e /\ LogOK(new) /\ new # sent
          /\ Dest(new, n) \in Partitions /\ n \in DOMAIN new
          /\ \A m \in DOMAIN sent : new[m] = sent[m]
        <3>1. LogOK(new) /\ n \in DOMAIN new /\ new[n] = e
              /\ \A m \in DOMAIN sent : new[m] = sent[m]
            BY <1>1, <1>3, <2>1, SentContinues, Longer
        <3>2. Len(new) # Len(sent)
            BY <1>1, <1>6, <2>1, InLog
        <3> QED BY <1>6, <2>1, <3>1, <3>2, Destination
    <2>3. RoutingKey(e) = Route(new, n)
        <3>1. CASE e.event_type = "ORDER_CREATED"
            BY <2>2, <3>1 DEF RoutingKey, Route
        <3>2. CASE e.event_type = "ORDER_COMPLETED"
            <4>1. IsOrder(sent, e.order_id) /\ open[e.order_id] # <<>> /\ e.order_id \in OrderIds
                BY <1>1, <1>3, <3>2, SentContinues
            <4>2. routedBy[e.order_id] = sent[e.order_id].items[1].product_id
                BY <1>1, <4>1 DEF LogInv, OrdersSent
            <4>3. new[e.order_id] = sent[e.order_id]
                BY <2>2, <4>1 DEF IsOrder
            <4> QED BY <2>2, <3>2, <4>2, <4>3 DEF RoutingKey, Route
        <3>3. CASE e.event_type \notin {"ORDER_CREATED", "ORDER_COMPLETED"}
            BY <2>2, <3>3 DEF RoutingKey, Route
        <3> QED BY <3>1, <3>2, <3>3
    <2>4. PICK q0 : q0 = Dest(new, n)
        OBVIOUS
    <2>5. /\ inTransit' = [inTransit EXCEPT ![q0] = Append(@, e)]
          /\ routedBy' = IF e.event_type = "ORDER_CREATED"
                         THEN [routedBy EXCEPT ![e.order_id] = RoutingKey(e)] ELSE routedBy
        BY <1>6, <2>2, <2>3, <2>4 DEF Generate, Dest
    <2>6. \A q : q \in Partitions =>
             inTransit'[q] = IF q = q0 THEN Append(inTransit[q], e) ELSE inTransit[q]
        BY <2>5
    <2>9. inTransit' \in [Partitions -> Seq(EventRecords)]
        <3>1. PICK longer : longer = Append(inTransit[q0], e)
            OBVIOUS
        <3>2. longer \in Seq(EventRecords)
            BY <2>2, <2>1, <2>4, <3>1, AppendProperties
        <3>3. inTransit' = [inTransit EXCEPT ![q0] = longer]
            BY <2>5, <3>1
        <3> QED BY <3>2, <3>3
    <2>7. e.event_type = "ORDER_CREATED" => e.order_id = Now /\ RoutingKey(e) = e.items[1].product_id
        BY <1>3 DEF Announced, OrderEventTypes, RoutingKey
    <2>8. routedBy' = IF e.event_type = "ORDER_CREATED"
                      THEN [routedBy EXCEPT ![Now] = e.items[1].product_id] ELSE routedBy
        BY <2>5, <2>7
    <2> QED BY <1>1, <1>3, <1>4, <1>6, <2>1, <2>4, <2>6, <2>8, <2>9, Zenon DEF Sending
<1> QED BY <1>1, <1>3, <1>5, <1>6, PublishSends

LEMMA LogSent ==
    ASSUME GenInv, LogInv, NEW e \in EventRecords, Sending(e)
    PROVE  LogInv'
<1>1. PICK new, n : new = Append(sent, e) /\ n = Len(sent) + 1
    OBVIOUS
<1>2. /\ LogOK(new) /\ sent' = new /\ n \in DOMAIN new /\ new[n] = e /\ n = Now
      /\ DOMAIN new = DOMAIN sent \cup {n} /\ n \notin DOMAIN sent /\ n \in OrderIds
      /\ \A m \in DOMAIN sent : new[m] = sent[m] /\ m < n
    <2>1. sent \in Seq(EventRecords) /\ task # "failed" /\ Announced(e) /\ sent' = new
        BY <1>1 DEF GenInv, TypeOK, Sending
    <2>2. LogOK(new)
        BY <1>1, <2>1, SentContinues
    <2>3. /\ n \in DOMAIN new /\ new[n] = e /\ DOMAIN new = DOMAIN sent \cup {n}
          /\ n \notin DOMAIN sent /\ \A m \in DOMAIN sent : new[m] = sent[m]
        BY <1>1, <2>1, Longer
    <2>4. \A m \in DOMAIN sent : m < n
        BY <1>1, <2>1, InLog
    <2> QED BY <1>1, <2>1, <2>2, <2>3, <2>4, EventsNumbered DEF Now
<1>3. /\ open \in [OrderIds -> Seq(Items)] /\ WellFormed(e)
      /\ \/ e.event_type \notin OrderEventTypes /\ open' = open
         \/ /\ e.event_type = "ORDER_CREATED" /\ e.order_id = n
            /\ open' = [open EXCEPT ![n] = e.items]
         \/ /\ e.event_type = "ORDER_COMPLETED" /\ e.order_id \in OrderIds
            /\ open[e.order_id] # <<>> /\ open' = [open EXCEPT ![e.order_id] = <<>>]
    BY <1>2 DEF GenInv, TypeOK, Sending, Announced, Placed
<1>4. task # "failed" /\ restarts' = restarts
    BY DEF Sending
<1>5. routedBy' \in [OrderIds -> Products \cup {NoText}]
    <2>1. routedBy \in [OrderIds -> Products \cup {NoText}]
        BY DEF LogInv
    <2>2. e.event_type = "ORDER_CREATED" => e.items[1].product_id \in Products
        <3>1. e.event_type = "ORDER_CREATED" => ItemsWellFormed(e.items) /\ e.items \in Seq(Items)
            BY <1>3 DEF WellFormed, EventRecords
        <3> QED BY <3>1, ItemHome
    <2>3. routedBy' = IF e.event_type = "ORDER_CREATED"
                      THEN [routedBy EXCEPT ![n] = e.items[1].product_id] ELSE routedBy
        BY <1>2 DEF Sending
    <2> QED BY <2>1, <2>2, <2>3
<1>6. OrdersSent'
    <2> SUFFICES ASSUME NEW o \in OrderIds, open'[o] # <<>>
                 PROVE  /\ IsOrder(new, o) /\ new[o].items = open'[o]
                        /\ routedBy'[o] = new[o].items[1].product_id
                        /\ \A m \in DOMAIN new : ~Completes(new[m], o)
        BY <1>2 DEF OrdersSent
    <2>1. CASE e.event_type = "ORDER_CREATED" /\ o = n
        <3>1. IsOrder(new, n) /\ new[o].items = open'[o]
            BY <1>2, <1>3, <2>1 DEF IsOrder, OrderEventTypes
        <3>2. routedBy'[o] = e.items[1].product_id
            BY <1>2, <2>1 DEF Sending, LogInv
        <3>3. ASSUME NEW m \in DOMAIN new, Completes(new[m], o) PROVE FALSE
            <4>1. new[m].event_type = "ORDER_COMPLETED" /\ new[m].order_id = n
                BY <2>1, <3>3 DEF Completes
            <4>2. n < m
                BY <1>2, <4>1 DEF LogOK, Numbered
            <4>3. m \in DOMAIN sent \/ m = n
                BY <1>2
            <4>4. m \in Nat /\ n \in Nat
                BY <1>2, InLog DEF LogOK
            <4> QED BY <1>2, <4>2, <4>3, <4>4
        <3> QED BY <1>2, <2>1, <3>1, <3>2, <3>3
    <2>2. CASE ~(e.event_type = "ORDER_CREATED" /\ o = n)
        <3>1. open[o] = open'[o] /\ ~Completes(e, o)
            BY <1>3, <2>2 DEF Completes, OrderEventTypes
        <3>2. /\ IsOrder(sent, o) /\ sent[o].items = open[o]
              /\ routedBy[o] = sent[o].items[1].product_id
              /\ \A m \in DOMAIN sent : ~Completes(sent[m], o)
            BY <1>4, <3>1 DEF LogInv, OrdersSent
        <3>3. routedBy'[o] = routedBy[o]
            BY <1>2, <2>2 DEF Sending, LogInv
        <3> QED BY <1>2, <3>1, <3>2, <3>3 DEF IsOrder
    <2> QED BY <2>1, <2>2
<1>7. OrdersGone'
    <2> SUFFICES ASSUME restarts = 0, NEW o \in OrderIds, IsOrder(new, o), open'[o] = <<>>
                 PROVE  \E m \in DOMAIN new : Completes(new[m], o)
        BY <1>2, <1>4 DEF OrdersGone
    <2>1. CASE e.event_type = "ORDER_COMPLETED" /\ o = e.order_id
        BY <1>2, <2>1 DEF Completes
    <2>2. CASE ~(e.event_type = "ORDER_COMPLETED" /\ o = e.order_id)
        <3>1. o # n
            <4>1. SUFFICES ASSUME o = n PROVE FALSE
                OBVIOUS
            <4>2. e.event_type = "ORDER_CREATED" /\ open'[n] = <<>>
                BY <1>2, <4>1 DEF IsOrder
            <4>3. open'[n] = e.items
                BY <1>2, <1>3, <4>2 DEF OrderEventTypes
            <4> QED BY <1>3, <4>2, <4>3 DEF WellFormed, ItemsWellFormed
        <3>2. IsOrder(sent, o) /\ open[o] = <<>>
            BY <1>2, <1>3, <2>2, <3>1 DEF IsOrder
        <3>3. PICK m \in DOMAIN sent : Completes(sent[m], o)
            BY <1>4, <3>2 DEF LogInv, OrdersGone
        <3> QED BY <1>2, <3>3
    <2> QED BY <2>1, <2>2
<1> QED BY <1>2, <1>5, <1>6, <1>7 DEF LogInv

LEMMA LogSilent ==
    ASSUME LogInv, Silent
    PROVE  LogInv'
<1>1. sent' = sent /\ routedBy' = routedBy /\ restarts' = restarts
    BY DEF Silent
<1>2. LogOK(sent)' /\ (routedBy \in [OrderIds -> Products \cup {NoText}])'
    BY <1>1 DEF LogInv
<1>3. OrdersSent' /\ OrdersGone'
    BY <1>1 DEF LogInv, OrdersSent, OrdersGone, Silent
<1> QED BY <1>2, <1>3 DEF LogInv

LEMMA LogRestarted ==
    ASSUME LogInv, GenInv, RestartService
    PROVE  LogInv'
<1>1. /\ sent' = sent /\ routedBy' = routedBy /\ open' = NoOrders
      /\ restarts' = restarts + 1 /\ restarts \in Nat
    BY DEF RestartService, Restart, GenInv, TypeOK
<1>2. LogOK(sent)' /\ (routedBy \in [OrderIds -> Products \cup {NoText}])'
    BY <1>1 DEF LogInv
<1>3. OrdersSent'
    BY <1>1 DEF OrdersSent, NoOrders
<1>4. OrdersGone'
    BY <1>1 DEF OrdersGone
<1> QED BY <1>2, <1>3, <1>4 DEF LogInv

LEMMA LogRests ==
    ASSUME LogInv, vars' = vars, routedBy' = routedBy
    PROVE  LogInv'
<1>1. sent' = sent /\ open' = open /\ task' = task /\ restarts' = restarts
    BY DEF vars, stock, control, limits
<1>2. LogOK(sent)' /\ (routedBy \in [OrderIds -> Products \cup {NoText}])'
    BY <1>1 DEF LogInv
<1>3. OrdersSent' /\ OrdersGone'
    BY <1>1 DEF LogInv, OrdersSent, OrdersGone
<1> QED BY <1>2, <1>3 DEF LogInv

(* The messages that are in transit.                                       *)
TransitInv ==
    /\ inTransit \in [Partitions -> Seq(EventRecords)]
    /\ processed \subseteq DOMAIN sent /\ lost \in Nat
    /\ \A q \in Partitions : QueueOK(inTransit[q], sent, processed, q)
    /\ lost = 0 => NothingMissing(inTransit, sent, processed)

LEMMA TransitSent ==
    ASSUME GenInv, LogInv, TransitInv, NEW e \in EventRecords, Sending(e)
    PROVE  TransitInv'
<1>1. PICK new, n, done, queues, t :
         /\ new = Append(sent, e) /\ n = Len(sent) + 1 /\ done = processed
         /\ queues = inTransit /\ t = inTransit'
    OBVIOUS
<1>2. /\ sent' = new /\ processed' = done /\ lost' = lost
      /\ t \in [Partitions -> Seq(EventRecords)]
      /\ \A q \in Partitions : t[q] = IF q = Dest(new, n) THEN Append(queues[q], e) ELSE queues[q]
    BY <1>1 DEF Sending, tables
<1>3. LogOK(new) /\ LogOK(sent) /\ \A m \in DOMAIN sent : Dest(new, m) = Dest(sent, m)
    BY <1>1, SentContinues DEF LogInv, Sending, GenInv, TypeOK
<1>4. /\ queues \in [Partitions -> Seq(EventRecords)] /\ done \subseteq DOMAIN sent
      /\ \A q \in Partitions : QueueOK(queues[q], sent, done, q)
      /\ lost \in Nat
      /\ lost = 0 => NothingMissing(queues, sent, done)
    BY <1>1 DEF TransitInv
<1>5. ASSUME NEW q \in Partitions PROVE QueueOK(t[q], new, done, q)
    <2>1. CASE q = Dest(new, n)
        BY <1>1, <1>2, <1>3, <1>4, <2>1, QueueExtended
    <2>2. CASE q # Dest(new, n)
        BY <1>1, <1>2, <1>3, <1>4, <2>2, QueueKept
    <2> QED BY <2>1, <2>2
<1>6. lost = 0 => NothingMissing(t, new, done)
    BY <1>1, <1>2, <1>3, <1>4, MissingSent
<1>7. done \subseteq DOMAIN new
    <2>1. DOMAIN sent \subseteq DOMAIN new
        BY <1>1, Longer DEF LogInv, LogOK
    <2> QED BY <1>4, <2>1
<1> QED BY <1>1, <1>2, <1>4, <1>5, <1>6, <1>7 DEF TransitInv

LEMMA TransitSilent ==
    ASSUME TransitInv, sent' = sent, inTransit' = inTransit, processed' = processed, lost' = lost
    PROVE  TransitInv'
BY DEF TransitInv

(* One message less in partition q.                                        *)
Taking(q) ==
    /\ q \in Partitions /\ inTransit[q] # <<>> /\ sent' = sent
    /\ inTransit' \in [Partitions -> Seq(EventRecords)]
    /\ Behind(inTransit[q], inTransit'[q])
    /\ \A p \in Partitions : p # q => inTransit'[p] = inTransit[p]

LEMMA TakingTail ==
    ASSUME NEW q \in Partitions, inTransit \in [Partitions -> Seq(EventRecords)],
           inTransit[q] # <<>>, inTransit' = [inTransit EXCEPT ![q] = Tail(@)], sent' = sent
    PROVE  Taking(q) /\ Head(inTransit[q]) = inTransit[q][1]
<1>1. inTransit[q] \in Seq(EventRecords)
    OBVIOUS
<1>2. PICK tail : tail = Tail(inTransit[q]) /\ Behind(inTransit[q], tail)
    BY <1>1, TailIsBehind
<1>3. tail \in Seq(EventRecords)
    BY <1>2 DEF Behind
<1>4. inTransit' = [inTransit EXCEPT ![q] = tail]
    BY <1>2
<1>5. /\ inTransit' \in [Partitions -> Seq(EventRecords)] /\ inTransit'[q] = tail
      /\ \A p \in Partitions : p # q => inTransit'[p] = inTransit[p]
    BY <1>3, <1>4
<1>6. Head(inTransit[q]) = inTransit[q][1]
    BY <1>1, TailIsBehind
<1> QED BY <1>2, <1>5, <1>6 DEF Taking

(* The message is handled, or it is lost.                                  *)
LEMMA TransitTaken ==
    ASSUME LogInv, TransitInv, NEW q, Taking(q), lost' \in Nat,
           \A n \in processed' : n \in processed \/ n = inTransit[q][1].event_id,
           lost' = 0 => /\ lost = 0 /\ \A n \in processed : n \in processed'
                        /\ inTransit[q][1].event_id \in processed'
    PROVE  TransitInv'
<1>1. PICK done, queues, t, after :
         done = processed /\ queues = inTransit /\ t = inTransit' /\ after = processed'
    OBVIOUS
<1>2. /\ q \in Partitions /\ queues[q] # <<>> /\ sent' = sent /\ Behind(queues[q], t[q])
      /\ \A p \in Partitions : p # q => t[p] = queues[p]
      /\ t \in [Partitions -> Seq(EventRecords)]
    BY <1>1 DEF Taking
<1>3. /\ LogOK(sent) /\ \A p \in Partitions : QueueOK(queues[p], sent, done, p)
      /\ done \subseteq DOMAIN sent
      /\ lost = 0 => NothingMissing(queues, sent, done)
    BY <1>1 DEF LogInv, TransitInv
<1>4. QueueOK(queues[q], sent, done, q)
    BY <1>2, <1>3
<1>5. /\ queues[q][1].event_id \in DOMAIN sent
      /\ Dest(sent, queues[q][1].event_id) = q
    BY <1>2, <1>3, <1>4, FirstOfQueue
<1>6. \A n \in after : n \in done \/ n = queues[q][1].event_id
    BY <1>1
<1>7. QueueOK(t[q], sent, after, q)
    BY <1>2, <1>4, <1>6, QueueShortened
<1>8. ASSUME NEW p \in Partitions, p # q PROVE QueueOK(t[p], sent, after, p)
    <2>1. \A n \in after : n \in done \/ Dest(sent, n) # p
        BY <1>5, <1>6, <1>8
    <2>2. QueueOK(queues[p], sent, done, p)
        BY <1>3
    <2> QED BY <1>2, <1>8, <2>1, <2>2, QueueOther
<1>9. lost' = 0 => NothingMissing(t, sent, after)
    <2> SUFFICES ASSUME lost' = 0 PROVE NothingMissing(t, sent, after)
        OBVIOUS
    <2>1. /\ NothingMissing(queues, sent, done) /\ \A n \in done : n \in after
          /\ queues[q][1].event_id \in after
        <3>1. lost = 0 /\ \A n \in processed : n \in processed'
            OBVIOUS
        <3>2. inTransit[q][1].event_id \in processed'
            OBVIOUS
        <3> QED BY <1>1, <1>3, <3>1, <3>2
    <2> QED BY <1>2, <1>3, <1>4, <2>1, MissingHandled
<1>10. after \subseteq DOMAIN sent
    <2> SUFFICES ASSUME NEW n \in after PROVE n \in DOMAIN sent
        OBVIOUS
    <2>1. n \in done \/ n = queues[q][1].event_id
        BY <1>6
    <2> QED BY <1>3, <1>5, <2>1
<1> QED BY <1>1, <1>2, <1>7, <1>8, <1>9, <1>10 DEF TransitInv

-----------------------------------------------------------------------------
(* The trace: how the stock would go if every event was applied where it   *)
(* was sent.                                                               *)
AllApplied == \A h \in history : h.outcome = "APPLIED"

TraceFits(T) ==
    /\ TraceOK(T, sent)
    /\ (restarts = 0 /\ task # "failed") => FollowsSim(T, sent, sim)
    /\ task # "failed" => AheadOfSim(T, sent, sim)
    /\ (restarts = 0 /\ ~overplanned) => Feasible(T, sent)
    /\ (lost = 0 /\ NoSplit(sent) /\ AllApplied) => Matched(T, sent, inTransit, inventory)

TraceInv == \E T : TraceFits(T)

LEMMA TraceSent ==
    ASSUME GenInv, GenInv', LogInv, TransitInv, TraceInv, NEW e \in EventRecords, Sending(e)
    PROVE  TraceInv'
<1>1. PICK new, n, done, queues, t, s, sNext, inv :
         /\ new = Append(sent, e) /\ n = Len(sent) + 1 /\ done = processed
         /\ queues = inTransit /\ t = inTransit' /\ s = sim /\ sNext = sim' /\ inv = inventory
    OBVIOUS
<1>2. PICK T : TraceFits(T)
    BY DEF TraceInv
<1>3. /\ sent' = new /\ lost' = lost /\ restarts' = restarts /\ inventory' = inv
      /\ history' = history /\ task # "failed" /\ Mirrors(s, sNext, sent, e)
      /\ \A q \in Partitions : t[q] = IF q = Dest(new, n) THEN Append(queues[q], e) ELSE queues[q]
    BY <1>1 DEF Sending, tables, Announced
<1>4. /\ LogOK(new) /\ LogOK(sent) /\ \A m \in DOMAIN sent : Dest(new, m) = Dest(sent, m)
      /\ s \in Stocks /\ sNext \in Stocks /\ sent \in Seq(EventRecords)
    BY <1>1, SentContinues DEF LogInv, Sending, GenInv, TypeOK, Stocks, PositionRows
<1>5. PICK U : TraceOK(U, new) /\ \A m \in 0 .. Len(sent) : U[m] = T[m]
    BY <1>1, <1>2, <1>4, TraceGrows DEF TraceFits
<1>6. IsTrace(U, new)
    BY <1>5 DEF TraceOK
<1>7. U[Len(sent)] = T[Len(sent)] /\ Len(sent) \in Nat
    BY <1>4, <1>5, InLog
<1>8. restarts = 0 => FollowsSim(U, new, sNext)
    <2> SUFFICES ASSUME restarts = 0 PROVE FollowsSim(U, new, sNext)
        OBVIOUS
    <2>1. FollowsSim(U, sent, s)
        BY <1>1, <1>2, <1>3, <1>7 DEF TraceFits, FollowsSim
    <2> QED BY <1>1, <1>3, <1>4, <1>6, <2>1, SimFollowed
<1>9. AheadOfSim(U, new, sNext)
    <2>1. AheadOfSim(U, sent, s)
        BY <1>1, <1>2, <1>3, <1>5, <1>7 DEF TraceFits, AheadOfSim
    <2> QED BY <1>1, <1>3, <1>4, <1>6, <2>1, StaysAhead
<1>10. ASSUME restarts = 0, ~overplanned' PROVE Feasible(U, new)
    <2>1. ~overplanned /\ SimulationIsPossible'
        BY <1>10 DEF Sending
    <2>2. \A k \in Positions : sNext[k].available >= 0
        BY <1>1, <2>1 DEF SimulationIsPossible
    <2>3. \A z \in Zones : LoadOf(sNext, z) <= Capacity[z]
        BY <1>1, <2>1 DEF SimulationIsPossible, ZoneLoad, LoadOf
    <2>4. Feasible(T, sent)
        BY <1>2, <1>10, <2>1 DEF TraceFits
    <2>5. Feasible(U, sent)
        BY <1>5, <2>4 DEF Feasible
    <2> QED BY <1>1, <1>4, <1>6, <1>8, <1>10, <2>2, <2>3, <2>5, StaysFeasible
<1>11. ASSUME lost = 0, NoSplit(new), AllApplied PROVE Matched(U, new, t, inv)
    <2>1. NoSplit(sent)
        BY <1>1, <1>4, <1>11, NoSplitBefore
    <2>2. Matched(T, sent, queues, inv)
        BY <1>1, <1>2, <1>11, <2>1 DEF TraceFits
    <2>3. QueuesOK(queues, sent, done)
        BY <1>1 DEF TransitInv, QueuesOK
    <2>4. /\ LogOK(sent) /\ LogOK(Append(sent, e)) /\ NoSplit(Append(sent, e))
          /\ TraceOK(U, Append(sent, e)) /\ \A m \in 0 .. Len(sent) : U[m] = T[m]
        BY <1>1, <1>4, <1>5, <1>11
    <2>5. \A q \in Partitions : t[q] = IF q = Dest(Append(sent, e), Len(sent) + 1)
                                       THEN Append(queues[q], e) ELSE queues[q]
        BY <1>1, <1>3
    <2>6. Matched(U, Append(sent, e), t, inv)
        BY <2>2, <2>3, <2>4, <2>5, MatchedSent
    <2> QED BY <1>1, <2>6
<1>12. AllApplied' => AllApplied
    BY <1>3 DEF AllApplied
<1>13. TraceFits(U)'
    BY <1>1, <1>3, <1>5, <1>8, <1>9, <1>10, <1>11, <1>12 DEF TraceFits
<1> QED BY <1>13 DEF TraceInv

LEMMA TraceSilent ==
    ASSUME TraceInv, Silent
    PROVE  TraceInv'
<1>1. PICK T : TraceFits(T)
    BY DEF TraceInv
<1>2. /\ sent' = sent /\ lost' = lost /\ restarts' = restarts /\ inventory' = inventory
      /\ history' = history /\ inTransit' = inTransit
      /\ overplanned => overplanned'
      /\ task' # "failed" => task # "failed" /\ sim' = sim
    BY DEF Silent, tables
<1>3. AllApplied' => AllApplied
    BY <1>2 DEF AllApplied
<1>4. TraceFits(T)'
    BY <1>1, <1>2, <1>3 DEF TraceFits
<1> QED BY <1>4 DEF TraceInv

(* After a restart the simulated stock is empty, and the trace is ahead of *)
(* it wherever it is fine.                                                 *)
LEMMA TraceRestarted ==
    ASSUME TraceInv, GenInv, Restart, tables' = tables,
           lost' = 0 => lost = 0 /\ inTransit' = inTransit
    PROVE  TraceInv'
<1>1. PICK T : TraceFits(T)
    BY DEF TraceInv
<1>2. /\ sent' = sent /\ inventory' = inventory /\ history' = history /\ sim' = NewStock
      /\ restarts' = restarts + 1 /\ restarts \in Nat /\ sent \in Seq(EventRecords)
    BY DEF Restart, tables, GenInv, TypeOK
<1>3. AllApplied' => AllApplied
    BY <1>2 DEF AllApplied
<1>4. AheadOfSim(T, sent, NewStock)
    <2> SUFFICES ASSUME NEW k \in Positions, \A m \in 0 .. Len(sent) : Fine(T[m][k])
                 PROVE  Ahead(T[Len(sent)][k], ViewOf(NewStock[k]))
        BY DEF AheadOfSim
    <2>1. Fine(T[Len(sent)][k])
        BY <1>2, InLog
    <2>2. ViewOf(NewStock[k]).available = 0 /\ ViewOf(NewStock[k]).reserved = 0
        BY DEF ViewOf, NewStock, EmptyPosition
    <2> QED BY <2>1, <2>2 DEF Fine, Ahead
<1>5. restarts' # 0
    BY <1>2
<1>6. TraceFits(T)'
    BY <1>1, <1>2, <1>3, <1>4, <1>5 DEF TraceFits
<1> QED BY <1>6 DEF TraceInv

(* A message is lost: nothing is promised any more of the tables.          *)
LEMMA TraceLost ==
    ASSUME TraceInv, vars' = vars, tables' = tables, lost' # 0
    PROVE  TraceInv'
<1>1. PICK T : TraceFits(T)
    BY DEF TraceInv
<1>2. /\ sent' = sent /\ sim' = sim /\ task' = task /\ restarts' = restarts
      /\ overplanned' = overplanned
    BY DEF vars, stock, control, limits
<1>3. TraceFits(T)'
    BY <1>1, <1>2 DEF TraceFits
<1> QED BY <1>3 DEF TraceInv

-----------------------------------------------------------------------------
(* The consumer's own definitions, expanded, are those of EventProcessor.  *)
Stored == [inventory |-> inventory, by_zone |-> inventory, totals |-> totals, orders |-> orders]

LEMMA ConsumerStore == Consumer!store = Stored
BY DEF Consumer!store, Stored

LEMMA ConsumerOperators ==
    ASSUME NEW s, NEW done, NEW e
    PROVE  /\ Consumer!ProcessAction(s, done, e) = ProcessAction(s, done, e)
           /\ Consumer!UpdatedInventory(s, e) = UpdatedInventory(s, e)
           /\ Consumer!UpdatedTotals(s, e) = UpdatedTotals(s, e)
           /\ Consumer!UpdatedOrders(s, e) = UpdatedOrders(s, e)
           /\ Consumer!EmptyStore = EmptyStore
BY Zenon DEF ProcessAction, WellFormed, ItemsWellFormed, EventTypes, ProductEventTypes,
       OrderEventTypes, Stale, OlderThan, StockSuffices, OrderAllows, FitsZones, ReplacedTotal,
       ZoneTotal, Total, TotalsNonNegative, UpdatedTotal, KeysOf, Later, TouchedKeys, ItemKeys,
       GroupedQuantity, DeltaAvailable, DeltaReserved, NewSupplier, UpdatedRow, Keys,
       UpdatedInventory, UpdatedTotals, UpdatedOrders, EmptyStore, EmptyRow, EmptyTotal,
       SumFunctionOnSet, FoldFunctionOnSet, MapThenFoldSet,
       Consumer!ProcessAction, Consumer!WellFormed, Consumer!ItemsWellFormed,
       Consumer!EventTypes, Consumer!ProductEventTypes, Consumer!OrderEventTypes,
       Consumer!Stale, Consumer!OlderThan, Consumer!StockSuffices, Consumer!OrderAllows,
       Consumer!FitsZones, Consumer!ReplacedTotal, Consumer!ZoneTotal, Consumer!Total,
       Consumer!TotalsNonNegative, Consumer!UpdatedTotal, Consumer!KeysOf,
       Consumer!Later, Consumer!TouchedKeys, Consumer!ItemKeys,
       Consumer!GroupedQuantity, Consumer!DeltaAvailable, Consumer!DeltaReserved,
       Consumer!NewSupplier, Consumer!UpdatedRow, Consumer!Keys,
       Consumer!UpdatedInventory, Consumer!UpdatedTotals, Consumer!UpdatedOrders,
       Consumer!EmptyStore, Consumer!EmptyRow, Consumer!EmptyTotal,
       Consumer!SumFunctionOnSet, Consumer!FoldFunctionOnSet, Consumer!MapThenFoldSet

(* What the consumer does with a message.                                  *)
Accepting(e) ==
    /\ Accepted(Stored, e)
    /\ inventory' = UpdatedInventory(Stored, e)
    /\ totals' = UpdatedTotals(Stored, e)
    /\ orders' = UpdatedOrders(Stored, e)
    /\ AllApplied' <=> AllApplied

Refusing(e) ==
    /\ ProcessAction(Stored, processed, e) # "applied"
    /\ inventory' = inventory /\ totals' = totals /\ orders' = orders
    /\ ~AllApplied'

Handling(e) ==
    /\ e.event_id \notin processed
    /\ \A n : n \in processed' <=> n \in processed \/ n = e.event_id
    /\ Accepting(e) \/ Refusing(e)

LEMMA RecordedOutcome ==
    ASSUME NEW e, NEW outcome, Consumer!Record(e, outcome)
    PROVE  /\ \A n : n \in processed' <=> n \in processed \/ n = e.event_id
           /\ history' = history \cup {[event |-> e, outcome |-> outcome]}
           /\ AllApplied' <=> AllApplied /\ outcome = "APPLIED"
<1>1. PICK h : h = [event |-> e, outcome |-> outcome]
    OBVIOUS
<1>2. processed' = processed \cup {e.event_id} /\ history' = history \cup {h}
    BY <1>1 DEF Consumer!Record
<1>3. h.outcome = outcome
    BY <1>1
<1>4. AllApplied' <=> AllApplied /\ outcome = "APPLIED"
    BY <1>2, <1>3 DEF AllApplied
<1> QED BY <1>1, <1>2, <1>4

LEMMA HistoryGrows ==
    ASSUME NEW e, Handle(e)
    PROVE  AllApplied' => AllApplied
<1>1. PICK outcome : Consumer!Record(e, outcome)
    <2>1. CASE Consumer!Apply(e)
        BY <2>1, Zenon DEF Consumer!Apply
    <2>2. CASE Consumer!Ignore(e)
        BY <2>2, Zenon DEF Consumer!Ignore
    <2>3. CASE Consumer!Reject(e)
        BY <2>3, Zenon DEF Consumer!Reject
    <2>4. CASE Refuse(e)
        BY <2>4, Zenon DEF Refuse
    <2> QED BY <2>1, <2>2, <2>3, <2>4 DEF Handle
<1> QED BY <1>1, RecordedOutcome

LEMMA ConsumeCases ==
    ASSUME LogInv, TransitInv, NEW q \in Partitions, Consume(q),
           migrations > 0 => AllApplied'
    PROVE  /\ Taking(q) /\ vars' = vars /\ routedBy' = routedBy /\ lost' = lost
           /\ consumer' = consumer
           /\ \E e \in EventRecords : e = inTransit[q][1] /\ Handling(e)
<1>1. /\ inTransit[q] # <<>> /\ inTransit \in [Partitions -> Seq(EventRecords)]
      /\ inTransit' = [inTransit EXCEPT ![q] = Tail(@)] /\ sent' = sent
      /\ vars' = vars /\ routedBy' = routedBy /\ lost' = lost /\ consumer' = consumer
    BY Zenon DEF Consume, TransitInv, vars
<1>2. Taking(q) /\ Head(inTransit[q]) = inTransit[q][1]
    BY <1>1, TakingTail
<1>3. PICK e : e = inTransit[q][1]
    OBVIOUS
<1>4. e \in EventRecords /\ e.event_id \notin processed
    BY <1>1, <1>3, FirstOfQueue DEF LogInv, TransitInv
<1>5. Consumer!Apply(e) \/ Consumer!Ignore(e) \/ Consumer!Reject(e)
    <2>1. Consumer!Apply(e) \/ Consumer!Ignore(e) \/ Consumer!Reject(e) \/ Refuse(e)
        BY <1>2, <1>3, Zenon DEF Consume, Handle
    <2>2. Refuse(e) => migrations > 0 /\ ~AllApplied'
        BY RecordedOutcome DEF Refuse
    <2> QED BY <2>1, <2>2
<1>6. \A outcome : Consumer!Record(e, outcome) =>
         /\ \A n : n \in processed' <=> n \in processed \/ n = e.event_id
         /\ AllApplied' <=> AllApplied /\ outcome = "APPLIED"
    BY RecordedOutcome
<1>7. CASE Consumer!Apply(e)
    <2>1. /\ ProcessAction(Stored, processed, e) = "applied"
          /\ inventory' = UpdatedInventory(Stored, e)
          /\ totals' = UpdatedTotals(Stored, e)
          /\ orders' = UpdatedOrders(Stored, e)
          /\ Consumer!Record(e, "APPLIED")
        BY <1>7, ConsumerOperators, ConsumerStore, Zenon DEF Consumer!Apply
    <2>2. Accepted(Stored, e)
        BY <2>1, AppliedIsAccepted
    <2>3. AllApplied' <=> AllApplied
        BY <1>6, <2>1
    <2> QED BY <1>2, <1>1, <1>3, <1>4, <1>6, <2>1, <2>2, <2>3 DEF Handling, Accepting
<1>8. CASE Consumer!Ignore(e) \/ Consumer!Reject(e)
    <2>1. PICK outcome :
             /\ outcome # "APPLIED" /\ Consumer!Record(e, outcome)
             /\ ProcessAction(Stored, processed, e) # "applied"
             /\ inventory' = inventory /\ totals' = totals /\ orders' = orders
        <3>1. CASE Consumer!Ignore(e)
            BY <3>1, ConsumerOperators, ConsumerStore DEF Consumer!Ignore
        <3>2. CASE Consumer!Reject(e)
            BY <3>2, ConsumerOperators, ConsumerStore DEF Consumer!Reject
        <3> QED BY <1>8, <3>1, <3>2
    <2>3. ~AllApplied'
        BY <1>6, <2>1
    <2> QED BY <1>2, <1>1, <1>3, <1>4, <1>6, <2>1, <2>3 DEF Handling, Refusing
<1> QED BY <1>5, <1>7, <1>8

(* The tables: their types and sums, what a zone can hold at most, and the *)
(* orders, which follow the events about them.                             *)
ZonesBounded == \A z \in Zones : ZoneTotal(inventory, z) <= AddedSum(sent, processed, z)

OrdersStored ==
    \A o \in OrderIds :
        /\ orders[o] # NoOrder =>
              /\ o \in processed /\ IsOrder(sent, o) /\ orders[o].items = sent[o].items
              /\ orders[o].status = "CREATED" => orders[o].last_event_ts = o
              /\ orders[o].status = "COMPLETED" => \E c \in processed : Completes(sent[c], o)
        /\ AllApplied =>
              /\ o \in processed /\ IsOrder(sent, o) => orders[o] # NoOrder
              /\ \A c \in processed : Completes(sent[c], o) =>
                    orders[o] # NoOrder /\ orders[o].status = "COMPLETED"

TablesInv == StoreOK(Stored) /\ TotalsSummed(Stored) /\ ZonesBounded /\ OrdersStored

LEMMA StoredTables ==
    /\ Stored.inventory = inventory /\ Stored.by_zone = inventory
    /\ Stored.totals = totals /\ Stored.orders = orders
BY DEF Stored

LEMMA TablesSent ==
    ASSUME LogInv, TransitInv, TablesInv, NEW e \in EventRecords, LogOK(Append(sent, e)),
           sent' = Append(sent, e), tables' = tables
    PROVE  TablesInv'
<1>1. /\ inventory' = inventory /\ totals' = totals /\ orders' = orders
      /\ processed' = processed /\ history' = history
    BY DEF tables
<1>2. StoreOK(Stored)' /\ TotalsSummed(Stored)'
    BY <1>1 DEF TablesInv, StoreOK, TotalsSummed, Stored
<1>3. PICK new : new = Append(sent, e)
    OBVIOUS
<1>4. /\ LogOK(sent) /\ processed \subseteq DOMAIN sent
      /\ \A m \in DOMAIN sent : new[m] = sent[m] /\ m \in DOMAIN new
    BY <1>3, Longer DEF LogInv, LogOK, TransitInv
<1>5. \A z \in Zones : AddedSum(new, processed, z) = AddedSum(sent, processed, z)
    BY <1>3, <1>4, AddedLonger
<1>6. ZonesBounded'
    BY <1>1, <1>3, <1>5 DEF TablesInv, ZonesBounded
<1>7. OrdersStored'
    <2>1. AllApplied' <=> AllApplied
        BY <1>1 DEF AllApplied
    <2>2. \A o \in processed : IsOrder(new, o) <=> IsOrder(sent, o)
        BY <1>4 DEF IsOrder
    <2>3. \A c \in processed : new[c] = sent[c]
        BY <1>4
    <2> QED BY <1>1, <1>3, <2>1, <2>2, <2>3 DEF TablesInv, OrdersStored
<1> QED BY <1>2, <1>6, <1>7 DEF TablesInv

LEMMA TablesRest ==
    ASSUME TablesInv, sent' = sent, tables' = tables
    PROVE  TablesInv'
<1>1. /\ inventory' = inventory /\ totals' = totals /\ orders' = orders
      /\ processed' = processed /\ history' = history
    BY DEF tables
<1>2. StoreOK(Stored)' /\ TotalsSummed(Stored)'
    BY <1>1 DEF TablesInv, StoreOK, TotalsSummed, Stored
<1>3. AllApplied' <=> AllApplied
    BY <1>1 DEF AllApplied
<1>4. ZonesBounded' /\ OrdersStored'
    BY <1>1, <1>3 DEF TablesInv, ZonesBounded, OrdersStored
<1> QED BY <1>2, <1>4 DEF TablesInv

LEMMA OrdersHandled ==
    ASSUME LogInv, TransitInv, TablesInv, sent' = sent, NEW e \in EventRecords, Handling(e),
           e.event_id \in DOMAIN sent, sent[e.event_id] = e
    PROVE  OrdersStored'
<1>1. PICK m : m = e.event_id
    OBVIOUS
<1>2. /\ m \in DOMAIN sent /\ sent[m] = e /\ m \notin processed /\ LogOK(sent)
      /\ \A n : n \in processed' <=> n \in processed \/ n = m
      /\ e.event_type = "ORDER_CREATED" => e.order_id = m /\ e.occurred_at = m
    BY <1>1 DEF Handling, LogInv, LogOK, Numbered
<1>3. \A o \in OrderIds : orders[o] # NoOrder =>
              /\ o \in processed /\ IsOrder(sent, o) /\ orders[o].items = sent[o].items
              /\ orders[o].status = "CREATED" => orders[o].last_event_ts = o
              /\ orders[o].status = "COMPLETED" => \E c \in processed : Completes(sent[c], o)
    BY DEF TablesInv, OrdersStored
<1>4. CASE Refusing(e)
    <2>1. ~AllApplied' /\ orders' = orders
        BY <1>4 DEF Refusing
    <2> QED BY <1>2, <1>3, <2>1 DEF OrdersStored
<1>5. CASE Accepting(e)
    <2>1. /\ orders' = UpdatedOrders(Stored, e) /\ OrderAllows(Stored, e) /\ WellFormed(e)
          /\ AllApplied' => AllApplied
        BY <1>5 DEF Accepting, Accepted
    <2>2. orders \in [OrderIds -> OrderRows \cup {NoOrder}]
        BY StoredTables DEF TablesInv, StoreOK
    <2>3. AllApplied' => \A o \in OrderIds :
              /\ o \in processed /\ IsOrder(sent, o) => orders[o] # NoOrder
              /\ \A c \in processed : Completes(sent[c], o) =>
                    orders[o] # NoOrder /\ orders[o].status = "COMPLETED"
        BY <2>1 DEF TablesInv, OrdersStored
    <2>4. CASE e.event_type = "ORDER_CREATED"
        <3>1. /\ m \in OrderIds /\ orders[m] = NoOrder /\ IsOrder(sent, m)
              /\ orders' = [orders EXCEPT ![m] =
                    [status |-> "CREATED", items |-> e.items, last_event_ts |-> m]]
            BY <1>2, <2>1, <2>4, EventsNumbered, StoredTables
            DEF OrderAllows, UpdatedOrders, IsOrder
        <3>2. PICK row : row = [status |-> "CREATED", items |-> e.items, last_event_ts |-> m]
            OBVIOUS
        <3>3. /\ orders'[m] = row /\ \A o \in OrderIds : o # m => orders'[o] = orders[o]
              /\ row # NoOrder /\ row.status = "CREATED" /\ row.items = e.items
              /\ row.last_event_ts = m
            <4>1. row \in OrderRows
                <5>1. e.items \in Seq(Items) /\ m \in Int
                    BY <1>2, InLog DEF EventRecords, LogOK
                <5> QED BY <3>2, <5>1 DEF OrderRows
            <4> QED BY <2>2, <3>1, <3>2, <4>1, NoOrderIsNoRow
        <3>4. \A o \in OrderIds : ~Completes(e, o)
            BY <2>4 DEF Completes
        <3>5. AllApplied' => \A c \in processed : ~Completes(sent[c], m)
            BY <2>3, <3>1
        <3> QED BY <1>2, <1>3, <2>3, <3>1, <3>3, <3>4, <3>5 DEF OrdersStored
    <2>5. CASE e.event_type = "ORDER_COMPLETED"
        <3>1. PICK d : d = e.order_id
            OBVIOUS
        <3>2. /\ d \in OrderIds /\ orders[d] # NoOrder /\ orders[d].status = "CREATED"
              /\ orders' = [orders EXCEPT ![d] =
                    [status |-> "COMPLETED", items |-> orders[d].items,
                     last_event_ts |-> e.occurred_at]]
            <4>1. d \in OrderIds
                BY <2>1, <2>5, <3>1 DEF WellFormed, EventRecords, OrderEventTypes
            <4> QED BY <2>1, <2>5, <3>1, <4>1, StoredTables DEF OrderAllows, UpdatedOrders
        <3>3. PICK row : row = [status |-> "COMPLETED", items |-> orders[d].items,
                                last_event_ts |-> e.occurred_at]
            OBVIOUS
        <3>4. /\ orders'[d] = row /\ \A o \in OrderIds : o # d => orders'[o] = orders[o]
              /\ row # NoOrder /\ row.status = "COMPLETED" /\ row.items = orders[d].items
            <4>1. row \in OrderRows
                <5>1. orders[d].items \in Seq(Items) /\ e.occurred_at \in Int
                    BY <2>2, <3>2 DEF OrderRows, EventRecords
                <5> QED BY <3>3, <5>1 DEF OrderRows
            <4> QED BY <2>2, <3>2, <3>3, <4>1, NoOrderIsNoRow
        <3>5. ~IsOrder(sent, m) /\ Completes(e, d) /\ \A o \in OrderIds : Completes(e, o) => o = d
            BY <1>2, <2>5, <3>1 DEF IsOrder, Completes
        <3>6. d \in processed /\ IsOrder(sent, d) /\ orders[d].items = sent[d].items
            BY <1>3, <3>2
        <3> QED BY <1>2, <1>3, <2>3, <3>2, <3>4, <3>5, <3>6 DEF OrdersStored
    <2>6. CASE e.event_type \notin {"ORDER_CREATED", "ORDER_COMPLETED"}
        <3>1. orders' = orders
            BY <2>1, <2>6, StoredTables DEF UpdatedOrders
        <3>2. ~IsOrder(sent, m) /\ \A o \in OrderIds : ~Completes(e, o)
            BY <1>2, <2>6 DEF IsOrder, Completes
        <3> QED BY <1>2, <1>3, <2>3, <3>1, <3>2 DEF OrdersStored
    <2> QED BY <2>4, <2>5, <2>6
<1> QED BY <1>4, <1>5 DEF Handling

LEMMA ZoneTotalInt ==
    ASSUME NEW s, StoreOK(s), NEW z
    PROVE  ZoneTotal(s.inventory, z) \in Int
<1> DEFINE f == [k \in Keys |-> Total(s.inventory[k])]
           S == {k \in Keys : k[2] = z}
<1>1. IsFiniteSet(S)
    BY KeysFinite, FS_Subset
<1>2. \A k \in S : f[k] \in Int
    BY DEF StoreOK, Rows, Total
<1>3. ZoneTotal(s.inventory, z) = SumFunctionOnSet(f, S)
    BY DEF ZoneTotal
<1> HIDE DEF f, S
<1> QED BY <1>1, <1>2, <1>3, SumInt

(* A zone after an accepted event: what it held, and no more than what the *)
(* event adds.                                                             *)
LEMMA ZoneAfter ==
    ASSUME NEW s, StoreOK(s), s.by_zone = s.inventory, NEW e \in EventRecords, Checked(s, e),
           NEW z
    PROVE  /\ ZoneTotal(UpdatedInventory(s, e), z) <= ZoneTotal(s.inventory, z) + Added(e, z)
           /\ ReplacedTotal(s, e, z) <= ZoneTotal(s.inventory, z) + Added(e, z)
           /\ ReplacedTotal(s, e, z) \in Int
<1> DEFINE d == [k \in Keys |-> DeltaAvailable(s, e, k) + DeltaReserved(s, e, k)]
           D == {k \in TouchedKeys(s, e) : k[2] = z}
<1>1. ZoneTotal(UpdatedInventory(s, e), z) = ReplacedTotal(s, e, z)
    BY ZoneTotalUpdated
<1>2. ReplacedTotal(s, e, z) = ZoneTotal(s.inventory, z) + SumFunctionOnSet(d, D)
    BY DEF ReplacedTotal
<1>3. SumFunctionOnSet(d, D) <= Added(e, z)
    BY AddedBound
<1>4. SumFunctionOnSet(d, D) \in Int
    <2>1. D \subseteq Keys /\ \A k \in D : d[k] \in Int
        BY CheckedRows
    <2>2. IsFiniteSet(D)
        BY <2>1, KeysFinite, FS_Subset
    <2> HIDE DEF d, D
    <2> QED BY <2>1, <2>2, SumInt
<1>5. ZoneTotal(s.inventory, z) \in Int /\ Added(e, z) \in Nat
    BY ZoneTotalInt, AddedTyped DEF Checked
<1> HIDE DEF d, D
<1> QED BY <1>1, <1>2, <1>3, <1>4, <1>5

LEMMA TotalsAfter ==
    ASSUME NEW s, StoreOK(s), TotalsSummed(s), NEW e \in EventRecords, Checked(s, e),
           NEW p \in Products
    PROVE  LET S   == {k \in Keys : k[1] = p}
               new == UpdatedInventory(s, e)
           IN  /\ UpdatedTotals(s, e)[p].available =
                      SumFunctionOnSet([k \in Keys |-> new[k].available], S)
               /\ UpdatedTotals(s, e)[p].reserved =
                      SumFunctionOnSet([k \in Keys |-> new[k].reserved], S)
<1> DEFINE S   == {k \in Keys : k[1] = p}
           new == UpdatedInventory(s, e)
<1>1. /\ s.totals[p].available = SumFunctionOnSet([k \in Keys |-> s.inventory[k].available], S)
      /\ s.totals[p].reserved = SumFunctionOnSet([k \in Keys |-> s.inventory[k].reserved], S)
    BY DEF TotalsSummed
<1> QED BY ZenonT(30), <1>1, TotalsUpdated

LEMMA TotalsStay ==
    ASSUME NEW s, StoreOK(s), TotalsSummed(s), NEW e \in EventRecords, Checked(s, e),
           NEW t, t.inventory = UpdatedInventory(s, e), t.totals = UpdatedTotals(s, e)
    PROVE  TotalsSummed(t)
<1> DEFINE new == UpdatedInventory(s, e)
<1>1. t.inventory = new
    OBVIOUS
<1>2. \A p \in Products :
          LET S == {k \in Keys : k[1] = p}
          IN  /\ UpdatedTotals(s, e)[p].available =
                     SumFunctionOnSet([k \in Keys |-> new[k].available], S)
              /\ UpdatedTotals(s, e)[p].reserved =
                     SumFunctionOnSet([k \in Keys |-> new[k].reserved], S)
    BY TotalsAfter
<1> HIDE DEF new
<1> QED BY <1>1, <1>2 DEF TotalsSummed

LEMMA TablesHandled ==
    ASSUME LogInv, TransitInv, TablesInv, sent' = sent, NEW e \in EventRecords, Handling(e),
           e.event_id \in DOMAIN sent, sent[e.event_id] = e
    PROVE  TablesInv'
<1>1. OrdersStored'
    BY OrdersHandled
<1>2. PICK m, after, done : m = e.event_id /\ after = processed' /\ done = processed
    OBVIOUS
<1>3. /\ LogOK(sent) /\ done \subseteq DOMAIN sent /\ m \in DOMAIN sent /\ m \notin done
      /\ sent[m] = e /\ after = done \cup {m}
    BY <1>2 DEF LogInv, TransitInv, Handling
<1>4. ASSUME NEW z \in Zones
      PROVE  /\ AddedSum(sent, after, z) = AddedSum(sent, done, z) + Added(e, z)
             /\ AddedSum(sent, done, z) \in Nat /\ Added(e, z) \in Nat
    <2>1. AddedSum(sent, done \cup {m}, z) = AddedSum(sent, done, z) + Added(sent[m], z)
        BY <1>3, AddedOne
    <2>2. AddedSum(sent, done, z) \in Nat /\ Added(sent[m], z) \in Nat
        BY <1>3, AddedSums
    <2> QED BY <1>3, <2>1, <2>2
<1>5. StoreOK(Stored) /\ TotalsSummed(Stored) /\ ZonesBounded
    BY DEF TablesInv
<1>6. \A z \in Zones : ZoneTotal(inventory, z) \in Int
    BY <1>5, ZoneTotalInt, StoredTables
<1>7. CASE Refusing(e)
    <2>1. inventory' = inventory /\ totals' = totals /\ orders' = orders
        BY <1>7 DEF Refusing
    <2>2. StoreOK(Stored)' /\ TotalsSummed(Stored)'
        BY <1>5, <2>1 DEF StoreOK, TotalsSummed, Stored
    <2>3. ASSUME NEW z \in Zones PROVE ZoneTotal(inventory, z) <= AddedSum(sent, after, z)
        <3>1. ZoneTotal(inventory, z) <= AddedSum(sent, done, z)
            BY <1>2, <1>5 DEF ZonesBounded
        <3> QED BY <1>4, <1>6, <3>1
    <2>4. ZonesBounded'
        BY <1>2, <2>1, <2>3 DEF ZonesBounded
    <2> QED BY <1>1, <2>2, <2>4 DEF TablesInv
<1>8. CASE Accepting(e)
    <2>1. PICK s : s = Stored
        OBVIOUS
    <2>2. /\ StoreOK(s) /\ TotalsSummed(s) /\ Accepted(s, e) /\ Checked(s, e)
          /\ s.by_zone = s.inventory /\ s.inventory = inventory
          /\ inventory' = UpdatedInventory(s, e) /\ totals' = UpdatedTotals(s, e)
          /\ orders' = UpdatedOrders(s, e)
        BY <1>5, <1>8, <2>1, StoredTables DEF Accepting, Accepted, Checked
    <2>3. PICK t : t = Stored'
        OBVIOUS
    <2>4. /\ t.inventory = UpdatedInventory(s, e) /\ t.totals = UpdatedTotals(s, e)
          /\ t.orders = UpdatedOrders(s, e)
        BY <2>2, <2>3 DEF Stored
    <2>5. StoreOK(t)
        <3>1. UpdatedInventory(s, e) \in [Keys -> Rows]
            BY <2>2, UpdatedInventoryOK
        <3>2. UpdatedTotals(s, e) \in [Products -> TotalRows]
            BY <2>2, UpdatedTotalsOK
        <3>3. /\ UpdatedOrders(s, e) \in [OrderIds -> OrderRows \cup {NoOrder}]
              /\ \A o \in OrderIds : UpdatedOrders(s, e)[o] # NoOrder
                                        => ItemsWellFormed(UpdatedOrders(s, e)[o].items)
            BY <2>2, UpdatedOrdersOK
        <3> QED BY <2>4, <3>1, <3>2, <3>3 DEF StoreOK
    <2>6. TotalsSummed(t)
        BY <2>2, <2>4, TotalsStay
    <2>7. ASSUME NEW z \in Zones PROVE ZoneTotal(inventory', z) <= AddedSum(sent, after, z)
        <3>1. ZoneTotal(inventory, z) <= AddedSum(sent, done, z)
            BY <1>2, <1>5 DEF ZonesBounded
        <3>2. ZoneTotal(inventory', z) <= ZoneTotal(inventory, z) + Added(e, z)
            BY <2>2, ZoneAfter
        <3>3. ZoneTotal(inventory', z) \in Int
            BY <2>3, <2>5, ZoneTotalInt DEF Stored
        <3> QED BY <1>4, <1>6, <3>1, <3>2, <3>3
    <2>8. ZonesBounded'
        BY <1>2, <2>7 DEF ZonesBounded
    <2>9. StoreOK(Stored)' /\ TotalsSummed(Stored)'
        BY <2>3, <2>5, <2>6 DEF StoreOK, TotalsSummed
    <2> QED BY <1>1, <2>8, <2>9 DEF TablesInv
<1> QED BY <1>7, <1>8 DEF Handling

-----------------------------------------------------------------------------
(* The next message of a partition is accepted.  The order it completes    *)
(* was handled before it and by no other completion, a new order is new.   *)
LEMMA NextOrder ==
    ASSUME LogInv, TransitInv, TablesInv, lost = 0, AllApplied,
           NEW q \in Partitions, inTransit[q] # <<>>,
           NEW e \in EventRecords, e = inTransit[q][1]
    PROVE  /\ SameOrder(Stored, OrderStore(sent), e)
           /\ e.event_type = "ORDER_CREATED" => orders[e.order_id] = NoOrder
           /\ e.event_type = "ORDER_COMPLETED" =>
                 /\ orders[e.order_id] # NoOrder /\ orders[e.order_id].status = "CREATED"
                 /\ orders[e.order_id].last_event_ts <= e.occurred_at
<1>1. PICK m : m = e.event_id
    OBVIOUS
<1>2. QueueOK(inTransit[q], sent, processed, q) /\ LogOK(sent)
    BY DEF TransitInv, LogInv
<1>3. /\ m \in DOMAIN sent /\ sent[m] = e /\ m \notin processed /\ Dest(sent, m) = q
      /\ 1 \in DOMAIN inTransit[q] /\ m \in Nat
    BY <1>1, <1>2, FirstOfQueue
<1>4. CASE e.event_type = "ORDER_CREATED"
    <2>1. e.order_id = m /\ m \in OrderIds
        BY <1>2, <1>3, <1>4, EventsNumbered DEF LogOK, Numbered
    <2>2. orders[m] = NoOrder
        BY <1>3, <2>1 DEF TablesInv, OrdersStored
    <2> QED BY <1>4, <2>1, <2>2 DEF SameOrder
<1>5. CASE e.event_type = "ORDER_COMPLETED"
    <2>1. PICK o : o = e.order_id
        OBVIOUS
    <2>2. IsOrder(sent, o) /\ o < m /\ Completes(sent[m], o) /\ e.occurred_at = m
        BY <1>2, <1>3, <1>5, <2>1 DEF LogOK, Numbered, Completes
    <2>3. o \in DOMAIN sent /\ o \in OrderIds /\ o \in Nat
        BY <1>2, <2>2, EventsNumbered, InLog DEF IsOrder, LogOK
    <2>4. Dest(sent, o) = q
        BY <1>3, <1>5, <2>1, <2>2 DEF Dest, Route, IsOrder
    <2>5. o \in processed
        <3>1. SUFFICES ASSUME o \notin processed PROVE FALSE
            OBVIOUS
        <3>2. NothingMissing(inTransit, sent, processed)
            BY DEF TransitInv
        <3>3. PICK i \in DOMAIN inTransit[q] : inTransit[q][i].event_id = o
            BY <2>3, <2>4, <3>1, <3>2 DEF NothingMissing
        <3>4. i # 1
            BY <1>1, <2>2, <1>3, <2>3, <3>3
        <3>5. 1 < i
            BY <1>2, <3>3, <3>4, LenProperties DEF QueueOK
        <3>6. m < o
            BY <1>1, <1>2, <1>3, <3>3, <3>5 DEF QueueOK
        <3> QED BY <1>3, <2>2, <2>3, <3>6
    <2>6. orders[o] # NoOrder /\ orders[o].items = sent[o].items
        BY <2>2, <2>3, <2>5 DEF TablesInv, OrdersStored
    <2>7. orders[o].status # "COMPLETED"
        <3>1. SUFFICES ASSUME orders[o].status = "COMPLETED" PROVE FALSE
            OBVIOUS
        <3>2. PICK c \in processed : Completes(sent[c], o)
            BY <2>3, <2>6, <3>1 DEF TablesInv, OrdersStored
        <3>3. c \in DOMAIN sent
            BY DEF TransitInv
        <3>4. c = m
            BY <1>2, <1>3, <2>2, <3>2, <3>3 DEF LogOK, CompletedOnce
        <3> QED BY <1>3, <3>4
    <2>8. orders[o].status = "CREATED"
        <3>1. orders[o] \in OrderRows
            BY <2>3, <2>6, StoredTables DEF TablesInv, StoreOK
        <3> QED BY <2>7, <3>1 DEF OrderRows
    <2>9. orders[o].last_event_ts = o
        BY <2>3, <2>6, <2>8 DEF TablesInv, OrdersStored
    <2>10. SameOrder(Stored, OrderStore(sent), e)
        BY <2>1, <2>6, StoredTables DEF SameOrder, OrderStore
    <2> QED BY <1>3, <1>5, <2>1, <2>2, <2>3, <2>6, <2>8, <2>9, <2>10
<1>6. CASE e.event_type \notin {"ORDER_CREATED", "ORDER_COMPLETED"}
    BY <1>6 DEF SameOrder
<1> QED BY <1>4, <1>5, <1>6

(* Its rows are those of the trace, where the simulation was possible.     *)
LEMMA NextChecked ==
    ASSUME LogInv, TransitInv, TablesInv, NoSplit(sent), lost = 0, AllApplied,
           NEW T, TraceOK(T, sent), Feasible(T, sent), Matched(T, sent, inTransit, inventory),
           NEW q \in Partitions, inTransit[q] # <<>>,
           NEW e \in EventRecords, e = inTransit[q][1]
    PROVE  /\ Checked(Stored, e) /\ ~Stale(Stored, e)
           /\ TouchedKeys(Stored, e) \subseteq Positions
           /\ \A k \in Keys : Home(k) = q => UpdatedInventory(Stored, e)[k] = T[e.event_id][k]
<1>1. PICK m, s, queue : m = e.event_id /\ s = Stored /\ queue = inTransit[q]
    OBVIOUS
<1>2. QueueOK(queue, sent, processed, q) /\ LogOK(sent) /\ queue # <<>> /\ e = queue[1]
    BY <1>1 DEF TransitInv, LogInv
<1>3. /\ m \in DOMAIN sent /\ sent[m] = e /\ m \in Nat /\ m > 0 /\ m <= Len(sent)
      /\ Reached(sent, queue) = m - 1 /\ Dest(sent, m) = q /\ Len(sent) \in Nat
    BY <1>1, <1>2, FirstOfQueue, InLog DEF LogOK
<1>4. /\ SameOrder(s, OrderStore(sent), e)
      /\ e.event_type = "ORDER_CREATED" => s.orders[e.order_id] = NoOrder
      /\ e.event_type = "ORDER_COMPLETED" =>
            /\ s.orders[e.order_id] # NoOrder /\ s.orders[e.order_id].status = "CREATED"
            /\ s.orders[e.order_id].last_event_ts <= e.occurred_at
    BY <1>1, NextOrder, StoredTables
<1>5. Placed(OrderStore(sent), e) /\ WellFormed(e) /\ e.occurred_at = m
    BY <1>2, <1>3 DEF LogOK, EventsPlaced, Placed, Numbered
<1>6. TouchedKeys(s, e) = TouchedKeys(OrderStore(sent), e)
    BY <1>4, <1>5, SameTouched
<1>7. Placed(s, e)
    <2>1. SameOrder(OrderStore(sent), s, e)
        BY <1>4 DEF SameOrder
    <2> QED BY <1>5, <2>1, PlacedSame
<1>8. \A j \in Keys : Home(j) = q => s.inventory[j] = T[Reached(sent, queue)][j]
    BY <1>1, StoredTables DEF Matched, Caught
<1>9. \A k \in Keys : Home(k) = q => UpdatedInventory(s, e)[k] = T[m][k]
    BY <1>1, <1>2, <1>4, <1>8, NextRow
<1>10. ASSUME NEW k \in TouchedKeys(s, e)
       PROVE  /\ k \in Positions /\ k \in Keys /\ Home(k) = q
              /\ s.inventory[k] = T[m - 1][k]
              /\ UpdatedRow(s, e, k) = T[m][k]
    <2>1. k \in Positions /\ k \in Keys
        BY <1>7, PositionsFinite DEF Placed
    <2>2. Home(k) = q
        BY <1>2, <1>3, <1>6, Destination
    <2> QED BY <1>3, <1>8, <1>9, <2>1, <2>2, UpdatedTouched
<1>11. \A k \in TouchedKeys(s, e) :
          /\ s.inventory[k].available \in Int /\ s.inventory[k].reserved \in Int
          /\ s.inventory[k].available + DeltaAvailable(s, e, k) >= 0
          /\ s.inventory[k].reserved + DeltaReserved(s, e, k) >= 0
    <2> SUFFICES ASSUME NEW k \in TouchedKeys(s, e)
                 PROVE  /\ s.inventory[k].available \in Int /\ s.inventory[k].reserved \in Int
                        /\ s.inventory[k].available + DeltaAvailable(s, e, k) >= 0
                        /\ s.inventory[k].reserved + DeltaReserved(s, e, k) >= 0
        OBVIOUS
    <2>1. s.inventory[k].available \in Int /\ s.inventory[k].reserved \in Int
        BY <1>1, <1>10 DEF TablesInv, StoreOK, Rows
    <2>2. Fine(T[m][k])
        BY <1>3, <1>10 DEF Feasible
    <2>3. Fine(UpdatedRow(s, e, k))
        BY <1>10, <2>2
    <2> QED BY <2>1, <2>3 DEF Fine, UpdatedRow
<1>12. Checked(s, e)
    BY <1>4, <1>7, <1>11, EnoughStock
<1>13. ~Stale(s, e)
    <2>1. CASE e.event_type = "ORDER_CREATED"
        BY <1>4, <2>1 DEF Stale, OrderEventTypes
    <2>2. CASE e.event_type = "ORDER_COMPLETED"
        <3>1. s.orders[e.order_id].last_event_ts \in Int
            <4>1. e.order_id \in OrderIds
                BY <1>5, <2>2 DEF WellFormed, EventRecords, OrderEventTypes
            <4> QED BY <1>1, <1>4, <2>2, <4>1 DEF TablesInv, StoreOK, OrderRows
        <3> QED BY <1>3, <1>4, <1>5, <2>2, <3>1 DEF Stale, OrderEventTypes
    <2>3. CASE e.event_type \notin OrderEventTypes
        <3>1. ASSUME NEW k \in TouchedKeys(s, e) PROVE ~OlderThan(e, s.inventory[k].last_event_ts)
            <4>1. T[m - 1][k].last_event_ts <= m - 1
                BY <1>3, <1>10 DEF TraceOK, RowsInTime
            <4>2. s.inventory[k].last_event_ts \in Int
                BY <1>1, <1>10 DEF TablesInv, StoreOK, Rows
            <4> QED BY <1>3, <1>5, <1>10, <4>1, <4>2 DEF OlderThan
        <3> QED BY <2>3, <3>1 DEF Stale
    <2> QED BY <2>1, <2>2, <2>3 DEF OrderEventTypes
<1> QED BY <1>1, <1>9, <1>10, <1>12, <1>13

(* It fits into its zones: either every row is the one of the trace, or    *)
(* all that was ever added to the zone would fit.                          *)
LEMMA NextFits ==
    ASSUME LogInv, TransitInv, TablesInv, ~Crowded,
           NEW T, IsTrace(T, sent), Feasible(T, sent),
           NEW q \in Partitions, inTransit[q] # <<>>,
           NEW e \in EventRecords, e = inTransit[q][1], Checked(Stored, e),
           TouchedKeys(Stored, e) \subseteq Positions,
           \A k \in Keys : Home(k) = q => UpdatedInventory(Stored, e)[k] = T[e.event_id][k]
    PROVE  FitsZones(Stored, e)
<1>1. PICK m, s, done : m = e.event_id /\ s = Stored /\ done = processed
    OBVIOUS
<1>2. QueueOK(inTransit[q], sent, done, q) /\ LogOK(sent) /\ done \subseteq DOMAIN sent
    BY <1>1 DEF TransitInv, LogInv
<1>3. /\ m \in DOMAIN sent /\ sent[m] = e /\ m \notin done /\ m \in 0 .. Len(sent)
    BY <1>1, <1>2, FirstOfQueue, InLog DEF LogOK
<1>4. /\ StoreOK(s) /\ s.by_zone = s.inventory /\ s.inventory = inventory /\ Checked(s, e)
      /\ TouchedKeys(s, e) \subseteq Positions
    BY <1>1, StoredTables DEF TablesInv
<1>5. SUFFICES ASSUME NEW z \in Zones PROVE ReplacedTotal(s, e, z) <= Capacity[z]
    <2>1. \A k \in TouchedKeys(s, e) : k[2] \in Zones
        BY <1>4 DEF Positions
    <2> QED BY <1>1, <2>1 DEF FitsZones
<1>6. CASE Cardinality(Partitions) > 1
    <2>1. AddedSum(sent, DOMAIN sent, z) <= Capacity[z]
        <3>1. ~(AddedSum(sent, DOMAIN sent, z) > Capacity[z])
            BY <1>6 DEF Crowded, AddedSum
        <3>2. AddedSum(sent, DOMAIN sent, z) \in Nat /\ Capacity[z] \in Nat
            BY <1>2, AddedSums, ZonesAreKnown
        <3> QED BY <3>1, <3>2
    <2>2. PICK after : after = done \cup {m}
        OBVIOUS
    <2>3. AddedSum(sent, after, z) = AddedSum(sent, done, z) + Added(e, z)
        BY <1>2, <1>3, <2>2, AddedOne
    <2>4. after \subseteq DOMAIN sent
        BY <1>2, <1>3, <2>2
    <2>5. AddedSum(sent, after, z) <= AddedSum(sent, DOMAIN sent, z)
        BY <1>2, <2>4, AddedSums
    <2>6. /\ AddedSum(sent, done, z) \in Nat /\ AddedSum(sent, DOMAIN sent, z) \in Nat
          /\ Added(sent[m], z) \in Nat /\ Capacity[z] \in Nat
        BY <1>2, <1>3, AddedSums, ZonesAreKnown
    <2>7. ZoneTotal(inventory, z) <= AddedSum(sent, done, z) /\ ZoneTotal(inventory, z) \in Int
        BY <1>1, <1>4, ZoneTotalInt DEF TablesInv, ZonesBounded
    <2>8. /\ ReplacedTotal(s, e, z) <= ZoneTotal(inventory, z) + Added(e, z)
          /\ ReplacedTotal(s, e, z) \in Int
        BY <1>4, ZoneAfter
    <2> QED BY <1>3, <2>1, <2>3, <2>5, <2>6, <2>7, <2>8
<1>7. CASE ~(Cardinality(Partitions) > 1)
    <2>1. Partitions = {q}
        <3>1. IsFiniteSet(Partitions) /\ Cardinality(Partitions) \in Nat
            BY KeysArePlaced, FS_CardinalityType
        <3>2. {q} \in SUBSET Partitions /\ Cardinality({q}) = 1
            BY FS_Singleton
        <3>3. /\ Cardinality({q}) <= Cardinality(Partitions)
              /\ Cardinality(Partitions) = Cardinality({q}) => Partitions = {q}
            BY <3>1, <3>2, FS_Subset
        <3> QED BY <1>7, <3>1, <3>2, <3>3
    <2>2. \A k \in Keys : Home(k) = q
        BY <2>1, HomeTyped
    <2>3. UpdatedInventory(s, e) = T[m]
        <3>1. T[m] \in [Keys -> LooseRows]
            BY <1>3 DEF IsTrace
        <3>2. \A k \in Keys : UpdatedInventory(s, e)[k] = T[m][k]
            BY <1>1, <2>2
        <3>3. UpdatedInventory(s, e) = [k \in Keys |-> UpdatedInventory(s, e)[k]]
            BY DEF UpdatedInventory
        <3> QED BY <3>1, <3>2, <3>3
    <2>4. ZoneTotal(T[m], z) <= Capacity[z]
        BY <1>3 DEF Feasible
    <2>5. ZoneTotal(UpdatedInventory(s, e), z) = ReplacedTotal(s, e, z)
        BY <1>4, ZoneTotalUpdated
    <2> QED BY <2>3, <2>4, <2>5
<1> QED BY <1>6, <1>7

LEMMA UndisturbedMeans ==
    Undisturbed <=> /\ lost = 0 /\ restarts = 0 /\ ~overplanned /\ NoSplit(sent) /\ ~Crowded
                    /\ ~collided /\ skipped = {} /\ migrations = 0
BY DEF Undisturbed, NoSplit

LEMMA NextAccepted ==
    ASSUME LogInv, TransitInv, TablesInv, TraceInv, Undisturbed, AllApplied,
           NEW q \in Partitions, inTransit[q] # <<>>,
           NEW e \in EventRecords, e = inTransit[q][1], e.event_id \notin processed
    PROVE  ProcessAction(Stored, processed, e) = "applied"
<1>1. lost = 0 /\ restarts = 0 /\ ~overplanned /\ NoSplit(sent) /\ ~Crowded
    BY UndisturbedMeans
<1>2. PICK T : TraceFits(T)
    BY DEF TraceInv
<1>3. /\ TraceOK(T, sent) /\ IsTrace(T, sent) /\ Feasible(T, sent)
      /\ Matched(T, sent, inTransit, inventory)
    BY <1>1, <1>2 DEF TraceFits, TraceOK
<1>4. /\ Checked(Stored, e) /\ ~Stale(Stored, e) /\ TouchedKeys(Stored, e) \subseteq Positions
      /\ \A k \in Keys : Home(k) = q => UpdatedInventory(Stored, e)[k] = T[e.event_id][k]
    BY <1>1, <1>3, NextChecked
<1>5. FitsZones(Stored, e)
    BY <1>1, <1>3, <1>4, NextFits
<1>6. TotalsNonNegative(Stored, e)
    BY <1>4, CheckedTotals DEF TablesInv
<1> QED BY <1>4, <1>5, <1>6 DEF ProcessAction, Checked

-----------------------------------------------------------------------------
(* Handling keeps the tables with the trace.                               *)
LEMMA TraceHandled ==
    ASSUME LogInv, TransitInv, TablesInv, TraceInv, vars' = vars, lost' = lost,
           NEW q \in Partitions, Taking(q),
           NEW e \in EventRecords, e = inTransit[q][1], Handling(e)
    PROVE  TraceInv'
<1>1. PICK T : TraceFits(T)
    BY DEF TraceInv
<1>2. /\ sent' = sent /\ sim' = sim /\ task' = task /\ restarts' = restarts
      /\ overplanned' = overplanned
    BY DEF vars, stock, control, limits
<1>3. ASSUME lost = 0, NoSplit(sent), AllApplied'
      PROVE  Matched(T, sent, inTransit', inventory')
    <2>1. PICK s, t, new, queues, done :
             /\ s = Stored /\ t = inTransit' /\ new = inventory' /\ queues = inTransit
             /\ done = processed
        OBVIOUS
    <2>2. Accepting(e) /\ AllApplied
        BY <1>3 DEF Handling, Refusing, Accepting
    <2>3. /\ Matched(T, sent, queues, s.inventory) /\ TraceOK(T, sent)
        BY <1>1, <1>3, <2>1, <2>2, StoredTables DEF TraceFits
    <2>4. /\ queues[q] # <<>> /\ Behind(queues[q], t[q]) /\ e = queues[q][1]
          /\ \A p \in Partitions : p # q => t[p] = queues[p]
        BY <2>1 DEF Taking
    <2>5. SameOrder(s, OrderStore(sent), e)
        BY <1>3, <2>1, <2>2, <2>4, NextOrder
    <2>6. new = UpdatedInventory(s, e) /\ \A k \in Keys : new[k] \in Rows
        <3>1. StoreOK(s) /\ Accepted(s, e) /\ new = UpdatedInventory(s, e)
            BY <2>1, <2>2 DEF TablesInv, Accepting
        <3>2. UpdatedInventory(s, e) \in [Keys -> Rows]
            BY <3>1, UpdatedInventoryOK
        <3> QED BY <3>1, <3>2
    <2>7. /\ QueuesOK(queues, sent, done) /\ NothingMissing(queues, sent, done) /\ LogOK(sent)
        BY <1>3, <2>1 DEF TransitInv, QueuesOK, LogInv
    <2>8. Matched(T, sent, t, new)
        BY <1>3, <2>3, <2>4, <2>5, <2>6, <2>7, MatchedHandled
    <2> QED BY <2>1, <2>8
<1>4. TraceFits(T)'
    BY <1>1, <1>2, <1>3 DEF TraceFits
<1> QED BY <1>4 DEF TraceInv

-----------------------------------------------------------------------------
(* What is kept while no order id was used twice and the consumer met      *)
(* every message in its turn, the migrations having made it refuse none.   *)
AppliedInv == Undisturbed => AllApplied

Trusted == ~collided /\ skipped = {} /\ (migrations > 0 => AllApplied)

KeptInv == /\ GenInv /\ LogInv /\ TransitInv /\ TablesInv /\ TraceInv /\ AppliedInv

(* The inductive invariant of the pipeline.                                *)
PipelineInv == GenInv /\ migrations \in Nat /\ (Trusted => KeptInv)

LEMMA SentInv ==
    ASSUME KeptInv, GenInv', NEW e \in EventRecords, Sending(e)
    PROVE  KeptInv'
<1>1. GenInv /\ LogInv /\ TransitInv /\ TablesInv /\ TraceInv /\ AppliedInv
    BY DEF KeptInv
<1>2. LogInv' /\ TransitInv' /\ TraceInv'
    BY <1>1, LogSent, TransitSent, TraceSent
<1>3. PICK new : new = Append(sent, e)
    OBVIOUS
<1>4. sent' = new /\ LogOK(new) /\ LogOK(sent)
    BY <1>1, <1>2, <1>3 DEF Sending, LogInv
<1>5. /\ lost' = lost /\ restarts' = restarts /\ tables' = tables /\ history' = history
      /\ overplanned => overplanned'
      /\ collided => collided'
      /\ skipped' = skipped /\ migrations' = migrations
    BY DEF Sending, tables, consumer
<1>6. TablesInv'
    BY <1>1, <1>3, <1>4, <1>5, TablesSent
<1>7. NoSplit(new) => NoSplit(sent)
    BY <1>3, <1>4, NoSplitBefore DEF LogOK
<1>8. Crowded => Crowded'
    <2>1. ASSUME NEW z \in Zones, AddedSum(sent, DOMAIN sent, z) > Capacity[z]
          PROVE  AddedSum(new, DOMAIN new, z) > Capacity[z]
        <3>1. AddedSum(sent, DOMAIN sent, z) <= AddedSum(new, DOMAIN new, z)
            BY <1>3, <1>4, AddedLonger
        <3>2. AddedSum(sent, DOMAIN sent, z) \in Nat /\ AddedSum(new, DOMAIN new, z) \in Nat
            BY <1>4, AddedSums
        <3> QED BY <2>1, <3>1, <3>2, ZonesAreKnown
    <2> QED BY <1>4, <2>1 DEF Crowded, AddedSum
<1>9. Undisturbed' => Undisturbed
    BY <1>4, <1>5, <1>7, <1>8 DEF Undisturbed, NoSplit
<1>10. AppliedInv'
    BY <1>1, <1>5, <1>9 DEF AppliedInv, AllApplied
<1> QED BY <1>2, <1>6, <1>10 DEF KeptInv

LEMMA SilentInv ==
    ASSUME KeptInv, GenInv', Silent
    PROVE  KeptInv'
<1>1. GenInv /\ LogInv /\ TransitInv /\ TablesInv /\ TraceInv /\ AppliedInv
    BY DEF KeptInv
<1>2. /\ sent' = sent /\ inTransit' = inTransit /\ lost' = lost /\ restarts' = restarts
      /\ tables' = tables /\ processed' = processed /\ history' = history
      /\ overplanned => overplanned'
      /\ collided => collided'
      /\ skipped' = skipped /\ (migrations' = 0 => migrations = 0)
    BY DEF Silent, tables
<1>3. LogInv' /\ TransitInv' /\ TablesInv' /\ TraceInv'
    BY <1>1, <1>2, LogSilent, TransitSilent, TablesRest, TraceSilent
<1>4. Undisturbed' => Undisturbed
    BY <1>2 DEF Undisturbed, Crowded
<1>5. AppliedInv'
    BY <1>1, <1>2, <1>4 DEF AppliedInv, AllApplied
<1> QED BY <1>3, <1>5 DEF KeptInv

(* A restart cuts the queues, and nothing is lost only if it cuts none.    *)
LEMMA QueuesCut ==
    ASSUME TransitInv, RestartService
    PROVE  /\ TransitInv'
           /\ lost' = 0 => lost = 0 /\ inTransit' = inTransit
<1>1. PICK kept \in [Partitions -> 0 .. MaxEvents] :
         /\ \A q \in Partitions : kept[q] <= Len(inTransit[q])
         /\ inTransit' = [q \in Partitions |-> SubSeq(inTransit[q], 1, kept[q])]
         /\ lost' = lost + SumFunctionOnSet([q \in Partitions |-> Len(inTransit[q]) - kept[q]],
                                            Partitions)
    BY DEF RestartService
<1> DEFINE cut == [q \in Partitions |-> Len(inTransit[q]) - kept[q]]
<1>2. sent' = sent /\ processed' = processed
    BY DEF RestartService, Restart, tables
<1>3. /\ inTransit \in [Partitions -> Seq(EventRecords)] /\ lost \in Nat
      /\ processed \subseteq DOMAIN sent
      /\ \A q \in Partitions : QueueOK(inTransit[q], sent, processed, q)
      /\ lost = 0 => NothingMissing(inTransit, sent, processed)
    BY DEF TransitInv
<1>4. ASSUME NEW q \in Partitions
      PROVE  /\ kept[q] \in Nat /\ Len(inTransit[q]) \in Nat
             /\ cut[q] \in Nat /\ cut[q] = Len(inTransit[q]) - kept[q]
             /\ inTransit'[q] = SubSeq(inTransit[q], 1, kept[q])
             /\ QueueOK(inTransit'[q], sent, processed, q)
             /\ cut[q] = 0 => inTransit'[q] = inTransit[q]
    <2>1. kept[q] \in 0 .. MaxEvents /\ kept[q] <= Len(inTransit[q])
        BY <1>1
    <2>2. inTransit[q] \in Seq(EventRecords)
        BY <1>3
    <2>3. kept[q] \in Nat /\ Len(inTransit[q]) \in Nat
        BY <2>1, <2>2, LimitsAreNat
    <2>4. cut[q] \in Nat /\ cut[q] = Len(inTransit[q]) - kept[q]
        BY <2>1, <2>3
    <2>5. inTransit'[q] = SubSeq(inTransit[q], 1, kept[q])
        BY <1>1
    <2>6. QueueOK(inTransit[q], sent, processed, q)
        BY <1>3
    <2>7. /\ QueueOK(SubSeq(inTransit[q], 1, kept[q]), sent, processed, q)
          /\ kept[q] = Len(inTransit[q]) => SubSeq(inTransit[q], 1, kept[q]) = inTransit[q]
        BY <2>1, <2>3, <2>6, QueueCut
    <2> HIDE DEF cut
    <2> QED BY <2>3, <2>4, <2>5, <2>7
<1>5. lost' = lost + SumFunctionOnSet(cut, Partitions)
    BY <1>1
<1>6. IsFiniteSet(Partitions)
    BY KeysArePlaced
<1> HIDE DEF cut
<1>7. SumFunctionOnSet(cut, Partitions) \in Nat
    BY <1>4, <1>6, SumNat
<1>8. ASSUME lost' = 0
      PROVE  lost = 0 /\ inTransit' = inTransit
    <2>1. lost = 0 /\ SumFunctionOnSet(cut, Partitions) = 0
        BY <1>3, <1>5, <1>7, <1>8
    <2>2. ASSUME NEW q \in Partitions PROVE inTransit'[q] = inTransit[q]
        <3>1. cut[q] <= SumFunctionOnSet(cut, Partitions)
            BY <1>4, <1>6, SumPart
        <3>2. cut[q] = 0
            BY <1>4, <2>1, <3>1
        <3> QED BY <1>4, <3>2
    <2>3. inTransit' = [q \in Partitions |-> inTransit'[q]]
        BY <1>1
    <2> QED BY <1>3, <2>1, <2>2, <2>3
<1>9. inTransit' \in [Partitions -> Seq(EventRecords)]
    <2>1. \A q \in Partitions : inTransit'[q] \in Seq(EventRecords)
        BY <1>4 DEF QueueOK
    <2>2. inTransit' = [q \in Partitions |-> inTransit'[q]]
        BY <1>1
    <2> QED BY <2>1, <2>2
<1>10. TransitInv'
    <2>1. lost' \in Nat
        BY <1>3, <1>5, <1>7
    <2>2. lost' = 0 => NothingMissing(inTransit', sent, processed)
        BY <1>3, <1>8
    <2> QED BY <1>2, <1>3, <1>4, <1>9, <2>1, <2>2 DEF TransitInv
<1> QED BY <1>8, <1>10

LEMMA RestartInv ==
    ASSUME KeptInv, GenInv', RestartService
    PROVE  KeptInv'
<1>1. GenInv /\ LogInv /\ TransitInv /\ TablesInv /\ TraceInv /\ AppliedInv
    BY DEF KeptInv
<1>2. Restart /\ tables' = tables /\ sent' = sent
    BY DEF RestartService, Restart
<1>3. LogInv' /\ TablesInv'
    BY <1>1, <1>2, LogRestarted, TablesRest
<1>4. TransitInv' /\ (lost' = 0 => lost = 0 /\ inTransit' = inTransit)
    BY <1>1, QueuesCut
<1>5. TraceInv'
    BY <1>1, <1>2, <1>4, TraceRestarted
<1>6. ~Undisturbed'
    <2>1. restarts' = restarts + 1 /\ restarts \in Nat
        BY <1>1, <1>2 DEF Restart, GenInv, TypeOK
    <2> QED BY <2>1 DEF Undisturbed
<1> QED BY <1>3, <1>4, <1>5, <1>6 DEF KeptInv, AppliedInv

LEMMA ConsumeInv ==
    ASSUME KeptInv, GenInv', NEW q \in Partitions, Consume(q),
           migrations > 0 => AllApplied'
    PROVE  KeptInv'
<1>1. GenInv /\ LogInv /\ TransitInv /\ TablesInv /\ TraceInv /\ AppliedInv
    BY DEF KeptInv
<1>2. /\ Taking(q) /\ vars' = vars /\ routedBy' = routedBy /\ lost' = lost
      /\ consumer' = consumer
    BY <1>1, ConsumeCases
<1>3. PICK e \in EventRecords : e = inTransit[q][1] /\ Handling(e)
    BY <1>1, ConsumeCases
<1>4. /\ sent' = sent /\ restarts' = restarts /\ overplanned' = overplanned
      /\ collided' = collided /\ skipped' = skipped /\ migrations' = migrations
      /\ inTransit[q] # <<>>
    BY <1>2 DEF vars, stock, limits, Taking, consumer
<1>5. e.event_id \in DOMAIN sent /\ sent[e.event_id] = e /\ e.event_id \notin processed
    BY <1>1, <1>3, <1>4, FirstOfQueue DEF LogInv, TransitInv
<1>6. LogInv'
    BY <1>1, <1>2, LogRests
<1>7. TransitInv'
    <2>1. lost' \in Nat
        BY <1>1, <1>2 DEF TransitInv
    <2>2. /\ \A n \in processed' : n \in processed \/ n = inTransit[q][1].event_id
          /\ \A n \in processed : n \in processed'
          /\ inTransit[q][1].event_id \in processed'
        BY <1>3 DEF Handling
    <2> QED BY <1>1, <1>2, <2>1, <2>2, TransitTaken
<1>8. TablesInv'
    BY <1>1, <1>3, <1>4, <1>5, TablesHandled
<1>9. TraceInv'
    BY <1>1, <1>2, <1>3, TraceHandled
<1>10. AppliedInv'
    <2> SUFFICES ASSUME Undisturbed' PROVE AllApplied'
        BY DEF AppliedInv
    <2>1. Undisturbed /\ AllApplied
        BY <1>1, <1>2, <1>4 DEF AppliedInv, Undisturbed, Crowded
    <2>2. ProcessAction(Stored, processed, e) = "applied"
        BY <1>1, <1>3, <1>4, <1>5, <2>1, NextAccepted
    <2> QED BY <1>3, <2>1, <2>2 DEF Handling, Refusing, Accepting
<1> QED BY <1>6, <1>7, <1>8, <1>9, <1>10 DEF KeptInv

LEMMA LoseInv ==
    ASSUME KeptInv, GenInv', NEW q \in Partitions, LoseMessage(q)
    PROVE  KeptInv'
<1>1. GenInv /\ LogInv /\ TransitInv /\ TablesInv /\ TraceInv /\ AppliedInv
    BY DEF KeptInv
<1>2. /\ inTransit[q] # <<>> /\ inTransit \in [Partitions -> Seq(EventRecords)]
      /\ inTransit' = [inTransit EXCEPT ![q] = Tail(@)] /\ sent' = sent
      /\ vars' = vars /\ tables' = tables /\ routedBy' = routedBy /\ processed' = processed
    BY <1>1 DEF LoseMessage, TransitInv, vars, tables
<1>3. lost' \in Nat /\ lost' # 0
    BY <1>1 DEF LoseMessage, TransitInv
<1>4. Taking(q)
    BY <1>2, TakingTail
<1>5. LogInv' /\ TablesInv' /\ TraceInv'
    BY <1>1, <1>2, <1>3, LogRests, TablesRest, TraceLost
<1>6. TransitInv'
    BY <1>1, <1>2, <1>3, <1>4, TransitTaken
<1>7. AppliedInv'
    BY <1>3 DEF AppliedInv, Undisturbed
<1> QED BY <1>5, <1>6, <1>7 DEF KeptInv

LEMMA PipelineInvInit == PipelineInit => PipelineInv
<1> SUFFICES ASSUME PipelineInit PROVE PipelineInv
    OBVIOUS
<1>1. GenInv
    BY GenInvInit DEF PipelineInit
<1>2. /\ sent = <<>> /\ open = NoOrders /\ sim = NewStock /\ restarts = 0
      /\ lost = 0 /\ processed = {} /\ history = {}
      /\ inventory = EmptyStore.inventory /\ totals = EmptyStore.totals
      /\ orders = EmptyStore.orders
      /\ routedBy = [o \in OrderIds |-> NoText]
      /\ inTransit = [q \in Partitions |-> <<>>]
    BY ConsumerOperators DEF PipelineInit, Init, Consumer!Init
<1>3. LogOK(sent) /\ DOMAIN sent = {} /\ Len(sent) = 0 /\ sent \in Seq(EventRecords)
    BY <1>2, EmptyLog, EmptySeq DEF LogOK
<1>4. LogInv
    BY <1>2, <1>3 DEF LogInv, OrdersSent, OrdersGone, NoOrders, IsOrder
<1>5. TransitInv
    <2>1. \A q \in Partitions : inTransit[q] = <<>>
        BY <1>2
    <2>2. <<>> \in Seq(EventRecords) /\ DOMAIN <<>> = {}
        BY EmptySeq
    <2>3. \A q \in Partitions : QueueOK(inTransit[q], sent, processed, q)
        BY <2>1, <2>2 DEF QueueOK
    <2> QED BY <1>2, <1>3, <2>2, <2>3 DEF TransitInv, NothingMissing
<1>6. TablesInv
    <2>1. StoreOK(Stored)
        BY <1>2, StoredTables
        DEF StoreOK, EmptyStore, EmptyRow, EmptyTotal, Rows, TotalRows
    <2>2. ASSUME NEW f, NEW S, IsFiniteSet(S), \A k \in S : f[k] = 0
          PROVE  SumFunctionOnSet(f, S) = 0
        <3>1. {} \in SUBSET S /\ \A x \in S : f[x] \in Int
            BY <2>2
        <3>2. SumFunctionOnSet(f, S) = SumFunctionOnSet(f, {})
            BY <2>2, <3>1, SumSupport
        <3> QED BY <3>2, SumEmpty
    <2>3. TotalsSummed(Stored)
        <3>1. ASSUME NEW p \in Products
              PROVE  LET S == {k \in Keys : k[1] = p}
                     IN  /\ SumFunctionOnSet([k \in Keys |-> inventory[k].available], S) = 0
                         /\ SumFunctionOnSet([k \in Keys |-> inventory[k].reserved], S) = 0
            <4> DEFINE S  == {k \in Keys : k[1] = p}
                       fa == [k \in Keys |-> inventory[k].available]
                       fr == [k \in Keys |-> inventory[k].reserved]
            <4>1. IsFiniteSet(S)
                BY KeysFinite, FS_Subset
            <4>2. \A k \in S : fa[k] = 0 /\ fr[k] = 0
                BY <1>2 DEF EmptyStore, EmptyRow
            <4> HIDE DEF S, fa, fr
            <4>3. SumFunctionOnSet(fa, S) = 0 /\ SumFunctionOnSet(fr, S) = 0
                BY <2>2, <4>1, <4>2
            <4> QED BY <4>3 DEF S, fa, fr
        <3>2. \A p \in Products : totals[p].available = 0 /\ totals[p].reserved = 0
            BY <1>2 DEF EmptyStore, EmptyTotal
        <3> QED BY <3>1, <3>2, StoredTables DEF TotalsSummed
    <2>4. ZonesBounded
        <3> SUFFICES ASSUME NEW z \in Zones
                     PROVE  ZoneTotal(inventory, z) <= AddedSum(sent, processed, z)
            BY DEF ZonesBounded
        <3>1. ZoneTotal(inventory, z) = 0
            BY <1>2, EmptyZone
        <3>2. AddedSum(sent, processed, z) \in Nat
            BY <1>2, <1>3, AddedSums
        <3> QED BY <3>1, <3>2
    <2>5. OrdersStored
        BY <1>2, <1>3 DEF OrdersStored, EmptyStore, IsOrder
    <2> QED BY <2>1, <2>3, <2>4, <2>5 DEF TablesInv
<1>7. TraceInv
    <2>1. PICK T : TraceOK(T, <<>>)
        BY TraceStarts
    <2>2. TraceOK(T, sent) /\ T[0] = EmptyStore.inventory /\ 0 .. Len(sent) = {0}
        BY <1>2, <1>3, <2>1 DEF TraceOK, IsTrace
    <2>3. \A k \in Keys : T[0][k] = EmptyRow
        BY <2>2 DEF EmptyStore
    <2>4. \A k \in Positions : T[0][k] = EmptyRow /\ sim[k] = EmptyPosition
        BY <1>2, <2>3, PositionsFinite DEF NewStock
    <2>5. FollowsSim(T, sent, sim) /\ AheadOfSim(T, sent, sim)
        BY <1>3, <2>4 DEF FollowsSim, AheadOfSim, Alike, Ahead, ViewOf, EmptyRow, EmptyPosition
    <2>6. Feasible(T, sent)
        <3>1. \A z \in Zones : ZoneTotal(T[0], z) <= Capacity[z]
            BY <2>2, EmptyZone, ZonesAreKnown
        <3> QED BY <2>2, <2>4, <3>1 DEF Feasible, Fine, EmptyRow
    <2>7. Matched(T, sent, inTransit, inventory)
        <3>1. \A k \in Keys : Reached(sent, inTransit[Home(k)]) = 0
            BY <1>2, <1>3, HomeTyped DEF Reached
        <3> QED BY <1>2, <2>2, <2>3, <3>1 DEF Matched, Caught, Fine, EmptyRow
    <2>8. TraceFits(T)
        BY <2>2, <2>5, <2>6, <2>7 DEF TraceFits
    <2> QED BY <2>8 DEF TraceInv
<1>8. AppliedInv
    BY <1>2 DEF AppliedInv, AllApplied
<1>9. migrations \in Nat
    BY DEF PipelineInit
<1> QED BY <1>1, <1>4, <1>5, <1>6, <1>7, <1>8, <1>9 DEF PipelineInv, KeptInv

(* A step after which the state is trusted began in such a state, for what *)
(* ends the trust stays.                                                   *)
LEMMA TrustStays ==
    ASSUME GenInv, migrations \in Nat, [PipelineNext]_pipeline
    PROVE  /\ migrations' \in Nat
           /\ Trusted' => /\ Trusted /\ (migrations > 0 => AllApplied')
                          /\ \A q \in Partitions : ~Skip(q)
                          /\ \A e \in skipped : ~Redeliver(e)
<1>1. migrations' \in Nat /\ migrations' >= migrations
    <2>1. CASE Migrate
        BY <2>1 DEF Migrate
    <2>2. CASE ~Migrate
        <3>1. migrations' = migrations
            BY <2>2, Zenon DEF PipelineNext, Generate, Control, RestartService, Consume, Skip,
                               LoseMessage, Redeliver, pipeline, consumer
        <3> QED BY <3>1
    <2> QED BY <2>1, <2>2
<1>2. AllApplied' => AllApplied
    <2>1. CASE \E e : Handle(e)
        BY <2>1, HistoryGrows
    <2>2. CASE ~\E e : Handle(e)
        <3>1. tables' = tables
            BY <2>2, Zenon DEF PipelineNext, Generate, Control, RestartService, Consume, Skip,
                               LoseMessage, Redeliver, Migrate, pipeline
        <3> QED BY <3>1 DEF tables, AllApplied
    <2> QED BY <2>1, <2>2
<1>3. collided => collided'
    <2>1. CASE \E e : Publish(e)
        BY <2>1 DEF Publish
    <2>2. CASE ~\E e : Publish(e)
        <3>1. ~Generate
            BY <2>2, OperateCases DEF Generate
        <3>2. collided' = collided
            <4>1. CASE Control
                BY <4>1 DEF Control, WaitForResume, Pause, Resume, stock
            <4>2. CASE RestartService
                BY <4>2, Zenon DEF RestartService, Restart
            <4>3. CASE vars' = vars
                BY <4>3 DEF vars, stock
            <4> QED BY <3>1, <4>1, <4>2, <4>3, Zenon DEF PipelineNext, Consume, Skip,
                       LoseMessage, Redeliver, Migrate, pipeline
        <3> QED BY <3>2
    <2> QED BY <2>1, <2>2
<1>4. skipped \subseteq skipped'
    <2>1. CASE \E q \in Partitions : Skip(q)
        BY <2>1 DEF Skip
    <2>2. CASE ~\E q \in Partitions : Skip(q)
        <3>1. skipped' = skipped
            BY <2>2, Zenon DEF PipelineNext, Generate, Control, RestartService, Consume, Migrate,
                               LoseMessage, Redeliver, pipeline, consumer
        <3> QED BY <3>1
    <2> QED BY <2>1, <2>2
<1>5. \A q \in Partitions : Skip(q) => skipped' # {}
    BY DEF Skip
<1> QED BY <1>1, <1>2, <1>3, <1>4, <1>5 DEF Trusted

LEMMA PipelineInvNext == PipelineInv /\ [PipelineNext]_pipeline => PipelineInv'
<1> SUFFICES ASSUME PipelineInv, [PipelineNext]_pipeline PROVE PipelineInv'
    OBVIOUS
<1>1. GenInv /\ migrations \in Nat
    BY DEF PipelineInv
<1>2. [Next]_vars
    <2>1. CASE Generate \/ Control \/ RestartService
        BY <2>1, Zenon DEF Generate, Control, RestartService, Next
    <2>2. CASE ~(Generate \/ Control \/ RestartService)
        BY <2>2, Zenon DEF PipelineNext, Consume, Skip, LoseMessage, Redeliver, Migrate, pipeline
    <2> QED BY <2>1, <2>2
<1>3. GenInv'
    BY <1>1, <1>2, GenInvNext
<1>4. migrations' \in Nat
    BY <1>1, TrustStays
<1>5. ASSUME Trusted' PROVE KeptInv'
    <2>1. /\ Trusted /\ (migrations > 0 => AllApplied') /\ ~collided'
          /\ \A q \in Partitions : ~Skip(q)
          /\ \A e \in skipped : ~Redeliver(e)
        BY <1>1, <1>5, TrustStays DEF Trusted
    <2>2. KeptInv /\ LogInv /\ TransitInv
        BY <2>1 DEF PipelineInv, KeptInv
    <2>3. CASE Generate
        <3>1. inTransit \in [Partitions -> Seq(EventRecords)]
            BY <2>2 DEF TransitInv
        <3>2. CASE Silent
            BY <1>3, <2>2, <3>2, SilentInv
        <3>3. CASE \E e \in EventRecords : Sending(e)
            BY <1>3, <2>2, <3>3, SentInv
        <3> QED BY <1>1, <2>1, <2>2, <2>3, <3>1, <3>2, <3>3, GenerateSends
    <2>4. CASE Control
        <3>1. /\ sim' = sim /\ open' = open /\ overplanned' = overplanned /\ sent' = sent
              /\ collided' = collided
              /\ restarts' = restarts /\ (task' # "failed" => task # "failed")
            BY <2>4 DEF Control, WaitForResume, Pause, Resume, stock, limits
        <3>2. /\ tables' = tables /\ inTransit' = inTransit /\ routedBy' = routedBy
              /\ lost' = lost /\ consumer' = consumer
            BY <2>4 DEF Control
        <3>3. Silent
            BY <3>1, <3>2 DEF Silent, consumer
        <3> QED BY <1>3, <2>2, <3>3, SilentInv
    <2>5. CASE Migrate
        <3>1. /\ vars' = vars /\ tables' = tables /\ inTransit' = inTransit
              /\ routedBy' = routedBy /\ lost' = lost /\ skipped' = skipped
              /\ migrations' = migrations + 1
            BY <2>5, Zenon DEF Migrate
        <3>2. Silent
            BY <1>1, <3>1 DEF Silent, vars, stock, control, limits
        <3> QED BY <1>3, <2>2, <3>2, SilentInv
    <2>6. CASE RestartService
        BY <1>3, <2>2, <2>6, RestartInv
    <2>7. CASE \E q \in Partitions : Consume(q) \/ LoseMessage(q)
        BY <1>3, <2>1, <2>2, <2>7, ConsumeInv, LoseInv
    <2>8. CASE UNCHANGED pipeline
        <3>1. /\ vars' = vars /\ tables' = tables /\ inTransit' = inTransit
              /\ routedBy' = routedBy /\ lost' = lost /\ consumer' = consumer
            BY <2>8 DEF pipeline
        <3>2. Silent
            BY <3>1 DEF Silent, vars, stock, control, limits, consumer
        <3> QED BY <1>3, <2>2, <3>2, SilentInv
    <2> QED BY <2>1, <2>3, <2>4, <2>5, <2>6, <2>7, <2>8 DEF PipelineNext
<1> QED BY <1>3, <1>4, <1>5 DEF PipelineInv

-----------------------------------------------------------------------------
LEMMA UndisturbedKeeps == PipelineInv /\ Undisturbed => KeptInv
BY UndisturbedMeans DEF PipelineInv, Trusted

(* Every generated event is accepted: no message of the generator is       *)
(* refused or ignored unless one of them was lost or skipped, the          *)
(* generator was restarted, planned what cannot be or used an order id     *)
(* twice, the migrations ran again, an order was split over partitions or  *)
(* a zone was crowded.                                                     *)
THEOREM GeneratedEventsCorrect == PipelineSpec => []GeneratedEventsApplied
<1>1. PipelineInv => GeneratedEventsApplied
    <2>1. PipelineInv /\ Undisturbed => KeptInv
        BY UndisturbedKeeps
    <2> QED BY <2>1 DEF KeptInv, AppliedInv, AllApplied, GeneratedEventsApplied
<1> QED BY <1>1, PipelineInvInit, PipelineInvNext, PTL DEF PipelineSpec

(* When nothing waits any more, every row is the last one of the trace.    *)
LEMMA DrainedRows ==
    ASSUME KeptInv, Drained, lost = 0, NoSplit(sent), AllApplied
    PROVE  \E T : /\ TraceFits(T) /\ IsTrace(T, sent) /\ Len(sent) \in Nat
                  /\ \A k \in Positions :
                        /\ k \in Keys /\ inventory[k] = T[Len(sent)][k]
                        /\ \A m \in 0 .. Len(sent) : Fine(T[m][k])
<1>1. PICK T : TraceFits(T)
    BY DEF KeptInv, TraceInv
<1>2. Matched(T, sent, inTransit, inventory) /\ IsTrace(T, sent)
    BY <1>1 DEF TraceFits, TraceOK
<1>3. ASSUME NEW k \in Positions
      PROVE  /\ k \in Keys /\ inventory[k] = T[Len(sent)][k]
             /\ \A m \in 0 .. Len(sent) : Fine(T[m][k])
    <2>1. k \in Keys /\ Home(k) \in Partitions
        BY PositionsFinite, HomeTyped
    <2>2. Reached(sent, inTransit[Home(k)]) = Len(sent)
        BY <2>1 DEF Drained, Reached
    <2> QED BY <1>2, <2>1, <2>2 DEF Matched, Caught
<1>4. Len(sent) \in Nat
    BY InLog DEF KeptInv, LogInv, LogOK
<1> QED BY <1>1, <1>2, <1>3, <1>4

LEMMA DrainedOrders ==
    ASSUME KeptInv, Undisturbed, Drained, task # "failed", NEW o \in OrderIds
    PROVE  IF open[o] = <<>> THEN orders[o] = NoOrder \/ orders[o].status = "COMPLETED"
           ELSE /\ orders[o] # NoOrder
                /\ orders[o].status = "CREATED" /\ orders[o].items = open[o]
<1>1. lost = 0 /\ restarts = 0 /\ AllApplied
    BY UndisturbedMeans DEF KeptInv, AppliedInv
<1>2. OrdersSent /\ OrdersGone /\ OrdersStored /\ LogOK(sent) /\ StoreOK(Stored)
    BY DEF KeptInv, LogInv, TablesInv
<1>3. processed \subseteq DOMAIN sent /\ NothingMissing(inTransit, sent, processed)
    BY <1>1 DEF KeptInv, TransitInv
<1>4. ASSUME NEW m \in DOMAIN sent PROVE m \in processed
    <2>1. Dest(sent, m) \in Partitions
        BY <1>2, Destination
    <2>2. inTransit[Dest(sent, m)] = <<>>
        BY <2>1 DEF Drained
    <2>3. DOMAIN inTransit[Dest(sent, m)] = {}
        BY <2>2, EmptySeq
    <2> QED BY <1>3, <2>3 DEF NothingMissing
<1>5. CASE open[o] = <<>>
    <2>1. SUFFICES ASSUME orders[o] # NoOrder PROVE orders[o].status = "COMPLETED"
        BY <1>5
    <2>2. IsOrder(sent, o)
        BY <1>2, <2>1 DEF OrdersStored
    <2>3. PICK m \in DOMAIN sent : Completes(sent[m], o)
        BY <1>1, <1>2, <1>5, <2>2 DEF OrdersGone
    <2>4. m \in processed
        BY <1>4
    <2> QED BY <1>1, <1>2, <2>3, <2>4 DEF OrdersStored
<1>6. CASE open[o] # <<>>
    <2>1. /\ IsOrder(sent, o) /\ sent[o].items = open[o]
          /\ \A m \in DOMAIN sent : ~Completes(sent[m], o)
        BY <1>2, <1>6 DEF OrdersSent
    <2>2. o \in processed
        BY <1>4, <2>1 DEF IsOrder
    <2>3. orders[o] # NoOrder /\ orders[o].items = sent[o].items
        BY <1>1, <1>2, <2>1, <2>2 DEF OrdersStored
    <2>4. orders[o].status # "COMPLETED"
        BY <1>2, <1>3, <2>1, <2>3 DEF OrdersStored
    <2>5. orders[o].status \in {"CREATED", "COMPLETED"}
        BY <1>2, <2>3, StoredTables DEF StoreOK, OrderRows
    <2> QED BY <1>6, <2>1, <2>3, <2>4, <2>5
<1> QED BY <1>5, <1>6

(* Once everything is handled, the tables hold the stock, the suppliers    *)
(* and the open orders that the generator simulates.                       *)
THEOREM SimulationMatchesCorrect == PipelineSpec => []SimulationMatches
<1>1. PipelineInv => SimulationMatches
    <2> SUFFICES ASSUME KeptInv, Undisturbed, Drained, task # "failed"
                 PROVE  /\ \A k \in Positions :
                              /\ inventory[k].available = sim[k].available
                              /\ inventory[k].reserved
                                    = sim[k].reserved_manual + sim[k].reserved_order
                              /\ inventory[k].supplier_id = sim[k].supplier_id
                        /\ \A o \in OrderIds :
                              IF open[o] = <<>>
                              THEN orders[o] = NoOrder \/ orders[o].status = "COMPLETED"
                              ELSE /\ orders[o] # NoOrder
                                   /\ orders[o].status = "CREATED" /\ orders[o].items = open[o]
        BY UndisturbedKeeps DEF SimulationMatches
    <2>1. lost = 0 /\ restarts = 0 /\ NoSplit(sent) /\ AllApplied
        BY UndisturbedMeans DEF KeptInv, AppliedInv
    <2>2. PICK T : /\ TraceFits(T)
                   /\ \A k \in Positions : inventory[k] = T[Len(sent)][k]
        BY <2>1, DrainedRows
    <2>3. FollowsSim(T, sent, sim)
        BY <2>1, <2>2 DEF TraceFits
    <2>4. \A k \in Positions : Alike(inventory[k], ViewOf(sim[k]))
        BY <2>2, <2>3 DEF FollowsSim
    <2> QED BY <2>4, DrainedOrders DEF Alike, ViewOf
<1> QED BY <1>1, PipelineInvInit, PipelineInvNext, PTL DEF PipelineSpec

(* Whatever restarts and runs of the migrations there were, the generator  *)
(* never plans with stock that the tables do not have, as long as nothing  *)
(* was lost, skipped, refused or split and no order id was used twice.     *)
THEOREM NeverAheadCorrect == PipelineSpec => []SimulationNeverAhead
<1>1. PipelineInv => SimulationNeverAhead
    <2> SUFFICES ASSUME KeptInv, lost = 0, Drained, task # "failed", AllApplied,
                        NoSplit(sent), NEW k \in Positions
                 PROVE  /\ inventory[k].available >= sim[k].available
                        /\ inventory[k].reserved
                              >= sim[k].reserved_manual + sim[k].reserved_order
        BY DEF SimulationNeverAhead, PipelineInv, Trusted, AllApplied, NoSplit
    <2>1. PICK T : /\ TraceFits(T) /\ inventory[k] = T[Len(sent)][k]
                   /\ \A m \in 0 .. Len(sent) : Fine(T[m][k])
        BY DrainedRows
    <2>2. AheadOfSim(T, sent, sim)
        BY <2>1 DEF TraceFits
    <2>3. Ahead(inventory[k], ViewOf(sim[k]))
        BY <2>1, <2>2 DEF AheadOfSim
    <2> QED BY <2>3 DEF Ahead, ViewOf
<1> QED BY <1>1, PipelineInvInit, PipelineInvNext, PTL DEF PipelineSpec

=============================================================================
