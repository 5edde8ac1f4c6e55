--------------------------- MODULE EventProcessor ---------------------------
(***************************************************************************)
(* What EventProcessor.process decides and computes, as operators over a   *)
(* store: the rows the processor reads from Cassandra.                     *)
(*                                                                         *)
(* A store s is a record with four tables:                                 *)
(*   s.inventory[<<p, z>>]  inventory_by_product_zone: the rows            *)
(*   s.by_zone[<<p, z>>]    inventory_by_zone: their copy, read for the    *)
(*                          stock of a zone                                *)
(*   s.totals[p]            inventory_totals_by_product                    *)
(*   s.orders[o]            orders_by_id                                   *)
(* A key with no row reads as the empty row the code substitutes for it.   *)
(*                                                                         *)
(* Error codes are abstracted to the action "dlq" (which of several failed *)
(* checks is reported depends on the order in which Python walks a set).   *)
(***************************************************************************)
EXTENDS Integers, Sequences, FiniteSets, Functions

CONSTANTS
    Products,       \* product identifiers
    ZoneIds,        \* every zone identifier an event may name
    Zones,          \* the zones of zones_by_id
    Capacity,       \* zones_by_id.capacity
    OrderIds,       \* order identifiers
    Suppliers,      \* supplier identifiers
    EventIds,       \* event identifiers
    Events,         \* the Avro records that may be on the topic
    NoText,         \* a text field that is null or blank
    NoOrder         \* "no row in orders_by_id"

ProductEventTypes == {"PRODUCT_RECEIVED", "PRODUCT_SHIPPED", "PRODUCT_RESERVED",
                      "PRODUCT_RELEASED", "INVENTORY_COUNTED"}
OrderEventTypes   == {"ORDER_CREATED", "ORDER_COMPLETED"}
EventTypes        == ProductEventTypes \cup {"PRODUCT_MOVED"} \cup OrderEventTypes

Keys  == Products \X ZoneIds

Items == [product_id : Products \cup {NoText},
          zone_id    : ZoneIds \cup {NoText},
          quantity   : Int]

(* The flat Avro record: every event has every field.  A missing or        *)
(* malformed number is one the validation refuses (0, or -1 for a count);  *)
(* supplier_id is NoText when it is null or empty, and in a v1 record,     *)
(* which lacks the field; "OTHER" is any type the processor does not know. *)
EventRecords ==
    [event_id         : EventIds,
     event_type       : EventTypes \cup {"OTHER"},
     occurred_at      : Int,
     product_id       : Products \cup {NoText},
     zone_id          : ZoneIds \cup {NoText},
     quantity         : Int,
     from_zone_id     : ZoneIds \cup {NoText},
     to_zone_id       : ZoneIds \cup {NoText},
     counted_quantity : Int,
     order_id         : OrderIds \cup {NoText},
     items            : Seq(Items),
     supplier_id      : Suppliers \cup {NoText}]

(* The rows of the tables: no quantity is ever stored below zero.          *)
Rows      == [available : Nat, reserved : Nat, last_event_ts : Int,
              supplier_id : Suppliers \cup {NoText}]
TotalRows == [available : Nat, reserved : Nat, last_event_ts : Int]
OrderRows == [status : {"CREATED", "COMPLETED"}, items : Seq(Items), last_event_ts : Int]

ASSUME FiniteStock     == IsFiniteSet(Products) /\ IsFiniteSet(ZoneIds)
ASSUME ZonesAreKnown   == Zones \subseteq ZoneIds /\ Capacity \in [Zones -> Nat]
ASSUME EventsAreRecords == Events \subseteq EventRecords
ASSUME NoTextIsNoId    == NoText \notin Products \cup ZoneIds \cup OrderIds \cup Suppliers
ASSUME NoOrderIsNoRow  == NoOrder \notin OrderRows

-----------------------------------------------------------------------------
(* Rows *)

EmptyRow   == [available |-> 0, reserved |-> 0, last_event_ts |-> 0, supplier_id |-> NoText]
EmptyTotal == [available |-> 0, reserved |-> 0, last_event_ts |-> 0]

EmptyStore == [inventory |-> [k \in Keys |-> EmptyRow],
               by_zone   |-> [k \in Keys |-> EmptyRow],
               totals    |-> [p \in Products |-> EmptyTotal],
               orders    |-> [o \in OrderIds |-> NoOrder]]

Total(row) == row.available + row.reserved

(* Mutant: the last line about a key overwrites the earlier ones.          *)
GroupedQuantityLastLine(items, k) ==
    LET lines == {i \in DOMAIN items : <<items[i].product_id, items[i].zone_id>> = k}
    IN  IF lines = {} THEN 0
        ELSE items[CHOOSE i \in lines : \A j \in lines : j <= i].quantity

(* The quantity that a list of order items asks for at key k: the items    *)
(* that name the same product and zone are added up.                       *)
GroupedQuantity(items, k) ==
    SumFunctionOnSet([i \in DOMAIN items |-> items[i].quantity],
                     {i \in DOMAIN items : <<items[i].product_id, items[i].zone_id>> = k})

ItemKeys(items) == {<<items[i].product_id, items[i].zone_id>> : i \in DOMAIN items}

-----------------------------------------------------------------------------
(* The order of the checks is the same in every handler: the fields of the *)
(* event, then staleness, then what the stock and the zones allow.         *)

ItemsWellFormed(items) ==
    /\ items # <<>>
    /\ \A i \in DOMAIN items : /\ items[i].product_id # NoText
                               /\ items[i].zone_id # NoText
                               /\ items[i].quantity > 0

WellFormed(e) ==
    /\ e.event_type \in EventTypes
    /\ e.event_type \in (ProductEventTypes \ {"INVENTORY_COUNTED"}) \cup {"PRODUCT_MOVED"}
          => e.quantity > 0
    /\ e.event_type = "INVENTORY_COUNTED" => e.counted_quantity >= 0
    /\ e.event_type \in ProductEventTypes => e.product_id # NoText /\ e.zone_id # NoText
    /\ e.event_type = "PRODUCT_MOVED" =>
          /\ NoText \notin {e.product_id, e.from_zone_id, e.to_zone_id}
          /\ e.from_zone_id # e.to_zone_id
    /\ e.event_type \in OrderEventTypes => e.order_id # NoText
    /\ e.event_type = "ORDER_CREATED" => ItemsWellFormed(e.items)

(* The rows the event changes.  A completed order ships the items stored   *)
(* with the order, not those of the event.                                 *)
TouchedKeys(s, e) ==
    CASE e.event_type \in ProductEventTypes -> {<<e.product_id, e.zone_id>>}
      [] e.event_type = "PRODUCT_MOVED"     -> {<<e.product_id, e.from_zone_id>>,
                                                <<e.product_id, e.to_zone_id>>}
      [] e.event_type = "ORDER_CREATED"     -> ItemKeys(e.items)
      [] OTHER (* "ORDER_COMPLETED" *)      -> ItemKeys(s.orders[e.order_id].items)

(* A timestamp 0 counts as "never written".                                *)
OlderThan(e, last_event_ts) == last_event_ts # 0 /\ e.occurred_at < last_event_ts

(* Mutant: an event is stale only if it is older than all its rows.        *)
StaleEverywhere(s, e) ==
    IF e.event_type \in OrderEventTypes
    THEN s.orders[e.order_id] # NoOrder /\ e.occurred_at < s.orders[e.order_id].last_event_ts
    ELSE \A k \in TouchedKeys(s, e) : OlderThan(e, s.inventory[k].last_event_ts)

(* A product event is stale against its rows, an order event against its   *)
(* order alone: the rows an order event changes are not consulted.         *)
Stale(s, e) ==
    IF e.event_type \in OrderEventTypes
    THEN /\ s.orders[e.order_id] # NoOrder
         /\ e.occurred_at < s.orders[e.order_id].last_event_ts
    ELSE \E k \in TouchedKeys(s, e) : OlderThan(e, s.inventory[k].last_event_ts)

(* Mutant: a shipment leaves the check to the totals.                      *)
StockSufficesUnlessShipped(s, e) ==
    LET row == s.inventory[<<e.product_id, e.zone_id>>]
    IN  /\ e.event_type = "PRODUCT_RESERVED" => row.available >= e.quantity
        /\ e.event_type = "PRODUCT_RELEASED" => row.reserved >= e.quantity
        /\ e.event_type = "PRODUCT_MOVED" =>
              s.inventory[<<e.product_id, e.from_zone_id>>].available >= e.quantity

StockSuffices(s, e) ==
    LET row == s.inventory[<<e.product_id, e.zone_id>>]
    IN  /\ e.event_type \in {"PRODUCT_SHIPPED", "PRODUCT_RESERVED"}
              => row.available >= e.quantity
        /\ e.event_type = "PRODUCT_RELEASED" => row.reserved >= e.quantity
        /\ e.event_type = "PRODUCT_MOVED" =>
              s.inventory[<<e.product_id, e.from_zone_id>>].available >= e.quantity

(* Mutant: creating an order does not look for an existing one.            *)
OrderAllowsAgain(s, e) ==
    /\ e.event_type = "ORDER_CREATED" =>
          \A k \in ItemKeys(e.items) : s.inventory[k].available >= GroupedQuantity(e.items, k)
    /\ e.event_type = "ORDER_COMPLETED" =>
          /\ s.orders[e.order_id] # NoOrder
          /\ s.orders[e.order_id].status = "CREATED"

(* Mutant: an order may be completed again.                                *)
OrderAllowsTwice(s, e) ==
    LET order == s.orders[e.order_id]
    IN  /\ e.event_type = "ORDER_CREATED" =>
              /\ order = NoOrder
              /\ \A k \in ItemKeys(e.items) :
                    s.inventory[k].available >= GroupedQuantity(e.items, k)
        /\ e.event_type = "ORDER_COMPLETED" =>
              /\ order # NoOrder
              /\ \A k \in ItemKeys(order.items) :
                    s.inventory[k].reserved >= GroupedQuantity(order.items, k)

OrderAllows(s, e) ==
    LET order == s.orders[e.order_id]
    IN  /\ e.event_type = "ORDER_CREATED" =>
              /\ order = NoOrder
              /\ \A k \in ItemKeys(e.items) :
                    s.inventory[k].available >= GroupedQuantity(e.items, k)
        /\ e.event_type = "ORDER_COMPLETED" =>
              /\ order # NoOrder
              /\ order.status = "CREATED"
              /\ \A k \in ItemKeys(order.items) :
                    s.inventory[k].reserved >= GroupedQuantity(order.items, k)

-----------------------------------------------------------------------------
(* What an accepted event does to the rows it touches *)

DeltaAvailable(s, e, k) ==
    CASE e.event_type \in {"PRODUCT_RECEIVED", "PRODUCT_RELEASED"} -> e.quantity
      [] e.event_type \in {"PRODUCT_SHIPPED", "PRODUCT_RESERVED"}  -> -e.quantity
      [] e.event_type = "INVENTORY_COUNTED" -> e.counted_quantity - s.inventory[k].available
      [] e.event_type = "PRODUCT_MOVED"     ->
            IF k[2] = e.from_zone_id THEN -e.quantity ELSE e.quantity
      [] e.event_type = "ORDER_CREATED"     -> -GroupedQuantity(e.items, k)
      [] OTHER (* "ORDER_COMPLETED" *)      -> 0

DeltaReserved(s, e, k) ==
    CASE e.event_type = "PRODUCT_RESERVED" -> e.quantity
      [] e.event_type = "PRODUCT_RELEASED" -> -e.quantity
      [] e.event_type = "ORDER_CREATED"    -> GroupedQuantity(e.items, k)
      [] e.event_type = "ORDER_COMPLETED"  -> -GroupedQuantity(s.orders[e.order_id].items, k)
      [] OTHER -> 0

(* A receipt overwrites the supplier, with null if the record has none; a  *)
(* move fills in the target's supplier when it has none.                   *)
NewSupplier(s, e, k) ==
    CASE e.event_type = "PRODUCT_RECEIVED" -> e.supplier_id
      [] e.event_type = "PRODUCT_MOVED" /\ k[2] = e.to_zone_id
            /\ s.inventory[k].supplier_id = NoText ->
              s.inventory[<<e.product_id, e.from_zone_id>>].supplier_id
      [] OTHER -> s.inventory[k].supplier_id

(* Mutant: the row is built without the stock reserved before.             *)
UpdatedRowForgetsReserved(s, e, k) ==
    [available     |-> s.inventory[k].available + DeltaAvailable(s, e, k),
     reserved      |-> DeltaReserved(s, e, k),
     last_event_ts |-> e.occurred_at,
     supplier_id   |-> NewSupplier(s, e, k)]

UpdatedRow(s, e, k) ==
    [available     |-> s.inventory[k].available + DeltaAvailable(s, e, k),
     reserved      |-> s.inventory[k].reserved + DeltaReserved(s, e, k),
     last_event_ts |-> e.occurred_at,
     supplier_id   |-> NewSupplier(s, e, k)]

(* The stock of zone z, summed over its partition of inventory_by_zone.    *)
ZoneTotal(inventory, z) ==
    SumFunctionOnSet([k \in Keys |-> Total(inventory[k])], {k \in Keys : k[2] = z})

(* _validate_zone_capacities: the stored total of every zone touched, as   *)
(* the copy by zone has it, with the touched rows replaced, must fit.      *)
ReplacedTotal(s, e, z) ==
    ZoneTotal(s.by_zone, z)
      + SumFunctionOnSet([k \in Keys |-> DeltaAvailable(s, e, k) + DeltaReserved(s, e, k)],
                         {k \in TouchedKeys(s, e) : k[2] = z})

(* Mutant: the zone a product is moved to is not checked.                  *)
FitsZonesNotTarget(s, e) ==
    \A z \in {k[2] : k \in TouchedKeys(s, e)} \ {e.to_zone_id} :
        z \in Zones /\ ReplacedTotal(s, e, z) <= Capacity[z]

FitsZones(s, e) ==
    \A z \in {k[2] : k \in TouchedKeys(s, e)} :
        z \in Zones /\ ReplacedTotal(s, e, z) <= Capacity[z]

(* _build_totals adds the changes of the rows of each product to its       *)
(* stored totals; the timestamp of the totals never goes back.             *)
LaterIsLast(a, b) == b      \* mutant: the last event wins
Later(a, b) == IF a >= b THEN a ELSE b

KeysOf(s, e, p) == {k \in TouchedKeys(s, e) : k[1] = p}

(* Mutant: a count is added to the totals as it is.                        *)
UpdatedTotalRecounted(s, e, p) ==
    [available     |-> s.totals[p].available
                         + SumFunctionOnSet([k \in Keys |->
                                IF e.event_type = "INVENTORY_COUNTED" THEN e.counted_quantity
                                ELSE DeltaAvailable(s, e, k)], KeysOf(s, e, p)),
     reserved      |-> s.totals[p].reserved
                         + SumFunctionOnSet([k \in Keys |-> DeltaReserved(s, e, k)],
                                            KeysOf(s, e, p)),
     last_event_ts |-> Later(s.totals[p].last_event_ts, e.occurred_at)]

UpdatedTotal(s, e, p) ==
    [available     |-> s.totals[p].available
                         + SumFunctionOnSet([k \in Keys |-> DeltaAvailable(s, e, k)],
                                            KeysOf(s, e, p)),
     reserved      |-> s.totals[p].reserved
                         + SumFunctionOnSet([k \in Keys |-> DeltaReserved(s, e, k)],
                                            KeysOf(s, e, p)),
     last_event_ts |-> Later(s.totals[p].last_event_ts, e.occurred_at)]

TotalsNonNegative(s, e) ==
    \A p \in {k[1] : k \in TouchedKeys(s, e)} :
        UpdatedTotal(s, e, p).available >= 0 /\ UpdatedTotal(s, e, p).reserved >= 0

-----------------------------------------------------------------------------
(* EventProcessor.process: the action of the result.                       *)
ProcessAction(s, processed, e) ==
    IF e.event_id \in processed THEN "duplicate"
    ELSE IF ~WellFormed(e) THEN "dlq"
    ELSE IF Stale(s, e) THEN "stale"
    ELSE IF StockSuffices(s, e) /\ OrderAllows(s, e) /\ FitsZones(s, e) /\ TotalsNonNegative(s, e)
         THEN "applied"
    ELSE "dlq"

(* The three tables after an event whose action is "applied".              *)
UpdatedInventory(s, e) ==
    [k \in Keys |-> IF k \in TouchedKeys(s, e) THEN UpdatedRow(s, e, k) ELSE s.inventory[k]]

UpdatedTotals(s, e) ==
    [p \in Products |-> IF KeysOf(s, e, p) # {} THEN UpdatedTotal(s, e, p) ELSE s.totals[p]]

UpdatedOrders(s, e) ==
    CASE e.event_type = "ORDER_CREATED" ->
            [s.orders EXCEPT ![e.order_id] =
                [status |-> "CREATED", items |-> e.items, last_event_ts |-> e.occurred_at]]
      [] e.event_type = "ORDER_COMPLETED" ->
            [s.orders EXCEPT ![e.order_id] =
                [status |-> "COMPLETED", items |-> s.orders[e.order_id].items,
                 last_event_ts |-> e.occurred_at]]
      [] OTHER -> s.orders
=============================================================================
