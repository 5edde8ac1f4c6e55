----------------------------- MODULE Projection -----------------------------
(***************************************************************************)
(* The warehouse projection as consumer-service promises it: every event   *)
(* is handled in one step that decides, writes the rows it changes, marks  *)
(* the event as processed and adds it to the history.                      *)
(*                                                                         *)
(* Events arrive in any order: the WMS keys its messages by product or by  *)
(* order, so events about the same rows travel through several partitions. *)
(* The consumer loop (module ConsumerWorker) implements this specification.*)
(***************************************************************************)
EXTENDS EventProcessor

VARIABLES
    inventory,      \* inventory_by_product_zone
    totals,         \* inventory_totals_by_product
    orders,         \* orders_by_id
    processed,      \* the ids of processed_events_by_id
    history         \* event_history_by_day: the events handled, with their outcome

store == [inventory |-> inventory, by_zone |-> inventory, totals |-> totals, orders |-> orders]
vars  == <<inventory, totals, orders, processed, history>>

Outcomes == {"APPLIED", "STALE", "DLQ"}

-----------------------------------------------------------------------------
Init ==
    /\ inventory = EmptyStore.inventory
    /\ totals = EmptyStore.totals
    /\ orders = EmptyStore.orders
    /\ processed = {}
    /\ history = {}

(* The two inserts that every batch of apply_state_change ends with.       *)
Record(e, outcome) ==
    /\ processed' = processed \cup {e.event_id}
    /\ history' = history \cup {[event |-> e, outcome |-> outcome]}

(* The event is accepted: one batch writes rows, totals and order.         *)
Apply(e) ==
    /\ ProcessAction(store, processed, e) = "applied"
    /\ inventory' = UpdatedInventory(store, e)
    /\ totals' = UpdatedTotals(store, e)
    /\ orders' = UpdatedOrders(store, e)
    /\ Record(e, "APPLIED")

(* The event is older than what it would change: it is only recorded.      *)
Ignore(e) ==
    /\ ProcessAction(store, processed, e) = "stale"
    /\ Record(e, "STALE")
    /\ UNCHANGED <<inventory, totals, orders>>

(* The event is refused: it goes to the DLQ and is recorded.               *)
Reject(e) ==
    /\ ProcessAction(store, processed, e) = "dlq"
    /\ Record(e, "DLQ")
    /\ UNCHANGED <<inventory, totals, orders>>

(* A duplicate writes nothing: it is a stuttering step.                    *)
Next == \E e \in Events : Apply(e) \/ Ignore(e) \/ Reject(e)

Spec == Init /\ [][Next]_vars

-----------------------------------------------------------------------------
(* Quantities no table stores: they are recomputed from the history. *)

Applied == {h.event : h \in {g \in history : g.outcome = "APPLIED"}}

QuantityOf(events) == SumFunctionOnSet([e \in events |-> e.quantity], events)

AppliedAt(type, k) ==
    {e \in Applied : e.event_type = type /\ <<e.product_id, e.zone_id>> = k}

OrdersIn(status) == {o \in OrderIds : orders[o] # NoOrder /\ orders[o].status = status}

(* The order lines about row k, one by one, of the orders in a status.     *)
OrderLines(status, k) ==
    UNION {{<<o, i>> : i \in {j \in DOMAIN orders[o].items :
                LET item == orders[o].items[j] IN <<item.product_id, item.zone_id>> = k}} :
           o \in OrdersIn(status)}

OrderDemand(status, k) ==
    SumFunctionOnSet([line \in OrderLines(status, k) |-> orders[line[1]].items[line[2]].quantity],
                     OrderLines(status, k))

SumAvailable(p) ==
    SumFunctionOnSet([k \in Keys |-> inventory[k].available], {k \in Keys : k[1] = p})
SumReserved(p) ==
    SumFunctionOnSet([k \in Keys |-> inventory[k].reserved], {k \in Keys : k[1] = p})

-----------------------------------------------------------------------------
(* Every table holds what its columns may hold; in particular no row and   *)
(* no total is ever negative, whatever the checks of the handlers let by.  *)
TypeOK ==
    /\ inventory \in [Keys -> Rows]
    /\ totals \in [Products -> TotalRows]
    /\ orders \in [OrderIds -> OrderRows \cup {NoOrder}]
    /\ processed \subseteq EventIds
    /\ history \subseteq [event : Events, outcome : Outcomes]

(* The totals, which _build_totals maintains by differences, equal the     *)
(* sums of the inventory rows they summarise.                              *)
TotalsMatchInventory ==
    \A p \in Products : /\ totals[p].available = SumAvailable(p)
                        /\ totals[p].reserved = SumReserved(p)

(* No sequence of accepted events overfills a zone, and a zone missing     *)
(* from zones_by_id holds nothing.                                         *)
ZoneCapacityRespected ==
    \A z \in ZoneIds : ZoneTotal(inventory, z) <= IF z \in Zones THEN Capacity[z] ELSE 0

(* last_aggregated_event_ts covers every row behind the totals, although   *)
(* a row's own timestamp may go back.                                      *)
TotalsCoverRows ==
    \A k \in Keys : totals[k[1]].last_event_ts >= inventory[k].last_event_ts

(* Reserved stock is accounted for, row by row: what the applied           *)
(* PRODUCT_RESERVED and PRODUCT_RELEASED events of the history leave, plus *)
(* what the open orders ask for.  An inventory count, a move or a receipt  *)
(* never changes it.                                                       *)
ReservationsAccounted ==
    \A k \in Keys :
        inventory[k].reserved = QuantityOf(AppliedAt("PRODUCT_RESERVED", k))
                                - QuantityOf(AppliedAt("PRODUCT_RELEASED", k))
                                + OrderDemand("CREATED", k)

(* What the history and the orders say of the stock of product p, row by   *)
(* row, moves left aside.                                                  *)
Ledger(p) ==
    [k \in {p} \X ZoneIds |-> QuantityOf(AppliedAt("PRODUCT_RECEIVED", k))
                              - QuantityOf(AppliedAt("PRODUCT_SHIPPED", k))
                              - OrderDemand("COMPLETED", k)]

(* Stock on hand is accounted for, product by product: unless the product  *)
(* was counted, it is what was received, less what was shipped and what    *)
(* the completed orders took.                                              *)
StockAccounted ==
    \A p \in Products :
        (\A k \in {p} \X ZoneIds : AppliedAt("INVENTORY_COUNTED", k) = {}) =>
            totals[p].available + totals[p].reserved = SumFunctionOnSet(Ledger(p), {p} \X ZoneIds)

-----------------------------------------------------------------------------
(* The order life cycle: no step removes an order, reopens it, changes its *)
(* items or takes it from nothing to COMPLETED.                            *)
OrderStep(o) ==
    \/ orders[o] = NoOrder /\ orders'[o] # NoOrder /\ orders'[o].status = "CREATED"
    \/ /\ orders[o] # NoOrder /\ orders[o].status = "CREATED"
       /\ orders'[o] # NoOrder /\ orders'[o].status = "COMPLETED"
       /\ orders'[o].items = orders[o].items
       /\ orders'[o].last_event_ts >= orders[o].last_event_ts

OrderLifecycle == [][\A o \in OrderIds : orders'[o] # orders[o] => OrderStep(o)]_vars

(* The stock of every open order is reserved in its rows.                  *)
OrdersBacked == \A k \in Keys : inventory[k].reserved >= OrderDemand("CREATED", k)

Handles(type) == \E h \in history' \ history : h.outcome = "APPLIED" /\ h.event.event_type = type

(* Only a PRODUCT_RELEASED can take from an open order the stock reserved  *)
(* for it: creating and completing orders, shipping, moving and counting   *)
(* leave the reservations of the other orders alone.                       *)
OnlyReleaseBreaksOrders ==
    [][OrdersBacked => OrdersBacked' \/ Handles("PRODUCT_RELEASED")]_vars

(* A row's last_event_ts goes back only under an order event: the stale    *)
(* check of every other handler covers each row the handler writes.        *)
OnlyOrdersRewindRows ==
    [][\A k \in Keys :
          /\ inventory[k].last_event_ts # 0
          /\ inventory'[k].last_event_ts < inventory[k].last_event_ts
          => \E type \in OrderEventTypes : Handles(type)]_vars

(* "Older event ignored" (processor.py), "stale event does not override    *)
(* newer inventory" (test_event_processor.py): of two events about the     *)
(* same product and zone, the older one is not applied after the newer     *)
(* one, whatever the order events did to the row in between.               *)
StaleEventDoesNotOverride ==
    [][\A h \in history' \ history, g \in history :
          /\ h.outcome = "APPLIED" /\ g.outcome = "APPLIED"
          /\ {h.event.event_type, g.event.event_type} \subseteq ProductEventTypes
          /\ h.event.product_id = g.event.product_id
          /\ h.event.zone_id = g.event.zone_id
          => h.event.occurred_at >= g.event.occurred_at]_vars
=============================================================================
