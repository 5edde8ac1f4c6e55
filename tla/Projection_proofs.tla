-------------------------- MODULE Projection_proofs --------------------------
(***************************************************************************)
(* The invariants of Projection, for every set of products, zones, orders  *)
(* and events.  The inductive invariant adds to the type invariant that    *)
(* the items stored with an order have passed _normalize_items: completing *)
(* an order reads them back and looks up their rows without checking them. *)
(***************************************************************************)
EXTENDS Projection, EventProcessor_proofs

StoredItemsOK ==
    \A o \in OrderIds : orders[o] # NoOrder => ItemsWellFormed(orders[o].items)

TypeInv == TypeOK /\ StoredItemsOK

LEMMA TypedStore == ASSUME TypeInv PROVE StoreOK(store)
BY DEF TypeInv, TypeOK, StoredItemsOK, StoreOK, store

(* Only Apply changes the three tables.                                    *)
LEMMA NextCases ==
    ASSUME [Next]_vars
    PROVE  \/ UNCHANGED <<inventory, totals, orders>>
           \/ \E e \in Events : Apply(e)
BY DEF Next, Apply, Ignore, Reject, vars

(* What the initial state and every step establish about the types.        *)
LEMMA TypeInit == Init => TypeInv
<1> SUFFICES ASSUME Init PROVE TypeInv
    OBVIOUS
<1>1. EmptyRow \in Rows /\ EmptyTotal \in TotalRows
    BY DEF EmptyRow, EmptyTotal, Rows, TotalRows
<1>2. inventory \in [Keys -> Rows] /\ totals \in [Products -> TotalRows]
    BY <1>1 DEF Init, EmptyStore
<1>3. \A o \in OrderIds : orders[o] = NoOrder
    BY DEF Init, EmptyStore
<1>4. orders \in [OrderIds -> OrderRows \cup {NoOrder}]
    BY DEF Init, EmptyStore
<1>5. processed \subseteq EventIds /\ history \subseteq [event : Events, outcome : Outcomes]
    BY DEF Init
<1> QED BY <1>2, <1>3, <1>4, <1>5 DEF TypeInv, TypeOK, StoredItemsOK

LEMMA RecordTyped ==
    ASSUME TypeOK, NEW e \in Events, NEW outcome \in Outcomes, Record(e, outcome)
    PROVE  /\ processed' \subseteq EventIds
           /\ history' \subseteq [event : Events, outcome : Outcomes]
<1>1. e.event_id \in EventIds
    BY EventsAreRecords DEF EventRecords
<1>2. [event |-> e, outcome |-> outcome] \in [event : Events, outcome : Outcomes]
    OBVIOUS
<1> QED BY <1>1, <1>2 DEF TypeOK, Record

LEMMA TypeNext == TypeInv /\ [Next]_vars => TypeInv'
<1> SUFFICES ASSUME TypeInv, [Next]_vars PROVE TypeInv'
    OBVIOUS
<1> USE DEF TypeInv
<1>1. ASSUME NEW e \in Events, Apply(e) PROVE TypeInv'
    <2>1. StoreOK(store) /\ Accepted(store, e)
        BY <1>1, TypedStore, AppliedIsAccepted DEF Apply
    <2>2. inventory' \in [Keys -> Rows]
        BY <1>1, <2>1, UpdatedInventoryOK, EventsAreRecords DEF Apply
    <2>3. totals' \in [Products -> TotalRows]
        BY <1>1, <2>1, UpdatedTotalsOK, EventsAreRecords DEF Apply
    <2>4. orders' = UpdatedOrders(store, e)
        BY <1>1 DEF Apply
    <2>5. orders' \in [OrderIds -> OrderRows \cup {NoOrder}] /\ StoredItemsOK'
        BY <2>1, <2>4, UpdatedOrdersOK, EventsAreRecords DEF StoredItemsOK
    <2>6. /\ processed' \subseteq EventIds
          /\ history' \subseteq [event : Events, outcome : Outcomes]
        BY <1>1, RecordTyped DEF Apply, Outcomes
    <2> QED BY <2>2, <2>3, <2>5, <2>6 DEF TypeOK
<1>2. ASSUME NEW e \in Events, Ignore(e) \/ Reject(e) PROVE TypeInv'
    <2>1. /\ processed' \subseteq EventIds
          /\ history' \subseteq [event : Events, outcome : Outcomes]
        BY <1>2, RecordTyped DEF Ignore, Reject, Outcomes
    <2>2. UNCHANGED <<inventory, totals, orders>>
        BY <1>2 DEF Ignore, Reject
    <2> QED BY <2>1, <2>2 DEF TypeOK, StoredItemsOK
<1>3. CASE UNCHANGED vars
    BY <1>3 DEF vars, TypeOK, StoredItemsOK
<1> QED BY <1>1, <1>2, <1>3 DEF Next

(* No row and no total ever becomes negative, and every table holds what   *)
(* its columns may hold.                                                   *)
THEOREM TypeCorrect == Spec => []TypeOK
<1>1. TypeInv => TypeOK
    BY DEF TypeInv
<1> QED BY <1>1, TypeInit, TypeNext, PTL DEF Spec

THEOREM TypeInvariant == Spec => []TypeInv
BY TypeInit, TypeNext, PTL DEF Spec

-----------------------------------------------------------------------------
(* The totals *)

LEMMA TotalsInit == Init => TotalsMatchInventory
<1> SUFFICES ASSUME Init, NEW p \in Products
             PROVE  totals[p].available = SumAvailable(p) /\ totals[p].reserved = SumReserved(p)
    BY DEF TotalsMatchInventory
<1> DEFINE S == {k \in Keys : k[1] = p}
           fa == [k \in Keys |-> inventory[k].available]
           fr == [k \in Keys |-> inventory[k].reserved]
<1>1. IsFiniteSet(S) /\ {} \in SUBSET S
    BY KeysFinite, FS_Subset
<1>2. \A k \in S : fa[k] = 0 /\ fr[k] = 0
    BY DEF Init, EmptyStore, EmptyRow
<1>3. totals[p].available = 0 /\ totals[p].reserved = 0
    BY DEF Init, EmptyStore, EmptyTotal
<1>4. SumAvailable(p) = SumFunctionOnSet(fa, S) /\ SumReserved(p) = SumFunctionOnSet(fr, S)
    BY DEF SumAvailable, SumReserved
<1> HIDE DEF S, fa, fr
<1>5. SumFunctionOnSet(fa, S) = 0 /\ SumFunctionOnSet(fr, S) = 0
    <2>1. /\ SumFunctionOnSet(fa, S) = SumFunctionOnSet(fa, {})
          /\ SumFunctionOnSet(fr, S) = SumFunctionOnSet(fr, {})
        BY <1>1, <1>2, SumSupport
    <2> QED BY <2>1, SumEmpty
<1> QED BY <1>3, <1>4, <1>5

LEMMA TotalsNext ==
    TypeInv /\ TotalsMatchInventory /\ [Next]_vars => TotalsMatchInventory'
<1> SUFFICES ASSUME TypeInv, TotalsMatchInventory, [Next]_vars PROVE TotalsMatchInventory'
    OBVIOUS
<1>1. ASSUME NEW e \in Events, Apply(e) PROVE TotalsMatchInventory'
    <2>1. StoreOK(store) /\ Accepted(store, e)
        BY <1>1, TypedStore, AppliedIsAccepted DEF Apply
    <2>2. /\ inventory' = UpdatedInventory(store, e)
          /\ totals' = UpdatedTotals(store, e)
          /\ store.inventory = inventory /\ store.totals = totals
        BY <1>1 DEF Apply, store
    <2>3. ASSUME NEW p \in Products
          PROVE  totals'[p].available = SumAvailable(p)' /\ totals'[p].reserved = SumReserved(p)'
        <3> DEFINE S == {k \in Keys : k[1] = p}
                   new == UpdatedInventory(store, e)
        <3>1. /\ store.totals[p].available = SumFunctionOnSet([k \in Keys |-> store.inventory[k].available], S)
              /\ store.totals[p].reserved = SumFunctionOnSet([k \in Keys |-> store.inventory[k].reserved], S)
            BY <2>2 DEF TotalsMatchInventory, SumAvailable, SumReserved
        <3>2. /\ UpdatedTotals(store, e)[p].available = SumFunctionOnSet([k \in Keys |-> new[k].available], S)
              /\ UpdatedTotals(store, e)[p].reserved = SumFunctionOnSet([k \in Keys |-> new[k].reserved], S)
            BY ZenonT(30), <2>1, <3>1, TotalsUpdated, EventsAreRecords DEF Accepted, Checked
        <3>3. /\ SumAvailable(p)' = SumFunctionOnSet([k \in Keys |-> inventory'[k].available], S)
              /\ SumReserved(p)' = SumFunctionOnSet([k \in Keys |-> inventory'[k].reserved], S)
            BY DEF SumAvailable, SumReserved
        <3>4. inventory' = new
            BY <2>2
        <3> HIDE DEF new
        <3> QED BY <2>2, <3>2, <3>3, <3>4
    <2> QED BY <2>3 DEF TotalsMatchInventory
<1>2. CASE UNCHANGED <<inventory, totals, orders>>
    BY <1>2 DEF TotalsMatchInventory, SumAvailable, SumReserved
<1> QED BY <1>1, <1>2, NextCases

(* For any number of products, zones and events: the totals, maintained by *)
(* differences, equal the sums of the inventory rows.                      *)
THEOREM TotalsCorrect == Spec => []TotalsMatchInventory
<1>1. Init => TypeInv /\ TotalsMatchInventory
    BY TypeInit, TotalsInit
<1>2. TypeInv /\ TotalsMatchInventory /\ [Next]_vars => (TypeInv /\ TotalsMatchInventory)'
    BY TypeNext, TotalsNext
<1> QED BY <1>1, <1>2, PTL DEF Spec

-----------------------------------------------------------------------------
(* The zones *)

LEMMA CapacityInit == Init => ZoneCapacityRespected
<1> SUFFICES ASSUME Init, NEW z \in ZoneIds
             PROVE  ZoneTotal(inventory, z) <= IF z \in Zones THEN Capacity[z] ELSE 0
    BY DEF ZoneCapacityRespected
<1>1. ZoneTotal(inventory, z) = 0
    BY EmptyZone DEF Init
<1>2. z \in Zones => Capacity[z] \in Nat
    BY ZonesAreKnown
<1> QED BY <1>1, <1>2

LEMMA CapacityNext ==
    TypeInv /\ ZoneCapacityRespected /\ [Next]_vars => ZoneCapacityRespected'
<1> SUFFICES ASSUME TypeInv, ZoneCapacityRespected, [Next]_vars PROVE ZoneCapacityRespected'
    OBVIOUS
<1>1. ASSUME NEW e \in Events, Apply(e), NEW z \in ZoneIds
      PROVE  ZoneTotal(inventory', z) <= IF z \in Zones THEN Capacity[z] ELSE 0
    <2>1. StoreOK(store) /\ Accepted(store, e)
        BY <1>1, TypedStore, AppliedIsAccepted DEF Apply
    <2>2. /\ inventory' = UpdatedInventory(store, e)
          /\ store.inventory = inventory /\ store.by_zone = store.inventory
        BY <1>1 DEF Apply, store
    <2>3. ZoneTotal(store.inventory, z) <= IF z \in Zones THEN Capacity[z] ELSE 0
        BY <2>2 DEF ZoneCapacityRespected
    <2> QED BY <2>1, <2>2, <2>3, AcceptedFits, EventsAreRecords
<1>2. CASE UNCHANGED <<inventory, totals, orders>>
    BY <1>2 DEF ZoneCapacityRespected
<1> QED BY <1>1, <1>2, NextCases DEF ZoneCapacityRespected

(* No sequence of events, in whatever order they arrive, overfills a zone  *)
(* or stores anything in a zone missing from zones_by_id.                  *)
THEOREM CapacityCorrect == Spec => []ZoneCapacityRespected
<1>1. Init => TypeInv /\ ZoneCapacityRespected
    BY TypeInit, CapacityInit
<1>2. TypeInv /\ ZoneCapacityRespected /\ [Next]_vars => (TypeInv /\ ZoneCapacityRespected)'
    BY TypeNext, CapacityNext
<1> QED BY <1>1, <1>2, PTL DEF Spec

-----------------------------------------------------------------------------
(* The timestamps *)

LEMMA TimesInit == Init => TotalsCoverRows
BY DEF Init, EmptyStore, EmptyRow, EmptyTotal, TotalsCoverRows, Keys

LEMMA TimesNext == TypeInv /\ TotalsCoverRows /\ [Next]_vars => TotalsCoverRows'
<1> SUFFICES ASSUME TypeInv, TotalsCoverRows, [Next]_vars PROVE TotalsCoverRows'
    OBVIOUS
<1>1. ASSUME NEW e \in Events, Apply(e), NEW k \in Keys
      PROVE  totals'[k[1]].last_event_ts >= inventory'[k].last_event_ts
    <2>1. k[1] \in Products /\ e.occurred_at \in Int
        BY EventsAreRecords DEF Keys, EventRecords
    <2>2. /\ totals[k[1]].last_event_ts \in Int
          /\ inventory[k].last_event_ts \in Int
          /\ totals[k[1]].last_event_ts >= inventory[k].last_event_ts
        BY <2>1 DEF TypeInv, TypeOK, TotalRows, Rows, TotalsCoverRows
    <2>3. /\ inventory' = UpdatedInventory(store, e)
          /\ totals' = UpdatedTotals(store, e)
          /\ store.inventory = inventory /\ store.totals = totals
        BY <1>1 DEF Apply, store
    <2>4. UpdatedTotal(store, e, k[1]).last_event_ts
              = Later(totals[k[1]].last_event_ts, e.occurred_at)
        BY <2>3 DEF UpdatedTotal
    <2>5. CASE k \in TouchedKeys(store, e)
        <3>1. totals'[k[1]] = UpdatedTotal(store, e, k[1])
            BY <2>1, <2>3, <2>5 DEF UpdatedTotals, KeysOf
        <3>2. inventory'[k].last_event_ts = e.occurred_at
            BY <2>3, <2>5 DEF UpdatedInventory, UpdatedRow
        <3> QED BY <2>1, <2>2, <2>4, <3>1, <3>2 DEF Later
    <2>6. CASE k \notin TouchedKeys(store, e)
        <3>1. inventory'[k] = inventory[k]
            BY <2>3, <2>6 DEF UpdatedInventory
        <3>2. totals'[k[1]] \in {UpdatedTotal(store, e, k[1]), totals[k[1]]}
            BY <2>1, <2>3 DEF UpdatedTotals
        <3> QED BY <2>1, <2>2, <2>4, <3>1, <3>2 DEF Later
    <2> QED BY <2>5, <2>6
<1>2. CASE UNCHANGED <<inventory, totals, orders>>
    BY <1>2 DEF TotalsCoverRows
<1> QED BY <1>1, <1>2, NextCases DEF TotalsCoverRows

(* The timestamp of the totals of a product is never behind any of its     *)
(* rows, although an order event may set a row's own timestamp back.       *)
THEOREM TimesCorrect == Spec => []TotalsCoverRows
<1>1. Init => TypeInv /\ TotalsCoverRows
    BY TypeInit, TimesInit
<1>2. TypeInv /\ TotalsCoverRows /\ [Next]_vars => (TypeInv /\ TotalsCoverRows)'
    BY TypeNext, TimesNext
<1> QED BY <1>1, <1>2, PTL DEF Spec

(* Whatever is in the history was marked as processed: the record of an    *)
(* event that is accepted now is a new one.                                *)
HistoryIsProcessed == \A h \in history : h.event.event_id \in processed

LEMMA HistoryInit == Init => HistoryIsProcessed
BY DEF Init, HistoryIsProcessed

LEMMA HistoryNext == HistoryIsProcessed /\ [Next]_vars => HistoryIsProcessed'
<1> SUFFICES ASSUME HistoryIsProcessed, [Next]_vars PROVE HistoryIsProcessed'
    OBVIOUS
<1>1. ASSUME NEW e \in Events, NEW outcome \in Outcomes, Record(e, outcome)
      PROVE  HistoryIsProcessed'
    BY <1>1 DEF Record, HistoryIsProcessed
<1>2. CASE UNCHANGED vars
    BY <1>2 DEF vars, HistoryIsProcessed
<1> QED BY <1>1, <1>2 DEF Next, Apply, Ignore, Reject, Outcomes

(* The step of an accepted event adds it to the history.                   *)
LEMMA ApplyHandles ==
    ASSUME HistoryIsProcessed, NEW e \in Events, Apply(e)
    PROVE  Handles(e.event_type)
<1> DEFINE h == [event |-> e, outcome |-> "APPLIED"]
<1>1. e.event_id \notin processed /\ history' = history \cup {h}
    BY AppliedIsAccepted DEF Apply, Record
<1>2. h \notin history
    BY <1>1 DEF HistoryIsProcessed
<1>3. h \in history' \ history /\ h.outcome = "APPLIED" /\ h.event.event_type = e.event_type
    BY <1>1, <1>2
<1> QED BY <1>3 DEF Handles

(* A product event or a move is accepted only if it is not older than any  *)
(* row it writes, so only order events set a row's timestamp back.         *)
THEOREM RewindCorrect == Spec => OnlyOrdersRewindRows
<1> DEFINE Step == \A k \in Keys :
                      /\ inventory[k].last_event_ts # 0
                      /\ inventory'[k].last_event_ts < inventory[k].last_event_ts
                      => \E type \in OrderEventTypes : Handles(type)
<1>1. Init => TypeInv /\ HistoryIsProcessed
    BY TypeInit, HistoryInit
<1>2. TypeInv /\ HistoryIsProcessed /\ [Next]_vars => (TypeInv /\ HistoryIsProcessed)'
    BY TypeNext, HistoryNext
<1>3. TypeInv /\ HistoryIsProcessed /\ [Next]_vars => [Step]_vars
    <2> SUFFICES ASSUME TypeInv, HistoryIsProcessed, [Next]_vars, NEW k \in Keys,
                        inventory[k].last_event_ts # 0,
                        inventory'[k].last_event_ts < inventory[k].last_event_ts
                 PROVE  \E type \in OrderEventTypes : Handles(type)
        OBVIOUS
    <2>1. inventory[k].last_event_ts \in Int
        BY DEF TypeInv, TypeOK, Rows
    <2>2. inventory'[k].last_event_ts # inventory[k].last_event_ts
        BY <2>1
    <2>3. PICK e \in Events : Apply(e)
        BY <2>2, NextCases
    <2>4. /\ inventory' = UpdatedInventory(store, e)
          /\ store.inventory = inventory
        BY <2>3 DEF Apply, store
    <2>5. k \in TouchedKeys(store, e)
        BY <2>2, <2>4 DEF UpdatedInventory
    <2>6. inventory'[k].last_event_ts = e.occurred_at
        BY <2>4, <2>5 DEF UpdatedInventory, UpdatedRow
    <2>7. ~Stale(store, e)
        BY <2>3, AppliedIsAccepted DEF Apply
    <2>8. e.event_type \in OrderEventTypes
        BY <2>4, <2>5, <2>6, <2>7 DEF Stale, OlderThan
    <2> QED BY <2>3, <2>8, ApplyHandles
<1> HIDE DEF Step
<1>4. TypeInv /\ HistoryIsProcessed /\ [Next]_vars => [Step]_vars
    BY <1>3
<1>5. Spec => [][Step]_vars
    BY <1>1, <1>2, <1>4, PTL DEF Spec
<1> QED BY <1>5 DEF Step, OnlyOrdersRewindRows

-----------------------------------------------------------------------------
(* The orders *)

LEMMA ApplyOrderStep ==
    ASSUME TypeInv, NEW e \in Events, Apply(e), NEW o \in OrderIds, orders'[o] # orders[o]
    PROVE  OrderStep(o)
<1>1. /\ orders' = UpdatedOrders(store, e)
      /\ store.orders = orders
      /\ Accepted(store, e) /\ ~Stale(store, e)
    BY AppliedIsAccepted DEF Apply, store
<1>2. orders \in [OrderIds -> OrderRows \cup {NoOrder}]
    BY DEF TypeInv, TypeOK
<1>3. OrderAllows(store, e)
    BY <1>1 DEF Accepted
<1>4. CASE e.event_type = "ORDER_CREATED"
    <2> DEFINE row == [status |-> "CREATED", items |-> e.items, last_event_ts |-> e.occurred_at]
    <2>1. orders' = [orders EXCEPT ![e.order_id] = row]
        BY <1>1, <1>4 DEF UpdatedOrders
    <2>2. o = e.order_id /\ orders'[o] = row
        BY <1>2, <2>1
    <2>3. orders[o] = NoOrder
        BY <1>1, <1>3, <1>4, <2>2 DEF OrderAllows
    <2>4. row # NoOrder
        BY <2>2, <2>3
    <2> QED BY <2>2, <2>3, <2>4 DEF OrderStep
<1>5. CASE e.event_type = "ORDER_COMPLETED"
    <2> DEFINE row == [status |-> "COMPLETED", items |-> orders[e.order_id].items,
                       last_event_ts |-> e.occurred_at]
    <2>1. orders' = [orders EXCEPT ![e.order_id] = row]
        BY <1>1, <1>5, Zenon DEF UpdatedOrders
    <2>2. o = e.order_id /\ orders'[o] = row
        BY <1>2, <2>1
    <2>3. orders[o] # NoOrder /\ orders[o].status = "CREATED"
        BY <1>1, <1>3, <1>5, <2>2 DEF OrderAllows
    <2>4. row \in OrderRows
        <3>1. orders[o].items \in Seq(Items) /\ e.occurred_at \in Int
            BY <1>2, <2>3, EventsAreRecords DEF OrderRows, EventRecords
        <3> QED BY <2>2, <3>1 DEF OrderRows
    <2>5. row # NoOrder
        BY <2>4, NoOrderIsNoRow
    <2>6. e.occurred_at >= orders[o].last_event_ts
        <3>1. orders[o].last_event_ts \in Int /\ e.occurred_at \in Int
            BY <1>2, <2>3, EventsAreRecords DEF OrderRows, EventRecords
        <3> QED BY <1>1, <1>5, <2>2, <2>3, <3>1 DEF Stale, OrderEventTypes
    <2> QED BY <2>2, <2>3, <2>5, <2>6 DEF OrderStep
<1>6. CASE e.event_type \notin OrderEventTypes
    <2>1. orders' = orders
        BY <1>1, <1>6, Zenon DEF UpdatedOrders, OrderEventTypes
    <2> QED BY <2>1
<1> QED BY <1>4, <1>5, <1>6 DEF OrderEventTypes

(* For any number of orders: no order is removed, reopened, given other    *)
(* items or completed before it was created.                               *)
THEOREM OrdersCorrect == Spec => OrderLifecycle
<1> DEFINE Step == \A o \in OrderIds : orders'[o] # orders[o] => OrderStep(o)
<1>1. TypeInv /\ [Next]_vars => [Step]_vars
    <2> SUFFICES ASSUME TypeInv, [Next]_vars, NEW o \in OrderIds, orders'[o] # orders[o]
                 PROVE  OrderStep(o)
        OBVIOUS
    <2>1. PICK e \in Events : Apply(e)
        BY NextCases
    <2> QED BY <2>1, ApplyOrderStep
<1> HIDE DEF Step
<1>2. TypeInv /\ [Next]_vars => [Step]_vars
    BY <1>1
<1>3. Spec => [][Step]_vars
    BY <1>2, TypeInit, TypeNext, PTL DEF Spec
<1> QED BY <1>3 DEF Step, OrderLifecycle

-----------------------------------------------------------------------------
(* The accounts: what is reserved, and what is in stock, can be recomputed *)
(* from the history and the orders, for any sequence of events.            *)


(* Only finitely many events and orders have been seen.                    *)
Finite == IsFiniteSet(history) /\ IsFiniteSet({o \in OrderIds : orders[o] # NoOrder})

BooksInv == TypeInv /\ HistoryIsProcessed /\ Finite

(* An order event changes its own order and no other.                      *)
LEMMA OneOrderChanges ==
    ASSUME TypeInv, NEW e \in Events, Apply(e)
    PROVE  /\ orders' \in [OrderIds -> OrderRows \cup {NoOrder}]
           /\ \A o \in OrderIds \ {e.order_id} : orders'[o] = orders[o]
           /\ e.event_type \notin OrderEventTypes => orders' = orders
<1>1. orders' = UpdatedOrders(store, e) /\ store.orders = orders
    BY DEF Apply, store
<1>2. StoreOK(store) /\ Accepted(store, e)
    BY TypedStore, AppliedIsAccepted DEF Apply
<1>3. orders' \in [OrderIds -> OrderRows \cup {NoOrder}]
    BY <1>1, <1>2, UpdatedOrdersOK, EventsAreRecords
<1>4. orders \in [OrderIds -> OrderRows \cup {NoOrder}]
    BY DEF TypeInv, TypeOK
<1>5. \A o \in OrderIds \ {e.order_id} : orders'[o] = orders[o]
    BY <1>1, <1>4 DEF UpdatedOrders
<1>6. e.event_type \notin OrderEventTypes => orders' = orders
    BY <1>1 DEF UpdatedOrders, OrderEventTypes
<1> QED BY <1>3, <1>5, <1>6

LEMMA FiniteNext == TypeInv /\ Finite /\ [Next]_vars => Finite'
<1> SUFFICES ASSUME TypeInv, Finite, [Next]_vars PROVE Finite'
    OBVIOUS
<1> DEFINE seen == {o \in OrderIds : orders[o] # NoOrder}
<1>1. ASSUME NEW e \in Events, NEW outcome, Record(e, outcome) PROVE IsFiniteSet(history')
    BY <1>1, FS_AddElement DEF Record, Finite
<1>2. ASSUME NEW e \in Events, Apply(e)
      PROVE  IsFiniteSet({o \in OrderIds : orders'[o] # NoOrder})
    <2>1. {o \in OrderIds : orders'[o] # NoOrder} \subseteq seen \cup {e.order_id}
        BY <1>2, OneOrderChanges
    <2>2. IsFiniteSet(seen \cup {e.order_id})
        BY FS_AddElement DEF Finite
    <2> QED BY <2>1, <2>2, FS_Subset
<1>3. CASE UNCHANGED vars
    BY <1>3 DEF vars, Finite
<1>4. CASE \E e \in Events : Apply(e)
    BY <1>1, <1>2, <1>4 DEF Apply, Finite
<1>5. CASE \E e \in Events : Ignore(e) \/ Reject(e)
    BY <1>1, <1>5 DEF Ignore, Reject, Finite
<1> QED BY <1>3, <1>4, <1>5 DEF Next

LEMMA BooksInit == Init => BooksInv
<1> SUFFICES ASSUME Init PROVE Finite
    BY TypeInit, HistoryInit DEF BooksInv
<1>1. {o \in OrderIds : orders[o] # NoOrder} = {} /\ history = {}
    BY DEF Init, EmptyStore
<1> QED BY <1>1, FS_EmptySet DEF Finite

LEMMA BooksNext == BooksInv /\ [Next]_vars => BooksInv'
BY TypeNext, HistoryNext, FiniteNext DEF BooksInv

LEMMA AppliedFinite ==
    ASSUME BooksInv, NEW type, NEW k
    PROVE  /\ IsFiniteSet(AppliedAt(type, k))
           /\ \A e \in AppliedAt(type, k) : e.quantity \in Int
           /\ QuantityOf(AppliedAt(type, k)) \in Int
<1> DEFINE entries == {g \in history : g.outcome = "APPLIED"}
<1>1. IsFiniteSet(entries)
    BY FS_Subset DEF BooksInv, Finite
<1>2. IsFiniteSet(Applied)
    <2> DEFINE event == [h \in entries |-> h.event]
    <2>1. event \in Surjection(entries, Applied)
        BY DEF Surjection, Applied
    <2> QED BY <1>1, <2>1, FS_Surjection
<1>3. IsFiniteSet(AppliedAt(type, k))
    BY <1>2, FS_Subset DEF AppliedAt
<1>4. \A e \in AppliedAt(type, k) : e.quantity \in Int
    BY EventsAreRecords DEF AppliedAt, Applied, BooksInv, TypeInv, TypeOK, EventRecords
<1> DEFINE f == [e \in AppliedAt(type, k) |-> e.quantity]
<1>5. \A e \in AppliedAt(type, k) : f[e] \in Int
    BY <1>4
<1>6. SumFunctionOnSet(f, AppliedAt(type, k)) \in Int
    BY <1>3, <1>5, SumInt
<1> QED BY <1>3, <1>4, <1>6 DEF QuantityOf

LEMMA AppliedSet ==
    ASSUME BooksInv, NEW e \in Events, Apply(e)
    PROVE  Applied' = Applied \cup {e}
<1> DEFINE new == [event |-> e, outcome |-> "APPLIED"]
<1>1. {g \in history' : g.outcome = "APPLIED"} = {g \in history : g.outcome = "APPLIED"} \cup {new}
    BY DEF Apply, Record
<1>2. new.event = e
    OBVIOUS
<1> QED BY <1>1, <1>2 DEF Applied

(* A stale or refused event leaves the accepted events as they are.        *)
LEMMA AppliedKept ==
    ASSUME NEW e \in Events, Ignore(e) \/ Reject(e)
    PROVE  Applied' = Applied
<1>1. PICK outcome \in {"STALE", "DLQ"} :
          history' = history \cup {[event |-> e, outcome |-> outcome]}
    BY DEF Ignore, Reject, Record
<1>2. {g \in history' : g.outcome = "APPLIED"} = {g \in history : g.outcome = "APPLIED"}
    BY <1>1
<1> QED BY <1>2 DEF Applied

(* An accepted event is new: it adds its quantity to the events of its     *)
(* type at its key.                                                        *)
LEMMA AppliedGrows ==
    ASSUME BooksInv, NEW e \in Events, Apply(e), NEW type, NEW k
    PROVE  QuantityOf(AppliedAt(type, k))' =
               QuantityOf(AppliedAt(type, k))
               + IF e.event_type = type /\ <<e.product_id, e.zone_id>> = k THEN e.quantity ELSE 0
<1> DEFINE A == AppliedAt(type, k)
           here == e.event_type = type /\ <<e.product_id, e.zone_id>> = k
<1>1. e.event_id \notin processed /\ history' = history \cup {[event |-> e, outcome |-> "APPLIED"]}
    BY AppliedIsAccepted DEF Apply, Record
<1>2. e \notin Applied
    BY <1>1 DEF Applied, BooksInv, HistoryIsProcessed
<1>3. Applied' = Applied \cup {e}
    BY AppliedSet
<1>4. A' = IF here THEN A \cup {e} ELSE A
    BY <1>3 DEF AppliedAt
<1>5. e \notin A
    BY <1>2 DEF AppliedAt
<1>6. IsFiniteSet(A) /\ (\A d \in A : d.quantity \in Int) /\ QuantityOf(A) \in Int
    BY AppliedFinite
<1>7. e.quantity \in Int
    BY EventsAreRecords DEF EventRecords
<1>8. QuantityOf(AppliedAt(type, k))' = QuantityOf(A')
    BY DEF QuantityOf
<1> HIDE DEF A
<1>9. CASE here
    <2> DEFINE B == A \cup {e}
               f == [d \in B |-> d.quantity]
               g == [d \in A |-> d.quantity]
    <2>1. IsFiniteSet(B) /\ B \ {e} = A /\ e \in B
        BY <1>5, <1>6, FS_AddElement
    <2>2. \A d \in B : f[d] \in Int
        BY <1>6, <1>7
    <2>3. f[e] = e.quantity /\ \A d \in A : f[d] = g[d]
        OBVIOUS
    <2>4. QuantityOf(B) = SumFunctionOnSet(f, B) /\ QuantityOf(A) = SumFunctionOnSet(g, A)
        BY DEF QuantityOf
    <2> HIDE DEF f, g, B
    <2>5. SumFunctionOnSet(f, B) = f[e] + SumFunctionOnSet(f, B \ {e})
        BY <2>1, <2>2, SumRemove
    <2>6. SumFunctionOnSet(f, A) = SumFunctionOnSet(g, A)
        BY <1>6, <2>3, SumEqual
    <2>7. SumFunctionOnSet(f, B \ {e}) = QuantityOf(A)
        BY <2>1, <2>4, <2>6
    <2>8. QuantityOf(B) = QuantityOf(A) + e.quantity
        BY <1>6, <1>7, <2>3, <2>4, <2>5, <2>7
    <2> QED BY <1>4, <1>8, <1>9, <2>8 DEF A, B
<1>10. CASE ~here
    BY <1>4, <1>6, <1>8, <1>10 DEF A
<1> QED BY <1>9, <1>10

-----------------------------------------------------------------------------
(* The demand of the orders of a table t *)

LinesAt(items, k) == {i \in DOMAIN items : <<items[i].product_id, items[i].zone_id>> = k}

In(t, status) == {o \in OrderIds : t[o] # NoOrder /\ t[o].status = status}

Lines(t, status, k) ==
    UNION {{<<o, i>> : i \in LinesAt(t[o].items, k)} : o \in In(t, status)}

Demand(t, status, k) ==
    SumFunctionOnSet([line \in Lines(t, status, k) |-> t[line[1]].items[line[2]].quantity],
                     Lines(t, status, k))

(* A table of orders of which only finitely many exist.                    *)
Orderly(t) ==
    /\ t \in [OrderIds -> OrderRows \cup {NoOrder}]
    /\ IsFiniteSet({o \in OrderIds : t[o] # NoOrder})

LEMMA DemandIsDemand ==
    ASSUME NEW status, NEW k
    PROVE  /\ OrderDemand(status, k) = Demand(orders, status, k)
           /\ OrderDemand(status, k)' = Demand(orders', status, k)
BY DEF OrderDemand, Demand, OrderLines, Lines, OrdersIn, In, LinesAt

LEMMA LineMember ==
    ASSUME NEW t, NEW status, NEW k, NEW line
    PROVE  line \in Lines(t, status, k) <=>
               \E o \in In(t, status) : \E i \in LinesAt(t[o].items, k) : line = <<o, i>>
BY DEF Lines

(* The lines of one order are finitely many, each with a quantity.         *)
LEMMA LinesOfOrder ==
    ASSUME NEW items \in Seq(Items), NEW k
    PROVE  /\ IsFiniteSet(LinesAt(items, k))
           /\ \A i \in LinesAt(items, k) : items[i].quantity \in Int
<1>1. DOMAIN items = 1 .. Len(items) /\ Len(items) \in Nat
    BY LenProperties
<1>2. IsFiniteSet(LinesAt(items, k))
    <2>1. IsFiniteSet(1 .. Len(items))
        BY <1>1, FS_Interval
    <2> QED BY <1>1, <2>1, FS_Subset DEF LinesAt
<1>3. \A i \in DOMAIN items : items[i] \in Items
    BY <1>1, ElementOfSeq
<1> QED BY <1>2, <1>3 DEF LinesAt, Items

LEMMA RowHasItems ==
    ASSUME NEW t, Orderly(t), NEW status, NEW o \in In(t, status)
    PROVE  o \in OrderIds /\ t[o] # NoOrder /\ t[o].status = status /\ t[o].items \in Seq(Items)
BY DEF Orderly, In, OrderRows

LEMMA LinesTyped ==
    ASSUME NEW t, Orderly(t), NEW status, NEW k
    PROVE  /\ IsFiniteSet(Lines(t, status, k))
           /\ \A line \in Lines(t, status, k) : t[line[1]].items[line[2]].quantity \in Int
           /\ Demand(t, status, k) \in Int
<1> DEFINE L == Lines(t, status, k)
           O == In(t, status)
           Of(o) == {<<o, i>> : i \in LinesAt(t[o].items, k)}
           sets == {Of(o) : o \in O}
           f == [line \in L |-> t[line[1]].items[line[2]].quantity]
<1>1. IsFiniteSet(O)
    BY FS_Subset DEF Orderly, In
<1>2. IsFiniteSet(sets)
    <2> DEFINE of == [o \in O |-> Of(o)]
    <2>1. of \in Surjection(O, sets)
        BY DEF Surjection
    <2> QED BY <1>1, <2>1, FS_Surjection
<1>3. ASSUME NEW o \in O PROVE IsFiniteSet(Of(o))
    <2> DEFINE I == LinesAt(t[o].items, k)
               zero == [i \in I |-> 0]
               zeros == [line \in Of(o) |-> 0]
    <2>1. IsFiniteSet(I)
        BY RowHasItems, LinesOfOrder
    <2>2. \A i \in I : zero[i] \in Int /\ zeros[<<o, i>>] = zero[i]
        OBVIOUS
    <2> HIDE DEF I, zero, zeros
    <2>3. IsFiniteSet({<<o, i>> : i \in I})
        BY <2>1, <2>2, SumOfPairs
    <2> QED BY <2>3 DEF I
<1>4. IsFiniteSet(L)
    <2>1. \A T \in sets : IsFiniteSet(T)
        BY <1>3
    <2>2. IsFiniteSet(UNION sets)
        BY <1>2, <2>1, FS_UNION
    <2> QED BY <2>2 DEF Lines
<1>5. ASSUME NEW line \in L PROVE t[line[1]].items[line[2]].quantity \in Int
    <2>1. PICK o \in O : \E i \in LinesAt(t[o].items, k) : line = <<o, i>>
        BY LineMember
    <2>2. PICK i \in LinesAt(t[o].items, k) : line = <<o, i>>
        BY <2>1
    <2>3. t[o].items[i].quantity \in Int
        BY RowHasItems, LinesOfOrder
    <2> QED BY <2>2, <2>3
<1>6. SumFunctionOnSet(f, L) \in Int
    <2>1. \A line \in L : f[line] \in Int
        BY <1>5
    <2> QED BY <1>4, <2>1, SumInt
<1> QED BY <1>4, <1>5, <1>6 DEF Demand

(* An order that joins those of a status brings its items with it.         *)
LEMMA DemandWithOrder ==
    ASSUME NEW t, NEW u, Orderly(t), Orderly(u), NEW status, NEW k, NEW o \in OrderIds,
           \A p \in OrderIds \ {o} : u[p] = t[p], o \notin In(t, status), o \in In(u, status)
    PROVE  Demand(u, status, k) = Demand(t, status, k) + GroupedQuantity(u[o].items, k)
<1> DEFINE items == u[o].items
           I == LinesAt(items, k)
           P == {<<o, i>> : i \in I}
           Lt == Lines(t, status, k)
           Lu == Lines(u, status, k)
           ft == [line \in Lt |-> t[line[1]].items[line[2]].quantity]
           fu == [line \in Lu |-> u[line[1]].items[line[2]].quantity]
           g == [i \in DOMAIN items |-> items[i].quantity]
<1>1. In(u, status) = In(t, status) \cup {o}
    BY DEF In
<1>2. \A p \in In(t, status) : p # o /\ u[p] = t[p]
    BY DEF In
<1>3. \A line \in Lt : \E p \in In(t, status) : \E i \in LinesAt(t[p].items, k) : line = <<p, i>>
    BY LineMember
<1>4. Lu = Lt \cup P
    <2>1. \A line : line \in Lu <=> line \in Lt \/ line \in P
        <3> TAKE line
        <3>1. line \in Lu <=> \E p \in In(u, status) : \E i \in LinesAt(u[p].items, k) : line = <<p, i>>
            BY LineMember
        <3>2. line \in Lt <=> \E p \in In(t, status) : \E i \in LinesAt(t[p].items, k) : line = <<p, i>>
            BY LineMember
        <3> QED BY <1>1, <1>2, <3>1, <3>2
    <2> QED BY <2>1
<1>5. Lt \cap P = {}
    BY <1>2, <1>3
<1>6. items \in Seq(Items)
    BY RowHasItems
<1>7. IsFiniteSet(I) /\ \A i \in I : items[i].quantity \in Int
    BY <1>6, LinesOfOrder
<1>8. I \subseteq DOMAIN items
    BY DEF LinesAt
<1>9. \A i \in I : g[i] \in Int /\ fu[<<o, i>>] = g[i]
    <2> TAKE i \in I
    <2>1. <<o, i>> \in Lu
        BY <1>4
    <2>2. fu[<<o, i>>] = items[i].quantity
        BY <2>1
    <2> QED BY <1>7, <1>8, <2>2
<1>10. \A line \in Lt : fu[line] = ft[line] /\ fu[line] \in Int
    <2> TAKE line \in Lt
    <2>1. PICK p \in In(t, status) : \E i \in LinesAt(t[p].items, k) : line = <<p, i>>
        BY <1>3
    <2>2. PICK i \in LinesAt(t[p].items, k) : line = <<p, i>>
        BY <2>1
    <2>3. line \in Lu
        BY <1>4
    <2>4. fu[line] = u[p].items[i].quantity /\ ft[line] = t[p].items[i].quantity
        BY <2>2, <2>3
    <2>5. ft[line] \in Int
        BY LinesTyped
    <2> QED BY <1>2, <2>4, <2>5
<1>11. IsFiniteSet(Lt) /\ Demand(t, status, k) \in Int
    BY LinesTyped
<1>12. Demand(t, status, k) = SumFunctionOnSet(ft, Lt)
    BY DEF Demand
<1>13. Demand(u, status, k) = SumFunctionOnSet(fu, Lu)
    BY DEF Demand
<1>14. GroupedQuantity(items, k) = SumFunctionOnSet(g, I)
    BY DEF GroupedQuantity, LinesAt
<1> HIDE DEF I, P, Lt, Lu, ft, fu, g
<1>15. IsFiniteSet(P) /\ SumFunctionOnSet(fu, P) = SumFunctionOnSet(g, I)
    <2>1. /\ IsFiniteSet({<<o, i>> : i \in I})
          /\ SumFunctionOnSet(fu, {<<o, i>> : i \in I}) = SumFunctionOnSet(g, I)
        <3>1. IsFiniteSet(I) /\ \A i \in I : g[i] \in Int /\ fu[<<o, i>>] = g[i]
            BY <1>7, <1>9
        <3>2. IsFiniteSet({<<o, i>> : i \in I})
            BY ZenonT(30), <3>1, SumOfPairs
        <3>3. SumFunctionOnSet(fu, {<<o, i>> : i \in I}) = SumFunctionOnSet(g, I)
            BY <3>1, SumOfPairs
        <3> QED BY <3>2, <3>3
    <2> QED BY <2>1 DEF P
<1>16. \A x \in Lt \cup P : fu[x] \in Int
    BY <1>9, <1>10 DEF P
<1>17. SumFunctionOnSet(fu, Lt \cup P) = SumFunctionOnSet(fu, Lt) + SumFunctionOnSet(fu, P)
    BY <1>5, <1>11, <1>15, <1>16, SumUnion
<1>18. SumFunctionOnSet(fu, Lt) = SumFunctionOnSet(ft, Lt)
    BY <1>10, <1>11, SumEqual
<1> QED BY <1>4, <1>12, <1>13, <1>14, <1>15, <1>17, <1>18

(* An order that has another status does not count.                        *)
LEMMA DemandWithoutOrder ==
    ASSUME NEW t, NEW u, Orderly(t), Orderly(u), NEW status, NEW k, NEW o,
           \A p \in OrderIds \ {o} : u[p] = t[p], o \notin In(t, status), o \notin In(u, status)
    PROVE  Demand(u, status, k) = Demand(t, status, k)
<1> DEFINE Lt == Lines(t, status, k)
           Lu == Lines(u, status, k)
           ft == [line \in Lt |-> t[line[1]].items[line[2]].quantity]
           fu == [line \in Lu |-> u[line[1]].items[line[2]].quantity]
<1>1. In(u, status) = In(t, status) /\ \A p \in In(t, status) : u[p] = t[p]
    BY DEF In
<1>2. Lu = Lt
    BY <1>1 DEF Lines
<1>3. \A line \in Lt : fu[line] = ft[line]
    <2> TAKE line \in Lt
    <2>1. PICK p \in In(t, status) : \E i \in LinesAt(t[p].items, k) : line = <<p, i>>
        BY LineMember
    <2> QED BY <1>1, <1>2, <2>1
<1>4. IsFiniteSet(Lt)
    BY LinesTyped
<1>5. Demand(t, status, k) = SumFunctionOnSet(ft, Lt) /\ Demand(u, status, k) = SumFunctionOnSet(fu, Lu)
    BY DEF Demand
<1> HIDE DEF Lt, Lu, ft, fu
<1>6. SumFunctionOnSet(fu, Lt) = SumFunctionOnSet(ft, Lt)
    BY <1>3, <1>4, SumEqual
<1> QED BY <1>2, <1>5, <1>6

-----------------------------------------------------------------------------
(* What an accepted event does to both sides of the accounts *)

LEMMA UngroupedIsZero ==
    ASSUME NEW items, NEW k, k \notin ItemKeys(items)
    PROVE  GroupedQuantity(items, k) = 0
<1>1. {i \in DOMAIN items : <<items[i].product_id, items[i].zone_id>> = k} = {}
    BY DEF ItemKeys
<1> QED BY <1>1, SumEmpty DEF GroupedQuantity

LEMMA OrdersAreOrderly ==
    ASSUME BooksInv, NEW e \in Events, Apply(e)
    PROVE  Orderly(orders) /\ Orderly(orders')
<1>1. BooksInv'
    BY BooksNext DEF Next
<1> QED BY <1>1 DEF BooksInv, TypeInv, TypeOK, Finite, Orderly

(* What an order event adds to the open demand for row k.                  *)
OrderChange(e, k) ==
    CASE e.event_type = "ORDER_CREATED"   -> GroupedQuantity(e.items, k)
      [] e.event_type = "ORDER_COMPLETED" -> -GroupedQuantity(orders[e.order_id].items, k)
      [] OTHER -> 0

(* Creating an order adds what it asks for to the open demand, completing  *)
(* it takes the same away; nothing else changes it.                        *)
LEMMA OpenDemandChanges ==
    ASSUME BooksInv, NEW e \in Events, Apply(e), NEW k
    PROVE  /\ OrderChange(e, k) \in Int
           /\ OrderDemand("CREATED", k) \in Int
           /\ OrderDemand("CREATED", k)' = OrderDemand("CREATED", k) + OrderChange(e, k)
<1> DEFINE o == e.order_id
           Before == Demand(orders, "CREATED", k)
           After  == Demand(orders', "CREATED", k)
<1>1. OrderDemand("CREATED", k) = Before /\ OrderDemand("CREATED", k)' = After
    BY DemandIsDemand
<1>2. Orderly(orders) /\ Orderly(orders')
    BY OrdersAreOrderly
<1>3. /\ \A p \in OrderIds \ {o} : orders'[p] = orders[p]
      /\ e.event_type \notin OrderEventTypes => orders' = orders
    BY OneOrderChanges DEF BooksInv
<1>4. Before \in Int /\ After \in Int
    BY <1>2, LinesTyped
<1>5. Accepted(store, e) /\ store.orders = orders /\ orders' = UpdatedOrders(store, e)
    BY AppliedIsAccepted DEF Apply, store
<1>6. WellFormed(e) /\ OrderAllows(store, e) /\ e \in EventRecords
    BY <1>5, EventsAreRecords DEF Accepted
<1>7. \A p \in OrderIds : orders[p] # NoOrder => orders[p] \in OrderRows
    BY <1>2 DEF Orderly
<1>8. orders \in [OrderIds -> OrderRows \cup {NoOrder}]
    BY <1>2 DEF Orderly
<1>9. CASE e.event_type = "ORDER_CREATED"
    <2>1. o \in OrderIds /\ orders[o] = NoOrder
        BY <1>5, <1>6, <1>9 DEF WellFormed, OrderAllows, EventRecords, OrderEventTypes
    <2>2. orders'[o] = [status |-> "CREATED", items |-> e.items, last_event_ts |-> e.occurred_at]
        BY <1>5, <1>8, <1>9, <2>1 DEF UpdatedOrders
    <2>3. e.items \in Seq(Items) /\ e.occurred_at \in Int
        BY <1>6 DEF EventRecords
    <2>4. orders'[o] # NoOrder
        BY <2>2, <2>3, NoOrderIsNoRow DEF OrderRows
    <2>5. o \notin In(orders, "CREATED") /\ o \in In(orders', "CREATED") /\ orders'[o].items = e.items
        BY <2>1, <2>2, <2>4 DEF In
    <2>6. After = Before + GroupedQuantity(e.items, k)
        BY <1>2, <1>3, <2>1, <2>5, DemandWithOrder
    <2>7. GroupedQuantity(e.items, k) \in Int
        BY <1>6, <1>9, <2>3, GroupedItems DEF WellFormed
    <2> QED BY <1>1, <1>4, <1>9, <2>6, <2>7 DEF OrderChange
<1>10. CASE e.event_type = "ORDER_COMPLETED"
    <2>1. o \in OrderIds /\ orders[o] # NoOrder /\ orders[o].status = "CREATED"
        BY <1>5, <1>6, <1>10 DEF WellFormed, OrderAllows, EventRecords, OrderEventTypes
    <2>2. orders'[o].status = "COMPLETED"
        BY <1>5, <1>8, <1>10, <2>1 DEF UpdatedOrders
    <2>3. o \in In(orders, "CREATED") /\ o \notin In(orders', "CREATED")
        BY <2>1, <2>2 DEF In
    <2>4. \A p \in OrderIds \ {o} : orders[p] = orders'[p]
        BY <1>3
    <2>5. Before = After + GroupedQuantity(orders[o].items, k)
        BY <1>2, <2>1, <2>3, <2>4, DemandWithOrder
    <2>6. GroupedQuantity(orders[o].items, k) \in Int
        BY <2>1, GroupedItems, <1>7 DEF BooksInv, TypeInv, StoredItemsOK, OrderRows
    <2>7. After = Before + (-GroupedQuantity(orders[o].items, k))
        BY <1>4, <2>5, <2>6
    <2> QED BY <1>1, <1>4, <1>10, <2>6, <2>7 DEF OrderChange
<1>11. CASE e.event_type \notin OrderEventTypes
    <2>1. After = Before
        BY <1>3, <1>11
    <2> QED BY <1>1, <1>4, <1>11, <2>1 DEF OrderEventTypes, OrderChange
<1> QED BY <1>9, <1>10, <1>11 DEF OrderEventTypes

LEMMA ReservedChanges ==
    ASSUME BooksInv, NEW e \in Events, Apply(e), NEW k \in Keys
    PROVE  /\ inventory[k].reserved \in Int
           /\ inventory'[k].reserved =
                  inventory[k].reserved
                  + CASE e.event_type = "PRODUCT_RESERVED" /\ <<e.product_id, e.zone_id>> = k ->
                            e.quantity
                      [] e.event_type = "PRODUCT_RELEASED" /\ <<e.product_id, e.zone_id>> = k ->
                            -e.quantity
                      [] OTHER -> OrderChange(e, k)
<1> DEFINE touched == k \in TouchedKeys(store, e)
<1>1. inventory' = UpdatedInventory(store, e) /\ store.inventory = inventory /\ store.orders = orders
    BY DEF Apply, store
<1>2. inventory[k].reserved \in Int
    BY DEF BooksInv, TypeInv, TypeOK, Rows
<1>3. CASE touched
    <2>1. inventory'[k].reserved = inventory[k].reserved + DeltaReserved(store, e, k)
        BY <1>1, <1>3 DEF UpdatedInventory, UpdatedRow
    <2>2. e.event_type \in ProductEventTypes => <<e.product_id, e.zone_id>> = k
        <3>1. ASSUME e.event_type \in ProductEventTypes
              PROVE  TouchedKeys(store, e) = {<<e.product_id, e.zone_id>>}
            BY <3>1 DEF TouchedKeys, ProductEventTypes
        <3> QED BY <1>3, <3>1
    <2> QED BY <1>1, <1>2, <2>1, <2>2 DEF DeltaReserved, ProductEventTypes, OrderChange
<1>4. CASE ~touched
    <2>1. inventory'[k] = inventory[k]
        BY <1>1, <1>4 DEF UpdatedInventory
    <2>2. e.event_type \in ProductEventTypes => <<e.product_id, e.zone_id>> # k
        <3>1. ASSUME e.event_type \in ProductEventTypes
              PROVE  TouchedKeys(store, e) = {<<e.product_id, e.zone_id>>}
            BY <3>1 DEF TouchedKeys, ProductEventTypes
        <3> QED BY <1>4, <3>1
    <2>3. e.event_type = "ORDER_CREATED" => GroupedQuantity(e.items, k) = 0
        BY <1>4, UngroupedIsZero DEF TouchedKeys, ProductEventTypes
    <2>4. e.event_type = "ORDER_COMPLETED" => GroupedQuantity(orders[e.order_id].items, k) = 0
        BY <1>1, <1>4, UngroupedIsZero, AppliedIsAccepted
           DEF TouchedKeys, ProductEventTypes
    <2> QED BY <1>2, <2>1, <2>2, <2>3, <2>4 DEF ProductEventTypes, OrderChange
<1> QED BY <1>2, <1>3, <1>4

LEMMA ReservationsInit == Init => ReservationsAccounted
<1> SUFFICES ASSUME Init, NEW k \in Keys
             PROVE  inventory[k].reserved = QuantityOf(AppliedAt("PRODUCT_RESERVED", k))
                                            - QuantityOf(AppliedAt("PRODUCT_RELEASED", k))
                                            + OrderDemand("CREATED", k)
    BY DEF ReservationsAccounted
<1>1. inventory[k].reserved = 0
    BY DEF Init, EmptyStore, EmptyRow
<1>2. \A type : AppliedAt(type, k) = {}
    BY DEF Init, AppliedAt, Applied
<1>3. QuantityOf({}) = 0
    BY SumEmpty DEF QuantityOf
<1>4. OrderLines("CREATED", k) = {}
    BY DEF Init, EmptyStore, OrderLines, OrdersIn
<1>5. OrderDemand("CREATED", k) = 0
    BY <1>4, SumEmpty DEF OrderDemand
<1> QED BY <1>1, <1>2, <1>3, <1>5

LEMMA ReservationsNext ==
    BooksInv /\ ReservationsAccounted /\ [Next]_vars => ReservationsAccounted'
<1> SUFFICES ASSUME BooksInv, ReservationsAccounted, [Next]_vars PROVE ReservationsAccounted'
    OBVIOUS
<1>1. ASSUME NEW e \in Events, Apply(e) PROVE ReservationsAccounted'
    <2> SUFFICES ASSUME NEW k \in Keys
                 PROVE  inventory'[k].reserved = QuantityOf(AppliedAt("PRODUCT_RESERVED", k))'
                                                 - QuantityOf(AppliedAt("PRODUCT_RELEASED", k))'
                                                 + OrderDemand("CREATED", k)'
        BY DEF ReservationsAccounted
    <2> DEFINE reserved == QuantityOf(AppliedAt("PRODUCT_RESERVED", k))
               released == QuantityOf(AppliedAt("PRODUCT_RELEASED", k))
               demand   == OrderDemand("CREATED", k)
               here     == <<e.product_id, e.zone_id>> = k
    <2>1. inventory[k].reserved = reserved - released + demand
        BY DEF ReservationsAccounted
    <2>2. reserved \in Int /\ released \in Int
        BY AppliedFinite
    <2>3. OrderChange(e, k) \in Int /\ demand \in Int /\ demand' = demand + OrderChange(e, k)
        BY <1>1, OpenDemandChanges
    <2>4. reserved' = reserved + IF e.event_type = "PRODUCT_RESERVED" /\ here THEN e.quantity ELSE 0
        BY <1>1, AppliedGrows
    <2>5. released' = released + IF e.event_type = "PRODUCT_RELEASED" /\ here THEN e.quantity ELSE 0
        BY <1>1, AppliedGrows
    <2>6. e.event_type \notin OrderEventTypes => OrderChange(e, k) = 0
        BY DEF OrderChange, OrderEventTypes
    <2>7. inventory'[k].reserved =
              inventory[k].reserved
              + CASE e.event_type = "PRODUCT_RESERVED" /\ here -> e.quantity
                  [] e.event_type = "PRODUCT_RELEASED" /\ here -> -e.quantity
                  [] OTHER -> OrderChange(e, k)
        BY <1>1, ReservedChanges
    <2>8. e.quantity \in Int
        BY EventsAreRecords DEF EventRecords
    <2> HIDE DEF reserved, released, demand, here
    <2>9. inventory'[k].reserved = reserved' - released' + demand'
        BY <2>1, <2>2, <2>3, <2>4, <2>5, <2>6, <2>7, <2>8 DEF OrderEventTypes
    <2> QED BY <2>9 DEF reserved, released, demand
<1>2. ASSUME NEW e \in Events, Ignore(e) \/ Reject(e) PROVE ReservationsAccounted'
    <2>1. Applied' = Applied
        BY <1>2, AppliedKept
    <2>2. UNCHANGED <<inventory, orders>>
        BY <1>2 DEF Ignore, Reject
    <2> QED BY <2>1, <2>2 DEF ReservationsAccounted, AppliedAt, OrderDemand, OrderLines, OrdersIn
<1>3. CASE UNCHANGED vars
    BY <1>3 DEF vars, ReservationsAccounted, AppliedAt, Applied, OrderDemand, OrderLines, OrdersIn
<1> QED BY <1>1, <1>2, <1>3 DEF Next

(* Row by row, what is reserved is what the history of reservations and    *)
(* releases leaves, plus what the open orders ask for.                     *)
THEOREM ReservationsCorrect == Spec => []ReservationsAccounted
<1>1. Init => BooksInv /\ ReservationsAccounted
    BY BooksInit, ReservationsInit
<1>2. BooksInv /\ ReservationsAccounted /\ [Next]_vars => (BooksInv /\ ReservationsAccounted)'
    BY BooksNext, ReservationsNext
<1> QED BY <1>1, <1>2, PTL DEF Spec

(* Of the accepted events, only a release can take more than it accounts   *)
(* for: every other one leaves the stock of the open orders reserved.      *)
THEOREM OnlyReleaseCorrect == Spec => OnlyReleaseBreaksOrders
<1> DEFINE Step == OrdersBacked => OrdersBacked' \/ Handles("PRODUCT_RELEASED")
<1>1. BooksInv /\ [Next]_vars => [Step]_vars
    <2> SUFFICES ASSUME BooksInv, [Next]_vars, OrdersBacked, ~Handles("PRODUCT_RELEASED"),
                        NEW k \in Keys
                 PROVE  inventory'[k].reserved >= OrderDemand("CREATED", k)'
        BY DEF OrdersBacked
    <2> DEFINE demand == OrderDemand("CREATED", k)
    <2>1. inventory[k].reserved >= demand
        BY DEF OrdersBacked
    <2>2. ASSUME NEW e \in Events, Apply(e) PROVE inventory'[k].reserved >= demand'
        <3>1. e.event_type # "PRODUCT_RELEASED"
            BY <2>2, ApplyHandles DEF BooksInv
        <3>2. OrderChange(e, k) \in Int /\ demand \in Int /\ demand' = demand + OrderChange(e, k)
            BY <2>2, OpenDemandChanges
        <3>3. /\ inventory[k].reserved \in Int
              /\ inventory'[k].reserved =
                     inventory[k].reserved
                     + IF e.event_type = "PRODUCT_RESERVED" /\ <<e.product_id, e.zone_id>> = k
                       THEN e.quantity ELSE OrderChange(e, k)
            BY <2>2, <3>1, ReservedChanges
        <3>4. e.event_type = "PRODUCT_RESERVED" => e.quantity > 0 /\ OrderChange(e, k) = 0
            BY <2>2, AppliedIsAccepted DEF Apply, Accepted, WellFormed, OrderChange, ProductEventTypes
        <3>5. e.quantity \in Int
            BY EventsAreRecords DEF EventRecords
        <3> HIDE DEF demand
        <3> QED BY <2>1, <3>2, <3>3, <3>4, <3>5
    <2>3. CASE UNCHANGED <<inventory, totals, orders>>
        BY <2>1, <2>3 DEF OrderDemand, OrderLines, OrdersIn
    <2> QED BY <2>2, <2>3, NextCases
<1> HIDE DEF Step
<1>2. Spec => [][Step]_vars
    BY <1>1, BooksInit, BooksNext, PTL DEF Spec
<1> QED BY <1>2 DEF Step, OnlyReleaseBreaksOrders

-----------------------------------------------------------------------------
(* The stock of a product *)

LEMMA CompletedDemandChanges ==
    ASSUME BooksInv, NEW e \in Events, Apply(e), NEW k
    PROVE  /\ OrderDemand("COMPLETED", k) \in Int
           /\ e.event_type = "ORDER_COMPLETED" =>
                 /\ GroupedQuantity(orders[e.order_id].items, k) \in Int
                 /\ OrderDemand("COMPLETED", k)' =
                        OrderDemand("COMPLETED", k)
                        + GroupedQuantity(orders[e.order_id].items, k)
           /\ e.event_type # "ORDER_COMPLETED" =>
                 OrderDemand("COMPLETED", k)' = OrderDemand("COMPLETED", k)
<1> DEFINE o == e.order_id
           Before == Demand(orders, "COMPLETED", k)
           After  == Demand(orders', "COMPLETED", k)
<1>1. OrderDemand("COMPLETED", k) = Before /\ OrderDemand("COMPLETED", k)' = After
    BY DemandIsDemand
<1>2. Orderly(orders) /\ Orderly(orders')
    BY OrdersAreOrderly
<1>3. /\ \A p \in OrderIds \ {o} : orders'[p] = orders[p]
      /\ e.event_type \notin OrderEventTypes => orders' = orders
    BY OneOrderChanges DEF BooksInv
<1>4. Before \in Int
    BY <1>2, LinesTyped
<1>5. Accepted(store, e) /\ store.orders = orders /\ orders' = UpdatedOrders(store, e)
    BY AppliedIsAccepted DEF Apply, store
<1>6. WellFormed(e) /\ OrderAllows(store, e) /\ e \in EventRecords
    BY <1>5, EventsAreRecords DEF Accepted
<1>7. orders \in [OrderIds -> OrderRows \cup {NoOrder}]
    BY <1>2 DEF Orderly
<1>8. CASE e.event_type = "ORDER_CREATED"
    <2>1. o \in OrderIds /\ orders[o] = NoOrder
        BY <1>5, <1>6, <1>8 DEF WellFormed, OrderAllows, EventRecords, OrderEventTypes
    <2>2. orders'[o].status = "CREATED"
        BY <1>5, <1>7, <1>8, <2>1 DEF UpdatedOrders
    <2>3. o \notin In(orders, "COMPLETED") /\ o \notin In(orders', "COMPLETED")
        BY <2>1, <2>2 DEF In
    <2>4. After = Before
        BY <1>2, <1>3, <2>3, DemandWithoutOrder
    <2> QED BY <1>1, <1>4, <1>8, <2>4
<1>9. CASE e.event_type = "ORDER_COMPLETED"
    <2>1. o \in OrderIds /\ orders[o] # NoOrder /\ orders[o].status = "CREATED"
        BY <1>5, <1>6, <1>9 DEF WellFormed, OrderAllows, EventRecords, OrderEventTypes
    <2>2. orders'[o] = [status |-> "COMPLETED", items |-> orders[o].items,
                        last_event_ts |-> e.occurred_at]
        BY <1>5, <1>7, <1>9, <2>1 DEF UpdatedOrders
    <2>3. orders[o] \in OrderRows /\ e.occurred_at \in Int
        BY <1>6, <1>7, <2>1 DEF EventRecords
    <2>4. orders'[o] # NoOrder
        BY <2>2, <2>3, NoOrderIsNoRow DEF OrderRows
    <2>5. o \notin In(orders, "COMPLETED") /\ o \in In(orders', "COMPLETED")
        BY <2>1, <2>2, <2>4 DEF In
    <2>6. After = Before + GroupedQuantity(orders[o].items, k)
        BY <1>2, <1>3, <2>1, <2>2, <2>5, DemandWithOrder
    <2>7. GroupedQuantity(orders[o].items, k) \in Int
        BY <2>1, <2>3, GroupedItems DEF BooksInv, TypeInv, StoredItemsOK, OrderRows
    <2> QED BY <1>1, <1>4, <1>9, <2>6, <2>7
<1>10. CASE e.event_type \notin OrderEventTypes
    <2>1. After = Before
        BY <1>3, <1>10
    <2> QED BY <1>1, <1>4, <1>10, <2>1 DEF OrderEventTypes
<1> QED BY <1>8, <1>9, <1>10 DEF OrderEventTypes

(* What an event adds to the ledger of row k.                              *)
LedgerChange(e, k) ==
    CASE e.event_type = "PRODUCT_RECEIVED" /\ <<e.product_id, e.zone_id>> = k -> e.quantity
      [] e.event_type = "PRODUCT_SHIPPED" /\ <<e.product_id, e.zone_id>> = k -> -e.quantity
      [] e.event_type = "ORDER_COMPLETED" -> -GroupedQuantity(orders[e.order_id].items, k)
      [] OTHER -> 0

LEMMA LedgerChanges ==
    ASSUME BooksInv, NEW e \in Events, Apply(e), NEW p \in Products, NEW k \in {p} \X ZoneIds
    PROVE  /\ Ledger(p)[k] \in Int
           /\ LedgerChange(e, k) \in Int
           /\ Ledger(p)'[k] = Ledger(p)[k] + LedgerChange(e, k)
<1> DEFINE received == QuantityOf(AppliedAt("PRODUCT_RECEIVED", k))
           shipped  == QuantityOf(AppliedAt("PRODUCT_SHIPPED", k))
           demand   == OrderDemand("COMPLETED", k)
           here     == <<e.product_id, e.zone_id>> = k
<1>1. Ledger(p)[k] = received - shipped - demand /\ Ledger(p)'[k] = received' - shipped' - demand'
    BY DEF Ledger
<1>2. received \in Int /\ shipped \in Int
    BY AppliedFinite
<1>3. received' = received + IF e.event_type = "PRODUCT_RECEIVED" /\ here THEN e.quantity ELSE 0
    BY AppliedGrows
<1>4. shipped' = shipped + IF e.event_type = "PRODUCT_SHIPPED" /\ here THEN e.quantity ELSE 0
    BY AppliedGrows
<1>5. /\ demand \in Int
      /\ e.event_type = "ORDER_COMPLETED" =>
            /\ GroupedQuantity(orders[e.order_id].items, k) \in Int
            /\ demand' = demand + GroupedQuantity(orders[e.order_id].items, k)
      /\ e.event_type # "ORDER_COMPLETED" => demand' = demand
    BY CompletedDemandChanges
<1>6. e.quantity \in Int
    BY EventsAreRecords DEF EventRecords
<1> HIDE DEF received, shipped, demand, here
<1>7. /\ LedgerChange(e, k) \in Int
      /\ received' - shipped' - demand' = received - shipped - demand + LedgerChange(e, k)
    BY <1>2, <1>3, <1>4, <1>5, <1>6 DEF LedgerChange, here
<1> QED BY <1>1, <1>2, <1>5, <1>7

(* Except for counts and moves, the ledger follows the rows: it changes by *)
(* as much as the stock of each touched row, and not at all elsewhere.     *)
LEMMA LedgerFollowsRows ==
    ASSUME BooksInv, NEW e \in Events, Apply(e), NEW k,
           e.event_type \notin {"INVENTORY_COUNTED", "PRODUCT_MOVED"}
    PROVE  /\ k \in TouchedKeys(store, e) =>
                  DeltaAvailable(store, e, k) + DeltaReserved(store, e, k) = LedgerChange(e, k)
           /\ k \notin TouchedKeys(store, e) => LedgerChange(e, k) = 0
<1>1. store.orders = orders
    BY DEF store
<1>2. e.event_type \in EventTypes /\ e.quantity \in Int
    BY AppliedIsAccepted, EventsAreRecords DEF Apply, Accepted, WellFormed, EventRecords
<1>3. e.event_type = "ORDER_CREATED" => GroupedQuantity(e.items, k) \in Int
    <2>1. Accepted(store, e) /\ e.items \in Seq(Items)
        BY AppliedIsAccepted, EventsAreRecords DEF Apply, EventRecords
    <2> QED BY <2>1, GroupedItems DEF Accepted, WellFormed
<1>4. e.event_type = "ORDER_COMPLETED" => GroupedQuantity(orders[e.order_id].items, k) \in Int
    BY CompletedDemandChanges
<1>5. ASSUME e.event_type \in ProductEventTypes
      PROVE  TouchedKeys(store, e) = {<<e.product_id, e.zone_id>>}
    BY <1>5 DEF TouchedKeys, ProductEventTypes
<1>6. CASE k \in TouchedKeys(store, e)
    <2>1. e.event_type \in ProductEventTypes => <<e.product_id, e.zone_id>> = k
        BY <1>5, <1>6
    <2> QED BY <1>1, <1>2, <1>3, <1>4, <1>6, <2>1
            DEF DeltaAvailable, DeltaReserved, LedgerChange, EventTypes, ProductEventTypes,
                OrderEventTypes
<1>7. CASE k \notin TouchedKeys(store, e)
    <2>1. e.event_type \in ProductEventTypes => <<e.product_id, e.zone_id>> # k
        BY <1>5, <1>7
    <2>2. e.event_type = "ORDER_COMPLETED" => GroupedQuantity(orders[e.order_id].items, k) = 0
        BY <1>1, <1>7, UngroupedIsZero DEF TouchedKeys, ProductEventTypes
    <2> QED BY <1>7, <2>1, <2>2 DEF LedgerChange, ProductEventTypes
<1> QED BY <1>6, <1>7

(* A move takes from one zone what it brings to the other.                 *)
LEMMA MoveCancels ==
    ASSUME BooksInv, NEW e \in Events, Apply(e), e.event_type = "PRODUCT_MOVED", NEW p
    PROVE  LET D == KeysOf(store, e, p)
           IN  SumFunctionOnSet([k \in Keys |-> DeltaAvailable(store, e, k)], D)
                 + SumFunctionOnSet([k \in Keys |-> DeltaReserved(store, e, k)], D) = 0
<1> DEFINE D == KeysOf(store, e, p)
           a == [k \in Keys |-> DeltaAvailable(store, e, k)]
           r == [k \in Keys |-> DeltaReserved(store, e, k)]
           from == <<e.product_id, e.from_zone_id>>
           to   == <<e.product_id, e.to_zone_id>>
<1>1. StoreOK(store) /\ Accepted(store, e)
    BY TypedStore, AppliedIsAccepted DEF Apply, BooksInv
<1>2. TouchedKeys(store, e) = {from, to}
    BY DEF TouchedKeys, ProductEventTypes
<1>3. from # to /\ e.from_zone_id # e.to_zone_id
    BY <1>1 DEF Accepted, WellFormed
<1>4. from \in Keys /\ to \in Keys
    BY <1>1, <1>2, AcceptedRows, EventsAreRecords
<1>5. a[from] = -e.quantity /\ a[to] = e.quantity /\ e.quantity \in Int
    BY <1>3, <1>4, EventsAreRecords DEF DeltaAvailable, EventRecords
<1>6. r[from] = 0 /\ r[to] = 0
    BY <1>4 DEF DeltaReserved
<1> HIDE DEF a, r, from, to
<1>7. CASE e.product_id = p
    <2>1. D = {from, to} /\ D \ {from} = {to} /\ IsFiniteSet(D)
        <3>1. from[1] = p /\ to[1] = p
            BY <1>7 DEF from, to
        <3>2. D = {from, to}
            BY <1>2, <3>1 DEF KeysOf
        <3>3. IsFiniteSet({from} \cup {to})
            BY FS_Singleton, FS_AddElement
        <3>4. {from, to} = {from} \cup {to}
            OBVIOUS
        <3> QED BY <1>3, <3>2, <3>3, <3>4
    <2>2. SumFunctionOnSet(a, D) = a[from] + SumFunctionOnSet(a, {to})
        BY <1>5, <2>1, SumRemove
    <2>3. SumFunctionOnSet(r, D) = r[from] + SumFunctionOnSet(r, {to})
        BY <1>6, <2>1, SumRemove
    <2>4. SumFunctionOnSet(a, {to}) = a[to] /\ SumFunctionOnSet(r, {to}) = r[to]
        BY <1>5, <1>6, SumOne
    <2>5. SumFunctionOnSet(a, D) = 0 /\ SumFunctionOnSet(r, D) = 0
        BY <1>5, <1>6, <2>2, <2>3, <2>4
    <2> QED BY <2>5 DEF a, r
<1>8. CASE e.product_id # p
    <2>1. D = {}
        BY <1>2, <1>8 DEF KeysOf, from, to
    <2>2. SumFunctionOnSet(a, D) = 0 /\ SumFunctionOnSet(r, D) = 0
        BY <2>1, SumEmpty
    <2> QED BY <2>2 DEF a, r
<1> QED BY <1>7, <1>8

LEMMA StockInit == Init => StockAccounted
<1> SUFFICES ASSUME Init, NEW p \in Products
             PROVE  totals[p].available + totals[p].reserved
                        = SumFunctionOnSet(Ledger(p), {p} \X ZoneIds)
    BY DEF StockAccounted
<1> DEFINE keys == {p} \X ZoneIds
<1>1. totals[p].available = 0 /\ totals[p].reserved = 0
    BY DEF Init, EmptyStore, EmptyTotal
<1>2. IsFiniteSet(keys)
    BY FiniteStock, FS_Singleton, FS_Product
<1>3. ASSUME NEW k \in keys PROVE Ledger(p)[k] = 0
    <2>1. \A type : AppliedAt(type, k) = {}
        BY DEF Init, AppliedAt, Applied
    <2>2. QuantityOf({}) = 0
        BY SumEmpty DEF QuantityOf
    <2>3. OrderLines("COMPLETED", k) = {}
        BY DEF Init, EmptyStore, OrderLines, OrdersIn
    <2>4. OrderDemand("COMPLETED", k) = 0
        BY <2>3, SumEmpty DEF OrderDemand
    <2> DEFINE received == QuantityOf(AppliedAt("PRODUCT_RECEIVED", k))
               shipped  == QuantityOf(AppliedAt("PRODUCT_SHIPPED", k))
               demand   == OrderDemand("COMPLETED", k)
    <2>5. Ledger(p)[k] = received - shipped - demand
        BY DEF Ledger
    <2>6. received = 0 /\ shipped = 0 /\ demand = 0
        BY <2>1, <2>2, <2>4
    <2> QED BY <2>5, <2>6
<1>4. SumFunctionOnSet(Ledger(p), keys) = 0
    <2>1. {} \in SUBSET keys
        OBVIOUS
    <2>2. SumFunctionOnSet(Ledger(p), keys) = SumFunctionOnSet(Ledger(p), {})
        BY <1>2, <1>3, <2>1, SumSupport
    <2> QED BY <2>2, SumEmpty
<1> QED BY <1>1, <1>4

(* The totals of a product change by as much as its ledger.                *)
LEMMA TotalsFollowLedger ==
    ASSUME BooksInv, NEW e \in Events, Apply(e), NEW p \in Products,
           \A k \in {p} \X ZoneIds : AppliedAt("INVENTORY_COUNTED", k)' = {}
    PROVE  totals'[p].available + totals'[p].reserved
               = totals[p].available + totals[p].reserved
                 + SumFunctionOnSet([k \in {p} \X ZoneIds |-> LedgerChange(e, k)],
                                    {p} \X ZoneIds)
<1> DEFINE keys == {p} \X ZoneIds
           D == KeysOf(store, e, p)
           a == [k \in Keys |-> DeltaAvailable(store, e, k)]
           r == [k \in Keys |-> DeltaReserved(store, e, k)]
           d == [k \in Keys |-> DeltaAvailable(store, e, k) + DeltaReserved(store, e, k)]
           c == [k \in keys |-> LedgerChange(e, k)]
<1>1. StoreOK(store) /\ Accepted(store, e) /\ store.totals = totals
    BY TypedStore, AppliedIsAccepted DEF Apply, BooksInv, store
<1>2. D \subseteq TouchedKeys(store, e) /\ \A k \in D : k[1] = p
    BY DEF KeysOf
<1>3. /\ IsFiniteSet(D) /\ D \subseteq Keys
      /\ SumFunctionOnSet(a, D) \in Int /\ SumFunctionOnSet(r, D) \in Int
    BY <1>1, <1>2, TouchedSums, EventsAreRecords
<1>4. D \subseteq keys /\ IsFiniteSet(keys) /\ keys \subseteq Keys
    BY <1>2, <1>3, FiniteStock, FS_Singleton, FS_Product DEF Keys
<1>5. totals[p].available \in Int /\ totals[p].reserved \in Int
    BY DEF BooksInv, TypeInv, TypeOK, TotalRows
<1>6. /\ totals'[p].available = totals[p].available + SumFunctionOnSet(a, D)
      /\ totals'[p].reserved = totals[p].reserved + SumFunctionOnSet(r, D)
    <2>1. totals' = UpdatedTotals(store, e)
        BY DEF Apply
    <2>2. CASE D = {}
        <3>1. SumFunctionOnSet(a, D) = 0 /\ SumFunctionOnSet(r, D) = 0
            BY <2>2, SumEmpty
        <3>2. totals'[p] = totals[p]
            BY <1>1, <2>1, <2>2 DEF UpdatedTotals
        <3> QED BY <1>5, <3>1, <3>2
    <2>3. CASE D # {}
        BY <1>1, <2>1, <2>3 DEF UpdatedTotals, UpdatedTotal
    <2> QED BY <2>2, <2>3
<1>7. ASSUME NEW k \in D PROVE a[k] \in Int /\ r[k] \in Int /\ d[k] = a[k] + r[k]
    BY <1>1, <1>2, <1>3, AcceptedRows, EventsAreRecords
<1>8. SumFunctionOnSet(d, D) = SumFunctionOnSet(a, D) + SumFunctionOnSet(r, D)
    <2>1. \A k \in D : a[k] \in Int /\ r[k] \in Int /\ d[k] = a[k] + r[k]
        BY <1>7
    <2> HIDE DEF a, r, d, D
    <2> QED BY <1>3, <2>1, SumAdd
<1>9. SumFunctionOnSet(a, D) + SumFunctionOnSet(r, D) = SumFunctionOnSet(c, keys)
    <2>1. \A k \in keys : c[k] = LedgerChange(e, k) /\ c[k] \in Int
        BY LedgerChanges
    <2>2. CASE e.event_type = "PRODUCT_MOVED"
        <3>1. \A k \in keys \ {} : c[k] = 0
            BY <2>2, <2>1 DEF LedgerChange
        <3>2. {} \in SUBSET keys
            OBVIOUS
        <3>3. SumFunctionOnSet(c, keys) = SumFunctionOnSet(c, {})
            BY <1>4, <2>1, <3>1, <3>2, SumSupport
        <3> QED BY <2>2, <3>3, SumEmpty, MoveCancels
    <2>3. CASE e.event_type = "INVENTORY_COUNTED"
        <3>1. D = {}
            <4> SUFFICES ASSUME NEW k \in D PROVE FALSE
                OBVIOUS
            <4>1. k \in keys /\ k = <<e.product_id, e.zone_id>>
                BY <1>2, <1>4, <2>3 DEF TouchedKeys, ProductEventTypes
            <4>2. e \in AppliedAt("INVENTORY_COUNTED", k)'
                BY <2>3, <4>1, AppliedSet DEF AppliedAt
            <4> QED BY <4>1, <4>2
        <3>2. \A k \in keys \ {} : c[k] = 0
            BY <2>3, <2>1 DEF LedgerChange
        <3>3. {} \in SUBSET keys
            OBVIOUS
        <3>4. SumFunctionOnSet(c, keys) = SumFunctionOnSet(c, {})
            BY <1>4, <2>1, <3>2, <3>3, SumSupport
        <3>5. SumFunctionOnSet(a, D) = 0 /\ SumFunctionOnSet(r, D) = 0 /\ SumFunctionOnSet(c, {}) = 0
            BY <3>1, SumEmpty
        <3> QED BY <3>4, <3>5
    <2>4. CASE e.event_type \notin {"INVENTORY_COUNTED", "PRODUCT_MOVED"}
        <3>1. \A k \in D : d[k] = c[k]
            BY <1>2, <1>3, <1>4, <2>1, <2>4, LedgerFollowsRows
        <3>2. \A k \in keys \ D : c[k] = 0
            <4> TAKE k \in keys \ D
            <4>1. k[1] = p
                OBVIOUS
            <4>2. k \notin TouchedKeys(store, e)
                BY <4>1 DEF KeysOf
            <4> QED BY <2>1, <2>4, <4>2, LedgerFollowsRows
        <3>3. SumFunctionOnSet(d, D) = SumFunctionOnSet(c, D)
            BY <1>3, <3>1, SumEqual
        <3>4. SumFunctionOnSet(c, keys) = SumFunctionOnSet(c, D)
            BY <1>4, <2>1, <3>2, SumSupport
        <3> QED BY <1>8, <3>3, <3>4
    <2> QED BY <2>2, <2>3, <2>4
<1> HIDE DEF a, r, c, D
<1>10. totals'[p].available + totals'[p].reserved
          = totals[p].available + totals[p].reserved + SumFunctionOnSet(c, keys)
    BY <1>3, <1>5, <1>6, <1>9
<1> QED BY <1>10 DEF c

LEMMA LedgerUnchanged ==
    ASSUME Applied' = Applied, UNCHANGED <<totals, orders>>, StockAccounted
    PROVE  StockAccounted'
<1> SUFFICES ASSUME NEW p \in Products,
                    \A k \in {p} \X ZoneIds : AppliedAt("INVENTORY_COUNTED", k)' = {}
             PROVE  totals[p].available + totals[p].reserved
                        = SumFunctionOnSet(Ledger(p)', {p} \X ZoneIds)
    BY DEF StockAccounted
<1>1. totals[p].available + totals[p].reserved = SumFunctionOnSet(Ledger(p), {p} \X ZoneIds)
    BY DEF StockAccounted, AppliedAt
<1>2. ASSUME NEW k \in {p} \X ZoneIds PROVE Ledger(p)'[k] = Ledger(p)[k]
    <2> DEFINE received == QuantityOf(AppliedAt("PRODUCT_RECEIVED", k))
               shipped  == QuantityOf(AppliedAt("PRODUCT_SHIPPED", k))
               demand   == OrderDemand("COMPLETED", k)
    <2>1. received' = received /\ shipped' = shipped
        BY DEF AppliedAt
    <2>2. demand' = demand
        BY DEF OrderDemand, OrderLines, OrdersIn
    <2>3. /\ Ledger(p)[k] = received - shipped - demand
          /\ Ledger(p)'[k] = received' - shipped' - demand'
        BY DEF Ledger
    <2> HIDE DEF received, shipped, demand
    <2> QED BY <2>1, <2>2, <2>3
<1>3. IsFiniteSet({p} \X ZoneIds)
    BY FiniteStock, FS_Singleton, FS_Product
<1>4. SumFunctionOnSet(Ledger(p)', {p} \X ZoneIds) = SumFunctionOnSet(Ledger(p), {p} \X ZoneIds)
    BY <1>2, <1>3, SumEqual
<1> QED BY <1>1, <1>4

LEMMA StockNext == BooksInv /\ StockAccounted /\ [Next]_vars => StockAccounted'
<1> SUFFICES ASSUME BooksInv, StockAccounted, [Next]_vars PROVE StockAccounted'
    OBVIOUS
<1>1. ASSUME NEW e \in Events, Apply(e) PROVE StockAccounted'
    <2> SUFFICES ASSUME NEW p \in Products,
                        \A k \in {p} \X ZoneIds : AppliedAt("INVENTORY_COUNTED", k)' = {}
                 PROVE  totals'[p].available + totals'[p].reserved
                            = SumFunctionOnSet(Ledger(p)', {p} \X ZoneIds)
        BY DEF StockAccounted
    <2> DEFINE keys == {p} \X ZoneIds
               f == Ledger(p)
               g == Ledger(p)'
               c == [k \in keys |-> LedgerChange(e, k)]
    <2>1. \A k \in keys : AppliedAt("INVENTORY_COUNTED", k) = {}
        BY <1>1, AppliedSet DEF AppliedAt
    <2>2. totals[p].available + totals[p].reserved = SumFunctionOnSet(f, keys)
        BY <2>1 DEF StockAccounted
    <2>3. totals'[p].available + totals'[p].reserved
              = totals[p].available + totals[p].reserved + SumFunctionOnSet(c, keys)
        BY <1>1, TotalsFollowLedger
    <2>4. \A k \in keys : f[k] \in Int /\ c[k] \in Int /\ g[k] = f[k] + c[k]
        BY <1>1, LedgerChanges
    <2>5. IsFiniteSet(keys)
        BY FiniteStock, FS_Singleton, FS_Product
    <2> HIDE DEF keys, f, g, c
    <2>6. SumFunctionOnSet(g, keys) = SumFunctionOnSet(f, keys) + SumFunctionOnSet(c, keys)
        BY <2>4, <2>5, SumAdd
    <2>7. totals'[p].available + totals'[p].reserved = SumFunctionOnSet(g, keys)
        BY <2>2, <2>3, <2>6
    <2> QED BY <2>7 DEF keys, g
<1>2. ASSUME NEW e \in Events, Ignore(e) \/ Reject(e) PROVE StockAccounted'
    <2>1. Applied' = Applied
        BY <1>2, AppliedKept
    <2>2. UNCHANGED <<totals, orders>>
        BY <1>2 DEF Ignore, Reject
    <2> QED BY <2>1, <2>2, LedgerUnchanged
<1>3. CASE UNCHANGED vars
    BY <1>3, LedgerUnchanged DEF vars, Applied
<1> QED BY <1>1, <1>2, <1>3 DEF Next

(* Product by product, the totals of a product that was never counted are  *)
(* what was received, less what was shipped and what orders took.          *)
THEOREM StockCorrect == Spec => []StockAccounted
<1>1. Init => BooksInv /\ StockAccounted
    BY BooksInit, StockInit
<1>2. BooksInv /\ StockAccounted /\ [Next]_vars => (BooksInv /\ StockAccounted)'
    BY BooksNext, StockNext
<1> QED BY <1>1, <1>2, PTL DEF Spec
=============================================================================
