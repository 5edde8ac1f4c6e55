---------------------------- MODULE MCProjection ----------------------------
(***************************************************************************)
(* Finite instances of Projection.  EventIds bounds the number of events   *)
(* handled in a behaviour; any event of the instance may come next, with   *)
(* any timestamp, so every reordering of every choice is explored.         *)
(***************************************************************************)
EXTENDS Projection, TLC

CONSTANTS p1, p2, z1, z2, zx, o1, o2, s1

Blank(id, type, ts) ==
    [event_id |-> id, event_type |-> type, occurred_at |-> ts, product_id |-> NoText,
     zone_id |-> NoText, quantity |-> 0, from_zone_id |-> NoText, to_zone_id |-> NoText,
     counted_quantity |-> -1, order_id |-> NoText, items |-> <<>>, supplier_id |-> NoText]

OfProduct(types, products, zones, quantities, times) ==
    {[Blank(id, type, ts) EXCEPT !.product_id = p, !.zone_id = z, !.quantity = q] :
        id \in EventIds, type \in types, p \in products, z \in zones,
        q \in quantities, ts \in times}

Supplied(events) == {[e EXCEPT !.supplier_id = s1] : e \in events}

Counted(products, zones, quantities, times) ==
    {[Blank(id, "INVENTORY_COUNTED", ts) EXCEPT !.product_id = p, !.zone_id = z,
                                               !.counted_quantity = q] :
        id \in EventIds, p \in products, z \in zones, q \in quantities, ts \in times}

Moved(p, routes, quantities, times) ==
    {[Blank(id, "PRODUCT_MOVED", ts) EXCEPT !.product_id = p, !.from_zone_id = route[1],
                                           !.to_zone_id = route[2], !.quantity = q] :
        id \in EventIds, route \in routes, q \in quantities, ts \in times}

Created(orderIds, itemLists, times) ==
    {[Blank(id, "ORDER_CREATED", ts) EXCEPT !.order_id = o, !.items = items] :
        id \in EventIds, o \in orderIds, items \in itemLists, ts \in times}

Completed(orderIds, times) ==
    {[Blank(id, "ORDER_COMPLETED", ts) EXCEPT !.order_id = o] :
        id \in EventIds, o \in orderIds, ts \in times}

Item(p, z, q) == [product_id |-> p, zone_id |-> z, quantity |-> q]

(* One product in two zones, one of them small, and an unknown zone.       *)
StockCapacity == [z \in Zones |-> IF z = z1 THEN 3 ELSE 1]
StockEvents ==
    OfProduct({"PRODUCT_RECEIVED"}, {p1}, {z1}, {2}, {1, 2})
    \cup Supplied(OfProduct({"PRODUCT_RECEIVED"}, {p1}, {z2}, {1}, {2}))
    \cup OfProduct({"PRODUCT_RECEIVED"}, {p1}, {zx, NoText}, {1}, {1})
    \cup OfProduct({"PRODUCT_SHIPPED", "PRODUCT_RESERVED"}, {p1}, {z1}, {0, 1}, {2})
    \cup OfProduct({"PRODUCT_RELEASED"}, {p1}, {z1}, {1}, {1, 3})
    \cup Counted({p1}, {z1, z2}, {1}, {1, 3})
    \cup OfProduct({"OTHER"}, {p1}, {z1}, {1}, {1})
    \cup Moved(p1, {<<z1, z2>>, <<z2, z1>>, <<z1, z1>>}, {1}, {2})
    \cup Created({o1}, {<<Item(p1, z1, 1)>>}, {1, 2})
    \cup Completed({o1}, {2, 3})

(* Two products, orders of several lines, some of them about the same row. *)
OrderCapacity == [z \in Zones |-> 4]
OrderEvents ==
    OfProduct({"PRODUCT_RECEIVED"}, {p1, p2}, {z1}, {2}, {1})
    \cup OfProduct({"PRODUCT_SHIPPED"}, {p1}, {z1}, {1}, {2})
    \cup OfProduct({"PRODUCT_RESERVED"}, {p2}, {z1}, {1}, {2})
    \cup OfProduct({"PRODUCT_RELEASED"}, {p2}, {z1}, {1}, {2})
    \cup Created({o1}, {<<Item(p1, z1, 1), Item(p2, z1, 1), Item(p1, z1, 1)>>, <<>>}, {1})
    \cup Created({o2}, {<<Item(p2, z1, 1)>>}, {2})
    \cup Created({o2}, {<<Item(p1, z2, 1)>>, <<Item(p1, z1, 0)>>}, {1})
    \cup Completed({o1, o2}, {1, 2})

IdSymmetry == Permutations(EventIds)
=============================================================================
