-------------------------- MODULE MCConsumerWorker --------------------------
(***************************************************************************)
(* Finite instances of ConsumerWorker: one product, one zone, one order,   *)
(* two partitions.  q1 carries product events, q2 order events, as the     *)
(* routing keys of the WMS put them.  Every choice of short logs is an     *)
(* initial state, logs with a message that was sent twice included.        *)
(***************************************************************************)
EXTENDS ConsumerWorker

CONSTANTS p1, z1, o1, q1, q2

Blank(id, type, ts) ==
    [event_id |-> id, event_type |-> type, occurred_at |-> ts, product_id |-> NoText,
     zone_id |-> NoText, quantity |-> 0, from_zone_id |-> NoText, to_zone_id |-> NoText,
     counted_quantity |-> -1, order_id |-> NoText, items |-> <<>>, supplier_id |-> NoText]

OfProduct(id, type, q, ts) ==
    [Blank(id, type, ts) EXCEPT !.product_id = p1, !.zone_id = z1, !.quantity = q]

Received  == OfProduct("received", "PRODUCT_RECEIVED", 2, 2)
Shipped   == OfProduct("shipped", "PRODUCT_SHIPPED", 1, 3)
Late      == OfProduct("late", "PRODUCT_RECEIVED", 1, 1)
Malformed == OfProduct("malformed", "PRODUCT_SHIPPED", 0, 3)
Undated   == OfProduct("undated", "PRODUCT_RECEIVED", 1, 9)
Created   == [Blank("created", "ORDER_CREATED", 3) EXCEPT !.order_id = o1,
                 !.items = <<[product_id |-> p1, zone_id |-> z1, quantity |-> 1]>>]
Completed == [Blank("completed", "ORDER_COMPLETED", 4) EXCEPT !.order_id = o1]

MCEvents   == {Received, Shipped, Late, Malformed, Undated, Created, Completed}
MCCapacity == [z \in {z1} |-> 2]

MCDates    == 0 .. 4

(* In any order, late or twice; a refused event and one without a date in  *)
(* front of another; an order and its completion.                          *)
Two(s, t) == [q \in Partitions |-> IF q = q1 THEN s ELSE t]

MCLogs ==
    {Two(s, <<Created>>) :
        s \in {<<Received, Late>>, <<Received, Received>>,
               <<Malformed, Received>>, <<Undated, Received>>}}
    \cup {Two(<<Received>>, <<Created, Completed>>)}
=============================================================================
