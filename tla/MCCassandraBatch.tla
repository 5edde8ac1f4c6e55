-------------------------- MODULE MCCassandraBatch --------------------------
(***************************************************************************)
(* A finite instance of CassandraBatch: one product in one zone, where the *)
(* events meet in the row, in its totals and in the zone.                  *)
(***************************************************************************)
EXTENDS CassandraBatch, TLC

CONSTANTS p1, z1, o1, m1, m2

Blank(id, type, ts) ==
    [event_id |-> id, event_type |-> type, occurred_at |-> ts, product_id |-> p1,
     zone_id |-> z1, quantity |-> 1, from_zone_id |-> NoText, to_zone_id |-> NoText,
     counted_quantity |-> -1, order_id |-> NoText, items |-> <<>>, supplier_id |-> NoText]

Received == [Blank("received", "PRODUCT_RECEIVED", 1) EXCEPT !.quantity = 2]
Shipped  == Blank("shipped", "PRODUCT_SHIPPED", 2)
Created  == [Blank("created", "ORDER_CREATED", 2) EXCEPT !.order_id = o1,
                !.items = <<[product_id |-> p1, zone_id |-> z1, quantity |-> 2]>>]

MCEvents   == {Received, Shipped, Created}
MemberSymmetry == Permutations(Members)

MCCapacity == [z \in {z1} |-> 3]
=============================================================================
