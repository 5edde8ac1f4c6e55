---------------------------- MODULE MCWarehouse -----------------------------
(***************************************************************************)
(* A finite instance of Warehouse: a manual and a live zone with their     *)
(* capacities scaled down, two days of two hours.                          *)
(***************************************************************************)
EXTENDS Warehouse

CONSTANTS p1, manual, live

Received(id, z, ts) ==
    [event_id |-> id, event_type |-> "PRODUCT_RECEIVED", occurred_at |-> ts, product_id |-> p1,
     zone_id |-> z, quantity |-> 2, from_zone_id |-> NoText, to_zone_id |-> NoText,
     counted_quantity |-> -1, order_id |-> NoText, items |-> <<>>, supplier_id |-> NoText]

Moved == [Received("moved", NoText, 5) EXCEPT !.event_type = "PRODUCT_MOVED",
             !.from_zone_id = manual, !.to_zone_id = live]

MCEvents == {Received("received", manual, 1), Received("live", live, 4), Moved}

MCManualZones    == <<manual>>
MCLiveZones      == <<live>>
MCManualCapacity == [z \in {manual} |-> 2]
MCFirstCapacity  == [z \in {live} |-> 1]
MCLiveCapacity   == [z \in {live} |-> 3]
MCCapacity       == [z \in {manual, live} |-> IF z = live THEN 3 ELSE 2]
=============================================================================
