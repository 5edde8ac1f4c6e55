------------------------------ MODULE MCWmsApi ------------------------------
(***************************************************************************)
(* Finite instances of WmsApi: one client about a product, with the ids    *)
(* and times of the server, one about an order, with its own ids.          *)
(***************************************************************************)
EXTENDS WmsApi

CONSTANTS p1, z1, o1, c1, c2, q1, q2

BodyOf(type) ==
    [event_id |-> NoId, event_type |-> type, occurred_at |-> NoTime, product_id |-> NoText,
     zone_id |-> NoText, quantity |-> NoNumber, from_zone_id |-> NoText, to_zone_id |-> NoText,
     counted_quantity |-> NoNumber, order_id |-> NoText, items |-> <<>>,
     supplier_id |-> NoText, schema_version |-> "v2"]

OfProduct(type, n) ==
    [BodyOf(type) EXCEPT !.product_id = p1, !.zone_id = z1, !.quantity = n]

Receive  == OfProduct("PRODUCT_RECEIVED", 1)
Old      == [Receive EXCEPT !.schema_version = "v1"]
Future   == [Receive EXCEPT !.occurred_at = 9]
Count    == [OfProduct("INVENTORY_COUNTED", 0) EXCEPT !.counted_quantity = 2]
Ship     == OfProduct("PRODUCT_SHIPPED", 1)
Unplaced == [Receive EXCEPT !.zone_id = Blank]
NoZone   == [Ship EXCEPT !.zone_id = NoText]
TooMuch  == OfProduct("PRODUCT_RECEIVED", 99)
Undated  == [Receive EXCEPT !.occurred_at = 50]
TooLate  == [Receive EXCEPT !.occurred_at = 999]

Create   == [BodyOf("ORDER_CREATED") EXCEPT !.order_id = o1, !.event_id = 11,
                !.items = <<[product_id |-> p1, zone_id |-> z1, quantity |-> 1]>>]
Complete == [BodyOf("ORDER_COMPLETED") EXCEPT !.order_id = o1, !.event_id = 12]
Unnamed  == [Create EXCEPT !.event_id = 14]
Stock    == [Receive EXCEPT !.event_id = 13]

Two(s, t) == [c \in Clients |-> IF c = c1 THEN s ELSE t]

MCScripts ==
    {Two(<<Receive>>, <<Create, Complete>>),
     Two(<<Receive, Count>>, <<Stock>>),
     Two(<<Future>>, <<Old>>),
     Two(<<Unplaced, NoZone>>, <<TooMuch>>),
     Two(<<Undated, TooLate>>, <<Unnamed, Complete>>)}

MCGivenIds    == {11, 12, 13, 14}
MCEventIds    == 1 .. 8 \cup MCGivenIds
MCAvroInts    == -9 .. 9
MCAvroLongs   == -99 .. 99
MCDates       == MCAvroLongs \ {50}
MCPartitionOf == [key \in {p1, o1, Blank} \cup MCEventIds |->
                     IF key \in {p1, Blank} THEN q1 ELSE IF key = o1 THEN q2
                     ELSE IF key % 2 = 0 THEN q1 ELSE q2]
MCCapacity    == [z \in {z1} |-> 3]
=============================================================================
