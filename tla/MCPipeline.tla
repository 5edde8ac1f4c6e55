----------------------------- MODULE MCPipeline -----------------------------
(***************************************************************************)
(* Finite instances of Pipeline, with the generator's thresholds scaled    *)
(* down as in MCTrafficGenerator.                                          *)
(***************************************************************************)
EXTENDS Pipeline

CONSTANTS p1, p2, z1, z2, s1, q1, q2

MCZoneOrder   == IF Cardinality(Zones) = 1 THEN <<z1>> ELSE <<z1, z2>>
MCEventIds    == 1 .. MaxEvents
MCPartitionOf == [key \in Products \cup OrderIds |->
                    IF key = p1 \/ q2 \notin Partitions THEN q1 ELSE q2]
Operations    == {"receive", "ship", "move", "reserve", "release", "order"}
MCMinimum     == [o \in Operations |-> IF o \in {"move", "order"} THEN 2 ELSE 1]
MCSizes       == [o \in Operations |-> CASE o = "receive" -> {3}
                                         [] o = "order" -> {1, 2}
                                         [] OTHER -> {1}]
SmallSizes    == [MCSizes EXCEPT !["order"] = {1}]
MCDeltas      == {-1, 2}
Narrow        == [z \in ZoneIds |-> IF z = z1 THEN 4 ELSE 3]
MCFirstCapacity == [z \in Zones |-> 1]
Wide          == [z \in ZoneIds |-> 12]
=============================================================================
