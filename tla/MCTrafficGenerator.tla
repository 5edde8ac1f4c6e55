------------------------- MODULE MCTrafficGenerator -------------------------
(***************************************************************************)
(* Finite instances of TrafficGenerator.  The code draws 8 to 28 units to  *)
(* receive, ships from positions of 8 and more, and so on; the instances   *)
(* keep the order of these thresholds and scale them down.                 *)
(***************************************************************************)
EXTENDS TrafficGenerator

CONSTANTS p1, p2, z1, z2, s1

MCZoneOrder == IF Cardinality(Zones) = 1 THEN <<z1>> ELSE <<z1, z2>>
MCCapacity  == [z \in ZoneIds |-> IF z = z1 THEN 4 ELSE 3]
MCEventIds  == 1 .. MaxEvents
MCMinimum   == [o \in Sized |-> IF o \in {"move", "order"} THEN 2 ELSE 1]
MCSizes     == [o \in Sized |-> CASE o = "receive" -> {3}
                                  [] o = "order" -> {1, 2}
                                  [] o = "ship" -> {1, 2}
                                  [] OTHER -> {1}]
MCDeltas    == {-1, 2}
=============================================================================
