----------------------- MODULE TrafficGenerator_proofs -----------------------
(***************************************************************************)
(* What the traffic generator keeps true of the stock it simulates and of  *)
(* its pauses, for every list of products and zones, every capacity, every *)
(* table of sizes and every number of events, failures and requests.       *)
(*                                                                         *)
(* The argument has three parts.  An operation on positions changes one    *)
(* position, or two for a move, and is Bounded: it leaves what orders have *)
(* reserved, oversells nothing and overfills a zone only when it counts.   *)
(* A new order and a completed one move the grouped quantities of their    *)
(* items.  GenInv then says what the second of these rests on: an order    *)
(* that is open has well-formed items, the next order's number is free,    *)
(* and the stock reserved for orders is that of the open ones.             *)
(***************************************************************************)
EXTENDS TrafficGenerator, EventProcessor_proofs, TLAPS

(* The stock of a zone in any simulated stock, and what a position is.     *)
PositionRows == [available : Int, reserved_manual : Nat, reserved_order : Nat,
                 supplier_id : Suppliers \cup {NoText}]
Stocks       == [Positions -> PositionRows]
LoadOf(s, z) == SumFunctionOnSet([k \in Positions |-> Held(s[k])],
                                 {k \in Positions : k[2] = z})

LEMMA ZoneLoadIsLoadOf == ASSUME NEW z PROVE ZoneLoad(z) = LoadOf(sim, z)
BY DEF ZoneLoad, LoadOf

LEMMA PositionsFinite == IsFiniteSet(Positions) /\ Positions \subseteq Keys
<1>1. Positions \subseteq Keys
    BY ZonesAreKnown DEF Positions, Keys
<1> QED BY <1>1, KeysFinite, FS_Subset

LEMMA ZoneFinite == ASSUME NEW z PROVE IsFiniteSet({k \in Positions : k[2] = z})
<1>1. {k \in Positions : k[2] = z} \subseteq Positions
    OBVIOUS
<1> QED BY <1>1, PositionsFinite, FS_Subset

LEMMA HeldIsInt == ASSUME NEW s \in Stocks, NEW k \in Positions PROVE Held(s[k]) \in Int
<1>1. s[k] \in PositionRows
    BY DEF Stocks
<1> QED BY <1>1 DEF PositionRows, Held

LEMMA LoadIsInt == ASSUME NEW s \in Stocks, NEW z PROVE LoadOf(s, z) \in Int
<1> DEFINE f == [k \in Positions |-> Held(s[k])]
           S == {k \in Positions : k[2] = z}
<1>1. \A k \in S : f[k] \in Int
    BY HeldIsInt
<1>2. IsFiniteSet(S)
    BY ZoneFinite
<1>3. LoadOf(s, z) = SumFunctionOnSet(f, S)
    BY DEF LoadOf
<1> HIDE DEF f, S
<1> QED BY <1>1, <1>2, <1>3, SumInt

(* A change that leaves every position of a zone with what it holds leaves *)
(* the load of the zone.                                                   *)
LEMMA LoadKept ==
    ASSUME NEW s \in Stocks, NEW t \in Stocks, NEW z,
           \A k \in Positions : k[2] = z => Held(t[k]) = Held(s[k])
    PROVE  LoadOf(t, z) = LoadOf(s, z)
<1> DEFINE f == [k \in Positions |-> Held(s[k])]
           g == [k \in Positions |-> Held(t[k])]
           S == {k \in Positions : k[2] = z}
<1>1. IsFiniteSet(S)
    BY ZoneFinite
<1>2. LoadOf(s, z) = SumFunctionOnSet(f, S) /\ LoadOf(t, z) = SumFunctionOnSet(g, S)
    BY DEF LoadOf
<1>3. \A k \in S : g[k] = f[k]
    OBVIOUS
<1> HIDE DEF f, g, S
<1>4. SumFunctionOnSet(g, S) = SumFunctionOnSet(f, S)
    BY <1>1, <1>3, SumEqual
<1> QED BY <1>2, <1>4

(* A change of one position of a zone changes the load of the zone by as   *)
(* much.                                                                   *)
LEMMA LoadChanged ==
    ASSUME NEW s \in Stocks, NEW t \in Stocks, NEW k \in Positions,
           \A j \in Positions : j # k /\ j[2] = k[2] => Held(t[j]) = Held(s[j])
    PROVE  LoadOf(t, k[2]) = LoadOf(s, k[2]) + (Held(t[k]) - Held(s[k]))
<1> DEFINE f == [j \in Positions |-> Held(s[j])]
           g == [j \in Positions |-> Held(t[j])]
           d == [j \in {k} |-> Held(t[k]) - Held(s[k])]
           S == {j \in Positions : j[2] = k[2]}
<1>1. IsFiniteSet(S)
    BY ZoneFinite
<1>2. LoadOf(s, k[2]) = SumFunctionOnSet(f, S) /\ LoadOf(t, k[2]) = SumFunctionOnSet(g, S)
    BY DEF LoadOf
<1>3. Held(s[k]) \in Int /\ Held(t[k]) \in Int
    BY HeldIsInt
<1>4. \A j \in S : f[j] \in Int
    BY HeldIsInt
<1>5. \A j \in {k} : d[j] \in Int /\ g[j] = f[j] + d[j]
    BY <1>3
<1>6. \A j \in S \ {k} : g[j] = f[j]
    OBVIOUS
<1>7. d[k] = Held(t[k]) - Held(s[k]) /\ d[k] \in Int
    BY <1>3
<1>8. {k} \in SUBSET S
    OBVIOUS
<1> HIDE DEF f, g, d, S
<1>9. SumFunctionOnSet(g, S) = SumFunctionOnSet(f, S) + SumFunctionOnSet(d, {k})
    BY <1>1, <1>4, <1>5, <1>6, <1>8, SumUpdate
<1>10. SumFunctionOnSet(d, {k}) = d[k]
    BY <1>7, SumOne
<1> QED BY <1>2, <1>7, <1>9, <1>10

-----------------------------------------------------------------------------
(* The events *)

LEMMA NowIsNew ==
    ASSUME TypeOK, Len(sent) < MaxEvents
    PROVE  Now \in EventIds /\ Now \in OrderIds /\ Now \in Int /\ Now = Len(sent) + 1
<1>1. Len(sent) \in Nat
    BY LenProperties DEF TypeOK
<1>2. MaxEvents \in Nat
    BY LimitsAreNat
<1> QED BY <1>1, <1>2, NumberedEvents DEF Now

LEMMA EventOfTyped ==
    ASSUME TypeOK, Len(sent) < MaxEvents, NEW type \in EventTypes
    PROVE  EventOf(type) \in EventRecords /\ EventOf(type).event_type = type
<1>1. Now \in EventIds /\ Now \in Int
    BY NowIsNew
<1>2. <<>> \in Seq(Items)
    BY EmptySeq
<1>3. -1 \in Int /\ 0 \in Int
    OBVIOUS
<1> QED BY <1>1, <1>2, <1>3 DEF EventOf, EventRecords

LEMMA PositionEventTyped ==
    ASSUME TypeOK, Len(sent) < MaxEvents, NEW type \in EventTypes, NEW k \in Positions,
           NEW n \in Int
    PROVE  PositionEvent(type, k, n) \in EventRecords /\ PositionEvent(type, k, n).event_type = type
<1>1. EventOf(type) \in EventRecords /\ EventOf(type).event_type = type
    BY EventOfTyped
<1>2. k[1] \in Products /\ k[2] \in ZoneIds
    BY ZonesAreKnown DEF Positions
<1> QED BY <1>1, <1>2 DEF PositionEvent, EventRecords

(* What a publication leaves: the event is sent or lost, and the rest of   *)
(* the task's state keeps its type.                                        *)
LEMMA PublishTyped ==
    ASSUME TypeOK, NEW e \in EventRecords, Publish(e)
    PROVE  /\ sent' \in Seq(EventRecords)
           /\ task' \in {"sleeping", "failed"}
           /\ overplanned' \in BOOLEAN /\ collided' \in BOOLEAN /\ paused' \in BOOLEAN
           /\ {sentWhilePaused, failures, requests, restarts}' \subseteq Nat
<1>1. overplanned' \in BOOLEAN
    BY Zenon DEF TypeOK, Publish
<1>6. collided' \in BOOLEAN
    BY Zenon DEF TypeOK, Publish
<1>2. paused' \in BOOLEAN
    BY Zenon DEF TypeOK, Publish
<1>3. sent' \in Seq(EventRecords)
    <2>1. sent \in Seq(EventRecords)
        BY DEF TypeOK
    <2>2. sent' = Append(sent, e) \/ sent' = sent
        BY DEF Publish
    <2> QED BY <2>1, <2>2, AppendProperties
<1>4. task' \in {"sleeping", "failed"}
    BY DEF Publish
<1>5. {sentWhilePaused, failures, requests, restarts}' \subseteq Nat
    BY DEF TypeOK, Publish
<1> QED BY <1>1, <1>2, <1>3, <1>4, <1>5, <1>6

LEMMA PublishSends ==
    ASSUME TypeOK, NEW e \in EventRecords, Publish(e)
    PROVE  \/ /\ sent' = Append(sent, e)
              /\ Len(sent') = Len(sent) + 1 /\ sent'[Len(sent')] = e
              /\ task' = "sleeping"
           \/ sent' = sent /\ task' = "failed"
<1>1. sent \in Seq(EventRecords)
    BY DEF TypeOK
<1>2. CASE sent' = Append(sent, e) /\ task' = "sleeping"
    BY <1>1, <1>2, AppendProperties
<1>3. CASE sent' = sent /\ task' = "failed"
    BY <1>3
<1> QED BY <1>2, <1>3 DEF Publish

-----------------------------------------------------------------------------
(* The operations on positions: what is reserved for orders stays, no      *)
(* position goes (further) below zero, and a zone is loaded above its      *)
(* capacity by a count alone.                                              *)
Bounded(s, t, e) ==
    /\ \A k \in Positions : /\ t[k].reserved_order = s[k].reserved_order
                            /\ t[k].available >= 0 \/ t[k].available >= s[k].available
    /\ \A z \in Zones : \/ e.event_type = "INVENTORY_COUNTED"
                        \/ LoadOf(t, z) <= LoadOf(s, z)
                        \/ LoadOf(t, z) <= Capacity[z]

LEMMA RowOf ==
    ASSUME TypeOK, NEW k \in Positions
    PROVE  /\ sim \in Stocks /\ sim[k] \in PositionRows
           /\ sim[k].available \in Int /\ sim[k].reserved_manual \in Nat
           /\ sim[k].reserved_order \in Nat /\ sim[k].supplier_id \in Suppliers \cup {NoText}
BY DEF TypeOK, Stocks, PositionRows

LEMMA SizeTyped ==
    ASSUME NEW operation \in Sized, NEW n \in Sizes[operation]
    PROVE  n \in Nat /\ n > 0
BY SizesArePositive

LEMMA MinimumTyped ==
    ASSUME NEW operation \in Sized PROVE Minimum[operation] \in Nat /\ Minimum[operation] > 0
BY SizesArePositive

(* A step that replaces one position by one holding no more, or not more   *)
(* than its zone has room for.                                             *)
LEMMA OnePosition ==
    ASSUME TypeOK, NEW k \in Positions, NEW row \in PositionRows, NEW e,
           row.reserved_order = sim[k].reserved_order,
           row.available >= 0 \/ row.available >= sim[k].available,
           \/ e.event_type = "INVENTORY_COUNTED"
           \/ Held(row) <= Held(sim[k])
           \/ LoadOf(sim, k[2]) + (Held(row) - Held(sim[k])) <= Capacity[k[2]]
    PROVE  LET t == [sim EXCEPT ![k] = row] IN t \in Stocks /\ Bounded(sim, t, e)
<1> DEFINE t == [sim EXCEPT ![k] = row]
<1>1. sim \in Stocks
    BY RowOf
<1>2. t \in Stocks
    BY <1>1 DEF Stocks
<1>3. \A j \in Positions : /\ sim[j].reserved_order \in Nat /\ sim[j].available \in Int
    BY RowOf
<1>4. t[k] = row /\ \A j \in Positions : j # k => t[j] = sim[j]
    BY <1>1 DEF Stocks
<1>5. ASSUME NEW j \in Positions
      PROVE  /\ t[j].reserved_order = sim[j].reserved_order
             /\ t[j].available >= 0 \/ t[j].available >= sim[j].available
    <2>1. CASE j = k
        BY <2>1, <1>4
    <2>2. CASE j # k
        <3>1. t[j] = sim[j]
            BY <2>2, <1>4
        <3> QED BY <3>1, <1>3
    <2> QED BY <2>1, <2>2
<1> HIDE DEF t
<1>6. ASSUME NEW z \in Zones, e.event_type # "INVENTORY_COUNTED"
      PROVE  LoadOf(t, z) <= LoadOf(sim, z) \/ LoadOf(t, z) <= Capacity[z]
    <2>1. LoadOf(sim, z) \in Int
        BY <1>1, LoadIsInt
    <2>2. CASE z = k[2]
        <3>1. \A j \in Positions : j # k /\ j[2] = k[2] => Held(t[j]) = Held(sim[j])
            BY <1>4
        <3>2. LoadOf(t, k[2]) = LoadOf(sim, k[2]) + (Held(t[k]) - Held(sim[k]))
            BY <1>1, <1>2, <3>1, LoadChanged
        <3>3. Held(t[k]) \in Int /\ Held(sim[k]) \in Int
            BY <1>1, <1>2, HeldIsInt
        <3>4. t[k] = row
            BY <1>4
        <3>5. CASE Held(row) <= Held(sim[k])
            BY <2>1, <2>2, <3>2, <3>3, <3>4, <3>5
        <3>6. CASE LoadOf(sim, k[2]) + (Held(row) - Held(sim[k])) <= Capacity[k[2]]
            BY <2>2, <3>2, <3>4, <3>6
        <3> QED BY <1>6, <3>5, <3>6
    <2>3. CASE z # k[2]
        <3>1. \A j \in Positions : j[2] = z => Held(t[j]) = Held(sim[j])
            BY <1>4, <2>3
        <3>2. LoadOf(t, z) = LoadOf(sim, z)
            BY <1>1, <1>2, <3>1, LoadKept
        <3> QED BY <2>1, <3>2
    <2> QED BY <2>2, <2>3
<1>7. Bounded(sim, t, e)
    BY <1>5, <1>6 DEF Bounded
<1> QED BY <1>2, <1>7 DEF t

LEMMA ReceiveBounded ==
    ASSUME TypeOK, Len(sent) < MaxEvents, Receive
    PROVE  \E e \in EventRecords :
              sim' \in Stocks /\ Bounded(sim, sim', e) /\ open' = open /\ Publish(e)
<1>1. PICK p \in Products, z \in ReceivingZones, size \in Sizes["receive"], s \in Suppliers :
        LET k == <<p, z>>
            n == Smaller(size, Remaining(z))
        IN  /\ sim' = [sim EXCEPT ![k].available = @ + n, ![k].supplier_id = s]
            /\ UNCHANGED open
            /\ Publish([PositionEvent("PRODUCT_RECEIVED", k, n) EXCEPT !.supplier_id = s])
    BY DEF Receive
<1>2. z \in Zones /\ Remaining(z) > 0
    BY TableHasTheZones, ElementOfSeq, LenProperties DEF ReceivingZones
<1>3. PICK k \in Positions : k = <<p, z>>
    BY <1>2 DEF Positions
<1>4. PICK n : n = Smaller(size, Remaining(z))
    OBVIOUS
<1>5. PICK e : e = [PositionEvent("PRODUCT_RECEIVED", k, n) EXCEPT !.supplier_id = s]
    OBVIOUS
<1>6. /\ sim' = [sim EXCEPT ![k].available = @ + n, ![k].supplier_id = s]
      /\ open' = open /\ Publish(e)
    BY <1>1, <1>3, <1>4, <1>5
<1>7. k[2] = z /\ ZoneLoad(z) = LoadOf(sim, z) /\ LoadOf(sim, z) \in Int /\ Capacity[z] \in Nat
    BY <1>2, <1>3, RowOf, ZoneLoadIsLoadOf, LoadIsInt, ZonesAreKnown
<1>8. Remaining(z) = Capacity[z] - LoadOf(sim, z)
    BY <1>2, <1>7 DEF Remaining
<1>9. size \in Nat /\ size > 0
    BY SizeTyped DEF Sized
<1>10. n \in Nat /\ n <= Capacity[z] - LoadOf(sim, z)
    BY <1>2, <1>4, <1>7, <1>8, <1>9 DEF Smaller
<1>11. e \in EventRecords
    <2>1. PositionEvent("PRODUCT_RECEIVED", k, n) \in EventRecords
        <3>1. n \in Int /\ "PRODUCT_RECEIVED" \in EventTypes
            BY <1>10 DEF EventTypes, ProductEventTypes
        <3> QED BY <3>1, PositionEventTyped
    <2> QED BY <2>1, <1>5 DEF EventRecords
<1>12. PICK row : row = [sim[k] EXCEPT !.available = @ + n, !.supplier_id = s]
    OBVIOUS
<1>13. sim \in Stocks /\ sim[k] \in PositionRows
    BY RowOf
<1>14. sim' = [sim EXCEPT ![k] = row]
    BY <1>6, <1>12, <1>13 DEF Stocks, PositionRows
<1>15. /\ row \in PositionRows /\ row.reserved_order = sim[k].reserved_order
       /\ Held(row) - Held(sim[k]) = n /\ row.available >= sim[k].available
    <2>1. /\ row.available = sim[k].available + n /\ row.supplier_id = s
          /\ row.reserved_manual = sim[k].reserved_manual
          /\ row.reserved_order = sim[k].reserved_order
        BY <1>12, <1>13 DEF PositionRows
    <2>2. /\ sim[k].available \in Int /\ sim[k].reserved_manual \in Nat
          /\ sim[k].reserved_order \in Nat
        BY RowOf
    <2>3. row \in PositionRows
        <3>1. row = [available |-> sim[k].available + n,
                     reserved_manual |-> sim[k].reserved_manual,
                     reserved_order |-> sim[k].reserved_order, supplier_id |-> s]
            BY <1>12, <1>13 DEF PositionRows
        <3>2. sim[k].available + n \in Int /\ s \in Suppliers \cup {NoText}
            BY <1>10, <2>2
        <3> QED BY <3>1, <3>2, <2>2 DEF PositionRows
    <2> QED BY <1>10, <2>1, <2>2, <2>3 DEF Held
<1>16. LoadOf(sim, k[2]) + (Held(row) - Held(sim[k])) <= Capacity[k[2]]
    BY <1>7, <1>10, <1>15
<1>17. sim' \in Stocks /\ Bounded(sim, sim', e)
    BY <1>14, <1>15, <1>16, OnePosition
<1> QED BY <1>6, <1>11, <1>17

LEMMA ShipBounded ==
    ASSUME TypeOK, Len(sent) < MaxEvents, Ship
    PROVE  \E e \in EventRecords :
              sim' \in Stocks /\ Bounded(sim, sim', e) /\ open' = open /\ Publish(e)
<1>1. PICK k \in PickAvailable("ship"), n \in Sizes["ship"] :
        /\ n <= sim[k].available
        /\ sim' = [sim EXCEPT ![k].available = @ - n]
        /\ UNCHANGED open
        /\ Publish(PositionEvent("PRODUCT_SHIPPED", k, n))
    BY DEF Ship
<1>2. k \in Positions /\ n \in Nat
    BY SizeTyped DEF PickAvailable, Sized
<1>3. sim \in Stocks /\ sim[k] \in PositionRows
    BY <1>2, RowOf
<1>4. PICK row : row = [sim[k] EXCEPT !.available = @ - n]
    OBVIOUS
<1>5. sim' = [sim EXCEPT ![k] = row]
    BY <1>1, <1>2, <1>3, <1>4 DEF Stocks
<1>6. /\ row \in PositionRows /\ row.reserved_order = sim[k].reserved_order
      /\ row.available >= 0 /\ Held(row) <= Held(sim[k])
    <2>1. /\ sim[k].available \in Int /\ sim[k].reserved_manual \in Nat
          /\ sim[k].reserved_order \in Nat /\ n \in Nat
        BY <1>2, <1>3 DEF PositionRows
    <2>2. /\ row.available = sim[k].available - n
          /\ row.reserved_manual = sim[k].reserved_manual
          /\ row.reserved_order = sim[k].reserved_order
        BY <1>3, <1>4 DEF PositionRows
    <2>3. n <= sim[k].available
        BY <1>1
    <2>4. row \in PositionRows
        BY <1>3, <1>4, <2>1 DEF PositionRows
    <2>5. Held(row) = Held(sim[k]) - n /\ Held(sim[k]) \in Int
        BY <2>1, <2>2 DEF Held
    <2> QED BY <2>1, <2>2, <2>3, <2>4, <2>5
<1>7. PICK e : e = PositionEvent("PRODUCT_SHIPPED", k, n)
    OBVIOUS
<1>8. sim' \in Stocks /\ Bounded(sim, sim', e)
    BY <1>2, <1>5, <1>6, OnePosition
<1>9. e \in EventRecords
    BY <1>2, <1>7, PositionEventTyped DEF EventTypes, ProductEventTypes
<1>10. Publish(e)
    BY <1>1, <1>7
<1> QED BY <1>1, <1>8, <1>9, <1>10

LEMMA ReserveBounded ==
    ASSUME TypeOK, Len(sent) < MaxEvents, Reserve
    PROVE  \E e \in EventRecords :
              sim' \in Stocks /\ Bounded(sim, sim', e) /\ open' = open /\ Publish(e)
<1>1. PICK k \in PickAvailable("reserve"), n \in Sizes["reserve"] :
        /\ n <= sim[k].available
        /\ sim' = [sim EXCEPT ![k].available = @ - n, ![k].reserved_manual = @ + n]
        /\ UNCHANGED open
        /\ Publish(PositionEvent("PRODUCT_RESERVED", k, n))
    BY DEF Reserve
<1>2. k \in Positions /\ n \in Nat
    BY SizeTyped DEF PickAvailable, Sized
<1>3. sim \in Stocks /\ sim[k] \in PositionRows
    BY <1>2, RowOf
<1>4. PICK row : row = [sim[k] EXCEPT !.available = @ - n, !.reserved_manual = @ + n]
    OBVIOUS
<1>5. sim' = [sim EXCEPT ![k] = row]
    BY <1>1, <1>2, <1>3, <1>4 DEF Stocks, PositionRows
<1>6. /\ row \in PositionRows /\ row.reserved_order = sim[k].reserved_order
      /\ row.available >= 0 /\ Held(row) <= Held(sim[k])
    <2>1. /\ row.available = sim[k].available - n
          /\ row.reserved_manual = sim[k].reserved_manual + n
          /\ row.reserved_order = sim[k].reserved_order
        BY <1>3, <1>4 DEF PositionRows
    <2>2. /\ sim[k].available \in Int /\ sim[k].reserved_manual \in Nat
          /\ sim[k].reserved_order \in Nat /\ sim[k].supplier_id \in Suppliers \cup {NoText}
        BY <1>2, RowOf
    <2>3. row \in PositionRows
        <3>1. row = [available |-> sim[k].available - n,
                     reserved_manual |-> sim[k].reserved_manual + n,
                     reserved_order |-> sim[k].reserved_order,
                     supplier_id |-> sim[k].supplier_id]
            BY <1>3, <1>4 DEF PositionRows
        <3>2. sim[k].available - n \in Int /\ sim[k].reserved_manual + n \in Nat
            BY <1>1, <1>2, <2>2
        <3> QED BY <3>1, <3>2, <2>2 DEF PositionRows
    <2> QED BY <1>1, <1>2, <2>1, <2>2, <2>3 DEF Held
<1>7. PICK e : e = PositionEvent("PRODUCT_RESERVED", k, n)
    OBVIOUS
<1>8. sim' \in Stocks /\ Bounded(sim, sim', e)
    BY <1>2, <1>5, <1>6, OnePosition
<1>9. e \in EventRecords
    BY <1>2, <1>7, PositionEventTyped DEF EventTypes, ProductEventTypes
<1>10. Publish(e)
    BY <1>1, <1>7
<1> QED BY <1>1, <1>8, <1>9, <1>10

LEMMA ReleaseBounded ==
    ASSUME TypeOK, Len(sent) < MaxEvents, Release
    PROVE  \E e \in EventRecords :
              sim' \in Stocks /\ Bounded(sim, sim', e) /\ open' = open /\ Publish(e)
<1>1. PICK k \in PickReserved, n \in Sizes["release"] :
        /\ n <= sim[k].reserved_manual
        /\ sim' = [sim EXCEPT ![k].available = @ + n, ![k].reserved_manual = @ - n]
        /\ UNCHANGED open
        /\ Publish(PositionEvent("PRODUCT_RELEASED", k, n))
    BY DEF Release
<1>2. k \in Positions /\ n \in Nat
    BY SizeTyped DEF PickReserved, Sized
<1>3. sim \in Stocks /\ sim[k] \in PositionRows
    BY <1>2, RowOf
<1>4. PICK row : row = [sim[k] EXCEPT !.available = @ + n, !.reserved_manual = @ - n]
    OBVIOUS
<1>5. sim' = [sim EXCEPT ![k] = row]
    BY <1>1, <1>2, <1>3, <1>4 DEF Stocks, PositionRows
<1>6. /\ row \in PositionRows /\ row.reserved_order = sim[k].reserved_order
      /\ row.available >= sim[k].available /\ Held(row) <= Held(sim[k])
    <2>1. /\ row.available = sim[k].available + n
          /\ row.reserved_manual = sim[k].reserved_manual - n
          /\ row.reserved_order = sim[k].reserved_order
        BY <1>3, <1>4 DEF PositionRows
    <2>2. /\ sim[k].available \in Int /\ sim[k].reserved_manual \in Nat
          /\ sim[k].reserved_order \in Nat /\ sim[k].supplier_id \in Suppliers \cup {NoText}
        BY <1>2, RowOf
    <2>3. row \in PositionRows
        <3>1. row = [available |-> sim[k].available + n,
                     reserved_manual |-> sim[k].reserved_manual - n,
                     reserved_order |-> sim[k].reserved_order,
                     supplier_id |-> sim[k].supplier_id]
            BY <1>3, <1>4 DEF PositionRows
        <3>2. sim[k].available + n \in Int /\ sim[k].reserved_manual - n \in Nat
            BY <1>1, <1>2, <2>2
        <3> QED BY <3>1, <3>2, <2>2 DEF PositionRows
    <2>4. row.available >= sim[k].available
        BY <1>2, <2>1, <2>2
    <2>5. Held(row) = Held(sim[k])
        BY <1>2, <2>1, <2>2 DEF Held
    <2>6. Held(sim[k]) \in Int
        BY <2>2 DEF Held
    <2> QED BY <2>1, <2>3, <2>4, <2>5, <2>6
<1>7. PICK e : e = PositionEvent("PRODUCT_RELEASED", k, n)
    OBVIOUS
<1>8. sim' \in Stocks /\ Bounded(sim, sim', e)
    BY <1>2, <1>5, <1>6, OnePosition
<1>9. e \in EventRecords
    BY <1>2, <1>7, PositionEventTyped DEF EventTypes, ProductEventTypes
<1>10. Publish(e)
    BY <1>1, <1>7
<1> QED BY <1>1, <1>8, <1>9, <1>10

LEMMA CountBounded ==
    ASSUME TypeOK, Len(sent) < MaxEvents, NEW k \in Positions, NEW n \in Nat, ApplyCount(k, n)
    PROVE  \E e \in EventRecords :
              sim' \in Stocks /\ Bounded(sim, sim', e) /\ open' = open /\ Publish(e)
<1>1. PICK e : e = [PositionEvent("INVENTORY_COUNTED", k, 0) EXCEPT !.counted_quantity = n]
    OBVIOUS
<1>2. sim' = [sim EXCEPT ![k].available = n] /\ open' = open /\ Publish(e)
    BY <1>1 DEF ApplyCount
<1>3. sim \in Stocks /\ sim[k] \in PositionRows
    BY RowOf
<1>4. PICK row : row = [sim[k] EXCEPT !.available = n]
    OBVIOUS
<1>5. sim' = [sim EXCEPT ![k] = row]
    BY <1>2, <1>3, <1>4 DEF Stocks
<1>6. /\ row \in PositionRows /\ row.reserved_order = sim[k].reserved_order
      /\ row.available >= 0
    BY <1>3, <1>4 DEF PositionRows
<1>7. e \in EventRecords /\ e.event_type = "INVENTORY_COUNTED"
    <2>1. /\ PositionEvent("INVENTORY_COUNTED", k, 0) \in EventRecords
          /\ PositionEvent("INVENTORY_COUNTED", k, 0).event_type = "INVENTORY_COUNTED"
        BY PositionEventTyped DEF EventTypes, ProductEventTypes
    <2> QED BY <2>1, <1>1 DEF EventRecords
<1>8. sim' \in Stocks /\ Bounded(sim, sim', e)
    BY <1>5, <1>6, <1>7, OnePosition
<1> QED BY <1>2, <1>7, <1>8

LEMMA HeldShift ==
    ASSUME NEW old \in PositionRows, NEW new, NEW n \in Int,
           new.available = old.available + n, new.reserved_manual = old.reserved_manual,
           new.reserved_order = old.reserved_order
    PROVE  Held(new) = Held(old) + n
<1>1. PICK a \in Int : a = old.available
    BY DEF PositionRows
<1>2. PICK b \in Int : b = old.reserved_manual
    BY DEF PositionRows
<1>3. PICK c \in Int : c = old.reserved_order
    BY DEF PositionRows
<1>4. Held(old) = a + b + c
    BY <1>1, <1>2, <1>3 DEF Held
<1>5. Held(new) = (a + n) + b + c
    BY <1>1, <1>2, <1>3 DEF Held
<1>6. (a + n) + b + c = (a + b + c) + n
    OBVIOUS
<1> QED BY <1>4, <1>5, <1>6

(* A move shrinks one position and lets another grow, in another zone.     *)
LEMMA MoveBounded ==
    ASSUME TypeOK, Len(sent) < MaxEvents, Move
    PROVE  \E e \in EventRecords :
              sim' \in Stocks /\ Bounded(sim, sim', e) /\ open' = open /\ Publish(e)
<1>1. PICK k \in PickAvailable("move"), to \in Zones, size \in Sizes["move"] :
        LET target == <<k[1], to>>
            n == Smaller(Smaller(size, sim[k].available), Remaining(to))
        IN  /\ to # k[2] /\ n > 0
            /\ sim' = [sim EXCEPT ![k].available = @ - n,
                                  ![target].available = @ + n,
                                  ![target].supplier_id =
                                        IF @ = NoText THEN sim[k].supplier_id ELSE @]
            /\ UNCHANGED open
            /\ Publish(MoveEvent(k[1], k[2], to, n))
    BY DEF Move
<1>2. PICK target : target = <<k[1], to>>
    OBVIOUS
<1>3. PICK n : n = Smaller(Smaller(size, sim[k].available), Remaining(to))
    OBVIOUS
<1>4. PICK e : e = MoveEvent(k[1], k[2], to, n)
    OBVIOUS
<1>5. /\ to # k[2] /\ n > 0
      /\ sim' = [sim EXCEPT ![k].available = @ - n,
                            ![target].available = @ + n,
                            ![target].supplier_id =
                                  IF @ = NoText THEN sim[k].supplier_id ELSE @]
      /\ open' = open /\ Publish(e)
    BY <1>1, <1>2, <1>3, <1>4
<1>6. /\ k \in Positions /\ target \in Positions /\ target # k /\ target[2] = to
      /\ k[1] \in Products /\ k[2] \in Zones
    BY <1>2, <1>5 DEF PickAvailable, Positions
<1>7. /\ sim \in Stocks /\ sim[k] \in PositionRows /\ sim[target] \in PositionRows
    BY <1>6, RowOf
<1>8. /\ sim[k].available \in Int /\ sim[k].reserved_manual \in Nat
      /\ sim[k].reserved_order \in Nat /\ sim[k].supplier_id \in Suppliers \cup {NoText}
      /\ sim[target].available \in Int /\ sim[target].reserved_manual \in Nat
      /\ sim[target].reserved_order \in Nat
      /\ sim[target].supplier_id \in Suppliers \cup {NoText}
    BY <1>6, RowOf
<1>9. ZoneLoad(to) = LoadOf(sim, to) /\ LoadOf(sim, to) \in Int /\ Capacity[to] \in Nat
    BY <1>7, ZoneLoadIsLoadOf, LoadIsInt, ZonesAreKnown
<1>10. /\ n \in Int /\ n <= sim[k].available /\ n <= Capacity[to] - LoadOf(sim, to)
    <2>1. size \in Nat
        BY SizeTyped DEF Sized
    <2>2. Remaining(to) \in Int
        BY <1>9 DEF Remaining
    <2>3. n \in Int /\ n <= sim[k].available /\ n <= Remaining(to)
        BY <1>3, <1>8, <2>1, <2>2 DEF Smaller
    <2>4. Remaining(to) > 0
        BY <1>5, <2>2, <2>3
    <2>5. Remaining(to) = Capacity[to] - LoadOf(sim, to)
        BY <1>9, <2>4 DEF Remaining
    <2> QED BY <2>3, <2>5
<1>11. PICK from_row : from_row = [available |-> sim[k].available - n,
                                   reserved_manual |-> sim[k].reserved_manual,
                                   reserved_order |-> sim[k].reserved_order,
                                   supplier_id |-> sim[k].supplier_id]
    OBVIOUS
<1>12. PICK supplier : supplier = IF sim[target].supplier_id = NoText
                                  THEN sim[k].supplier_id ELSE sim[target].supplier_id
    OBVIOUS
<1>13. PICK to_row : to_row = [available |-> sim[target].available + n,
                               reserved_manual |-> sim[target].reserved_manual,
                               reserved_order |-> sim[target].reserved_order,
                               supplier_id |-> supplier]
    OBVIOUS
<1>14. from_row \in PositionRows /\ to_row \in PositionRows
    <2>1. /\ sim[k].available - n \in Int /\ sim[target].available + n \in Int
          /\ supplier \in Suppliers \cup {NoText}
        BY <1>8, <1>10, <1>12
    <2> QED BY <1>8, <1>11, <1>13, <2>1 DEF PositionRows
<1>15. [sim[k] EXCEPT !.available = @ - n] = from_row
    BY <1>7, <1>11 DEF PositionRows
<1>16. [sim[target] EXCEPT !.available = @ + n, !.supplier_id = supplier] = to_row
    <2>1. PICK old : old = sim[target]
        OBVIOUS
    <2>2. old \in PositionRows
        BY <1>7, <2>1
    <2>3. PICK new : new = [old EXCEPT !.available = @ + n, !.supplier_id = supplier]
        OBVIOUS
    <2>4. new = [available |-> old.available + n, reserved_manual |-> old.reserved_manual,
                 reserved_order |-> old.reserved_order, supplier_id |-> supplier]
        BY <2>2, <2>3 DEF PositionRows
    <2> QED BY <1>13, <2>1, <2>3, <2>4
<1>17. sim' = [sim EXCEPT ![k] = from_row, ![target] = to_row]
    <2>1. sim' = [sim EXCEPT ![k] = [sim[k] EXCEPT !.available = @ - n],
                             ![target] = [sim[target] EXCEPT !.available = @ + n,
                                                             !.supplier_id = supplier]]
        BY <1>5, <1>6, <1>7, <1>12 DEF Stocks, PositionRows
    <2> QED BY <1>15, <1>16, <2>1
<1>18. /\ sim' \in Stocks /\ sim'[k] = from_row /\ sim'[target] = to_row
       /\ \A j \in Positions : j # k /\ j # target => sim'[j] = sim[j]
    BY <1>6, <1>7, <1>14, <1>17 DEF Stocks
<1>19. /\ Held(sim[k]) \in Int /\ Held(sim[target]) \in Int
       /\ Held(from_row) = Held(sim[k]) - n /\ Held(to_row) = Held(sim[target]) + n
    <2>1. Held(sim[k]) \in Int /\ Held(sim[target]) \in Int
        BY <1>6, <1>7, HeldIsInt
    <2>2. /\ from_row.available = sim[k].available + (-n)
          /\ from_row.reserved_manual = sim[k].reserved_manual
          /\ from_row.reserved_order = sim[k].reserved_order
        BY <1>8, <1>10, <1>11
    <2>3. /\ to_row.available = sim[target].available + n
          /\ to_row.reserved_manual = sim[target].reserved_manual
          /\ to_row.reserved_order = sim[target].reserved_order
        BY <1>13
    <2>4. Held(from_row) = Held(sim[k]) + (-n)
        <3>1. -n \in Int
            BY <1>10
        <3> QED BY <1>7, <2>2, <3>1, HeldShift
    <2>5. Held(to_row) = Held(sim[target]) + n
        BY <1>7, <1>10, <2>3, HeldShift
    <2> QED BY <1>10, <2>1, <2>4, <2>5
<1>20. ASSUME NEW j \in Positions
       PROVE  /\ sim'[j].reserved_order = sim[j].reserved_order
              /\ sim'[j].available >= 0 \/ sim'[j].available >= sim[j].available
    <2>1. CASE j = k
        <3>1. from_row.available = sim[k].available - n
              /\ from_row.reserved_order = sim[k].reserved_order
            BY <1>11
        <3> QED BY <2>1, <3>1, <1>8, <1>10, <1>18
    <2>2. CASE j = target
        <3>1. to_row.available = sim[target].available + n
              /\ to_row.reserved_order = sim[target].reserved_order
            BY <1>13
        <3> QED BY <2>2, <3>1, <1>5, <1>8, <1>10, <1>18
    <2>3. CASE j # k /\ j # target
        BY <2>3, <1>18, RowOf
    <2> QED BY <2>1, <2>2, <2>3
<1>21. ASSUME NEW z \in Zones
       PROVE  LoadOf(sim', z) <= LoadOf(sim, z) \/ LoadOf(sim', z) <= Capacity[z]
    <2>1. PICK t : t = sim'
        OBVIOUS
    <2>2. LoadOf(sim, z) \in Int
        BY <1>7, LoadIsInt
    <2>3. t \in Stocks /\ t[k] = from_row /\ t[target] = to_row
          /\ \A j \in Positions : j # k /\ j # target => t[j] = sim[j]
        BY <1>18, <2>1
    <2>4. CASE z = to
        <3>1. \A j \in Positions : j # target /\ j[2] = target[2] => Held(t[j]) = Held(sim[j])
            BY <1>5, <1>6, <2>3
        <3>2. LoadOf(t, target[2]) = LoadOf(sim, target[2]) + (Held(t[target]) - Held(sim[target]))
            BY <1>6, <1>7, <2>3, <3>1, LoadChanged
        <3>3. LoadOf(t, z) = LoadOf(sim, z) + n
            BY <1>6, <1>10, <1>19, <2>2, <2>3, <2>4, <3>2
        <3> QED BY <1>9, <1>10, <2>1, <2>4, <3>3
    <2>5. CASE z = k[2]
        <3>1. \A j \in Positions : j # k /\ j[2] = k[2] => Held(t[j]) = Held(sim[j])
            BY <1>5, <1>6, <2>3
        <3>2. LoadOf(t, k[2]) = LoadOf(sim, k[2]) + (Held(t[k]) - Held(sim[k]))
            BY <1>6, <1>7, <2>3, <3>1, LoadChanged
        <3>3. LoadOf(t, z) = LoadOf(sim, z) - n
            BY <1>10, <1>19, <2>2, <2>3, <2>5, <3>2
        <3> QED BY <1>5, <1>10, <2>1, <2>2, <3>3
    <2>6. CASE z # to /\ z # k[2]
        <3>1. \A j \in Positions : j[2] = z => Held(t[j]) = Held(sim[j])
            BY <1>6, <2>3, <2>6
        <3>2. LoadOf(t, z) = LoadOf(sim, z)
            BY <1>7, <2>3, <3>1, LoadKept
        <3> QED BY <2>1, <2>2, <3>2
    <2> QED BY <2>4, <2>5, <2>6
<1>22. Bounded(sim, sim', e)
    BY <1>20, <1>21 DEF Bounded
<1>23. e \in EventRecords
    <2>1. EventOf("PRODUCT_MOVED") \in EventRecords
        BY EventOfTyped DEF EventTypes
    <2>2. k[2] \in ZoneIds /\ to \in ZoneIds
        BY <1>6, ZonesAreKnown
    <2> QED BY <1>4, <1>6, <1>10, <2>1, <2>2 DEF MoveEvent, EventRecords
<1> QED BY <1>5, <1>18, <1>22, <1>23

LEMMA LocalBounded ==
    ASSUME TypeOK, Len(sent) < MaxEvents,
           Receive \/ Ship \/ Move \/ Reserve \/ Release \/ Count \/ CountAsEmpty
    PROVE  \E e \in EventRecords :
              sim' \in Stocks /\ Bounded(sim, sim', e) /\ open' = open /\ Publish(e)
<1>1. CASE Count
    <2>1. PICK k \in Positions, delta \in CountDeltas : ApplyCount(k, Counted(k, delta))
        BY <1>1 DEF Count
    <2>2. Counted(k, delta) \in Nat
        <3>1. sim[k].available \in Int /\ delta \in Int
            BY RowOf, SizesArePositive
        <3> QED BY <3>1 DEF Counted
    <2> QED BY <2>1, <2>2, CountBounded
<1>2. CASE CountAsEmpty
    <2>1. PICK k : k = <<FirstProduct, ZoneOrder[1]>>
        OBVIOUS
    <2>2. k \in Positions
        <3>1. ZoneOrder \in Seq(Zones) /\ ZoneOrder # <<>>
            BY TableHasTheZones
        <3>2. ZoneOrder[1] \in Zones
            BY <3>1, ElementOfSeq, EmptySeq, LenProperties
        <3> QED BY <2>1, <3>2, ListIsNotEmpty DEF Positions
    <2>3. ApplyCount(k, 0)
        BY <1>2, <2>1 DEF CountAsEmpty
    <2> QED BY <2>2, <2>3, CountBounded
<1> QED BY <1>1, <1>2, ReceiveBounded, ShipBounded, MoveBounded, ReserveBounded, ReleaseBounded

-----------------------------------------------------------------------------
(* Orders *)

(* What open orders reserve at a position.                                 *)
ReservedBy(orders, k) ==
    SumFunctionOnSet([o \in OrderIds |-> GroupedQuantity(orders[o], k)], OrderIds)

LEMMA OrderIdsFinite == IsFiniteSet(OrderIds) /\ OrderIds = 1 .. MaxEvents
<1>1. MaxEvents \in Nat
    BY LimitsAreNat
<1> QED BY <1>1, NumberedEvents, FS_Interval

LEMMA NothingGrouped == ASSUME NEW k PROVE GroupedQuantity(<<>>, k) = 0
<1> DEFINE q == [i \in DOMAIN <<>> |-> <<>>[i].quantity]
           D == {i \in DOMAIN <<>> : <<(<<>>[i]).product_id, (<<>>[i]).zone_id>> = k}
<1>1. D = {}
    BY EmptySeq
<1>2. SumFunctionOnSet(q, {}) = 0
    BY SumEmpty
<1>3. GroupedQuantity(<<>>, k) = SumFunctionOnSet(q, D)
    BY DEF GroupedQuantity
<1> QED BY <1>1, <1>2, <1>3

(* Items that name a position once at most ask for no more there than one  *)
(* of the lines does.                                                      *)
LEMMA SingleLine ==
    ASSUME NEW items \in Seq(Items), ItemsWellFormed(items), NEW k, ~DoubleLine(items, k),
           NEW available \in Int, available >= 0,
           \A i \in DOMAIN items : k = <<items[i].product_id, items[i].zone_id>>
                                        => items[i].quantity <= available
    PROVE  GroupedQuantity(items, k) <= available
<1> DEFINE q == [i \in DOMAIN items |-> items[i].quantity]
           D == {i \in DOMAIN items : <<items[i].product_id, items[i].zone_id>> = k}
<1>1. GroupedQuantity(items, k) = SumFunctionOnSet(q, D)
    BY DEF GroupedQuantity
<1>2. \A i, j \in D : i = j
    BY DEF DoubleLine
<1>3. CASE D = {}
    <2>1. SumFunctionOnSet(q, {}) = 0
        BY SumEmpty
    <2> QED BY <1>1, <1>3, <2>1
<1>4. CASE D # {}
    <2>1. PICK i \in D : TRUE
        BY <1>4
    <2>2. D = {i}
        BY <1>2, <2>1
    <2>3. q[i] = items[i].quantity /\ q[i] \in Int /\ q[i] <= available
        <3>1. DOMAIN items = 1 .. Len(items)
            BY LenProperties
        <3>2. items[i] \in Items
            BY <2>1, <3>1, ElementOfSeq
        <3> QED BY <2>1, <3>2 DEF Items
    <2> HIDE DEF q, D
    <2>4. SumFunctionOnSet(q, {i}) = q[i]
        BY <2>3, SumOne
    <2> QED BY <1>1, <2>2, <2>3, <2>4
<1> QED BY <1>3, <1>4

(* The items of a new order are drawn from lines the stock has.            *)
LEMMA DrawnItems ==
    ASSUME TypeOK, NEW items \in OrderItems
    PROVE  /\ items \in Seq(Items) /\ ItemsWellFormed(items)
           /\ \A i \in DOMAIN items :
                 LET k == <<items[i].product_id, items[i].zone_id>>
                 IN  k \in Positions /\ items[i].quantity <= sim[k].available
<1>1. PICK n \in 1 .. MaxLines : items \in Injection(1 .. n, Lines)
    BY DEF OrderItems
<1>2. items \in [1 .. n -> Lines]
    BY <1>1 DEF Injection
<1>3. n \in Nat /\ n > 0
    BY SizesArePositive
<1>4. ASSUME NEW line \in Lines
      PROVE  /\ line \in Items /\ line.product_id # NoText /\ line.zone_id # NoText
             /\ line.quantity > 0 /\ <<line.product_id, line.zone_id>> \in Positions
             /\ line.quantity <= sim[<<line.product_id, line.zone_id>>].available
    <2>1. PICK kn \in PickAvailable("order") \X Sizes["order"] :
            /\ kn[2] <= sim[kn[1]].available
            /\ line = [product_id |-> kn[1][1], zone_id |-> kn[1][2], quantity |-> kn[2]]
        BY <1>4 DEF Lines
    <2>2. PICK k \in Positions, m \in Sizes["order"] : kn[1] = k /\ kn[2] = m
        BY <2>1 DEF PickAvailable
    <2>3. m \in Nat /\ m > 0
        BY SizeTyped DEF Sized
    <2>4. /\ k[1] \in Products /\ k[2] \in Zones /\ k[2] \in ZoneIds /\ k = <<k[1], k[2]>>
          /\ k[1] # NoText /\ k[2] # NoText
        BY ZonesAreKnown, NoTextIsNoId DEF Positions
    <2>5. line.product_id = k[1] /\ line.zone_id = k[2] /\ line.quantity = m /\ line \in Items
        BY <2>1, <2>2, <2>3, <2>4 DEF Items
    <2>6. m <= sim[k].available /\ <<line.product_id, line.zone_id>> = k
        BY <2>1, <2>2, <2>4, <2>5
    <2> QED BY <2>3, <2>4, <2>5, <2>6
<1>5. items \in Seq(Items) /\ DOMAIN items = 1 .. n
    <2>1. items \in [1 .. n -> Items]
        BY <1>2, <1>4
    <2>2. n \in Nat /\ DOMAIN items = 1 .. n
        BY <1>3, <2>1
    <2>3. Seq(Items) = UNION {[1 .. m -> Items] : m \in Nat}
        BY SeqDef
    <2> QED BY <2>1, <2>2, <2>3
<1>6. items # <<>>
    BY <1>3, <1>5, EmptySeq
<1>7. \A i \in DOMAIN items : items[i] \in Lines
    BY <1>2, <1>5
<1>8. ItemsWellFormed(items)
    BY <1>4, <1>6, <1>7 DEF ItemsWellFormed
<1> QED BY <1>4, <1>5, <1>7, <1>8

(* A change after which no position holds more loads no zone more.         *)
LEMMA LoadLowered ==
    ASSUME NEW s \in Stocks, NEW t \in Stocks, NEW z,
           \A k \in Positions : Held(t[k]) <= Held(s[k])
    PROVE  LoadOf(t, z) <= LoadOf(s, z)
<1> DEFINE f == [k \in Positions |-> Held(t[k])]
           d == [k \in Positions |-> Held(s[k]) - Held(t[k])]
           g == [k \in Positions |-> Held(s[k])]
           S == {k \in Positions : k[2] = z}
<1>1. IsFiniteSet(S)
    BY ZoneFinite
<1>2. LoadOf(s, z) = SumFunctionOnSet(g, S) /\ LoadOf(t, z) = SumFunctionOnSet(f, S)
    BY DEF LoadOf
<1>3. \A k \in Positions : Held(s[k]) \in Int /\ Held(t[k]) \in Int
    BY HeldIsInt
<1>4. \A k \in S : f[k] \in Int /\ d[k] \in Int /\ g[k] = f[k] + d[k]
    BY <1>3
<1>5. \A k \in S : d[k] \in Nat
    BY <1>3
<1> HIDE DEF f, d, g, S
<1>6. SumFunctionOnSet(g, S) = SumFunctionOnSet(f, S) + SumFunctionOnSet(d, S)
    BY <1>1, <1>4, SumAdd
<1>7. SumFunctionOnSet(d, S) \in Nat
    BY <1>1, <1>5, SumNat
<1>8. LoadOf(t, z) \in Int
    BY LoadIsInt
<1> QED BY <1>2, <1>6, <1>7, <1>8

-----------------------------------------------------------------------------
(* The inductive invariant: the items of open orders are well-formed, no   *)
(* order has the next event's number while the task is alive, and what     *)
(* positions have reserved for orders is what the open orders ask for,     *)
(* or more once two orders had the same id.                                *)
OpenWellFormed == \A o \in OrderIds : open[o] = <<>> \/ ItemsWellFormed(open[o])
NextIsUnused   == task # "failed" /\ ~collided => \A o \in OrderIds : o > Len(sent) => open[o] = <<>>

GenInv == TypeOK /\ OpenWellFormed /\ NextIsUnused /\ OpenOrdersAreReserved

LEMMA OpenGrouped ==
    ASSUME NEW orders \in [OrderIds -> Seq(Items)], NEW o \in OrderIds, NEW k,
           orders[o] = <<>> \/ ItemsWellFormed(orders[o])
    PROVE  GroupedQuantity(orders[o], k) \in Nat
<1>1. CASE orders[o] = <<>>
    BY <1>1, NothingGrouped
<1>2. CASE ItemsWellFormed(orders[o])
    BY <1>2, GroupedItems
<1> QED BY <1>1, <1>2

(* Replacing one order changes what the open orders ask for by as much,    *)
(* and an order asks for no more than all of them.                         *)
LEMMA OneOrder ==
    ASSUME NEW old \in [OrderIds -> Seq(Items)], NEW k, NEW o \in OrderIds, NEW items,
           \A p \in OrderIds : GroupedQuantity(old[p], k) \in Nat,
           GroupedQuantity(items, k) \in Nat
    PROVE  LET new == [old EXCEPT ![o] = items]
           IN  /\ ReservedBy(new, k) = ReservedBy(old, k) + (GroupedQuantity(items, k)
                                                               - GroupedQuantity(old[o], k))
               /\ ReservedBy(old, k) \in Nat
               /\ GroupedQuantity(old[o], k) <= ReservedBy(old, k)
<1> DEFINE new == [old EXCEPT ![o] = items]
           f == [p \in OrderIds |-> GroupedQuantity(old[p], k)]
           g == [p \in OrderIds |-> GroupedQuantity(new[p], k)]
           d == [p \in {o} |-> GroupedQuantity(items, k) - GroupedQuantity(old[o], k)]
<1>1. IsFiniteSet(OrderIds)
    BY OrderIdsFinite
<1>2. ReservedBy(new, k) = SumFunctionOnSet(g, OrderIds)
      /\ ReservedBy(old, k) = SumFunctionOnSet(f, OrderIds)
    BY DEF ReservedBy
<1>3. \A p \in OrderIds : f[p] \in Int /\ f[p] \in Nat
    OBVIOUS
<1>4. f[o] = GroupedQuantity(old[o], k) /\ g[o] = GroupedQuantity(items, k)
    OBVIOUS
<1>5. \A p \in {o} : d[p] \in Int /\ g[p] = f[p] + d[p]
    BY <1>4
<1>6. \A p \in OrderIds \ {o} : g[p] = f[p]
    OBVIOUS
<1>7. d[o] = GroupedQuantity(items, k) - GroupedQuantity(old[o], k) /\ d[o] \in Int
    OBVIOUS
<1>8. {o} \in SUBSET OrderIds
    OBVIOUS
<1> HIDE DEF f, g, d
<1>9. SumFunctionOnSet(g, OrderIds) = SumFunctionOnSet(f, OrderIds) + SumFunctionOnSet(d, {o})
    BY <1>1, <1>3, <1>5, <1>6, <1>8, SumUpdate
<1>10. SumFunctionOnSet(d, {o}) = d[o]
    BY <1>7, SumOne
<1>11. \A p \in OrderIds : f[p] \in Nat
    BY <1>3
<1>12. SumFunctionOnSet(f, OrderIds) \in Nat
    BY <1>1, <1>11, SumNat
<1>13. f[o] <= SumFunctionOnSet(f, OrderIds)
    BY <1>1, <1>11, SumPart
<1>14. GroupedQuantity(old[o], k) <= ReservedBy(old, k)
    BY <1>2, <1>4, <1>13
<1> QED BY <1>2, <1>7, <1>9, <1>10, <1>12, <1>14

(* A new order: its lines leave the free stock for the reserved one.       *)
Created(s, t, items) ==
    \A k \in Positions :
        /\ t[k].available = s[k].available - GroupedQuantity(items, k)
        /\ t[k].reserved_manual = s[k].reserved_manual
        /\ t[k].reserved_order = s[k].reserved_order + GroupedQuantity(items, k)
        /\ Held(t[k]) = Held(s[k])

(* It is open under an id of its own, unless the id is drawn twice.        *)
Opened(items) ==
    \E o \in OrderIds : open' = [open EXCEPT ![o] = items] /\ (o # Now => collided')

LEMMA CreateOrderStep ==
    ASSUME TypeOK, Len(sent) < MaxEvents, CreateOrder
    PROVE  \E items \in OrderItems, e \in EventRecords :
              /\ items \in Seq(Items) /\ ItemsWellFormed(items)
              /\ sim' \in Stocks /\ Created(sim, sim', items) /\ Opened(items)
              /\ Publish(e)
<1>1. PICK items \in OrderItems, o \in OrderIdsDrawn :
        /\ sim' = [k \in Positions |->
                      [sim[k] EXCEPT !.available = @ - GroupedQuantity(items, k),
                                     !.reserved_order = @ + GroupedQuantity(items, k)]]
        /\ open' = [open EXCEPT ![o] = items]
        /\ Publish([EventOf("ORDER_CREATED") EXCEPT !.order_id = o, !.items = items])
    BY DEF CreateOrder
<1>2. items \in Seq(Items) /\ ItemsWellFormed(items)
    BY DrawnItems
<1>3. \A k : GroupedQuantity(items, k) \in Nat
    BY <1>2, GroupedItems
<1>4. ASSUME NEW k \in Positions
      PROVE  /\ sim'[k] \in PositionRows
             /\ sim'[k].available = sim[k].available - GroupedQuantity(items, k)
             /\ sim'[k].reserved_manual = sim[k].reserved_manual
             /\ sim'[k].reserved_order = sim[k].reserved_order + GroupedQuantity(items, k)
             /\ Held(sim'[k]) = Held(sim[k])
    <2>1. PICK n \in Nat : n = GroupedQuantity(items, k)
        BY <1>3
    <2>2. PICK old \in PositionRows : old = sim[k]
        BY RowOf
    <2>3. PICK new : new = [old EXCEPT !.available = @ - n, !.reserved_order = @ + n]
        OBVIOUS
    <2>4. sim'[k] = new
        BY <1>1, <2>1, <2>2, <2>3
    <2>5. PICK a \in Int, b \in Nat, c \in Nat, s \in Suppliers \cup {NoText} :
            old.available = a /\ old.reserved_manual = b /\ old.reserved_order = c
              /\ old.supplier_id = s
        BY <2>2 DEF PositionRows
    <2>6. new = [available |-> a - n, reserved_manual |-> b, reserved_order |-> c + n,
                 supplier_id |-> s]
        BY <2>2, <2>3, <2>5 DEF PositionRows
    <2>7. Held(old) = a + b + c /\ Held(new) = (a - n) + b + (c + n)
        BY <2>5, <2>6 DEF Held
    <2>8. a + b + c = (a - n) + b + (c + n) /\ a - n \in Int /\ c + n \in Nat
        OBVIOUS
    <2>9. new \in PositionRows
        BY <2>6, <2>8 DEF PositionRows
    <2> QED BY <2>1, <2>2, <2>4, <2>5, <2>6, <2>7, <2>8, <2>9
<1>5. sim' \in Stocks
    BY <1>1, <1>4 DEF Stocks
<1>6. Created(sim, sim', items)
    BY <1>4 DEF Created
<1>7. PICK e : e = [EventOf("ORDER_CREATED") EXCEPT !.order_id = o, !.items = items]
    OBVIOUS
<1>8. /\ e \in EventRecords /\ o \in OrderIds
      /\ e.event_type = "ORDER_CREATED" /\ e.order_id = o
    <2>1. /\ EventOf("ORDER_CREATED") \in EventRecords
          /\ EventOf("ORDER_CREATED").event_type = "ORDER_CREATED"
        BY EventOfTyped DEF EventTypes, OrderEventTypes
    <2>2. o \in OrderIds
        BY NowIsNew DEF OrderIdsDrawn
    <2> QED BY <1>2, <1>7, <2>1, <2>2 DEF EventRecords
<1>9. o # Now => collided'
    BY <1>1, <1>7, <1>8 DEF Publish
<1>10. Opened(items)
    BY <1>1, <1>8, <1>9 DEF Opened
<1> QED BY <1>1, <1>2, <1>5, <1>6, <1>7, <1>8, <1>10

(* A completed order: its lines leave the reserved stock.                  *)
Completed(s, t, items) ==
    \A k \in Positions :
        /\ t[k].available = s[k].available
        /\ t[k].reserved_order = s[k].reserved_order - GroupedQuantity(items, k)
        /\ Held(t[k]) <= Held(s[k])

LEMMA CompleteOrderStep ==
    ASSUME GenInv, Len(sent) < MaxEvents, CompleteOrder
    PROVE  \E o \in OrderIds, e \in EventRecords :
              /\ sim' \in Stocks /\ Completed(sim, sim', open[o])
              /\ open' = [open EXCEPT ![o] = <<>>]
              /\ Publish(e)
<1>1. PICK o \in OrderIds :
        /\ open[o] # <<>>
        /\ sim' = [k \in Positions |->
                      [sim[k] EXCEPT !.reserved_order = @ - GroupedQuantity(open[o], k)]]
        /\ open' = [open EXCEPT ![o] = <<>>]
        /\ Publish([EventOf("ORDER_COMPLETED") EXCEPT !.order_id = o])
    BY DEF CompleteOrder
<1>2. TypeOK /\ open \in [OrderIds -> Seq(Items)]
    BY DEF GenInv, TypeOK
<1>3. \A p \in OrderIds : \A k : GroupedQuantity(open[p], k) \in Nat
    BY <1>2, OpenGrouped DEF GenInv, OpenWellFormed
<1>4. ASSUME NEW k \in Positions
      PROVE  /\ sim'[k] \in PositionRows
             /\ sim'[k].available = sim[k].available
             /\ sim'[k].reserved_order = sim[k].reserved_order - GroupedQuantity(open[o], k)
             /\ Held(sim'[k]) <= Held(sim[k])
    <2>1. PICK n \in Nat : n = GroupedQuantity(open[o], k)
        BY <1>3
    <2>2. PICK old \in PositionRows : old = sim[k]
        BY <1>2, RowOf
    <2>3. PICK new : new = [old EXCEPT !.reserved_order = @ - n]
        OBVIOUS
    <2>4. sim'[k] = new
        BY <1>1, <2>1, <2>2, <2>3
    <2>5. PICK a \in Int, b \in Nat, c \in Nat, s \in Suppliers \cup {NoText} :
            old.available = a /\ old.reserved_manual = b /\ old.reserved_order = c
              /\ old.supplier_id = s
        BY <2>2 DEF PositionRows
    <2>6. new = [available |-> a, reserved_manual |-> b, reserved_order |-> c - n,
                 supplier_id |-> s]
        BY <2>2, <2>3, <2>5 DEF PositionRows
    <2>7. n <= c
        <3>1. \A p \in OrderIds : GroupedQuantity(open[p], k) \in Nat
            BY <1>3
        <3>2. n <= ReservedBy(open, k)
            BY <1>2, <2>1, <3>1, OneOrder
        <3>3. c >= ReservedBy(open, k)
            BY <2>2, <2>5 DEF GenInv, OpenOrdersAreReserved, ReservedBy
        <3>4. ReservedBy(open, k) \in Nat
            BY <1>2, <2>1, <3>1, OneOrder
        <3> QED BY <3>2, <3>3, <3>4
    <2>8. Held(old) = a + b + c /\ Held(new) = a + b + (c - n)
        BY <2>5, <2>6 DEF Held
    <2>9. a + b + (c - n) <= a + b + c /\ c - n \in Nat
        BY <2>7
    <2>10. new \in PositionRows
        BY <2>6, <2>9 DEF PositionRows
    <2> QED BY <2>1, <2>2, <2>4, <2>5, <2>6, <2>8, <2>9, <2>10
<1>5. sim' \in Stocks
    BY <1>1, <1>4 DEF Stocks
<1>6. Completed(sim, sim', open[o])
    BY <1>4 DEF Completed
<1>7. [EventOf("ORDER_COMPLETED") EXCEPT !.order_id = o] \in EventRecords
    <2>1. EventOf("ORDER_COMPLETED") \in EventRecords
        BY <1>2, EventOfTyped DEF EventTypes, OrderEventTypes
    <2> QED BY <2>1 DEF EventRecords
<1> QED BY <1>1, <1>5, <1>6, <1>7

LEMMA EmptyReservesNothing == ASSUME NEW k PROVE ReservedBy(NoOrders, k) = 0
<1> DEFINE f == [o \in OrderIds |-> GroupedQuantity(NoOrders[o], k)]
<1>1. IsFiniteSet(OrderIds) /\ {} \in SUBSET OrderIds
    BY OrderIdsFinite
<1>2. \A o \in OrderIds : f[o] \in Int
    BY NothingGrouped DEF NoOrders
<1>3. \A o \in OrderIds \ {} : f[o] = 0
    BY NothingGrouped DEF NoOrders
<1>4. ReservedBy(NoOrders, k) = SumFunctionOnSet(f, OrderIds)
    BY DEF ReservedBy
<1> HIDE DEF f
<1>5. SumFunctionOnSet(f, OrderIds) = SumFunctionOnSet(f, {})
    BY <1>1, <1>2, <1>3, SumSupport
<1>6. SumFunctionOnSet(f, {}) = 0
    BY SumEmpty
<1> QED BY <1>4, <1>5, <1>6

-----------------------------------------------------------------------------
(* What one operation does, whichever it is: the three cases the           *)
(* invariants and the action properties are proved from.                   *)
OperationCases(e) ==
    \/ Bounded(sim, sim', e) /\ open' = open
    \/ \E items \in OrderItems :
          /\ items \in Seq(Items) /\ ItemsWellFormed(items)
          /\ Created(sim, sim', items) /\ Opened(items)
    \/ \E o \in OrderIds :
          Completed(sim, sim', open[o]) /\ open' = [open EXCEPT ![o] = <<>>]

LEMMA OperateCases ==
    ASSUME GenInv, Operate
    PROVE  /\ Len(sent) < MaxEvents /\ task # "failed"
           /\ sim' \in Stocks
           /\ \E e \in EventRecords : OperationCases(e) /\ Publish(e)
<1>1. Len(sent) < MaxEvents /\ TypeOK /\ task # "failed"
    BY DEF Operate, Awake, GenInv
<1>2. CASE Receive \/ Ship \/ Move \/ Reserve \/ Release \/ Count \/ CountAsEmpty
    <2>1. PICK e \in EventRecords :
            sim' \in Stocks /\ Bounded(sim, sim', e) /\ open' = open /\ Publish(e)
        BY <1>1, <1>2, LocalBounded
    <2> QED BY <1>1, <2>1 DEF OperationCases
<1>3. CASE CreateOrder
    <2>1. PICK items \in OrderItems, e \in EventRecords :
              /\ items \in Seq(Items) /\ ItemsWellFormed(items)
              /\ sim' \in Stocks /\ Created(sim, sim', items) /\ Opened(items)
              /\ Publish(e)
        BY <1>1, <1>3, CreateOrderStep
    <2> QED BY <1>1, <2>1 DEF OperationCases
<1>4. CASE CompleteOrder
    <2>1. PICK o \in OrderIds, e \in EventRecords :
              /\ sim' \in Stocks /\ Completed(sim, sim', open[o])
              /\ open' = [open EXCEPT ![o] = <<>>]
              /\ Publish(e)
        BY <1>1, <1>4, CompleteOrderStep
    <2> QED BY <1>1, <2>1 DEF OperationCases
<1> QED BY <1>2, <1>3, <1>4 DEF Operate

(* What the positions have reserved for orders is what the open orders ask *)
(* for, or more when ids have collided.                                    *)
Reserves(s, orders, ids) ==
    \A k \in Positions : /\ s[k].reserved_order >= ReservedBy(orders, k)
                         /\ s[k].reserved_order > ReservedBy(orders, k) => ids

LEMMA OperateKeepsOrders ==
    ASSUME GenInv, Len(sent) < MaxEvents, task # "failed", sim' \in Stocks,
           NEW e, OperationCases(e), collided => collided'
    PROVE  /\ open' \in [OrderIds -> Seq(Items)]
           /\ \A o \in OrderIds : open'[o] = <<>> \/ ItemsWellFormed(open'[o])
           /\ ~collided' => \A o \in OrderIds : o > Len(sent) + 1 => open'[o] = <<>>
           /\ Reserves(sim', open', collided')
<1>1. TypeOK /\ open \in [OrderIds -> Seq(Items)]
    BY DEF GenInv, TypeOK
<1>2. \A o \in OrderIds : open[o] = <<>> \/ ItemsWellFormed(open[o])
    BY DEF GenInv, OpenWellFormed
<1>3. /\ ~collided => \A o \in OrderIds : o > Len(sent) => open[o] = <<>>
      /\ \A o \in OrderIds : o \in Nat
    BY OrderIdsFinite DEF GenInv, NextIsUnused
<1>4. Now \in OrderIds /\ Now = Len(sent) + 1 /\ Len(sent) \in Nat
    BY <1>1, NowIsNew, LenProperties DEF TypeOK
<1>5. \A o \in OrderIds : o > Len(sent) + 1 => o > Len(sent)
    BY <1>3, <1>4
<1>6. Reserves(sim, open, collided)
    BY DEF GenInv, OpenOrdersAreReserved, ReservedBy, Reserves
<1>7. \A o \in OrderIds : \A k : GroupedQuantity(open[o], k) \in Nat
    BY <1>1, <1>2, OpenGrouped
<1>11. \A k \in Positions : sim[k].reserved_order \in Nat /\ sim'[k].reserved_order \in Nat
    <2>1. \A k \in Positions : sim[k] \in PositionRows /\ sim'[k] \in PositionRows
        BY <1>1, RowOf DEF Stocks
    <2> QED BY <2>1 DEF PositionRows
<1>8. CASE Bounded(sim, sim', e) /\ open' = open
    <2>1. \A k \in Positions : sim'[k].reserved_order = sim[k].reserved_order
        BY <1>8 DEF Bounded
    <2>2. Reserves(sim', open, collided')
        BY <1>6, <2>1 DEF Reserves
    <2> QED BY <1>1, <1>2, <1>3, <1>5, <1>8, <2>2
<1>9. ASSUME NEW items \in OrderItems, items \in Seq(Items), ItemsWellFormed(items),
             Created(sim, sim', items), Opened(items)
      PROVE  /\ open' \in [OrderIds -> Seq(Items)]
             /\ \A o \in OrderIds : open'[o] = <<>> \/ ItemsWellFormed(open'[o])
             /\ ~collided' => \A o \in OrderIds : o > Len(sent) + 1 => open'[o] = <<>>
             /\ Reserves(sim', open', collided')
    <2>0. PICK o \in OrderIds : open' = [open EXCEPT ![o] = items] /\ (o # Now => collided')
        BY <1>9 DEF Opened
    <2>1. open' \in [OrderIds -> Seq(Items)]
        BY <1>1, <1>9, <2>0
    <2>2. open'[o] = items /\ \A p \in OrderIds : p # o => open'[p] = open[p]
        BY <1>1, <2>0
    <2>3. \A p \in OrderIds : open'[p] = <<>> \/ ItemsWellFormed(open'[p])
        BY <1>2, <1>9, <2>2
    <2>4. ~collided' => \A p \in OrderIds : p > Len(sent) + 1 => open'[p] = <<>>
        BY <1>3, <1>4, <1>5, <2>0, <2>2
    <2>5. ASSUME NEW k \in Positions
          PROVE  /\ sim'[k].reserved_order >= ReservedBy(open', k)
                 /\ sim'[k].reserved_order > ReservedBy(open', k) => collided'
        <3>1. GroupedQuantity(items, k) \in Nat /\ GroupedQuantity(open[o], k) \in Nat
            BY <1>7, <1>9, GroupedItems
        <3>2. \A p \in OrderIds : GroupedQuantity(open[p], k) \in Nat
            BY <1>7
        <3>3. PICK new : new = [open EXCEPT ![o] = items]
            OBVIOUS
        <3>4. /\ ReservedBy(new, k) = ReservedBy(open, k) + (GroupedQuantity(items, k)
                                                            - GroupedQuantity(open[o], k))
              /\ ReservedBy(open, k) \in Nat
            BY <1>1, <3>1, <3>2, <3>3, OneOrder
        <3>5. sim'[k].reserved_order = sim[k].reserved_order + GroupedQuantity(items, k)
            BY <1>9 DEF Created
        <3>6. ReservedBy(new, k) = ReservedBy(open', k)
            BY <2>0, <3>3
        <3>7. /\ sim[k].reserved_order >= ReservedBy(open, k)
              /\ sim[k].reserved_order > ReservedBy(open, k) => collided
            BY <1>6 DEF Reserves
        <3>8. ~collided' => GroupedQuantity(open[o], k) = 0
            <4> SUFFICES ASSUME ~collided' PROVE GroupedQuantity(open[o], k) = 0
                OBVIOUS
            <4>1. o = Now /\ ~collided
                BY <2>0
            <4>2. open[o] = <<>>
                BY <1>3, <1>4, <4>1
            <4> QED BY <4>2, NothingGrouped
        <3>9. PICK a \in Nat, b \in Nat, c \in Nat, d \in Nat :
                    /\ a = sim[k].reserved_order /\ b = ReservedBy(open, k)
                    /\ c = GroupedQuantity(items, k) /\ d = GroupedQuantity(open[o], k)
            BY <1>11, <3>1, <3>4
        <3>10. /\ sim'[k].reserved_order = a + c /\ ReservedBy(open', k) = b + (c - d)
               /\ a >= b /\ (a > b => collided) /\ (~collided' => d = 0)
            BY <3>4, <3>5, <3>6, <3>7, <3>8, <3>9
        <3>11. a + c >= b + (c - d) /\ (a + c > b + (c - d) => d # 0 \/ a > b)
            BY <3>10
        <3> QED BY <3>10, <3>11
    <2> QED BY <2>1, <2>3, <2>4, <2>5 DEF Reserves
<1>10. ASSUME NEW o \in OrderIds, Completed(sim, sim', open[o]),
              open' = [open EXCEPT ![o] = <<>>]
       PROVE  /\ open' \in [OrderIds -> Seq(Items)]
              /\ \A p \in OrderIds : open'[p] = <<>> \/ ItemsWellFormed(open'[p])
              /\ ~collided' => \A p \in OrderIds : p > Len(sent) + 1 => open'[p] = <<>>
              /\ Reserves(sim', open', collided')
    <2>1. open' \in [OrderIds -> Seq(Items)]
        BY <1>1, <1>10, EmptySeq
    <2>2. open'[o] = <<>> /\ \A p \in OrderIds : p # o => open'[p] = open[p]
        BY <1>1, <1>10
    <2>3. ASSUME NEW k \in Positions
          PROVE  /\ sim'[k].reserved_order >= ReservedBy(open', k)
                 /\ sim'[k].reserved_order > ReservedBy(open', k) => collided'
        <3>1. GroupedQuantity(<<>>, k) = 0 /\ GroupedQuantity(<<>>, k) \in Nat
            BY NothingGrouped
        <3>2. \A p \in OrderIds : GroupedQuantity(open[p], k) \in Nat
            BY <1>7
        <3>3. PICK new : new = [open EXCEPT ![o] = <<>>]
            OBVIOUS
        <3>4. /\ ReservedBy(new, k) = ReservedBy(open, k) + (GroupedQuantity(<<>>, k)
                                                            - GroupedQuantity(open[o], k))
              /\ ReservedBy(open, k) \in Nat
            BY <1>1, <3>1, <3>2, <3>3, OneOrder
        <3>5. sim'[k].reserved_order = sim[k].reserved_order - GroupedQuantity(open[o], k)
            BY <1>10 DEF Completed
        <3>6. ReservedBy(new, k) = ReservedBy(open', k)
            BY <1>10, <3>3
        <3>7. /\ sim[k].reserved_order >= ReservedBy(open, k)
              /\ sim[k].reserved_order > ReservedBy(open, k) => collided
            BY <1>6 DEF Reserves
        <3>8. PICK a \in Nat, b \in Nat, d \in Nat :
                    /\ a = sim[k].reserved_order /\ b = ReservedBy(open, k)
                    /\ d = GroupedQuantity(open[o], k)
            BY <1>11, <3>2, <3>4
        <3>9. /\ sim'[k].reserved_order = a - d /\ ReservedBy(open', k) = b - d
              /\ a >= b /\ (a > b => collided)
            BY <3>1, <3>4, <3>5, <3>6, <3>7, <3>8
        <3>10. a - d >= b - d /\ (a - d > b - d => a > b)
            BY <3>9
        <3> QED BY <3>9, <3>10
    <2>4. ~collided' => \A p \in OrderIds : p > Len(sent) + 1 => open'[p] = <<>>
        BY <1>3, <1>5, <2>2
    <2>5. \A p \in OrderIds : open'[p] = <<>> \/ ItemsWellFormed(open'[p])
        BY <1>2, <2>2
    <2>6. Reserves(sim', open', collided')
        BY <2>3 DEF Reserves
    <2> QED BY <2>1, <2>4, <2>5, <2>6
<1> QED BY <1>8, <1>9, <1>10 DEF OperationCases

LEMMA ReservesMeans ==
    /\ OpenOrdersAreReserved <=> Reserves(sim, open, collided)
    /\ OpenOrdersAreReserved' <=> Reserves(sim', open', collided')
BY DEF OpenOrdersAreReserved, Reserves, ReservedBy

LEMMA GenInvInit == Init => GenInv
<1> SUFFICES ASSUME Init PROVE GenInv
    OBVIOUS
<1>1. TypeOK
    <2>1. sim \in [Positions -> PositionRows] /\ open \in [OrderIds -> Seq(Items)]
        BY EmptySeq DEF Init, NewStock, NoOrders, EmptyPosition, PositionRows
    <2>2. sent \in Seq(EventRecords)
        BY EmptySeq DEF Init
    <2>3. overplanned \in BOOLEAN /\ collided \in BOOLEAN /\ paused \in BOOLEAN
        BY Zenon DEF Init
    <2>4. /\ task \in {"sleeping", "waiting", "woken", "failed"}
          /\ {sentWhilePaused, failures, requests, restarts} \subseteq Nat
        BY DEF Init
    <2> QED BY <2>1, <2>2, <2>3, <2>4 DEF TypeOK, PositionRows
<1>2. OpenWellFormed /\ NextIsUnused
    BY DEF Init, NoOrders, OpenWellFormed, NextIsUnused
<1>3. ASSUME NEW k \in Positions PROVE sim[k].reserved_order = ReservedBy(open, k)
    <2>1. sim[k].reserved_order = 0
        BY DEF Init, NewStock, EmptyPosition
    <2>2. ReservedBy(NoOrders, k) = 0
        BY EmptyReservesNothing
    <2> QED BY <2>1, <2>2 DEF Init
<1>4. \A k \in Positions : sim[k].reserved_order \in Nat
    BY <1>1 DEF TypeOK
<1>5. Reserves(sim, open, collided)
    BY <1>3, <1>4 DEF Reserves
<1> QED BY <1>1, <1>2, <1>5, ReservesMeans DEF GenInv

LEMMA GenInvNext == GenInv /\ [Next]_vars => GenInv'
<1> SUFFICES ASSUME GenInv, [Next]_vars PROVE GenInv'
    OBVIOUS
<1>1. TypeOK /\ OpenWellFormed /\ NextIsUnused /\ OpenOrdersAreReserved
    BY DEF GenInv
<1>2. CASE Operate
    <2>1. PICK e \in EventRecords : OperationCases(e) /\ Publish(e)
        BY <1>2, OperateCases
    <2>2. Len(sent) < MaxEvents /\ task # "failed" /\ sim' \in Stocks
        BY <1>2, OperateCases
    <2>7. collided => collided'
        BY <2>1 DEF Publish
    <2>3. /\ open' \in [OrderIds -> Seq(Items)]
          /\ \A o \in OrderIds : open'[o] = <<>> \/ ItemsWellFormed(open'[o])
          /\ ~collided' => \A o \in OrderIds : o > Len(sent) + 1 => open'[o] = <<>>
          /\ Reserves(sim', open', collided')
        BY <2>1, <2>2, <2>7, OperateKeepsOrders
    <2>4. TypeOK'
        BY <1>1, <2>1, <2>2, <2>3, PublishTyped DEF TypeOK, Stocks, PositionRows
    <2>5. NextIsUnused'
        BY <1>1, <2>1, <2>3, PublishSends DEF NextIsUnused
    <2>6. OpenWellFormed' /\ OpenOrdersAreReserved'
        BY <2>3, ReservesMeans DEF OpenWellFormed
    <2> QED BY <2>4, <2>5, <2>6 DEF GenInv
<1>3. CASE UNCHANGED <<stock, sent>> /\ (WaitForResume \/ Pause \/ Resume)
    <2>1. /\ sim' = sim /\ open' = open /\ overplanned' = overplanned /\ sent' = sent
          /\ collided' = collided
        BY <1>3 DEF stock
    <2>2. /\ task' \in {"sleeping", "waiting", "woken", "failed"}
          /\ task' # "failed" => task # "failed"
          /\ {sentWhilePaused', failures', requests', restarts'} \subseteq Nat
        BY <1>1, <1>3 DEF TypeOK, WaitForResume, Pause, Resume, limits
    <2>3. paused' \in BOOLEAN
        BY <1>1, <1>3, Zenon DEF TypeOK, WaitForResume, Pause, Resume
    <2>4. TypeOK'
        BY <1>1, <2>1, <2>2, <2>3 DEF TypeOK
    <2>5. NextIsUnused'
        BY <1>1, <2>1, <2>2 DEF NextIsUnused
    <2>6. OpenWellFormed' /\ OpenOrdersAreReserved'
        BY <1>1, <2>1, ReservesMeans DEF OpenWellFormed
    <2> QED BY <2>4, <2>5, <2>6 DEF GenInv
<1>4. CASE Restart
    <2>1. /\ sim' = NewStock /\ open' = NoOrders /\ overplanned' = overplanned /\ sent' = sent
          /\ collided' = collided
        BY <1>4 DEF Restart
    <2>2. NewStock \in [Positions -> PositionRows] /\ NoOrders \in [OrderIds -> Seq(Items)]
        BY EmptySeq DEF NewStock, NoOrders, EmptyPosition, PositionRows
    <2>3. /\ task' \in {"sleeping", "waiting", "woken", "failed"}
          /\ {sentWhilePaused', failures', requests', restarts'} \subseteq Nat
        BY <1>1, <1>4 DEF TypeOK, Restart
    <2>4. paused' \in BOOLEAN
        BY <1>4, Zenon DEF Restart
    <2>5. TypeOK'
        BY <1>1, <2>1, <2>2, <2>3, <2>4 DEF TypeOK, PositionRows
    <2>6. NextIsUnused' /\ OpenWellFormed'
        BY <2>1 DEF NextIsUnused, OpenWellFormed, NoOrders
    <2>7. \A k \in Positions : sim'[k].reserved_order = ReservedBy(open', k)
        BY <2>1, EmptyReservesNothing DEF NewStock, EmptyPosition
    <2>8. OpenOrdersAreReserved'
        <3>1. \A k \in Positions : sim'[k].reserved_order \in Nat
            BY <2>5 DEF TypeOK
        <3> QED BY <2>7, <3>1, ReservesMeans DEF Reserves
    <2> QED BY <2>5, <2>6, <2>8 DEF GenInv
<1>5. CASE UNCHANGED vars
    <2>1. TypeOK' /\ OpenWellFormed'
        BY <1>1, <1>5 DEF TypeOK, OpenWellFormed, vars, stock, control, limits
    <2>2. NextIsUnused' /\ OpenOrdersAreReserved'
        BY <1>1, <1>5, ReservesMeans DEF NextIsUnused, vars, stock, control, limits
    <2> QED BY <2>1, <2>2 DEF GenInv
<1>6. WaitForResume \/ Pause \/ Resume => UNCHANGED <<stock, sent>>
    BY DEF WaitForResume, Pause, Resume
<1> QED BY <1>2, <1>3, <1>4, <1>5, <1>6 DEF Next

-----------------------------------------------------------------------------
(* Every position of the simulated stock is a position the code's table    *)
(* may hold: reserved counters never go below zero, and what is published  *)
(* is a record of the topic.                                               *)
THEOREM GeneratorTypeCorrect == Spec => []TypeOK
<1>1. GenInv => TypeOK
    BY DEF GenInv
<1> QED BY <1>1, GenInvInit, GenInvNext, PTL DEF Spec

(* The stock reserved for orders is that of the orders still open, however *)
(* operations, failed publications, pauses and restarts follow each other; *)
(* it can be more only after two orders had the same id, and never less.   *)
THEOREM OpenOrdersCorrect == Spec => []OpenOrdersAreReserved
<1>1. GenInv => OpenOrdersAreReserved
    BY DEF GenInv
<1> QED BY <1>1, GenInvInit, GenInvNext, PTL DEF Spec

(* A paused generator sends one more event at most.  A task that was woken *)
(* has sent nothing since the pause that came before it went on, and after *)
(* that event it sleeps, and sees the pause.                               *)
QuietInv == /\ sentWhilePaused \in Nat /\ sentWhilePaused <= 1
            /\ paused /\ task = "woken" => sentWhilePaused = 0

THEOREM QuietCorrect == Spec => []PausedGeneratorIsQuiet
<1>1. Init => QuietInv
    BY DEF Init, QuietInv
<1>2. QuietInv /\ [Next]_vars => QuietInv'
    <2> SUFFICES ASSUME QuietInv, [Next]_vars PROVE QuietInv'
        OBVIOUS
    <2>1. CASE Operate
        <3>1. PICK e : Publish(e)
            BY ZenonT(30), <2>1 DEF Operate, Receive, Ship, Move, Reserve, Release, Count, CountAsEmpty,
                        ApplyCount, CreateOrder, CompleteOrder
        <3>2. paused => sentWhilePaused = 0
            BY <2>1 DEF QuietInv, Operate, Awake
        <3> QED BY <3>1, <3>2 DEF Publish, QuietInv
    <2>2. CASE WaitForResume
        BY <2>2 DEF WaitForResume, QuietInv
    <2>3. CASE Pause
        BY <2>3 DEF Pause, QuietInv
    <2>4. CASE Resume
        BY <2>4 DEF Resume, QuietInv
    <2>5. CASE Restart
        BY <2>5 DEF Restart, QuietInv
    <2>6. CASE UNCHANGED vars
        BY <2>6 DEF vars, control, QuietInv
    <2> QED BY <2>1, <2>2, <2>3, <2>4, <2>5, <2>6 DEF Next
<1>3. QuietInv => PausedGeneratorIsQuiet
    BY DEF QuietInv, PausedGeneratorIsQuiet
<1> QED BY <1>1, <1>2, <1>3, PTL DEF Spec

-----------------------------------------------------------------------------
(* Action properties *)

(* What steps other than operations do with the simulated stock: leave it, *)
(* or start again from an empty one; they send nothing.                    *)
LEMMA OtherSteps ==
    ASSUME [Next]_vars, ~Operate
    PROVE  sent' = sent /\ (sim' = sim \/ sim' = NewStock)
BY DEF Next, WaitForResume, Pause, Resume, Restart, vars, stock

(* A position is oversold by an order with two lines about it alone: every *)
(* other operation takes what there is at most.                            *)
THEOREM OversellCorrect == Spec => OnlyDoubleLinesOversell
<1>1. ASSUME GenInv, [Next]_vars
      PROVE  \A k \in Oversold' \ Oversold : \E o \in OrderIds :
                /\ DoubleLine(open'[o], k)
                /\ sim'[k].reserved_order = sim[k].reserved_order + GroupedQuantity(open'[o], k)
    <2> SUFFICES ASSUME NEW k \in Oversold' \ Oversold
                 PROVE  \E o \in OrderIds :
                            /\ DoubleLine(open'[o], k)
                            /\ sim'[k].reserved_order = sim[k].reserved_order
                                                           + GroupedQuantity(open'[o], k)
        OBVIOUS
    <2>1. k \in Positions /\ sim'[k].available < 0 /\ ~(sim[k].available < 0)
        BY DEF Oversold
    <2>2. TypeOK /\ sim[k].available \in Int
        BY <1>1, <2>1, RowOf DEF GenInv
    <2>3. Operate
        <3>1. sim' # sim
            BY <2>1
        <3>2. NewStock[k].available = 0
            BY <2>1 DEF NewStock, EmptyPosition
        <3> QED BY <1>1, <2>1, <3>1, <3>2, OtherSteps
    <2>4. PICK e : OperationCases(e)
        BY <1>1, <2>3, OperateCases
    <2>5. Len(sent) < MaxEvents /\ task # "failed" /\ sim' \in Stocks
        BY <1>1, <2>3, OperateCases
    <2>6. sim'[k].available \in Int
        BY <2>1, <2>5 DEF Stocks, PositionRows
    <2>7. ~Bounded(sim, sim', e)
        BY <2>1, <2>2, <2>6 DEF Bounded
    <2>8. \A o \in OrderIds : ~Completed(sim, sim', open[o])
        BY <2>1, <2>2 DEF Completed
    <2>9. PICK items \in OrderItems :
              /\ items \in Seq(Items) /\ ItemsWellFormed(items)
              /\ Created(sim, sim', items) /\ Opened(items)
        BY <2>4, <2>7, <2>8 DEF OperationCases
    <2>10. sim'[k].available = sim[k].available - GroupedQuantity(items, k)
        BY <2>1, <2>9 DEF Created
    <2>11. DoubleLine(items, k)
        <3>1. \A i \in DOMAIN items : k = <<items[i].product_id, items[i].zone_id>>
                                        => items[i].quantity <= sim[k].available
            BY <2>2, DrawnItems
        <3>2. sim[k].available >= 0
            BY <2>1, <2>2
        <3>3. GroupedQuantity(items, k) \in Nat
            BY <2>9, GroupedItems
        <3>4. ~(GroupedQuantity(items, k) <= sim[k].available)
            BY <2>1, <2>2, <2>10, <3>3
        <3>5. PICK a \in Int : a = sim[k].available
            BY <2>2
        <3> QED BY <2>9, <3>1, <3>2, <3>4, <3>5, SingleLine
    <2>12. PICK o \in OrderIds : open' = [open EXCEPT ![o] = items]
        BY <2>9 DEF Opened
    <2>13. open'[o] = items
        BY <2>2, <2>12 DEF TypeOK
    <2>14. sim'[k].reserved_order = sim[k].reserved_order + GroupedQuantity(items, k)
        BY <2>1, <2>9 DEF Created
    <2> QED BY <2>11, <2>13, <2>14
<1> QED BY <1>1, GenInvInit, GenInvNext, PTL DEF Spec, OnlyDoubleLinesOversell

(* A zone is overfilled by a count alone: what is received or moved fits   *)
(* its zone, and orders take stock away or leave it in its place.          *)
THEOREM OverfillCorrect == Spec => OnlyCountsOverfill
<1>1. ASSUME GenInv, [Next]_vars
      PROVE  \A z \in Zones : ZoneLoad(z) <= Capacity[z] /\ ZoneLoad(z)' > Capacity[z]
                                  /\ sent' # sent
                => sent'[Len(sent')].event_type = "INVENTORY_COUNTED"
    <2> SUFFICES ASSUME NEW z \in Zones, ZoneLoad(z) <= Capacity[z],
                        ZoneLoad(z)' > Capacity[z], sent' # sent
                 PROVE  sent'[Len(sent')].event_type = "INVENTORY_COUNTED"
        OBVIOUS
    <2>1. Operate
        BY <1>1, OtherSteps
    <2>2. PICK e \in EventRecords : OperationCases(e) /\ Publish(e)
        BY <1>1, <2>1, OperateCases
    <2>3. TypeOK /\ sim \in Stocks /\ sim' \in Stocks
        BY <1>1, <2>1, OperateCases DEF GenInv, TypeOK, Stocks, PositionRows
    <2>4. sent'[Len(sent')] = e
        BY <2>2, <2>3, PublishSends
    <2>5. PICK t \in Stocks : t = sim'
        BY <2>3
    <2>6. ZoneLoad(z) = LoadOf(sim, z) /\ ZoneLoad(z)' = LoadOf(t, z)
        BY <2>5 DEF ZoneLoad, LoadOf
    <2>7. LoadOf(sim, z) \in Int /\ LoadOf(t, z) \in Int /\ Capacity[z] \in Int
        BY <2>3, LoadIsInt, ZonesAreKnown
    <2>8. ~(LoadOf(t, z) <= LoadOf(sim, z)) /\ ~(LoadOf(t, z) <= Capacity[z])
        BY <2>6, <2>7
    <2>9. ASSUME \A k \in Positions : Held(t[k]) <= Held(sim[k]) PROVE FALSE
        BY <2>3, <2>8, <2>9, LoadLowered
    <2>10. \A k \in Positions : Held(sim[k]) \in Int
        BY <2>3, HeldIsInt
    <2>11. ASSUME NEW items, Created(sim, t, items) PROVE FALSE
        BY <2>9, <2>10, <2>11 DEF Created
    <2>12. ASSUME NEW items, Completed(sim, t, items) PROVE FALSE
        BY <2>9, <2>12 DEF Completed
    <2>13. Bounded(sim, t, e)
        BY <2>2, <2>5, <2>11, <2>12 DEF OperationCases
    <2>14. e.event_type = "INVENTORY_COUNTED"
        BY <2>8, <2>13 DEF Bounded
    <2> QED BY <2>4, <2>14
<1> QED BY <1>1, GenInvInit, GenInvNext, PTL DEF Spec, OnlyCountsOverfill
====
