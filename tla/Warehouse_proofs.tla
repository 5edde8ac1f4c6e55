-------------------------- MODULE Warehouse_proofs --------------------------
(***************************************************************************)
(* Migrations, consumer and report in one Cassandra, for every list of     *)
(* zones, every capacity and any number of runs, events and requests.      *)
(*                                                                         *)
(* No run of the script ever gives a zone more than its final capacity,    *)
(* and what a run has executed of the last two files is final              *)
(* (MigrationInv); nor does a replica hold more (VersionsInv).  What the   *)
(* consumer accepts by the capacities it reads it would therefore accept   *)
(* by the final ones (HandlerApplies), and still does when it comes to     *)
(* write (HandInv): the lemmas about EventProcessor apply to its tables    *)
(* (TablesInv).                                                            *)
(* The report has read all the rows of the days it is past that were there *)
(* when the request came, and only rows of the history (ReportInv).        *)
(***************************************************************************)
EXTENDS Warehouse, EventProcessor_proofs, TLAPS

(* The migrations before the last two files: those that may write a        *)
(* capacity other than the final one.                                      *)
Before == Migrations!Capacities(ManualZones, ManualCapacity) \o Migrations!Supplier
              \o Migrations!AddColumns(<<"event_history_by_day.occurred_at_ms">>)
              \o Migrations!Capacities(LiveZones, FirstCapacity)
Script == Migrations!Migrations

HasFinalCapacity(z) == z \in DOMAIN zones /\ zones[z] = Capacity[z]

(* No zone is ever given more than its final capacity; a run has given the *)
(* final one to the zones of the statements it has executed of the last    *)
(* two files, and a run that completed to every zone.                      *)
MigrationInv ==
    /\ DOMAIN zones \subseteq Zones
    /\ \A z \in DOMAIN zones : zones[z] \in Nat /\ zones[z] <= Capacity[z]
    /\ at \in 0 .. Len(Script) + 1
    /\ run \in {"none", "running", "completed", "interrupted"} /\ runs \in 0 .. MaxRuns
    /\ run = "running" =>
          /\ at > 0
          /\ \A i \in 1 .. Len(Script) : Len(Before) < i /\ i < at => HasFinalCapacity(Script[i].zone)
    /\ run = "completed" => \A z \in Zones : HasFinalCapacity(z)
    /\ started => run # "none"

(* A read of a zone may find the row last written, and nothing above the   *)
(* final capacity.                                                         *)
VersionsInv ==
    /\ versions \in [Zones -> SUBSET (Nat \cup {NoRow})]
    /\ \A z \in Zones :
          /\ Row(z) \in versions[z]
          /\ \A n \in versions[z] : n = NoRow \/ (n \in Nat /\ n <= Capacity[z])

(* What the consumer has decided to apply, it may apply: the tables are as *)
(* they were when it decided.                                              *)
HandInv ==
    /\ hand \subseteq [event : Events, action : DOMAIN OutcomeOf]
    /\ \A d \in hand : d.action = "applied" => Accepted(store, d.event)

(* What the consumer has written has its types, and fits.                  *)
TablesInv ==
    /\ inventory \in [Keys -> Rows] /\ totals \in [Products -> TotalRows]
    /\ orders \in [OrderIds -> OrderRows \cup {NoOrder}]
    /\ \A o \in OrderIds : orders[o] # NoOrder => ItemsWellFormed(orders[o].items)
    /\ history \subseteq [event : Events, outcome : {"APPLIED", "STALE", "DLQ"}]
    /\ IsFiniteSet(history)
    /\ started \in BOOLEAN /\ time \in 0 .. MaxTime

(* What the report has read so far: rows of the history, and of the days   *)
(* it is past all those of its hours that were there when the request came.*)
HourOfRow(h) == Analytics!HourOf(h.event.occurred_at)

HasRead(r) ==
    \A h \in r.before :
        /\ r.start <= HourOfRow(h) /\ HourOfRow(h) <= r.now
        /\ Analytics!DayOf(HourOfRow(h)) < r.day
        => h \in r.rows

ReportInv ==
    request # NoRequest =>
        /\ request \in [now : Int, start : Int, day : Int,
                        rows : SUBSET history, before : SUBSET history]
        /\ HasRead(request)


-----------------------------------------------------------------------------
(* The script: every statement about a zone gives it a capacity up to its  *)
(* final one, and those of the last two files give all zones their final   *)
(* capacity.                                                               *)
ZoneStatements   == {r \in [zone : Zones, capacity : Nat] : r.capacity <= Capacity[r.zone]}
Columns          == {"inventory_by_product_zone.supplier_id", "inventory_by_product.supplier_id",
                     "inventory_by_zone.supplier_id", "event_history_by_day.occurred_at_ms"}
ColumnStatements == [column : Columns]
Statements       == ZoneStatements \cup ColumnStatements

LEMMA StatementKinds ==
    /\ \A r \in ZoneStatements : /\ "zone" \in DOMAIN r /\ r.zone \in Zones
                                 /\ r.capacity \in Nat /\ r.capacity <= Capacity[r.zone]
    /\ \A r \in ColumnStatements : "zone" \notin DOMAIN r
BY DEF ZoneStatements, ColumnStatements

LEMMA CapacitiesTyped ==
    ASSUME NEW D, NEW order \in Seq(D), NEW capacity, D \subseteq Zones,
           \A z \in D : capacity[z] \in Nat /\ capacity[z] <= Capacity[z]
    PROVE  LET c == Migrations!Capacities(order, capacity)
           IN  /\ c \in Seq(Statements) /\ Len(c) = Len(order)
               /\ \A i \in 1 .. Len(order) : /\ c[i] \in ZoneStatements /\ c[i].zone = order[i]
                                              /\ c[i].capacity = capacity[order[i]]
<1> DEFINE c == Migrations!Capacities(order, capacity)
<1>1. DOMAIN order = 1 .. Len(order) /\ Len(order) \in Nat
    BY LenProperties
<1>2. \A i \in 1 .. Len(order) : order[i] \in D
    BY ElementOfSeq
<1>3. c = [i \in 1 .. Len(order) |-> [zone |-> order[i], capacity |-> capacity[order[i]]]]
    BY <1>1 DEF Migrations!Capacities
<1>4. \A i \in 1 .. Len(order) :
            [zone |-> order[i], capacity |-> capacity[order[i]]] \in ZoneStatements
    BY <1>2 DEF ZoneStatements
<1> HIDE DEF c
<1>5. c \in [1 .. Len(order) -> Statements]
    BY <1>3, <1>4 DEF Statements
<1>6. c \in Seq(Statements)
    BY <1>1, <1>5, SeqDef
<1>7. Len(c) = Len(order)
    BY <1>1, <1>5, <1>6, LenProperties
<1> QED BY <1>3, <1>4, <1>6, <1>7 DEF c

LEMMA ColumnsTyped ==
    ASSUME NEW names \in Seq(Columns)
    PROVE  Migrations!AddColumns(names) \in Seq(Statements)
<1> DEFINE c == Migrations!AddColumns(names)
<1>1. DOMAIN names = 1 .. Len(names) /\ Len(names) \in Nat
    BY LenProperties
<1>2. \A i \in 1 .. Len(names) : names[i] \in Columns
    BY ElementOfSeq
<1>3. c = [i \in 1 .. Len(names) |-> [column |-> names[i]]]
    BY <1>1 DEF Migrations!AddColumns
<1>4. \A i \in 1 .. Len(names) : [column |-> names[i]] \in Statements
    BY <1>2 DEF Statements, ColumnStatements
<1> HIDE DEF c
<1>5. c \in [1 .. Len(names) -> Statements]
    BY <1>3, <1>4
<1> QED BY <1>1, <1>5, SeqDef DEF c

LEMMA FinalCapacities ==
    /\ \A z \in DOMAIN LiveCapacity : /\ z \in Zones /\ LiveCapacity[z] = Capacity[z]
                                      /\ FirstCapacity[z] \in Nat
                                      /\ FirstCapacity[z] <= Capacity[z]
    /\ \A z \in DOMAIN ManualCapacity : z \in Zones /\ ManualCapacity[z] = Capacity[z]
    /\ \A z \in Zones : Capacity[z] \in Nat
BY TablesEndWithCapacity, ZonesAreKnown

LEMMA ScriptParts ==
    /\ Before \in Seq(Statements) /\ Script \in Seq(Statements)
    /\ Len(Before) \in Nat /\ Len(Script) = Len(Before) + Len(LiveZones) + Len(ManualZones)
    /\ \A i \in 1 .. Len(Script) : Len(Before) < i =>
          IF i <= Len(Before) + Len(LiveZones)
          THEN /\ Script[i] \in ZoneStatements /\ Script[i].zone = LiveZones[i - Len(Before)]
               /\ Script[i].capacity = Capacity[LiveZones[i - Len(Before)]]
          ELSE /\ Script[i] \in ZoneStatements /\ Script[i].zone = ManualZones[i - (Len(Before) + Len(LiveZones))]
               /\ Script[i].capacity = Capacity[ManualZones[i - (Len(Before) + Len(LiveZones))]]
<1> DEFINE M == Migrations!Capacities(ManualZones, ManualCapacity)
           F == Migrations!Capacities(LiveZones, FirstCapacity)
           L == Migrations!Capacities(LiveZones, LiveCapacity)
           C == Migrations!AddColumns(<<"event_history_by_day.occurred_at_ms">>)
           S == Migrations!Supplier
<1>1. /\ M \in Seq(Statements) /\ Len(M) = Len(ManualZones)
      /\ \A i \in 1 .. Len(ManualZones) : /\ M[i] \in ZoneStatements /\ M[i].zone = ManualZones[i]
                                          /\ M[i].capacity = ManualCapacity[ManualZones[i]]
    <2>1. DOMAIN ManualCapacity \subseteq Zones /\ ManualZones \in Seq(DOMAIN ManualCapacity)
        BY FinalCapacities, ZonesAreListed
    <2>2. \A z \in DOMAIN ManualCapacity :
             ManualCapacity[z] \in Nat /\ ManualCapacity[z] <= Capacity[z]
        BY FinalCapacities
    <2> QED BY <2>1, <2>2, CapacitiesTyped
<1>2. DOMAIN LiveCapacity \subseteq Zones /\ LiveZones \in Seq(DOMAIN LiveCapacity)
    BY FinalCapacities, ZonesAreListed
<1>3. F \in Seq(Statements)
    <2>1. \A z \in DOMAIN LiveCapacity :
             FirstCapacity[z] \in Nat /\ FirstCapacity[z] <= Capacity[z]
        BY FinalCapacities
    <2> QED BY <1>2, <2>1, CapacitiesTyped
<1>4. /\ L \in Seq(Statements) /\ Len(L) = Len(LiveZones)
      /\ \A i \in 1 .. Len(LiveZones) : /\ L[i] \in ZoneStatements /\ L[i].zone = LiveZones[i]
                                        /\ L[i].capacity = LiveCapacity[LiveZones[i]]
    <2>1. \A z \in DOMAIN LiveCapacity :
             LiveCapacity[z] \in Nat /\ LiveCapacity[z] <= Capacity[z]
        BY FinalCapacities
    <2> QED BY <1>2, <2>1, CapacitiesTyped
<1>5. C \in Seq(Statements)
    <2>1. <<"event_history_by_day.occurred_at_ms">> \in Seq(Columns)
        BY DEF Columns
    <2> QED BY <2>1, ColumnsTyped
<1>6. S \in Seq(Statements)
    <2>1. <<"inventory_by_product_zone.supplier_id", "inventory_by_product.supplier_id",
            "inventory_by_zone.supplier_id">> \in Seq(Columns)
        BY DEF Columns
    <2> QED BY <2>1, ColumnsTyped DEF Migrations!Supplier
<1>7. Script = (Before \o L) \o M /\ Before = ((M \o S) \o C) \o F
    BY DEF Script, Before, Migrations!Migrations
<1> HIDE DEF M, F, L, C, S
<1>8. M \o S \in Seq(Statements)
    BY <1>1, <1>6, ConcatProperties
<1>9. (M \o S) \o C \in Seq(Statements)
    BY <1>5, <1>8, ConcatProperties
<1>10. Before \in Seq(Statements)
    BY <1>3, <1>7, <1>9, ConcatProperties
<1>11. /\ Before \o L \in Seq(Statements) /\ Len(Before \o L) = Len(Before) + Len(LiveZones)
       /\ \A i \in 1 .. Len(Before) + Len(LiveZones) :
             (Before \o L)[i] = IF i <= Len(Before) THEN Before[i] ELSE L[i - Len(Before)]
    <2>1. /\ Before \o L \in Seq(Statements) /\ Len(Before \o L) = Len(Before) + Len(L)
          /\ \A i \in 1 .. Len(Before) + Len(L) :
                (Before \o L)[i] = IF i <= Len(Before) THEN Before[i] ELSE L[i - Len(Before)]
        <3>1. Before \in Seq(Statements) /\ L \in Seq(Statements)
            BY <1>4, <1>10
        <3> QED BY <3>1, ConcatProperties, Zenon
    <2> QED BY <1>4, <2>1
<1>12. /\ Script \in Seq(Statements)
       /\ Len(Script) = Len(Before \o L) + Len(ManualZones)
       /\ \A i \in 1 .. Len(Before \o L) + Len(ManualZones) :
             Script[i] = IF i <= Len(Before \o L) THEN (Before \o L)[i] ELSE M[i - Len(Before \o L)]
    <2> DEFINE B == Before \o L
    <2>1. B \in Seq(Statements) /\ Script = B \o M
        BY <1>7, <1>11
    <2> HIDE DEF B
    <2>2. /\ B \o M \in Seq(Statements) /\ Len(B \o M) = Len(B) + Len(M)
          /\ \A i \in 1 .. Len(B) + Len(M) :
                (B \o M)[i] = IF i <= Len(B) THEN B[i] ELSE M[i - Len(B)]
        <3>1. B \in Seq(Statements) /\ M \in Seq(Statements)
            BY <1>1, <2>1
        <3> QED BY <3>1, ConcatProperties, Zenon
    <2> QED BY <1>1, <2>1, <2>2 DEF B
<1>13. Len(Before) \in Nat /\ Len(LiveZones) \in Nat /\ Len(ManualZones) \in Nat
    BY <1>10, ZonesAreListed, LenProperties
<1>14. ASSUME NEW i \in 1 .. Len(Script), Len(Before) < i
       PROVE  IF i <= Len(Before) + Len(LiveZones)
              THEN /\ Script[i] \in ZoneStatements /\ Script[i].zone = LiveZones[i - Len(Before)]
                   /\ Script[i].capacity = Capacity[LiveZones[i - Len(Before)]]
              ELSE /\ Script[i] \in ZoneStatements /\ Script[i].zone = ManualZones[i - (Len(Before) + Len(LiveZones))]
                   /\ Script[i].capacity = Capacity[ManualZones[i - (Len(Before) + Len(LiveZones))]]
    <2>1. CASE i <= Len(Before) + Len(LiveZones)
        <3>1. PICK j \in 1 .. Len(LiveZones) : j = i - Len(Before)
            <4>1. i \in Int
                BY <1>12, <1>13, <1>14
            <4>2. i - Len(Before) \in 1 .. Len(LiveZones)
                BY <1>13, <1>14, <2>1, <4>1
            <4> QED BY <4>2
        <3>2. Script[i] = L[j]
            BY <1>11, <1>12, <1>13, <1>14, <2>1, <3>1
        <3>3. LiveZones[j] \in DOMAIN LiveCapacity
            BY <1>2, ElementOfSeq
        <3> QED BY <1>4, <2>1, <3>1, <3>2, <3>3, FinalCapacities
    <2>2. CASE ~(i <= Len(Before) + Len(LiveZones))
        <3>1. PICK j \in 1 .. Len(ManualZones) : j = i - (Len(Before) + Len(LiveZones))
            <4>1. i \in Int /\ i <= Len(Before) + Len(LiveZones) + Len(ManualZones)
                BY <1>11, <1>12, <1>13, <1>14
            <4>2. i - (Len(Before) + Len(LiveZones)) \in 1 .. Len(ManualZones)
                BY <1>13, <2>2, <4>1
            <4> QED BY <4>2
        <3>2. Script[i] = M[j]
            BY <1>11, <1>12, <1>13, <1>14, <2>2, <3>1
        <3>3. ManualZones[j] \in DOMAIN ManualCapacity
            BY ZonesAreListed, ElementOfSeq
        <3> QED BY <1>1, <2>2, <3>1, <3>2, <3>3, FinalCapacities
    <2> QED BY <2>1, <2>2
<1> QED BY <1>10, <1>11, <1>12, <1>13, <1>14

LEMMA LastFiles ==
    ASSUME NEW i \in 1 .. Len(Script), Len(Before) < i
    PROVE  Script[i] \in ZoneStatements /\ Script[i].capacity = Capacity[Script[i].zone]
BY ScriptParts

LEMMA EveryZone ==
    ASSUME NEW z \in Zones
    PROVE  \E i \in 1 .. Len(Script) : Len(Before) < i /\ Script[i].zone = z
<1>1. Len(Before) \in Nat /\ Len(LiveZones) \in Nat /\ Len(ManualZones) \in Nat
    BY ScriptParts, ZonesAreListed, LenProperties
<1>2. DOMAIN LiveZones = 1 .. Len(LiveZones) /\ DOMAIN ManualZones = 1 .. Len(ManualZones)
    BY ZonesAreListed, LenProperties
<1>3. z \in DOMAIN ManualCapacity \cup DOMAIN LiveCapacity
    BY TablesEndWithCapacity
<1>4. CASE z \in DOMAIN LiveCapacity
    <2>1. PICK j \in 1 .. Len(LiveZones) : LiveZones[j] = z
        BY <1>2, <1>4, ZonesAreListed
    <2>2. PICK i \in Nat : i = Len(Before) + j
        BY <1>1
    <2>3. /\ i \in 1 .. Len(Script) /\ Len(Before) < i /\ i <= Len(Before) + Len(LiveZones)
          /\ i - Len(Before) = j
        BY <1>1, <2>2, ScriptParts
    <2>4. Script[i].zone = LiveZones[j]
        BY <2>3, ScriptParts
    <2> QED BY <2>1, <2>3, <2>4
<1>5. CASE z \in DOMAIN ManualCapacity
    <2>1. PICK j \in 1 .. Len(ManualZones) : ManualZones[j] = z
        BY <1>2, <1>5, ZonesAreListed
    <2>2. PICK i \in Nat : i = Len(Before) + Len(LiveZones) + j
        BY <1>1
    <2>3. /\ i \in 1 .. Len(Script) /\ Len(Before) < i /\ ~(i <= Len(Before) + Len(LiveZones))
          /\ i - (Len(Before) + Len(LiveZones)) = j
        BY <1>1, <2>2, ScriptParts
    <2>4. Script[i].zone = ManualZones[j]
        BY <2>3, ScriptParts
    <2> QED BY <2>1, <2>3, <2>4
<1> QED BY <1>3, <1>4, <1>5

-----------------------------------------------------------------------------
(* The migrations *)

LEMMA MigrationInit == Init => MigrationInv
<1> SUFFICES ASSUME Init PROVE MigrationInv
    OBVIOUS
<1>1. zones = <<>> /\ at = 0 /\ run = "none" /\ runs = 0 /\ started = FALSE
    BY DEF Init, Migrations!Init
<1>2. DOMAIN zones = {}
    BY <1>1
<1>3. Len(Script) \in Nat /\ MaxRuns \in Nat
    BY ScriptParts, LenProperties, WarehouseBounds
<1> QED BY <1>1, <1>2, <1>3 DEF MigrationInv

LEMMA ExecuteKeeps ==
    ASSUME MigrationInv, Migrations!Execute, started' = started
    PROVE  MigrationInv'
<1> DEFINE statement == Script[at]
<1>1. /\ run = "running" /\ at \in DOMAIN Script /\ at' = at + 1
      /\ run' = run /\ runs' = runs
      /\ "zone" \in DOMAIN statement =>
            zones' = Migrations!SetCapacity(statement.zone, statement.capacity)
      /\ "zone" \notin DOMAIN statement => zones' = zones
    BY DEF Migrations!Execute, Script
<1>2. DOMAIN Script = 1 .. Len(Script) /\ Len(Script) \in Nat /\ Len(Before) \in Nat
    BY ScriptParts, LenProperties
<1>3. at \in 1 .. Len(Script) /\ statement \in Statements
    BY <1>1, <1>2, ScriptParts, ElementOfSeq
<1>4. /\ DOMAIN zones \subseteq Zones
      /\ \A z \in DOMAIN zones : zones[z] \in Nat /\ zones[z] <= Capacity[z]
      /\ \A i \in 1 .. Len(Script) : Len(Before) < i /\ i < at => HasFinalCapacity(Script[i].zone)
    BY <1>1 DEF MigrationInv
<1>5. at' \in 0 .. Len(Script) + 1 /\ at' > 0
    BY <1>1, <1>2, <1>3
<1>6. CASE "zone" \notin DOMAIN statement
    <2>1. statement \notin ZoneStatements
        BY <1>6, StatementKinds
    <2>2. ~(Len(Before) < at)
        BY <1>3, <2>1, LastFiles
    <2>3. \A i \in 1 .. Len(Script) : Len(Before) < i /\ i < at' => HasFinalCapacity(Script[i].zone)'
        BY <1>1, <1>2, <1>3, <2>2
    <2>4. zones' = zones
        BY <1>1, <1>6
    <2> QED BY <1>1, <1>4, <1>5, <2>3, <2>4 DEF MigrationInv
<1>7. CASE "zone" \in DOMAIN statement
    <2>1. statement \in ZoneStatements
        BY <1>3, <1>7, StatementKinds DEF Statements
    <2>2. PICK z \in Zones, n \in Nat : statement.zone = z /\ statement.capacity = n /\ n <= Capacity[z]
        BY <2>1, StatementKinds
    <2>3. zones' = [y \in DOMAIN zones \cup {z} |-> IF y = z THEN n ELSE zones[y]]
        BY <1>1, <1>7, <2>2 DEF Migrations!SetCapacity
    <2>4. DOMAIN zones' \subseteq Zones
        BY <1>4, <2>3
    <2>5. \A y \in DOMAIN zones' : zones'[y] \in Nat /\ zones'[y] <= Capacity[y]
        BY <1>4, <2>2, <2>3
    <2>6. ASSUME NEW i \in 1 .. Len(Script), Len(Before) < i, i < at'
          PROVE  HasFinalCapacity(Script[i].zone)'
        <3>1. Len(Before) < at
            BY <1>1, <1>2, <1>3, <2>6
        <3>2. n = Capacity[z]
            BY <1>3, <2>2, <3>1, LastFiles
        <3>3. i < at \/ i = at
            BY <1>1, <1>2, <1>3, <2>6
        <3>4. Script[i].zone = z \/ HasFinalCapacity(Script[i].zone)
            BY <1>4, <2>2, <2>6, <3>3
        <3> QED BY <2>3, <3>2, <3>4 DEF HasFinalCapacity
    <2> QED BY <1>1, <1>4, <1>5, <2>4, <2>5, <2>6 DEF MigrationInv
<1> QED BY <1>6, <1>7

LEMMA MigratorKeeps ==
    ASSUME MigrationInv, Migrations!Next, started' = started
    PROVE  MigrationInv'
<1>1. Len(Script) \in Nat /\ Len(Before) \in Nat /\ DOMAIN Script = 1 .. Len(Script)
      /\ MaxRuns \in Nat
    BY ScriptParts, LenProperties, WarehouseBounds
<1>2. CASE Migrations!StartRun
    <2>1. zones' = zones /\ at' = 1 /\ run' = "running" /\ runs' \in 0 .. MaxRuns
        BY <1>1, <1>2 DEF Migrations!StartRun, MigrationInv
    <2>2. \A i \in 1 .. Len(Script) : ~(Len(Before) < i /\ i < at')
        BY <1>1, <2>1
    <2>3. at' \in 0 .. Len(Script) + 1 /\ at' > 0
        BY <1>1, <2>1
    <2> QED BY <2>1, <2>2, <2>3 DEF MigrationInv
<1>3. CASE Migrations!Execute
    BY <1>3, ExecuteKeeps
<1>4. CASE Migrations!FinishRun
    <2>1. /\ run = "running" /\ at \notin DOMAIN Script
          /\ run' = "completed" /\ at' = 0 /\ zones' = zones /\ runs' = runs
        BY <1>4 DEF Migrations!FinishRun, Script
    <2>2. at = Len(Script) + 1
        BY <1>1, <2>1 DEF MigrationInv
    <2>3. ASSUME NEW z \in Zones PROVE HasFinalCapacity(z)
        <3>1. PICK i \in 1 .. Len(Script) : Len(Before) < i /\ Script[i].zone = z
            BY EveryZone
        <3>2. i < at
            BY <1>1, <2>2
        <3> QED BY <2>1, <3>1, <3>2 DEF MigrationInv
    <2> QED BY <1>1, <2>1, <2>3 DEF MigrationInv, HasFinalCapacity
<1>5. CASE Migrations!Interrupt
    BY <1>1, <1>5 DEF Migrations!Interrupt, MigrationInv
<1> QED BY <1>2, <1>3, <1>4, <1>5 DEF Migrations!Next

LEMMA MigrationNext == MigrationInv /\ [Next]_vars => MigrationInv'
<1> SUFFICES ASSUME MigrationInv, [Next]_vars PROVE MigrationInv'
    OBVIOUS
<1>1. CASE Migrate
    BY <1>1, MigratorKeeps DEF Migrate
<1>2. CASE StartConsumer
    BY <1>2 DEF StartConsumer, migrator, MigrationInv, HasFinalCapacity
<1>3. CASE UNCHANGED <<zones, columns, at, run, runs, started>>
    BY <1>3 DEF MigrationInv, HasFinalCapacity
<1>4. ((\E z \in Zones : Settle(z)) \/ (\E e \in Events : Decide(e)) \/ Record \/ Drop
       \/ Tick \/ Report \/ UNCHANGED vars)
         => UNCHANGED <<zones, columns, at, run, runs, started>>
    BY DEF Settle, Decide, Record, Drop, Tick, Report, vars, migrator
<1> QED BY <1>1, <1>2, <1>3, <1>4 DEF Next

(* The row last written is none above the final capacity.                  *)
LEMMA RowFits ==
    ASSUME MigrationInv, NEW z \in Zones
    PROVE  /\ Row(z) \in Nat \cup {NoRow}
           /\ Row(z) = NoRow \/ (Row(z) \in Nat /\ Row(z) <= Capacity[z])
BY DEF MigrationInv, Row

LEMMA VersionsInit == Init => VersionsInv
<1> SUFFICES ASSUME Init PROVE VersionsInv
    OBVIOUS
<1>1. zones = <<>> /\ versions = [z \in Zones |-> {NoRow}]
    BY DEF Init, Migrations!Init
<1>2. DOMAIN zones = {}
    BY <1>1
<1>3. \A z \in Zones : Row(z) = NoRow
    BY <1>2 DEF Row
<1> QED BY <1>1, <1>3 DEF VersionsInv

LEMMA VersionsNext ==
    MigrationInv /\ MigrationInv' /\ VersionsInv /\ [Next]_vars => VersionsInv'
<1> SUFFICES ASSUME MigrationInv, MigrationInv', VersionsInv, [Next]_vars PROVE VersionsInv'
    OBVIOUS
<1>1. ASSUME NEW z \in Zones
      PROVE  /\ Row(z)' \in Nat \cup {NoRow}
             /\ Row(z)' = NoRow \/ (Row(z)' \in Nat /\ Row(z)' <= Capacity[z])
    BY <1>1 DEF MigrationInv, Row
<1>2. CASE Migrate
    <2>1. versions' = [z \in Zones |-> versions[z] \cup {Row(z)'}]
        BY <1>2 DEF Migrate
    <2>2. versions' \in [Zones -> SUBSET (Nat \cup {NoRow})]
        BY <1>1, <2>1 DEF VersionsInv
    <2> QED BY <1>1, <2>1, <2>2 DEF VersionsInv
<1>3. ASSUME NEW z \in Zones, Settle(z) PROVE VersionsInv'
    <2>1. versions' = [versions EXCEPT ![z] = {Row(z)}] /\ zones' = zones
        BY <1>3 DEF Settle
    <2>2. \A y \in Zones : Row(y)' = Row(y)
        BY <2>1 DEF Row
    <2>3. \A y \in Zones : versions'[y] = IF y = z THEN {Row(z)} ELSE versions[y]
        BY <2>1 DEF VersionsInv
    <2>4. versions' \in [Zones -> SUBSET (Nat \cup {NoRow})]
        BY <2>1, RowFits DEF VersionsInv
    <2> QED BY <2>2, <2>3, <2>4, RowFits DEF VersionsInv
<1>4. CASE UNCHANGED <<zones, versions>>
    BY <1>4 DEF VersionsInv, Row
<1>5. ((\E e \in Events : Decide(e)) \/ StartConsumer \/ Record \/ Drop \/ Tick \/ Report
       \/ UNCHANGED vars)
         => UNCHANGED <<zones, versions>>
    BY DEF StartConsumer, Decide, Record, Drop, Tick, Report, vars, migrator
<1> QED BY <1>2, <1>3, <1>4, <1>5 DEF Next

(* What the consumer reads is none above the final capacities, and is the  *)
(* final capacities when a run has completed and its writes have settled.  *)
LEMMA ReadingFits ==
    ASSUME VersionsInv, NEW capacity \in Readings
    PROVE  /\ DOMAIN capacity \subseteq Zones
           /\ \A z \in DOMAIN capacity : capacity[z] \in Nat /\ capacity[z] <= Capacity[z]
<1>1. PICK seen \in [Zones -> UNION {versions[z] : z \in Zones}] :
            /\ \A z \in Zones : seen[z] \in versions[z]
            /\ capacity = [z \in {y \in Zones : seen[y] # NoRow} |-> seen[z]]
    BY DEF Readings
<1> QED BY <1>1 DEF VersionsInv

LEMMA ReadingWhenCompleted ==
    ASSUME MigrationInv, run = "completed", \A z \in Zones : versions[z] = {Row(z)},
           NEW capacity \in Readings
    PROVE  DOMAIN capacity = Zones /\ \A z \in Zones : capacity[z] = Capacity[z]
<1>1. PICK seen \in [Zones -> UNION {versions[z] : z \in Zones}] :
            /\ \A z \in Zones : seen[z] \in versions[z]
            /\ capacity = [z \in {y \in Zones : seen[y] # NoRow} |-> seen[z]]
    BY DEF Readings
<1>2. ASSUME NEW z \in Zones PROVE seen[z] = Capacity[z] /\ seen[z] # NoRow
    <2>1. Row(z) = Capacity[z]
        BY DEF MigrationInv, HasFinalCapacity, Row
    <2> QED BY <1>1, <2>1, FinalCapacities, NoRowIsNoCapacity
<1> QED BY <1>1, <1>2

(* Wherever earlier runs of the script broke off, one that completes       *)
(* leaves every zone with the capacity of the last migrations.             *)
THEOREM RestoresCorrect == Spec => []CompletedRunRestores
<1>1. MigrationInv => CompletedRunRestores
    BY FinalCapacities DEF MigrationInv, HasFinalCapacity, CompletedRunRestores,
                           Migrations!CompletedRunRestores
<1> QED BY <1>1, MigrationInit, MigrationNext, PTL DEF Spec

-----------------------------------------------------------------------------
(* The consumer decides by the capacities it reads; all but their check is *)
(* as with the final ones.                                                 *)
LEMMA HandlerChecks ==
    ASSUME NEW capacity, NEW s, NEW e
    PROVE  /\ Handler(capacity)!WellFormed(e) = WellFormed(e)
           /\ Handler(capacity)!Stale(s, e) = Stale(s, e)
           /\ Handler(capacity)!StockSuffices(s, e) = StockSuffices(s, e)
           /\ Handler(capacity)!OrderAllows(s, e) = OrderAllows(s, e)
           /\ Handler(capacity)!TotalsNonNegative(s, e) = TotalsNonNegative(s, e)
BY Zenon DEF WellFormed, ItemsWellFormed, EventTypes, ProductEventTypes,
       OrderEventTypes, Stale, OlderThan, StockSuffices, OrderAllows,
       TotalsNonNegative, UpdatedTotal, KeysOf, Later, TouchedKeys, ItemKeys,
       GroupedQuantity, DeltaAvailable, DeltaReserved, Keys,
       SumFunctionOnSet, FoldFunctionOnSet, MapThenFoldSet,
       Handler!WellFormed, Handler!ItemsWellFormed, Handler!EventTypes,
       Handler!ProductEventTypes, Handler!OrderEventTypes, Handler!Stale, Handler!OlderThan,
       Handler!StockSuffices, Handler!OrderAllows, Handler!TotalsNonNegative,
       Handler!UpdatedTotal, Handler!KeysOf, Handler!Later, Handler!TouchedKeys,
       Handler!ItemKeys, Handler!GroupedQuantity, Handler!DeltaAvailable,
       Handler!DeltaReserved, Handler!Keys, Handler!SumFunctionOnSet,
       Handler!FoldFunctionOnSet, Handler!MapThenFoldSet

LEMMA HandlerTotals ==
    ASSUME NEW capacity, NEW s, NEW e, NEW z
    PROVE  /\ Handler(capacity)!ReplacedTotal(s, e, z) = ReplacedTotal(s, e, z)
           /\ Handler(capacity)!TouchedKeys(s, e) = TouchedKeys(s, e)
BY Zenon DEF ReplacedTotal, ZoneTotal, Total, TouchedKeys, ItemKeys, ProductEventTypes,
       GroupedQuantity, DeltaAvailable, DeltaReserved, Keys,
       SumFunctionOnSet, FoldFunctionOnSet, MapThenFoldSet,
       Handler!ReplacedTotal, Handler!ZoneTotal, Handler!Total, Handler!TouchedKeys,
       Handler!ItemKeys, Handler!ProductEventTypes, Handler!GroupedQuantity,
       Handler!DeltaAvailable, Handler!DeltaReserved, Handler!Keys,
       Handler!SumFunctionOnSet, Handler!FoldFunctionOnSet, Handler!MapThenFoldSet

LEMMA HandlerFits ==
    ASSUME NEW capacity, NEW s, NEW e
    PROVE  Handler(capacity)!FitsZones(s, e) <=>
              \A z \in {k[2] : k \in TouchedKeys(s, e)} :
                 z \in DOMAIN capacity /\ ReplacedTotal(s, e, z) <= capacity[z]
<1>1. \A z : Handler(capacity)!ReplacedTotal(s, e, z) = ReplacedTotal(s, e, z)
    BY HandlerTotals
<1>2. Handler(capacity)!TouchedKeys(s, e) = TouchedKeys(s, e)
    BY HandlerTotals
<1> QED BY <1>1, <1>2 DEF Handler!FitsZones

(* The store the consumer reads has its types, and the total it computes   *)
(* for a zone is a number.                                                 *)
LEMMA StoreTyped ==
    ASSUME TablesInv
    PROVE  StoreOK(store) /\ store.by_zone = store.inventory /\ store.inventory = inventory
BY DEF TablesInv, StoreOK, store

LEMMA ReplacedTotalInt ==
    ASSUME NEW s, StoreOK(s), s.by_zone = s.inventory, NEW e \in Events, Checked(s, e), NEW z
    PROVE  ReplacedTotal(s, e, z) \in Int
<1> DEFINE S == {k \in Keys : k[2] = z}
           D == {k \in TouchedKeys(s, e) : k[2] = z}
           f == [k \in Keys |-> Total(s.inventory[k])]
           d == [k \in Keys |-> DeltaAvailable(s, e, k) + DeltaReserved(s, e, k)]
<1>1. IsFiniteSet(S)
    BY KeysFinite, FS_Subset
<1>2. D \in SUBSET Keys
    BY CheckedRows, EventsAreRecords
<1>3. IsFiniteSet(D)
    BY <1>2, KeysFinite, FS_Subset
<1>4. \A k \in S : f[k] \in Int
    BY DEF StoreOK, Rows, Total
<1>5. \A k \in D : d[k] \in Int
    BY <1>2, CheckedRows, EventsAreRecords
<1>6. ReplacedTotal(s, e, z) = SumFunctionOnSet(f, S) + SumFunctionOnSet(d, D)
    BY DEF ReplacedTotal, ZoneTotal
<1> HIDE DEF S, D, f, d
<1>7. SumFunctionOnSet(f, S) \in Int /\ SumFunctionOnSet(d, D) \in Int
    BY <1>1, <1>3, <1>4, <1>5, SumInt
<1> QED BY <1>6, <1>7

(* What fits the capacities read fits the final ones; after a run that     *)
(* completed, and settled, the two are the same.                           *)
LEMMA FitsNow ==
    ASSUME VersionsInv, TablesInv, NEW capacity \in Readings, NEW e \in Events,
           Checked(store, e), Handler(capacity)!FitsZones(store, e)
    PROVE  FitsZones(store, e)
<1> DEFINE touched == {k[2] : k \in TouchedKeys(store, e)}
<1>1. ASSUME NEW z \in touched
      PROVE  z \in Zones /\ ReplacedTotal(store, e, z) <= Capacity[z]
    <2>1. z \in DOMAIN capacity /\ ReplacedTotal(store, e, z) <= capacity[z]
        BY HandlerFits
    <2>2. ReplacedTotal(store, e, z) \in Int
        BY StoreTyped, ReplacedTotalInt
    <2>3. z \in Zones /\ capacity[z] \in Int /\ capacity[z] <= Capacity[z] /\ Capacity[z] \in Int
        BY <2>1, ReadingFits, FinalCapacities
    <2> QED BY <2>1, <2>2, <2>3
<1> QED BY <1>1 DEF FitsZones

LEMMA FitsWhenCompleted ==
    ASSUME MigrationInv, run = "completed", \A z \in Zones : versions[z] = {Row(z)},
           NEW capacity \in Readings, NEW e, FitsZones(store, e)
    PROVE  Handler(capacity)!FitsZones(store, e)
<1>1. DOMAIN capacity = Zones /\ \A z \in Zones : capacity[z] = Capacity[z]
    BY ReadingWhenCompleted
<1>2. \A z \in {k[2] : k \in TouchedKeys(store, e)} :
         z \in DOMAIN capacity /\ ReplacedTotal(store, e, z) <= capacity[z]
    BY <1>1 DEF FitsZones
<1> QED BY <1>2, HandlerFits

LEMMA HandlerAction ==
    ASSUME NEW capacity, NEW s, NEW e
    PROVE  Handler(capacity)!ProcessAction(s, processed, e) =
              IF e.event_id \in processed THEN "duplicate"
              ELSE IF ~WellFormed(e) THEN "dlq"
              ELSE IF Stale(s, e) THEN "stale"
              ELSE IF /\ StockSuffices(s, e) /\ OrderAllows(s, e)
                      /\ Handler(capacity)!FitsZones(s, e) /\ TotalsNonNegative(s, e)
                   THEN "applied"
              ELSE "dlq"
BY HandlerChecks, Zenon DEF Handler!ProcessAction

LEMMA HandlerApplies ==
    ASSUME VersionsInv, TablesInv, NEW capacity \in Readings, NEW e \in Events,
           Handler(capacity)!ProcessAction(store, processed, e) = "applied"
    PROVE  Accepted(store, e)
<1>1. /\ WellFormed(e) /\ StockSuffices(store, e) /\ OrderAllows(store, e)
      /\ Handler(capacity)!FitsZones(store, e) /\ TotalsNonNegative(store, e)
    BY HandlerAction
<1>2. FitsZones(store, e)
    BY <1>1, FitsNow DEF Checked
<1> QED BY <1>1, <1>2 DEF Accepted

LEMMA HandlerAnswers ==
    ASSUME NEW capacity, NEW e
    PROVE  Handler(capacity)!ProcessAction(store, processed, e)
              \in {"duplicate", "dlq", "stale", "applied"}
BY HandlerAction

LEMMA HandLater ==
    ASSUME hand' \subseteq [event : Events, action : DOMAIN OutcomeOf],
           \A d \in hand' : d.action = "applied" => Accepted(store', d.event)
    PROVE  HandInv'
<1>1. \A d : Accepted(store', d.event) => Accepted(store, d.event)'
    BY DEF Accepted
<1> QED BY <1>1 DEF HandInv

(* A decision is one of the three outcomes, and one to apply is allowed.   *)
LEMMA HandInit == Init => HandInv
BY DEF Init, HandInv

LEMMA HandNext == VersionsInv /\ TablesInv /\ HandInv /\ [Next]_vars => HandInv'
<1> SUFFICES ASSUME VersionsInv, TablesInv, HandInv, [Next]_vars PROVE HandInv'
    OBVIOUS
<1>1. ASSUME NEW e \in Events, Decide(e) PROVE HandInv'
    <2>1. PICK capacity \in Readings :
                /\ Handler(capacity)!ProcessAction(store, processed, e) # "duplicate"
                /\ hand' = {[event |-> e, action |->
                                Handler(capacity)!ProcessAction(store, processed, e)]}
        BY <1>1 DEF Decide
    <2>2. PICK action : action = Handler(capacity)!ProcessAction(store, processed, e)
        OBVIOUS
    <2>3. action \in {"dlq", "stale", "applied"}
        BY <2>1, <2>2, HandlerAnswers
    <2>4. action = "applied" => Accepted(store, e)
        BY <2>2, HandlerApplies
    <2>5. hand' = {[event |-> e, action |-> action]}
        BY <2>1, <2>2
    <2>6. store' = store
        BY <1>1 DEF Decide, tables, store
    <2>7. hand' \subseteq [event : Events, action : DOMAIN OutcomeOf]
        BY <2>3, <2>5 DEF OutcomeOf
    <2>8. \A d \in hand' : d.action = "applied" => Accepted(store', d.event)
        BY <2>4, <2>5, <2>6
    <2> QED BY <2>7, <2>8, HandLater
<1>2. CASE Record \/ Drop
    BY <1>2 DEF Record, Drop, HandInv
<1>3. CASE UNCHANGED <<hand, inventory, totals, orders>>
    <2>1. store' = store
        BY <1>3 DEF store
    <2> QED BY <1>3, <2>1, HandLater DEF HandInv
<1>4. (Migrate \/ (\E z \in Zones : Settle(z)) \/ StartConsumer \/ Tick \/ Report
       \/ UNCHANGED vars)
         => UNCHANGED <<hand, inventory, totals, orders>>
    BY DEF Migrate, Settle, StartConsumer, Tick, Report, vars, tables
<1> QED BY <1>1, <1>2, <1>3, <1>4 DEF Next

-----------------------------------------------------------------------------
(* The tables *)

LEMMA TablesInit == Init => TablesInv
<1> SUFFICES ASSUME Init PROVE TablesInv
    OBVIOUS
<1>1. /\ inventory = [k \in Keys |-> EmptyRow] /\ totals = [p \in Products |-> EmptyTotal]
      /\ orders = [o \in OrderIds |-> NoOrder] /\ history = {}
      /\ started = FALSE /\ time = 0
    BY DEF Init, EmptyStore
<1>2. inventory \in [Keys -> Rows] /\ totals \in [Products -> TotalRows]
    BY <1>1 DEF EmptyRow, EmptyTotal, Rows, TotalRows
<1>3. IsFiniteSet(history) /\ time \in 0 .. MaxTime
    BY <1>1, FS_EmptySet, WarehouseBounds
<1> QED BY <1>1, <1>2, <1>3 DEF TablesInv

LEMMA RecordKeeps ==
    ASSUME TablesInv, HandInv, Record
    PROVE  TablesInv'
<1>1. PICK d \in hand :
            /\ inventory' = IF d.action = "applied" THEN UpdatedInventory(store, d.event)
                            ELSE inventory
            /\ totals' = IF d.action = "applied" THEN UpdatedTotals(store, d.event) ELSE totals
            /\ orders' = IF d.action = "applied" THEN UpdatedOrders(store, d.event) ELSE orders
            /\ history' = history \cup {[event |-> d.event, outcome |-> OutcomeOf[d.action]]}
    BY DEF Record
<1>2. started' = started /\ time' = time
    BY DEF Record
<1>3. d.event \in Events /\ OutcomeOf[d.action] \in {"APPLIED", "STALE", "DLQ"}
    BY DEF HandInv, OutcomeOf
<1>4. IsFiniteSet(history')
    BY <1>1, FS_AddElement DEF TablesInv
<1>5. history' \subseteq [event : Events, outcome : {"APPLIED", "STALE", "DLQ"}]
    BY <1>1, <1>3 DEF TablesInv
<1>6. CASE d.action = "applied"
    <2> DEFINE e == d.event
    <2>1. StoreOK(store) /\ Accepted(store, e) /\ e \in Events
        BY <1>3, <1>6, StoreTyped DEF HandInv
    <2> HIDE DEF e
    <2>2. UpdatedInventory(store, e) \in [Keys -> Rows]
        BY <2>1, UpdatedInventoryOK, EventsAreRecords
    <2>3. UpdatedTotals(store, e) \in [Products -> TotalRows]
        BY <2>1, UpdatedTotalsOK, EventsAreRecords
    <2>4. /\ UpdatedOrders(store, e) \in [OrderIds -> OrderRows \cup {NoOrder}]
          /\ \A o \in OrderIds : UpdatedOrders(store, e)[o] # NoOrder
                                    => ItemsWellFormed(UpdatedOrders(store, e)[o].items)
        BY <2>1, UpdatedOrdersOK, EventsAreRecords
    <2>5. /\ inventory' = UpdatedInventory(store, e) /\ totals' = UpdatedTotals(store, e)
          /\ orders' = UpdatedOrders(store, e)
        BY <1>1, <1>6 DEF e
    <2> QED BY <1>2, <1>4, <1>5, <2>2, <2>3, <2>4, <2>5 DEF TablesInv
<1>7. CASE d.action # "applied"
    <2>1. inventory' = inventory /\ totals' = totals /\ orders' = orders
        BY <1>1, <1>7
    <2> QED BY <1>2, <1>4, <1>5, <2>1 DEF TablesInv
<1> QED BY <1>6, <1>7

LEMMA TablesNext == TablesInv /\ HandInv /\ [Next]_vars => TablesInv'
<1> SUFFICES ASSUME TablesInv, HandInv, [Next]_vars PROVE TablesInv'
    OBVIOUS
<1>1. CASE Record
    BY <1>1, RecordKeeps
<1>2. CASE StartConsumer
    BY <1>2 DEF StartConsumer, tables, TablesInv
<1>3. CASE Tick
    BY <1>3, WarehouseBounds DEF Tick, tables, TablesInv
<1>4. CASE Report
    <2>1. UNCHANGED <<tables, started, time>>
        BY <1>4 DEF Report, tables, Analytics!Next, Analytics!Ask, Analytics!ReadDay, Analytics!Answer
    <2> QED BY <2>1 DEF tables, TablesInv
<1>5. CASE UNCHANGED <<tables, started, time>>
    BY <1>5 DEF tables, TablesInv
<1>6. (Migrate \/ (\E z \in Zones : Settle(z)) \/ (\E e \in Events : Decide(e)) \/ Drop
       \/ UNCHANGED vars)
         => UNCHANGED <<tables, started, time>>
    BY DEF Migrate, Settle, Decide, Drop, vars
<1> QED BY <1>1, <1>2, <1>3, <1>4, <1>5, <1>6 DEF Next

(* Every table has its type: whatever the migrations do meanwhile, and in  *)
(* whatever state they leave the zones, no quantity is stored below zero   *)
(* and no run of the script fails.                                         *)
THEOREM WarehouseTypeCorrect == Spec => []TypeOK
<1>1. MigrationInv /\ VersionsInv /\ HandInv /\ TablesInv => TypeOK
    BY DEF MigrationInv, VersionsInv, HandInv, TablesInv, TypeOK, Migrations!TypeOK, Script
<1> QED BY <1>1, MigrationInit, MigrationNext, VersionsInit, VersionsNext, HandInit, HandNext,
           TablesInit, TablesNext, PTL DEF Spec

(* An accepted event fits the final capacities too.                        *)
LEMMA FitsInit == Init => StockFits
BY EmptyZone, FinalCapacities DEF Init, StockFits, EmptyStore

LEMMA FitsNext == TablesInv /\ HandInv /\ StockFits /\ [Next]_vars => StockFits'
<1> SUFFICES ASSUME TablesInv, HandInv, StockFits, [Next]_vars, NEW z \in Zones
             PROVE  ZoneTotal(inventory', z) <= Capacity[z]
    BY DEF StockFits
<1>1. ZoneTotal(inventory, z) <= Capacity[z]
    BY DEF StockFits
<1>2. ASSUME NEW d \in hand, d.action = "applied",
             inventory' = UpdatedInventory(store, d.event)
      PROVE  ZoneTotal(inventory', z) <= Capacity[z]
    <2> DEFINE e == d.event
    <2>1. /\ StoreOK(store) /\ store.by_zone = store.inventory /\ Accepted(store, e)
          /\ e \in Events
        BY <1>2, StoreTyped DEF HandInv
    <2> HIDE DEF e
    <2>2. ZoneTotal(store.inventory, z) <= IF z \in Zones THEN Capacity[z] ELSE 0
        BY <1>1, StoreTyped
    <2>3. ZoneTotal(UpdatedInventory(store, e), z) <= IF z \in Zones THEN Capacity[z] ELSE 0
        BY <2>1, <2>2, AcceptedFits, EventsAreRecords
    <2> QED BY <1>2, <2>3 DEF e
<1>3. CASE Record
    BY <1>1, <1>2, <1>3 DEF Record
<1>4. CASE ~Record
    <2>1. inventory' = inventory
        BY <1>4 DEF Next, vars, tables, Migrate, Settle, StartConsumer, Decide, Drop, Tick, Report
    <2> QED BY <1>1, <2>1
<1> QED BY <1>3, <1>4

(* The stock of a zone fits the capacity the last migrations give it: a    *)
(* capacity the consumer reads while they run is none above it.            *)
THEOREM StockFitsCorrect == Spec => []StockFits
BY MigrationInit, MigrationNext, VersionsInit, VersionsNext, HandInit, HandNext,
   TablesInit, TablesNext, FitsInit, FitsNext, PTL DEF Spec

(* The decision to refuse an event the warehouse has room for falls only   *)
(* between the start of a run of the migrations and the moment when the    *)
(* writes of a run that completed have come to every replica.              *)
THEOREM RefusalCorrect == Spec => RefusedOnlyDuringMigrations
<1>1. ASSUME MigrationInv, [Next]_vars, NEW d \in hand' \ hand,
             d.action = "dlq", ProcessAction(store, processed, d.event) = "applied"
      PROVE  run \in {"running", "interrupted"} \/ \E z \in Zones : versions[z] # {Row(z)}
    <2> SUFFICES ASSUME run \notin {"running", "interrupted"},
                        \A z \in Zones : versions[z] = {Row(z)}
                 PROVE  FALSE
        OBVIOUS
    <2>1. PICK e \in Events : Decide(e)
        BY <1>1 DEF Next, Migrate, Settle, StartConsumer, Record, Drop, Tick, Report, vars
    <2>2. PICK capacity \in Readings :
                hand' = {[event |-> e, action |->
                            Handler(capacity)!ProcessAction(store, processed, e)]}
        BY <2>1 DEF Decide
    <2>3. /\ d.event = e /\ started
          /\ Handler(capacity)!ProcessAction(store, processed, e) = "dlq"
        BY <1>1, <2>1, <2>2 DEF Decide
    <2>4. run = "completed"
        BY <1>1, <2>3 DEF MigrationInv
    <2>5. /\ e.event_id \notin processed /\ WellFormed(e) /\ ~Stale(store, e)
          /\ StockSuffices(store, e) /\ OrderAllows(store, e)
          /\ FitsZones(store, e) /\ TotalsNonNegative(store, e)
        BY <1>1, <2>3 DEF ProcessAction
    <2>6. Handler(capacity)!FitsZones(store, e)
        BY <1>1, <2>4, <2>5, FitsWhenCompleted
    <2>7. Handler(capacity)!ProcessAction(store, processed, e) = "applied"
        BY <2>5, <2>6, HandlerAction
    <2> QED BY <2>3, <2>7
<1>2. MigrationInv /\ [Next]_vars
         => [\A d \in hand' \ hand :
                d.action = "dlq" /\ ProcessAction(store, processed, d.event) = "applied"
                => run \in {"running", "interrupted"}
                      \/ \E z \in Zones : versions[z] # {Row(z)}]_vars
    BY <1>1
<1> QED BY <1>2, MigrationInit, MigrationNext, PTL DEF Spec, RefusedOnlyDuringMigrations

-----------------------------------------------------------------------------
(* The report *)

LEMMA DivMonotone ==
    ASSUME NEW a \in Int, NEW b \in Int, a <= b, NEW n \in Nat \ {0}
    PROVE  a \div n <= b \div n
OBVIOUS

LEMMA CalendarTyped ==
    /\ \A t \in Int : Analytics!HourOf(t) \in Int /\ Analytics!DayOf(t) \in Int
    /\ \A t, u \in Int : t <= u => Analytics!DayOf(t) <= Analytics!DayOf(u)
<1>1. Ticks \in Nat \ {0} /\ Hours \in Nat \ {0}
    BY CalendarOK
<1>2. \A t \in Int : t \div Ticks \in Int /\ t \div Hours \in Int
    BY <1>1
<1>3. \A t, u \in Int : t <= u => t \div Hours <= u \div Hours
    BY <1>1, DivMonotone
<1> QED BY <1>2, <1>3 DEF Analytics!HourOf, Analytics!DayOf

LEMMA RowsTyped == ASSUME TablesInv, NEW h \in history PROVE HourOfRow(h) \in Int
<1>1. h.event \in EventRecords
    BY EventsAreRecords DEF TablesInv
<1>2. h.event.occurred_at \in Int
    BY <1>1 DEF EventRecords
<1> QED BY <1>2, CalendarTyped DEF HourOfRow

LEMMA ReportInit == Init => ReportInv
BY DEF Init, Analytics!Init, ReportInv

LEMMA AskKeeps ==
    ASSUME TablesInv, NEW days \in DaysAsked, Analytics!Ask(days)
    PROVE  ReportInv'
<1> DEFINE now == Analytics!HourOf(time)
           start == now - days * Hours
           new == [now |-> now, start |-> start, day |-> Analytics!DayOf(start), rows |-> {},
                   before |-> history]
<1>1. request' = new /\ history' = history
    BY DEF Analytics!Ask
<1>2. now \in Int
    BY CalendarTyped, WarehouseBounds DEF TablesInv
<1>3. start \in Int
    <2>1. days \in Int /\ Hours \in Int
        BY CalendarOK
    <2> HIDE DEF now
    <2> QED BY <1>2, <2>1
<1> HIDE DEF now, start
<1>4. Analytics!DayOf(start) \in Int
    BY <1>3, CalendarTyped
<1>5. new \in [now : Int, start : Int, day : Int, rows : SUBSET history, before : SUBSET history]
    BY <1>2, <1>3, <1>4
<1>6. ASSUME NEW h \in history, start <= HourOfRow(h)
      PROVE  ~(Analytics!DayOf(HourOfRow(h)) < Analytics!DayOf(start))
    <2>1. HourOfRow(h) \in Int
        BY RowsTyped
    <2>2. Analytics!DayOf(start) <= Analytics!DayOf(HourOfRow(h))
        BY <1>3, <1>6, <2>1, CalendarTyped
    <2>3. Analytics!DayOf(HourOfRow(h)) \in Int
        BY <2>1, CalendarTyped
    <2> QED BY <1>4, <2>2, <2>3
<1>7. HasRead(new)
    BY <1>6 DEF HasRead
<1> HIDE DEF new
<1>8. HasRead(request')
    BY <1>1, <1>7
<1>9. HasRead(request)' = HasRead(request')
    BY DEF HasRead, HourOfRow, Analytics!HourOf, Analytics!DayOf
<1> QED BY <1>1, <1>5, <1>8, <1>9 DEF ReportInv

LEMMA ReadDayKeeps ==
    ASSUME TablesInv, ReportInv, Analytics!ReadDay
    PROVE  ReportInv'
<1> DEFINE found == {h \in Analytics!Partition(request.day) : Analytics!InRange(h)}
<1>1. /\ request \in [now : Int, start : Int, day : Int,
                      rows : SUBSET history, before : SUBSET history]
      /\ HasRead(request) /\ history' = history
    BY DEF Analytics!ReadDay, ReportInv
<1>2. PICK new : new = [request EXCEPT !.day = request.day + 1, !.rows = request.rows \cup found]
    OBVIOUS
<1>3. request' = new
    BY <1>2 DEF Analytics!ReadDay
<1>4. found \subseteq history
    BY DEF Analytics!Partition
<1>5. \A h \in history : /\ request.start <= HourOfRow(h) /\ HourOfRow(h) <= request.now
                         /\ Analytics!DayOf(HourOfRow(h)) = request.day
                         => h \in found
    BY DEF Analytics!Partition, Analytics!InRange, HourOfRow
<1> HIDE DEF found
<1>6. new = [now |-> request.now, start |-> request.start, day |-> request.day + 1,
             rows |-> request.rows \cup found, before |-> request.before]
    BY <1>1, <1>2
<1>7. new \in [now : Int, start : Int, day : Int, rows : SUBSET history, before : SUBSET history]
    BY <1>1, <1>4, <1>6
<1>8. ASSUME NEW h \in request.before, request.start <= HourOfRow(h),
             HourOfRow(h) <= request.now, Analytics!DayOf(HourOfRow(h)) < request.day + 1
      PROVE  h \in request.rows \cup found
    <2>1. h \in history
        BY <1>1
    <2>2. Analytics!DayOf(HourOfRow(h)) \in Int /\ request.day \in Int
        BY <1>1, <2>1, RowsTyped, CalendarTyped
    <2>3. \/ Analytics!DayOf(HourOfRow(h)) < request.day
          \/ Analytics!DayOf(HourOfRow(h)) = request.day
        BY <1>8, <2>2
    <2> QED BY <1>1, <1>5, <1>8, <2>1, <2>3 DEF HasRead
<1>9. HasRead(new)
    BY <1>6, <1>8 DEF HasRead
<1>10. HasRead(request)' = HasRead(request')
    BY DEF HasRead, HourOfRow, Analytics!HourOf, Analytics!DayOf
<1> QED BY <1>1, <1>3, <1>7, <1>9, <1>10 DEF ReportInv

LEMMA ReportNext == TablesInv /\ ReportInv /\ [Next]_vars => ReportInv'
<1> SUFFICES ASSUME TablesInv, ReportInv, [Next]_vars PROVE ReportInv'
    OBVIOUS
<1>1. CASE Report
    <2>1. CASE \E days \in DaysAsked : Analytics!Ask(days)
        BY <2>1, AskKeeps
    <2>2. CASE Analytics!ReadDay
        BY <2>2, ReadDayKeeps
    <2>3. CASE Analytics!Answer
        BY <2>3 DEF Analytics!Answer, ReportInv
    <2> QED BY <1>1, <2>1, <2>2, <2>3 DEF Report, Analytics!Next
<1>2. CASE ~Report
    <2>1. request' = request /\ history \subseteq history'
        BY <1>2 DEF Next, Migrate, Settle, StartConsumer, Decide, Record, Drop, Tick, vars, tables,
                     report
    <2>2. HasRead(request)' = HasRead(request')
        BY DEF HasRead, HourOfRow, Analytics!HourOf, Analytics!DayOf
    <2> QED BY <2>1, <2>2 DEF ReportInv
<1> QED BY <1>1, <1>2

(* The first hour of the series is an hour of a row, and none is earlier.  *)
LEMMA EarliestExists ==
    ASSUME NEW S, IsFiniteSet(S), S \subseteq Int, S # {}
    PROVE  \E x \in S : \A y \in S : x <= y
<1> DEFINE G == {T \in SUBSET S : T # {} => \E x \in T : \A y \in T : x <= y}
<1>1. ASSUME NEW T \in SUBSET S, \A U \in SUBSET T : U # T => U \in G
      PROVE  T \in G
    <2> SUFFICES ASSUME T # {} PROVE \E x \in T : \A y \in T : x <= y
        OBVIOUS
    <2>1. PICK c \in T : TRUE
        OBVIOUS
    <2>2. CASE T \ {c} = {}
        BY <2>2
    <2>3. CASE T \ {c} # {}
        <3>1. T \ {c} \in G
            BY <1>1
        <3>2. PICK x \in T \ {c} : \A y \in T \ {c} : x <= y
            BY <2>3, <3>1
        <3>3. x \in Int /\ c \in Int /\ T \subseteq Int
            OBVIOUS
        <3>4. CASE x <= c
            BY <3>2, <3>4
        <3>5. CASE ~(x <= c)
            BY <3>2, <3>3, <3>5
        <3> QED BY <3>4, <3>5
    <2> QED BY <2>2, <2>3
<1> HIDE DEF G
<1>2. S \in G
    BY <1>1, SubsetInduction
<1> QED BY <1>2 DEF G

LEMMA FirstHourIsFirst ==
    ASSUME TablesInv, NEW rows \in SUBSET history, rows # {}, NEW now
    PROVE  /\ Analytics!FirstHour(rows, now) \in Int
           /\ \A h \in rows : Analytics!FirstHour(rows, now) <= HourOfRow(h)
<1> DEFINE hours == {HourOfRow(h) : h \in rows}
           f == [h \in rows |-> HourOfRow(h)]
<1>1. IsFiniteSet(rows)
    BY FS_Subset DEF TablesInv
<1>2. hours \subseteq Int /\ hours # {}
    BY RowsTyped
<1>3. IsFiniteSet({f[h] : h \in rows})
    <2> HIDE DEF f
    <2> QED BY <1>1, ImageFinite
<1>4. hours = {f[h] : h \in rows}
    OBVIOUS
<1>5. \E x \in hours : \A y \in hours : x <= y
    <2> HIDE DEF hours, f
    <2> QED BY <1>2, <1>3, <1>4, EarliestExists
<1>6. \E x \in hours : \A h \in rows : x <= HourOfRow(h)
    BY <1>5
<1>7. Analytics!FirstHour(rows, now) = CHOOSE x \in hours : \A h \in rows : x <= HourOfRow(h)
    BY DEF Analytics!FirstHour, HourOfRow
<1>8. /\ Analytics!FirstHour(rows, now) \in hours
      /\ \A h \in rows : Analytics!FirstHour(rows, now) <= HourOfRow(h)
    <2> HIDE DEF hours
    <2> QED BY <1>6, <1>7
<1> QED BY <1>2, <1>8

LEMMA SameCardinality == \A S : Analytics!Cardinality(S) = Cardinality(S)
BY Zenon DEF Analytics!Cardinality, Cardinality

(* More rows count for more.                                               *)
LEMMA CountMonotone ==
    ASSUME NEW less, NEW more, less \subseteq more, IsFiniteSet(more), NEW hour,
           NEW outcomes
    PROVE  Analytics!CountAt(less, hour, outcomes) <= Analytics!CountAt(more, hour, outcomes)
<1> DEFINE A == {h \in less : Analytics!HourOf(h.event.occurred_at) = hour /\ h.outcome \in outcomes}
           B == {h \in more : Analytics!HourOf(h.event.occurred_at) = hour /\ h.outcome \in outcomes}
<1>1. A \in SUBSET B
    OBVIOUS
<1>2. IsFiniteSet(B)
    BY FS_Subset
<1>3. Cardinality(A) <= Cardinality(B)
    <2> HIDE DEF A, B
    <2> QED BY <1>1, <1>2, FS_Subset
<1> QED BY <1>3, SameCardinality DEF Analytics!CountAt

LEMMA PointMonotone ==
    ASSUME NEW less, NEW more, NEW hour,
           \A outcomes : Analytics!CountAt(less, hour, outcomes)
                            <= Analytics!CountAt(more, hour, outcomes)
    PROVE  Analytics!AtMost(Analytics!Point(less, hour), Analytics!Point(more, hour))
BY DEF Analytics!AtMost, Analytics!Point

(* What the report has read of an hour before it answers: all the rows     *)
(* that were there when the request came.                                  *)
LEMMA HourRead ==
    ASSUME TablesInv, ReportInv, Analytics!Answer,
           NEW hour \in request.start .. request.now
    PROVE  \A h \in request.before : HourOfRow(h) = hour => h \in request.rows
<1>1. /\ request \in [now : Int, start : Int, day : Int,
                      rows : SUBSET history, before : SUBSET history]
      /\ HasRead(request) /\ request.day > Analytics!DayOf(request.now)
    BY DEF Analytics!Answer, ReportInv
<1> SUFFICES ASSUME NEW h \in request.before, HourOfRow(h) = hour PROVE h \in request.rows
    OBVIOUS
<1>2. hour \in Int /\ request.start <= hour /\ hour <= request.now /\ request.now \in Int
    BY <1>1
<1>3. Analytics!DayOf(hour) <= Analytics!DayOf(request.now)
    BY <1>2, CalendarTyped
<1>4. Analytics!DayOf(hour) \in Int /\ Analytics!DayOf(request.now) \in Int /\ request.day \in Int
    BY <1>1, <1>2, CalendarTyped
<1>5. Analytics!DayOf(hour) < request.day
    BY <1>1, <1>3, <1>4
<1> QED BY <1>1, <1>2, <1>5 DEF HasRead

LEMMA AnswerBrackets ==
    ASSUME TablesInv, ReportInv, Analytics!Answer
    PROVE  Analytics!Bracketed(request.before, answer', history', request.start, request.now)
<1> DEFINE rows == request.rows
           before == request.before
           first == Analytics!FirstHour(rows, request.now)
<1>1. /\ request \in [now : Int, start : Int, day : Int,
                      rows : SUBSET history, before : SUBSET history]
      /\ history' = history
      /\ answer' = [hour \in first .. request.now |-> Analytics!Point(rows, hour)]
    BY DEF Analytics!Answer, ReportInv
<1>2. IsFiniteSet(history) /\ IsFiniteSet(rows) /\ IsFiniteSet(before)
    BY <1>1, FS_Subset DEF TablesInv
<1>3. first \in Int
    <2>1. CASE rows = {}
        BY <1>1, <2>1 DEF Analytics!FirstHour
    <2>2. CASE rows # {}
        BY <1>1, <2>2, FirstHourIsFirst
    <2> QED BY <2>1, <2>2
<1> SUFFICES ASSUME NEW hour \in request.start .. request.now
             PROVE  IF hour \in DOMAIN answer'
                    THEN /\ Analytics!AtMost(Analytics!Point(before, hour), answer'[hour])
                         /\ Analytics!AtMost(answer'[hour], Analytics!Point(history', hour))
                    ELSE Analytics!CountAt(before, hour, Analytics!Outcomes) = 0
    BY DEF Analytics!Bracketed
<1>4. \A h \in before : HourOfRow(h) = hour => h \in rows
    BY HourRead
<1>5. CASE hour \in first .. request.now
    <2>1. hour \in DOMAIN answer' /\ answer'[hour] = Analytics!Point(rows, hour)
        BY <1>1, <1>5
    <2>2. \A outcomes : Analytics!CountAt(before, hour, outcomes)
                           <= Analytics!CountAt(rows, hour, outcomes)
        <3> TAKE outcomes
        <3> DEFINE kept == {h \in before : HourOfRow(h) = hour}
        <3>1. kept \subseteq rows
            BY <1>4
        <3>2. Analytics!CountAt(kept, hour, outcomes) <= Analytics!CountAt(rows, hour, outcomes)
            <4> HIDE DEF kept
            <4> QED BY <1>2, <3>1, CountMonotone
        <3>3. {h \in kept : Analytics!HourOf(h.event.occurred_at) = hour /\ h.outcome \in outcomes}
                 = {h \in before : Analytics!HourOf(h.event.occurred_at) = hour
                                   /\ h.outcome \in outcomes}
            BY DEF HourOfRow
        <3>4. Analytics!CountAt(kept, hour, outcomes) = Analytics!CountAt(before, hour, outcomes)
            BY <3>3 DEF Analytics!CountAt
        <3> QED BY <3>2, <3>4
    <2>3. \A outcomes : Analytics!CountAt(rows, hour, outcomes)
                           <= Analytics!CountAt(history, hour, outcomes)
        BY <1>1, <1>2, CountMonotone
    <2> HIDE DEF rows, before
    <2> QED BY <1>1, <2>1, <2>2, <2>3, PointMonotone
<1>6. CASE hour \notin first .. request.now
    <2>1. hour \notin DOMAIN answer'
        BY <1>1, <1>6
    <2>2. hour < first
        BY <1>1, <1>3, <1>6
    <2>3. ASSUME NEW h \in before, HourOfRow(h) = hour PROVE FALSE
        <3>1. h \in rows
            BY <1>4, <2>3
        <3>2. first <= HourOfRow(h)
            BY <1>1, <3>1, FirstHourIsFirst
        <3> HIDE DEF first
        <3> QED BY <1>1, <1>3, <2>2, <2>3, <3>2
    <2>4. {h \in before : Analytics!HourOf(h.event.occurred_at) = hour
                          /\ h.outcome \in Analytics!Outcomes} = {}
        BY <2>3 DEF HourOfRow
    <2>5. Analytics!CountAt(before, hour, Analytics!Outcomes) = 0
        BY <2>4, FS_EmptySet, SameCardinality DEF Analytics!CountAt
    <2> QED BY <2>1, <2>5
<1> QED BY <1>5, <1>6

(* An answer of the report holds for every hour what the history held when *)
(* the request came, and nothing the history does not hold at the end.     *)
THEOREM AnswersCorrect == Spec => AnswersAreBracketed
<1>1. ASSUME TablesInv, ReportInv, [Next]_vars, answer' # answer
      PROVE  Analytics!Bracketed(request.before, answer', history', request.start, request.now)
    <2>1. Analytics!Answer
        BY <1>1 DEF Next, Migrate, Settle, StartConsumer, Decide, Record, Drop, Tick, vars, report,
                    Report, Analytics!Next, Analytics!Ask, Analytics!ReadDay
    <2> QED BY <1>1, <2>1, AnswerBrackets
<1>2. TablesInv /\ ReportInv /\ [Next]_vars
         => [answer' # answer =>
                Analytics!Bracketed(request.before, answer', history',
                                    request.start, request.now)]_Analytics!vars
    BY <1>1
<1> QED BY <1>2, MigrationInit, MigrationNext, VersionsInit, VersionsNext, HandInit, HandNext,
           TablesInit, TablesNext, ReportInit, ReportNext, PTL
        DEF Spec, AnswersAreBracketed, Analytics!AnswersAreBracketed
=============================================================================
