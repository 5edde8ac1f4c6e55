----------------------------- MODULE Warehouse ------------------------------
(***************************************************************************)
(* What meets in Cassandra: the migrations that write zones_by_id, the     *)
(* consumer that reads the capacities and writes the history, and the      *)
(* traffic report that reads the history.                                  *)
(*                                                                         *)
(* The deployment starts the consumer when the migrations have completed,  *)
(* and runs them again, next to a working consumer, each time it is        *)
(* brought up.  Zones and Capacity are what the migrations end with.       *)
(*                                                                         *)
(* The consumer reads and writes at QUORUM and is the only one to write    *)
(* its tables.  The migrator writes at the driver's default, LOCAL_ONE:    *)
(* until a write of it has come to the other replicas, a read at QUORUM    *)
(* may see what was there before.                                          *)
(***************************************************************************)
EXTENDS EventProcessor

CONSTANTS
    ManualZones, LiveZones, ManualCapacity, FirstCapacity, LiveCapacity, MaxRuns,
    Ticks, Hours, DaysAsked, NoRequest, MaxRequests,
    NoRow,          \* a zone without a row in zones_by_id
    MaxTime         \* bound on the server's clock

ASSUME TablesEndWithCapacity ==
    /\ Zones = DOMAIN ManualCapacity \cup DOMAIN LiveCapacity
    /\ \A z \in DOMAIN ManualCapacity : Capacity[z] = ManualCapacity[z]
    /\ \A z \in DOMAIN LiveCapacity : Capacity[z] = LiveCapacity[z]
    /\ \A z \in DOMAIN LiveCapacity :
          FirstCapacity[z] \in Nat /\ FirstCapacity[z] <= LiveCapacity[z]

ASSUME ZonesAreListed ==
    /\ LiveZones \in Seq(DOMAIN LiveCapacity)
    /\ ManualZones \in Seq(DOMAIN ManualCapacity)
    /\ {LiveZones[i] : i \in DOMAIN LiveZones} = DOMAIN LiveCapacity
    /\ {ManualZones[i] : i \in DOMAIN ManualZones} = DOMAIN ManualCapacity

ASSUME CalendarOK == /\ Ticks \in Nat \ {0} /\ Hours \in Nat \ {0}
                     /\ DaysAsked \subseteq 1 .. 30
ASSUME NoRowIsNoCapacity == NoRow \notin Nat
ASSUME WarehouseBounds == {MaxRuns, MaxRequests, MaxTime} \subseteq Nat

VARIABLES
    zones, columns, at, run, runs,                      \* Migrator
    versions,                                           \* per zone, what a read may see of its row
    inventory, totals, orders, processed, history,      \* the tables of the consumer
    started,                                            \* the consumer was started
    hand,                                               \* the event it has decided on, if any
    time, request, answer, requests                     \* TrafficAnalytics

migrator == <<zones, columns, at, run, runs, versions>>
tables   == <<inventory, totals, orders, processed, history>>
report   == <<request, answer, requests>>
vars     == <<migrator, tables, started, hand, time, report>>

Migrations == INSTANCE Migrator
Analytics  == INSTANCE TrafficAnalytics

(* EventProcessor with the zones and capacities that the consumer reads.   *)
Handler(capacity) ==
    INSTANCE EventProcessor WITH Zones <- DOMAIN capacity, Capacity <- capacity

store == [inventory |-> inventory, by_zone |-> inventory, totals |-> totals, orders |-> orders]

(* The capacity last written, or NoRow.                                    *)
Row(z) == IF z \in DOMAIN zones THEN zones[z] ELSE NoRow

Init ==
    /\ Migrations!Init
    /\ versions = [z \in Zones |-> {NoRow}]
    /\ inventory = EmptyStore.inventory /\ totals = EmptyStore.totals
    /\ orders = EmptyStore.orders /\ processed = {} /\ history = {}
    /\ started = FALSE /\ hand = {}
    /\ time = 0
    /\ Analytics!Init

(* What a statement of the migrations writes is there to be read, and so   *)
(* is what it overwrites.                                                  *)
Migrate ==
    /\ Migrations!Next
    /\ versions' = [z \in Zones |-> versions[z] \cup {Row(z)'}]
    /\ UNCHANGED <<tables, started, hand, time, report>>

(* The last write has come to every replica.                               *)
Settle(z) ==
    /\ versions[z] # {Row(z)}
    /\ versions' = [versions EXCEPT ![z] = {Row(z)}]
    /\ UNCHANGED <<zones, columns, at, run, runs, tables, started, hand, time, report>>

(* Mutant: the consumer does not wait for the migrations.                  *)
StartConsumerAtOnce ==
    /\ ~started /\ started' = TRUE
    /\ UNCHANGED <<migrator, tables, hand, time, report>>

(* depends_on: service_completed_successfully.                             *)
StartConsumer ==
    /\ ~started /\ started' = TRUE
    /\ run = "completed"
    /\ UNCHANGED <<migrator, tables, hand, time, report>>

(* What process may find in zones_by_id, one row read after the other.     *)
Readings ==
    {[z \in {y \in Zones : seen[y] # NoRow} |-> seen[z]] :
        seen \in {f \in [Zones -> UNION {versions[z] : z \in Zones}] :
                    \A z \in Zones : f[z] \in versions[z]}}

(* process reads the tables and decides; what it would write follows from  *)
(* the event and the tables, which nobody else changes.                    *)
Decide(e) ==
    /\ started
    /\ hand = {}
    /\ \E capacity \in Readings :
          LET action == Handler(capacity)!ProcessAction(store, processed, e)
          IN  /\ action # "duplicate"
              /\ hand' = {[event |-> e, action |-> action]}
    /\ UNCHANGED <<migrator, tables, started, time, report>>

OutcomeOf == [applied |-> "APPLIED", stale |-> "STALE", dlq |-> "DLQ"]

(* The batch.  A refused event was published to the DLQ before, in a flush *)
(* of up to ten seconds.                                                   *)
Record ==
    /\ \E d \in hand :
          /\ inventory' = IF d.action = "applied" THEN UpdatedInventory(store, d.event)
                          ELSE inventory
          /\ totals' = IF d.action = "applied" THEN UpdatedTotals(store, d.event) ELSE totals
          /\ orders' = IF d.action = "applied" THEN UpdatedOrders(store, d.event) ELSE orders
          /\ processed' = processed \cup {d.event.event_id}
          /\ history' = history \cup {[event |-> d.event, outcome |-> OutcomeOf[d.action]]}
    /\ hand' = {}
    /\ UNCHANGED <<migrator, started, time, report>>

(* A call fails or the process dies: the event may come again.             *)
Drop ==
    /\ hand # {} /\ hand' = {}
    /\ UNCHANGED <<migrator, tables, started, time, report>>

Tick ==
    /\ time < MaxTime
    /\ time' = time + 1
    /\ UNCHANGED <<migrator, tables, started, hand, report>>

Report ==
    /\ Analytics!Next
    /\ UNCHANGED <<migrator, inventory, totals, orders, processed, started, hand>>

Next ==
    \/ Migrate \/ (\E z \in Zones : Settle(z))
    \/ StartConsumer \/ (\E e \in Events : Decide(e)) \/ Record \/ Drop
    \/ Tick \/ Report

Spec == Init /\ [][Next]_vars

-----------------------------------------------------------------------------
TypeOK ==
    /\ Migrations!TypeOK
    /\ versions \in [Zones -> SUBSET (Nat \cup {NoRow})]
    /\ inventory \in [Keys -> Rows] /\ totals \in [Products -> TotalRows]
    /\ history \subseteq [event : Events, outcome : {"APPLIED", "STALE", "DLQ"}]
    /\ hand \subseteq [event : Events, action : DOMAIN OutcomeOf]
    /\ started \in BOOLEAN /\ time \in 0 .. MaxTime

(* The stock fits the capacities of the last migrations, in whatever order *)
(* migrations and events come.                                             *)
StockFits == \A z \in Zones : ZoneTotal(inventory, z) <= Capacity[z]

CompletedRunRestores == Migrations!CompletedRunRestores
AnswersAreBracketed  == Analytics!AnswersAreBracketed

(* The decision to refuse an event for which the warehouse has room falls  *)
(* only while the migrations run again, which first sets the live zones    *)
(* back to their first capacities, after a run that broke off, or before   *)
(* what was written has come to every replica.  (It may be recorded later, *)
(* when all of that is over.)                                              *)
RefusedOnlyDuringMigrations ==
    [][\A d \in hand' \ hand :
          d.action = "dlq" /\ ProcessAction(store, processed, d.event) = "applied"
          => run \in {"running", "interrupted"} \/ \E z \in Zones : versions[z] # {Row(z)}]_vars
=============================================================================
