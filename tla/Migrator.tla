------------------------------ MODULE Migrator ------------------------------
(***************************************************************************)
(* The schema migrations: a script that executes every statement of every  *)
(* migration, from the first, each time it is run.  Nothing records what   *)
(* was applied; a column that exists already is skipped, and the zones are *)
(* simply written again.                                                   *)
(*                                                                         *)
(* CREATE ... IF NOT EXISTS and USE change nothing after the first run and *)
(* are left out.  The script runs once at each start of the deployment.    *)
(***************************************************************************)
EXTENDS Integers, Sequences

CONSTANTS
    ManualZones, LiveZones,     \* the zones in the order of the migrations
    ManualCapacity,             \* 001 and 006
    FirstCapacity,              \* 004: the first capacities of the live zones
    LiveCapacity,               \* 005: those after the resizing
    MaxRuns                     \* bound on the runs of the script

VARIABLES
    zones,      \* zones_by_id: the capacity of each zone with a row
    columns,    \* the columns that ALTER TABLE added
    at,         \* the statement the script is at
    run,        \* how the last run went: "none", "running", "completed", "failed", "interrupted"
    runs

vars == <<zones, columns, at, run, runs>>

Init == zones = <<>> /\ columns = {} /\ at = 0 /\ run = "none" /\ runs = 0

-----------------------------------------------------------------------------
(* The migrations, in the order of their files *)

Capacities(order, capacity) ==
    [i \in DOMAIN order |-> [zone |-> order[i], capacity |-> capacity[order[i]]]]

AddColumns(names) == [i \in DOMAIN names |-> [column |-> names[i]]]

Supplier == AddColumns(<<"inventory_by_product_zone.supplier_id",
                         "inventory_by_product.supplier_id",
                         "inventory_by_zone.supplier_id">>)

(* Mutant: the files are not sorted, 005 comes before 004.                 *)
MigrationsUnsorted ==
    Capacities(ManualZones, ManualCapacity) \o Supplier
        \o AddColumns(<<"event_history_by_day.occurred_at_ms">>)
        \o Capacities(LiveZones, LiveCapacity) \o Capacities(LiveZones, FirstCapacity)
        \o Capacities(ManualZones, ManualCapacity)

(* Inserting a zone and updating one are the same in Cassandra.            *)
Migrations ==
    Capacities(ManualZones, ManualCapacity)                             \* 001
        \o Supplier                                                     \* 002
        \o AddColumns(<<"event_history_by_day.occurred_at_ms">>)        \* 003
        \o Capacities(LiveZones, FirstCapacity)                         \* 004
        \o Capacities(LiveZones, LiveCapacity)                          \* 005
        \o Capacities(ManualZones, ManualCapacity)                      \* 006

StartRun ==
    /\ run # "running"
    /\ runs < MaxRuns
    /\ runs' = runs + 1
    /\ run' = "running" /\ at' = 1
    /\ UNCHANGED <<zones, columns>>

SetCapacity(z, n) == [y \in DOMAIN zones \cup {z} |-> IF y = z THEN n ELSE zones[y]]

(* Mutant: InvalidRequest always ends the run.                             *)
ExecuteStrictly ==
    /\ run = "running" /\ at \in DOMAIN Migrations
    /\ LET statement == Migrations[at]
       IN  IF "zone" \in DOMAIN statement
           THEN /\ zones' = SetCapacity(statement.zone, statement.capacity)
                /\ at' = at + 1 /\ UNCHANGED <<columns, run>>
           ELSE /\ columns' = columns \cup {statement.column}
                /\ at' = at + 1 /\ UNCHANGED zones
                /\ run' = IF statement.column \in columns THEN "failed" ELSE run
    /\ UNCHANGED runs

(* A column that exists already raises InvalidRequest, which is skipped.   *)
Execute ==
    /\ run = "running" /\ at \in DOMAIN Migrations
    /\ LET statement == Migrations[at]
       IN  IF "zone" \in DOMAIN statement
           THEN /\ zones' = SetCapacity(statement.zone, statement.capacity)
                /\ UNCHANGED columns
           ELSE /\ columns' = columns \cup {statement.column}
                /\ UNCHANGED zones
    /\ at' = at + 1
    /\ UNCHANGED <<run, runs>>

FinishRun ==
    /\ run = "running" /\ at \notin DOMAIN Migrations
    /\ run' = "completed" /\ at' = 0
    /\ UNCHANGED <<zones, columns, runs>>

(* Any other error, Cassandra out of reach at the start included, and the  *)
(* container's death end the run where it is.                              *)
Interrupt ==
    /\ run = "running"
    /\ run' = "interrupted" /\ at' = 0
    /\ UNCHANGED <<zones, columns, runs>>

Next == StartRun \/ Execute \/ FinishRun \/ Interrupt

-----------------------------------------------------------------------------
(* A run is never "failed": applying the migrations again raises nothing   *)
(* that is not skipped.                                                    *)
TypeOK ==
    /\ \A z \in DOMAIN zones : zones[z] \in Nat
    /\ at \in 0 .. Len(Migrations) + 1
    /\ run \in {"none", "running", "completed", "interrupted"} /\ runs \in 0 .. MaxRuns

(* However often the migrations run, and wherever earlier runs broke off,  *)
(* a run that completes leaves the capacities of the last migrations.      *)
CompletedRunRestores ==
    run = "completed" =>
        /\ \A z \in DOMAIN LiveCapacity : zones[z] = LiveCapacity[z]
        /\ \A z \in DOMAIN ManualCapacity : zones[z] = ManualCapacity[z]
=============================================================================
