--------------------------- MODULE CassandraBatch ---------------------------
(***************************************************************************)
(* WarehouseRepository on Cassandra as it is: the write of an event is a   *)
(* logged batch over several tables, each row a cell with the timestamp    *)
(* its client gave it, and of two cells of a row the later one wins.       *)
(*                                                                         *)
(* A batch that times out is neither written nor refused.  The coordinator *)
(* may have stored it in its batchlog, from which its rows reach the       *)
(* replicas one partition after the other, at any later time, with the     *)
(* timestamps they had; meanwhile the loop has gone on.  And after a       *)
(* rebalance two members of the consumer group may work at once.           *)
(*                                                                         *)
(* An event is handled in two steps: Read, all the SELECTs of the          *)
(* processor, and Write, the batch.  The SELECTs are one step, since what  *)
(* they may see of a batch that is on its way is what some order of Deliver*)
(* leaves visible.  Reads and writes at QUORUM, with read repair: a cell   *)
(* that was seen once stays visible.                                       *)
(***************************************************************************)
EXTENDS EventProcessor

CONSTANTS
    Members,        \* the members of the consumer group
    NoJob,          \* a member is not handling an event
    MaxTimeouts,    \* bound on the batches that time out
    MaxBatches      \* bound on the batches written

ASSUME BatchBounds == MaxTimeouts \in Nat /\ MaxBatches \in Nat

VARIABLES
    visible,        \* the cells a QUORUM read sees
    hidden,         \* the cells of timed-out batches that are still on their way
    clock,          \* the last timestamp given by a client
    job,            \* per member: the event and the cells read for it
    timeouts,
    raced           \* history: the events written on rows other than those read

vars == <<visible, hidden, clock, job, timeouts, raced>>

-----------------------------------------------------------------------------
(* Cells *)

(* The three copies of an inventory row.                                   *)
Copies == {"inventory_by_product_zone", "inventory_by_product", "inventory_by_zone"}

(* Of several cells of a row only the latest counts.                       *)
Supersedes(d, c) == d.row = c.row /\ d.ts > c.ts

Merge(cells, new) ==
    {c \in cells : \A d \in new : ~Supersedes(d, c)}
    \cup {d \in new : \A c \in cells \cup new : ~Supersedes(c, d)}

ValueAt(cells, row, empty) ==
    IF \E c \in cells : c.row = row THEN (CHOOSE c \in cells : c.row = row).value ELSE empty

CopyIn(cells, table) == [k \in Keys |-> ValueAt(cells, <<table, k>>, EmptyRow)]

TotalsIn(cells) ==
    [p \in Products |-> ValueAt(cells, <<"inventory_totals_by_product", p>>, EmptyTotal)]

OrdersIn(cells) == [o \in OrderIds |-> ValueAt(cells, <<"orders_by_id", o>>, NoOrder)]

(* What the processor makes of the cells it reads.  inventory_by_product   *)
(* is written but never read by it.                                        *)
StoreIn(cells) == [inventory |-> CopyIn(cells, "inventory_by_product_zone"),
                   by_zone   |-> CopyIn(cells, "inventory_by_zone"),
                   totals    |-> TotalsIn(cells),
                   orders    |-> OrdersIn(cells)]

ProcessedIn(cells) == {c.row[2] : c \in {d \in cells : d.row[1] = "processed_events_by_id"}}
HistoryIn(cells)   == {c \in cells : c.row[1] = "event_history_by_day"}

(* The rows that deciding on an event reads.                               *)
RowsToRead(s, e) ==
    LET keys == IF ~WellFormed(e) \/ (e.event_type = "ORDER_COMPLETED"
                                      /\ s.orders[e.order_id] = NoOrder)
                THEN {} ELSE TouchedKeys(s, e)
    IN  {<<"processed_events_by_id", e.event_id>>, <<"orders_by_id", e.order_id>>}
        \cup {<<"inventory_by_product_zone", k>> : k \in keys}
        \cup {<<"inventory_by_zone", k>> : k \in {j \in Keys : \E k \in keys : j[2] = k[2]}}
        \cup {<<"inventory_totals_by_product", k[1]>> : k \in keys}

CellsRead(cells, e) ==
    LET rows == RowsToRead(StoreIn(cells), e) IN {c \in cells : c.row \in rows}

Decision(j) == ProcessAction(StoreIn(j.seen), ProcessedIn(j.seen), j.event)

OutcomeOf == [applied |-> "APPLIED", stale |-> "STALE", dlq |-> "DLQ"]

Cell(table, key, value, ts) == [row |-> <<table, key>>, value |-> value, ts |-> ts]

(* The last two inserts of every batch.  processed_at, of which the time   *)
(* of writing is as good as any, is part of the key of the history.        *)
RecordCells(j, ts) ==
    {Cell("processed_events_by_id", j.event.event_id, [event |-> j.event], ts),
     Cell("event_history_by_day", <<ts, j.event.event_id>>,
          [event |-> j.event, outcome |-> OutcomeOf[Decision(j)]], ts)}

RowCells(tables, j, ts) ==
    LET s == StoreIn(j.seen)
        e == j.event
    IN  IF Decision(j) # "applied" THEN {}
        ELSE {Cell(t, k, UpdatedInventory(s, e)[k], ts) : t \in tables, k \in TouchedKeys(s, e)}
             \cup {Cell("inventory_totals_by_product", p, UpdatedTotals(s, e)[p], ts) :
                      p \in {k[1] : k \in TouchedKeys(s, e)}}
             \cup {Cell("orders_by_id", o, UpdatedOrders(s, e)[o], ts) :
                      o \in IF e.event_type \in OrderEventTypes THEN {e.order_id} ELSE {}}

(* Mutant: one of the three copies is left out of the batch.               *)
BatchTwoCopies(j, ts) == RowCells(Copies \ {"inventory_by_zone"}, j, ts) \cup RecordCells(j, ts)

(* Mutant: the processed event is not part of the batch.                   *)
BatchUnmarked(j, ts) ==
    RowCells(Copies, j, ts)
    \cup {c \in RecordCells(j, ts) : c.row[1] # "processed_events_by_id"}

(* apply_state_change: one timestamp for the whole batch.                  *)
Batch(j, ts) == RowCells(Copies, j, ts) \cup RecordCells(j, ts)

-----------------------------------------------------------------------------
Init ==
    /\ visible = {}
    /\ hidden = {}
    /\ clock = 0
    /\ job = [m \in Members |-> NoJob]
    /\ timeouts = 0
    /\ raced = {}

(* What the tables will hold when everything written has arrived.          *)
Settled == Merge(visible, hidden)

(* A member decides on an event of the topic, perhaps one that another     *)
(* member is handling or has handled.  A duplicate changes nothing.        *)
Read(m, e) ==
    /\ job[m] = NoJob
    /\ e.event_id \notin ProcessedIn(visible)
    /\ job' = [job EXCEPT ![m] = [event |-> e, seen |-> CellsRead(visible, e)]]
    /\ UNCHANGED <<visible, hidden, clock, timeouts, raced>>

(* Meanwhile another member, or a batch on its way, wrote what m read.     *)
Outdated(m) == CellsRead(Settled, job[m].event) # job[m].seen

Finish(m) ==
    /\ job[m] # NoJob
    /\ clock < MaxBatches
    /\ clock' = clock + 1
    /\ job' = [job EXCEPT ![m] = NoJob]
    /\ raced' = IF Outdated(m) THEN raced \cup {job[m].event} ELSE raced

Write(m) ==
    /\ Finish(m)
    /\ visible' = Merge(visible, Batch(job[m], clock'))
    /\ UNCHANGED <<hidden, timeouts>>

(* Mutant: without a batchlog, a batch that times out may lose statements. *)
TimeOutUnlogged(m) ==
    /\ Finish(m)
    /\ timeouts < MaxTimeouts
    /\ timeouts' = timeouts + 1
    /\ hidden' = hidden \cup RowCells(Copies, job[m], clock')
    /\ UNCHANGED visible

(* The batch is in the batchlog when the client gives up on it.            *)
TimeOut(m) ==
    /\ Finish(m)
    /\ timeouts < MaxTimeouts
    /\ timeouts' = timeouts + 1
    /\ hidden' = hidden \cup Batch(job[m], clock')
    /\ UNCHANGED visible

(* Mutant: the batch is executed again, with the time of the replay.       *)
DeliverRestamped(c) ==
    /\ hidden' = hidden \ {c}
    /\ clock' = clock + 1
    /\ visible' = Merge(visible, {[c EXCEPT !.ts = clock']})
    /\ UNCHANGED <<job, timeouts, raced>>

(* A row of the batchlog reaches its replicas, whatever they hold by then. *)
Deliver(c) ==
    /\ hidden' = hidden \ {c}
    /\ visible' = Merge(visible, {c})
    /\ UNCHANGED <<clock, job, timeouts, raced>>

(* The process dies, or the batch is refused before it is in the batchlog. *)
Abandon(m) ==
    /\ job[m] # NoJob
    /\ job' = [job EXCEPT ![m] = NoJob]
    /\ UNCHANGED <<visible, hidden, clock, timeouts, raced>>

Next ==
    \/ \E m \in Members :
          \/ \E e \in Events : Read(m, e)
          \/ Write(m) \/ TimeOut(m) \/ Abandon(m)
    \/ \E c \in hidden : Deliver(c)

Spec == Init /\ [][Next]_vars

-----------------------------------------------------------------------------
(* Every table holds what its columns may hold, one cell per row and none  *)
(* from the future; races do not make a row or a total negative.           *)
TypeOK ==
    /\ Cardinality({c.row : c \in visible}) = Cardinality(visible)
    /\ \A c \in visible \cup hidden :
          /\ c.ts \in 1 .. clock
          /\ c.row[1] \in Copies => c.row[2] \in Keys /\ c.value \in Rows
          /\ c.row[1] = "inventory_totals_by_product" => c.value \in TotalRows
    /\ \A m \in Members : job[m] # NoJob => job[m].event \in Events
    /\ timeouts \in 0 .. MaxTimeouts

(* The three copies of an inventory row never diverge for good: once every *)
(* cell has arrived they are the same, whatever timed out, was replayed    *)
(* late or was written from outdated reads.                                *)
CopiesAgree ==
    LET settled == Settled
    IN  \A t \in Copies : CopyIn(settled, t) = CopyIn(settled, "inventory_by_product_zone")

(* An event is recorded twice, and its quantity counted twice, only if it  *)
(* was handled while its processed row was still on its way or another     *)
(* member was handling it.                                                 *)
RecordedOnceUnlessRaced ==
    \A c, d \in HistoryIn(Settled) :
        c.value.event.event_id = d.value.event.event_id
            => c = d \/ {c.value.event, d.value.event} \cap raced # {}

(* As long as no event is written from outdated reads, the tables, as they *)
(* will be when everything has arrived, change as the projection does: a   *)
(* batch that timed out was applied whole at that moment, and its late     *)
(* cells never undo a newer write.                                         *)
Projection ==
    INSTANCE Projection
    WITH inventory <- CopyIn(Settled, "inventory_by_product_zone"),
         totals    <- TotalsIn(Settled),
         orders    <- OrdersIn(Settled),
         processed <- ProcessedIn(Settled),
         history   <- {c.value : c \in HistoryIn(Settled)}

ImplementsProjection ==
    /\ Projection!Init
    /\ [][raced' = {} => [Projection!Next]_(Projection!vars)]_vars
=============================================================================
