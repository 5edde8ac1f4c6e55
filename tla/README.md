# Smart warehouse platform: TLA+ models and proofs

The repository is an event-driven warehouse: `wms-service` publishes warehouse
events to Kafka, `consumer-service` projects them onto Cassandra tables, events
it refuses go to a dead letter queue (DLQ), a migrator prepares the tables, and
the rest observes. This directory holds models of every part of the system that
keeps or changes state, the TLC runs that check them on small instances, and
TLAPS proofs of the most important properties for every instance.

Run a model with `tlc -config <cfg> <MC module>`, a proof with
`tlapm <module>_proofs.tla`. `PROJECT.json` lists components, runs, mutants, the
map from definitions to source lines, findings, hazards and theorems.

## Inventory

| component | state | operations | interacts with |
| --- | --- | --- | --- |
| **EventProcessor** (`consumer_service/app/application/processor.py`) | none of its own | `process`: eight handlers that validate, test staleness, stock, order, zone capacity and totals, and compute the new rows | reads and writes through the repository; called by the worker |
| **WarehouseRepository** (`cassandra_repository.py`, `cassandra/migrations`) | inventory (three copies), totals, orders, processed events, history, zones | reads at QUORUM; `apply_state_change`: one logged batch, its cells stamped by the client | Cassandra |
| **ConsumerWorker** (`consumer_worker.py`) | Kafka position, pause state of the partitions, `_paused`, the message in hand | loop: poll, process, publish to the DLQ, record, commit asynchronously; `pause`/`resume`/`stop` from another thread | Kafka, processor, repository, DLQ producer, HTTP routes |
| **DLQProducer** (`dlq_producer.py`) | the producer's queue | `publish`: produce, flush for ten seconds | Kafka |
| **WMS API and producer** (`event_service.py`, `schemas.py`, `kafka_producer.py`) | the producer's queue | `POST /events` validates, builds the flat record, chooses the routing key, answers 202 before delivery; flush when the service stops | clients, Kafka; shares its process with the generator |
| **Traffic generator** (`generator.py`) | simulated stock, open orders, pause state | one operation at a time, changed in the simulation and then published | WMS producer |
| **TrafficAnalyticsService** (`traffic_analytics.py`) | none | counts the history of the last days by hour, reading one day's partition after the other | repository, while the consumer's thread writes |
| **Migrator** (`migrator/apply_migrations.py`) | `zones_by_id`, columns | executes every statement of every `.cql` file, from the first, at each start, at the driver's default consistency `LOCAL_ONE` | Cassandra; the consumer waits for its first run and is at work during the later ones |
| **Metrics, dashboards, alerts, scripts** | counters | observe only | - |

What makes each of them correct, and what is hard about it:

- *EventProcessor*. No quantity below zero, no zone above its capacity, totals
  equal to the rows they summarise although they are kept by differences, every
  reserved unit attributable to a reservation or an open order, orders that
  follow their life cycle. Hard: product and order events about the same rows
  travel in different partitions (the WMS keys the former by product and the
  latter by order), so they come in any order; several lines of an order may be
  about the same row.
- *Repository*. The rows, the processed mark and the history of one event are
  written together or not at all, and the copies of a row agree. Hard: a write
  that times out may have been applied, or be replayed from the batchlog after
  later writes; after a rebalance two members may work on one event.
- *ConsumerWorker*. At-least-once delivery and the processed mark give each
  event exactly one effect; no event is lost without a cause; the consumer
  pauses and resumes. Hard: failures between any two calls, rebalances, kills,
  lost commits, the HTTP thread working on the same Kafka client.
- *DLQProducer*. What is recorded with outcome DLQ can be found on the DLQ.
- *Traffic generator*. What it publishes should be acceptable to the consumer,
  and the stock it simulates the stock that is stored; paused, it falls silent;
  resumed, it goes on. Hard: the simulation is changed before the event is
  published, messages may be lost, the simulation does not survive a restart,
  orders of several products span partitions, zones are shared by all products.
- *WMS API*. What was answered with 202 is handled in the end, a request that is
  sent again takes effect once, an order is created before it is completed. Hard:
  the answer precedes the delivery, the service may stop with a full queue,
  clients retry without knowing what became of the first attempt, their events
  travel through several partitions, the consumer may skip a message and meet it
  again later, and some events are answered with 202 that no table can hold.
- *Analytics*. A report can be explained by what was recorded. Hard: the history
  grows, in days already read too, while it is counted.
- *Migrator*. A run may be repeated, and broken off, at any time without doing
  harm. Hard: 004 first sets the live zones back, next to a working consumer,
  which reads at QUORUM what the migrator writes at `LOCAL_ONE`.

## Modules

| module | models |
| --- | --- |
| `EventProcessor` | constant level: what `process` decides (`ProcessAction`) and computes (`UpdatedInventory`, `UpdatedTotals`, `UpdatedOrders`) for a store and an event; used by every module that handles or builds events |
| `Projection` | the abstract specification of the consumer: each event is handled in one step |
| `ConsumerWorker` | the detailed specification: the loop call by call, its failures, Kafka's offsets and pauses, the HTTP thread; implements `Projection` |
| `CassandraBatch` | the repository on Cassandra: cells with timestamps, batches that time out and are replayed, two members at work; implements `Projection` while no event is written from outdated reads |
| `WmsApi` | `POST /events` from the client to the warehouse: requests and retries, validation, producer, stop and start; composed with `Projection` |
| `Migrator` | the migrations, statement by statement |
| `TrafficAnalytics` | the traffic report, day by day |
| `Warehouse` | composes `Migrator`, `TrafficAnalytics` and the consumer in one Cassandra |
| `TrafficGenerator` | the generator: its operations on the simulated stock, publication, pause and resume in the event loop, restarts |
| `Pipeline` | composes `TrafficGenerator`, Kafka and `Projection` |
| `MCProjection`, `MCConsumerWorker`, `MCCassandraBatch`, `MCWmsApi`, `MCWarehouse`, `MCTrafficGenerator`, `MCPipeline` | finite instances for TLC |
| `EventProcessor_proofs` | lemmas: `SumFunctionOnSet` of the community modules and finite sets; what an accepted event does to rows, totals, orders and the load of a zone |
| `Projection_proofs` | the invariants of `Projection`, its orders and its accounts (stock and reservations recomputed from the history) |
| `CassandraBatch_proofs` | the copies of a row agree, events are recorded once, and `CassandraBatch` implements `Projection` |
| `ConsumerWorker_proofs` | `ConsumerWorker` implements `Projection`; what it loses it loses for a cause |
| `TrafficGenerator_proofs` | the generator's simulated stock, its orders and its pauses |
| `Warehouse_proofs` | migrations, capacities, stock and reports |
| `WmsApi_proofs` | what becomes of a request: the effects of retries, the order of a client's events, what makes an event stale |
| `Pipeline_proofs` | the stored stock and the simulated one, compared through the trace of the events that were sent |

### EventProcessor and Projection

A *store* is a record of four tables. `inventory[<<p, z>>]` stands for
`inventory_by_product_zone`, `by_zone` for its copy `inventory_by_zone`, from
which the stock of a zone is summed (the third copy, `inventory_by_product`, is
written but never read); in `Projection` the copies are one. `totals[p]` stands
for `inventory_totals_by_product` and `orders[o]` for `orders_by_id`, `NoOrder`
being "no row". A missing inventory or totals row reads as the empty
row, as `_get_inventory` and `_build_totals` substitute it.

All handlers check in the same order, which `ProcessAction` follows: processed
already (`duplicate`), fields (`WellFormed`), staleness (`Stale`), then stock,
order, zones and totals. Which of several failed checks names the error is not
modelled: the result is `dlq`. The effect of an accepted event is given by
the keys it touches (`TouchedKeys`) and the change it makes at each
(`DeltaAvailable`, `DeltaReserved`); `ReplacedTotal` and `UpdatedTotal` compute
by differences from the *stored* zone rows and totals exactly as the code does,
which is what makes the invariants about them worth checking.

`Projection` has one action per outcome: `Apply`, `Ignore` (stale), `Reject`
(DLQ). A duplicate writes nothing. `history` keeps the event and its outcome,
as `event_history_by_day` does with `raw_payload`; the properties recompute
from it what no table stores.

### ConsumerWorker

`pc` is the place of the thread in `_run`. One action per call that another
actor may interleave with: reading `_paused`, `consumer.pause`, `poll` (of the
paused loop and of the running one), the decision, `publish`, the batch, the
commit. The decision is one step because nobody else writes the tables while
the only member of the group handles a message; the batch is a step of its own
and uses the *current* tables, so that `ImplementsProjection` would fail
if anything could come in between. What a second member or a late replay would do is
the subject of `CassandraBatch`. `EveryEventRecorded` leaves out the events whose
time is no date: the batch cannot be built, now or on redelivery.

| failure | action |
| --- | --- |
| a call raises; the `except` of the loop goes on with the next message | `CallFails` |
| the batch is applied but times out | `WriteTimesOut` |
| a DLQ message is lost after `produce` | `LoseDlqMessage` |
| `apply_state_change` raises on a time that is no date, each time it is tried | `BuildBatchFails` |
| the asynchronous commit is lost | second disjunct of `Commit` |
| partitions revoked and assigned again | `Revoke`, `Assign` |
| process killed at any point (`stop()` included), restarted | `Kill`, `Restart` |
| pause/resume requests: flag first, then the client | `Request`, `FinishRequest` |

`committed`, `log` and `dlq` belong to Kafka and survive a kill, as do the
tables; everything else is lost. `drained` only counts, for `LossesHaveACause`.

### CassandraBatch

`visible` holds the cells a QUORUM read sees, each with its row, its value and
the timestamp of its batch; `Merge` keeps the latest cell of a row. A member
handles an event in two steps: `Read` takes all the cells `process` looks up
(`RowsToRead`), `Write` adds the `Batch` computed from *those* cells, whatever
has changed since. `TimeOut` puts the batch into `hidden`, the batchlog, from
which `Deliver` releases its cells one by one, in any order, at any later time,
with their old timestamps; `Abandon` is a death, or a failure before the
batchlog. One step for the reads is enough: what reads at different moments
would see of a batch on its way is what some order of deliveries leaves visible.
One clock for all members is an assumption: the driver's clocks are taken to
agree about the order of batches on one row.

What the tables will hold in the end is `Settled`, the merge of `visible` and
`hidden`. `Projection == INSTANCE Projection WITH ...` maps its variables to
`Settled`; a batch that timed out counts as applied at that moment. The mapping
holds as long as no event was written from outdated reads: `raced` notes those
that were, and `RecordedOnceUnlessRaced` says that of two records of one event
(one id) one was written by such a handling.
`CopiesAgree` holds in every case.

### WmsApi

A request is `<<client, step, attempt>>`. `publish_event` awaits nothing, so
`Accept` validates (`Valid`), builds the record (`Envelope`), chooses partition
and time, and queues, in one step; `Refuse` stands for 422, 503 and a service
that is down. The client hears the 202 or not, and may send the same body again.
An event's id and time are the client's or the server's own. `Deliver` moves the
head of a partition's queue to the topic (the producer is idempotent and keeps
the order), `Expire` is a delivery that fails for good and is only logged.

The consumer takes the messages of a partition in order (`Consume`), but it does
not handle each of them. `Handle` is a step of `Projection` or a duplicate.
`Skip` goes past a message: a call raised and the `except` of the loop went on,
or the paused loop polled it. `Redeliver` is the message again, after a restart
or a rebalance that finds no later commit; the model lets this happen at any
later moment and to any skipped message, which is more than the loop allows.
`Pass` is a message that can never be recorded, although its request was
answered with 202: no date can be made of its time (`Dates`), or its id is no
key in Cassandra (`BadIds`: the empty string, or one that is too long).

`Stop` is the orderly end: the generator's `stop()`, then `flush`. `StopUnclean`
is a kill, a flush that runs out of its ten seconds, or the stop of a service
whose generator task had failed: `stop()` raises the task's exception and
`lifespan` never flushes. `lost` holds the ids of what goes with it, or expires,
`skipped` the events of the messages the consumer went past. The properties name
both, and the events that cannot be recorded, as exceptions:

| property | an accepted event may miss it when |
| --- | --- |
| `EveryAnswerKept` | it was lost, skipped, or its body is not a `RecordableBody` |
| `CompletionFollowsCreation` | an event of the creation was lost or skipped, or the creation is not a `RecordableBody` |
| `StaleMeansOvertaken` | it was skipped before |
| `RetriesTakeEffectOnce` | never: the processed mark makes up for all of this |

### Migrator, TrafficAnalytics and Warehouse

`Migrations` is the list of the statements that change something when they are
repeated: zones written and columns added. `Execute` performs the next one; a
column that exists raises `InvalidRequest`, which is skipped. A run may be
interrupted anywhere and started again; two runs at once do not occur (one
container). In `TrafficAnalytics` a request is answered in several steps, one
`ReadDay` per partition; the route blocks the server's event loop, so there is
one request at a time.

`Warehouse` puts them on the same tables: the consumer starts when a run has
completed (`depends_on`), and the report reads the history it writes. The
consumer handles an event in two steps. `Decide` is `process` with the capacities
it read (`Handler(capacity)`, an instance of `EventProcessor`), `Record` the batch,
which for a refused event comes after a flush of up to ten seconds; the decision
stays in `hand` while the migrator goes on, and `Drop` gives it up when a call
fails. The tables a decision is made on are written by nobody else in between.

The migrator writes at `LOCAL_ONE`. `versions[z]` are the rows of a zone that a
read at QUORUM may still return: every write adds one, and `Settle` leaves only
the last when it has come to the other replicas. `Readings` takes one version per
zone, since the rows are read one after the other. So a refusal for want of a
capacity that is only outdated can also fall *after* a completed run;
`RefusedOnlyDuringMigrations` speaks of the moment of the decision and names both
causes.

### TrafficGenerator and Pipeline

The generator is an asyncio task in the event loop that also serves the HTTP
requests: there are only two places where anything can come in between, the
wait for the pause event and the sleep. An operation (`_build_*`, `_apply_*`,
`publish_generated`) is therefore one step, `Operate`; `task` says where the
task is: `sleeping`, `waiting` for the pause event, `woken` by a resume but not
yet running, or `failed` by an exception of `publish`, which nothing restarts
(`start()` runs once). `sim` and `open` are `_inventory` and `_open_orders`; a
position that was never created counts as an empty one. The quantities drawn
and the thresholds for picking a position are the constants `Sizes`, `Minimum`
and `CountDeltas`. The order of the load ratios is exact; the weights of the
operations are not modelled, each of them occurs at some hour. Events have whole
uuids, which are taken as unique; the id of an order has 32 bits of one, and may
be drawn again (`OrderIdsDrawn`). The generator then forgets the order that had it,
whose stock stays reserved for nobody; `collided` notes it, and
`OpenOrdersAreReserved` is an equality only without it.

`Pipeline` extends `TrafficGenerator`, whose steps are those of the generator,
and instantiates `Projection` as `Consumer`; its specification is
`PipelineSpec`, and the theorem `WorkerImplements` is why a step of `Projection`
may stand for a message the loop handles. `inTransit[q]` holds the messages of
partition `q` that are not handled yet, those in the producer's queue included;
where a message is makes a difference only when it is lost (`LoseMessage`) or left
behind by a service that stops (`RestartService`). The producer is idempotent, so
a key's messages stay in order. Orders of the generator are keyed by their first
product, unlike those of `POST /events`.

`Skip` and `Redeliver` are those of `WmsApi`. `Migrate` is a run of the migrations
next to the consumer: from then on the consumer may `Refuse` what the warehouse
has room for, by any `Readings` of the capacities, each zone's first one
(`FirstCapacity`, 500/500/300), its final one or none. How long such readings
last is the subject of `Warehouse`; here they never end, which allows more than
the code.

The properties name their exceptions, each of which TLC shows to be needed
(`~Crowded` with the capacities of `pipeline_one`):

| exception in `Undisturbed` | why |
| --- | --- |
| `lost = 0` | a lost message is not sent again, and the simulation does not learn of it |
| `skipped = {}` | a message that was skipped is missing, or comes again behind later ones and is stale |
| `migrations = 0` | by the first capacities the consumer refuses receipts, moves and counts that fit the final ones |
| `restarts = 0` | the simulation starts empty, the tables do not; `SimulationNeverAhead` says what is left |
| `~collided` | an order with the id of an earlier one is refused (`ORDER_ALREADY_EXISTS`), or replaces it in the simulation |
| `~overplanned` | two lines of an order about one position are checked separately (`OnlyDoubleLinesOversell`), a count is checked without the other products of the zone (`OnlyCountsOverfill`) |
| `~SplitOrder` | an order that names products of two partitions |
| `~Crowded` | several partitions, and a zone that could not hold everything ever put there: a receipt may overtake the shipment that made room for it |

## Runs

| run | instance | shows |
| --- | --- | --- |
| `projection_stock` | one product; two zones of capacity 3 and 1 and one missing from `zones_by_id`; one order; every event type with several timestamps, malformed ones and an unknown type included; 4 event ids | `TypeOK`, `TotalsMatchInventory`, `ZoneCapacityRespected`, `TotalsCoverRows`, `OnlyOrdersRewindRows` |
| `projection_orders` | two products, two orders, one of them with two lines about one row; 5 event ids | `ReservationsAccounted`, `StockAccounted`, `OrderLifecycle`, `OnlyReleaseBreaksOrders` |
| `projection_stale` | as `projection_stock` | **violated**: `StaleEventDoesNotOverride` |
| `consumer_loop` | two partitions with up to two messages each (5 logs: one message twice, a refused one, one without a date, an order), 3 disturbances among 2 failures, 2 interruptions and 2 requests, 1 DLQ loss | `TypeOK`; `LossesHaveACause`, `DlqLossesHaveACause`, `DeadLettersStayDead`; `ImplementsProjection`; `EveryEventRecorded` |
| `consumer_resume` | the same logs, 2 requests, no failure | **violated**: `ResumedConsumerRuns` |
| `consumer_dlq` | the same logs, 1 DLQ loss | **violated**: `RejectedEventsAreOnDlq` |
| `cassandra` | two members, one row; a receipt, a shipment and an order; 3 batches, 1 of which times out | `TypeOK`, `CopiesAgree`, `RecordedOnceUnlessRaced`, `ImplementsProjection` |
| `wms_api` | two clients with up to two bodies each (5 scripts: with and without ids and times, blank, missing and oversized fields, a time that is no date, one beyond Avro's long, an id that is no key), 1 retry, 2 troubles | `TypeOK`, `RetriesTakeEffectOnce`, `CompletionFollowsCreation`, `StaleMeansOvertaken`, `EveryAnswerKept` |
| `warehouse` | a manual and a live zone, 3 events, 2 runs of the migrations whose writes arrive late, 1 report over two days | `TypeOK`, `StockFits`, `CompletedRunRestores`, `RefusedOnlyDuringMigrations`, `AnswersAreBracketed` |
| `generator` | two products, two zones of capacity 4 and 3, orders of up to two lines and any id drawn before, 3 events, 4 requests, 1 restart, 1 failed publication | `TypeOK`, `OpenOrdersAreReserved`, `OnlyDoubleLinesOversell`, `OnlyCountsOverfill`, `PausedGeneratorIsQuiet`, `GeneratorGoesOn` |
| `pipeline_one` | one product, two zones of capacity 4 and 3 (1 at first), one partition, 4 events; 1 failed publication, 1 restart, 1 run of the migrations | `GeneratedEventsApplied`, `SimulationMatches`, `SimulationNeverAhead` |
| `pipeline_two` | two products in two partitions, one wide zone, 4 events, 1 request, 1 lost message, 1 message skipped | `GeneratedEventsApplied`, `SimulationMatches` across partitions |

**Bounds.** `EventIds` bounds the events of a `Projection` behaviour: four are
enough for a receipt, an order, a rewind of the row and an older event after it;
five for an order of two products followed by its completion and a repetition.
Event identifiers are symmetric: nothing but equality is asked of them, and
every event of the instance exists with every identifier. Deadlock is not
checked there because a behaviour ends when the identifiers are used up.
`MaxFailures`, `MaxDlqLosses`, `MaxInterruptions` and `MaxRequests` bound the
environment's faults in `ConsumerWorker` and `MaxDisturbances` all but the
second of them together; the hazards listed need at most two at once. `Dates`
are the times that Python makes a date of. In `CassandraBatch` three batches and
one timeout are enough for a batch that is replayed after a later write of the
same rows, a duplicate handled while its mark is hidden, and two members on one
event (`MaxBatches`, `MaxTimeouts`; members are symmetric). In `WmsApi` one
retry gives an event two attempts, two troubles (`MaxTroubles` bounds expired
and skipped messages, failed tasks and stops together) a lost and a skipped
message, or a failed task before a stop; its `Dates`, `AvroInts` and `AvroLongs`
are scaled down so that there are numbers outside each of them, `BadIds` stands
for the ids that are no key. In `Warehouse` two runs let the second one
interfere with a filled live zone, and time 8 has the report's window move past
a day. In `Pipeline` the bounds `MaxLosses`, `MaxSkips` and `MaxMigrations` are
1 or 0: one lost or skipped message and one run of the migrations end what
`Undisturbed` promises, and the two runs share them out, since each exception is
about one event that then meets other tables. Four events are enough for the
generator: a receipt, an order or a move, something that interferes, and the
event that would be refused then; its thresholds (8 to 28 units received, 12
available to move, ...) are scaled down to 1 to 3 with the same relations. The
runs of the generator, of `WmsApi`, `CassandraBatch` and `Warehouse` do not
check deadlock: they end with the last event, request, batch or run, or with the
failed task. No action of the loop itself is bounded and its runs check
deadlock. Quantities stay small: capacities bound them in the code too (10000 to
30000 per zone, far below the 32-bit columns).

**Fairness** (`ConsumerWorker!Fairness`). Weak fairness for the thread, which
never blocks for ever (each call has a timeout), for the end of a request, for
the coordinator's assignment to the only member, and for the restart
(`restart: unless-stopped`). Strong fairness for `PollMessage(q)`: a poll
that again and again finds messages of a partition returns one in the end.
Nothing obliges anybody to send requests, and no fault has to occur. The
generator needs weak fairness of its task only (`TrafficGenerator!FairSpec`):
the event loop runs what is ready. `WmsApi!Fairness` asks that the client
library's thread deliver what is queued, that the loop go past the next message of
a partition and that the service be started again. Going past (`Consume`) need not
be handling: `Skip` satisfies it as well, and nothing obliges a skipped message to
come again. This is what the loop gives while nobody pauses it for good. No client
has to send, nothing has to be accepted, and an expiry is always possible instead.

**Mutants.** Each property of a passing run has a mutant, a definition with a
plausible bug (`StaleEverywhere`, `PollMessageAutoCommit`, ...) placed before
the one it replaces, under which the run must report that property violated.

## Findings

1. *An order event makes older product events acceptable*
   (`StaleEventDoesNotOverride`). `_reserve_order_items` and
   `_process_order_completed` write the order event's timestamp to the rows
   without comparing. Received at 2, order created at 1, released at 1: all
   three are applied. What does hold is `OnlyOrdersRewindRows` (proved): no
   other event sets a row's timestamp back.
2. *`resume` may be lost* (`ResumedConsumerRuns`). The worker tests `_paused`,
   the HTTP thread clears it and resumes the partitions, the worker pauses
   them. The consumer answers "running" and never fetches again until the next
   rebalance.
3. *A dead letter may be missing* (`RejectedEventsAreOnDlq`). The result of
   `flush` is ignored and a failed delivery is only logged.

Weaker forms that hold are checked as passing properties: `DlqLossesHaveACause`
counts missing dead letters against the injected losses; `LossesHaveACause`
counts messages never recorded against failing calls and messages polled by the
paused loop; `DeadLettersStayDead` allows an event to be dead-lettered *and*
applied only if it was interrupted in between.

Of the generator the models show three weaknesses that no document or test of
the repository speaks of, so that they are exceptions of the properties and not
findings: orders that oversell a position, counts that overfill a zone, and a
task that ends with the first publication that raises (`phase` stays "live").

## Proofs

The theorems hold for every choice of the constants that the assumptions allow.
Those of `EventProcessor` underlie all: finitely many products and zones
(`FiniteStock`), capacities of known zones (`ZonesAreKnown`), events that are
records of the Avro schema (`EventsAreRecords`), and `NoText` and `NoOrder`
distinct from real values. Nothing is assumed of timestamps, quantities, orders
or the order of events. `Warehouse` assumes of the migrations what their files
show: 001 and 006 list the same zones, 004 and 005 the same zones
(`ZonesAreListed`), and no first capacity is above the final one
(`TablesEndWithCapacity`); a zone without a row is told from every capacity
(`NoRowIsNoCapacity`). Nothing is assumed of how long its writes take to be
seen. `WmsApi` assumes that what is posted are bodies of the request schemas, of
any values (`BodiesArePosted`), that routing keys are hashed to finitely many
partitions (`KeysAreHashed`), that the Avro integers are integers, as are the
times with a date (`AvroIntsAreInts`), and of the clients that an event id they
give is of one request (`OneRequestPerId`): a second request with the id of the
first would be a duplicate or take its place, whichever arrives earlier. That an
event is not recorded is assumed of `BadIds` and of times outside `Dates`,
whatever these are. `Pipeline` assumes that keys are hashed to finitely many
partitions (`KeysArePlaced`) and that no first capacity is above the final one
(`ZonesGrow`). The bounds (`MaxRuns`, `MaxFailures`, ...) are any natural
numbers.

| theorem | property |
| --- | --- |
| `TypeCorrect` | `TypeOK`: in particular no negative row or total |
| `TypeInvariant` | the inductive invariant behind the others |
| `TotalsCorrect` | `TotalsMatchInventory` |
| `CapacityCorrect` | `ZoneCapacityRespected` |
| `TimesCorrect` | `TotalsCoverRows` |
| `RewindCorrect` | `OnlyOrdersRewindRows` |
| `OrdersCorrect` | `OrderLifecycle` |
| `ReservationsCorrect` | `ReservationsAccounted` |
| `OnlyReleaseCorrect` | `OnlyReleaseBreaksOrders` |
| `StockCorrect` | `StockAccounted` |
| `WorkerTypeCorrect` | `TypeOK` of `ConsumerWorker` |
| `WorkerImplements` | `ImplementsProjection` of `ConsumerWorker` |
| `DlqCorrect`, `DeadLettersCorrect`, `LossesCorrect` | `DlqLossesHaveACause`, `DeadLettersStayDead`, `LossesHaveACause` |
| `CellsTyped` | `TypeOK` of `CassandraBatch` |
| `CopiesCorrect` | `CopiesAgree` |
| `RecordsCorrect` | `RecordedOnceUnlessRaced` |
| `TablesImplement` | `ImplementsProjection` of `CassandraBatch` |
| `GeneratorTypeCorrect` | `TypeOK` of `TrafficGenerator` |
| `OpenOrdersCorrect` | `OpenOrdersAreReserved` |
| `QuietCorrect` | `PausedGeneratorIsQuiet` |
| `OversellCorrect`, `OverfillCorrect` | `OnlyDoubleLinesOversell`, `OnlyCountsOverfill` |
| `WarehouseTypeCorrect` | `TypeOK` of `Warehouse` |
| `RestoresCorrect` | `CompletedRunRestores` |
| `StockFitsCorrect` | `StockFits` |
| `RefusalCorrect` | `RefusedOnlyDuringMigrations` |
| `AnswersCorrect` | `AnswersAreBracketed` |
| `ApiTypeCorrect` | `TypeOK` of `WmsApi` |
| `RetriesCorrect` | `RetriesTakeEffectOnce` |
| `CompletionCorrect` | `CompletionFollowsCreation` |
| `StaleCorrect` | `StaleMeansOvertaken` |
| `GeneratedEventsCorrect` | `GeneratedEventsApplied` |
| `SimulationMatchesCorrect` | `SimulationMatches` |
| `NeverAheadCorrect` | `SimulationNeverAhead` |

*Argument.* `TypeOK` is not inductive: completing an order reads its items back
and looks up their rows without validating them again. `TypeInv` adds
`StoredItemsOK`, that the items stored with an order have passed
`_normalize_items`. `AcceptedRows` then shows for each event type that an
accepted event leaves every touched row non-negative; `ZoneTotalUpdated` and
`TotalsUpdated` show that the sums the code maintains by differences are the
sums of the new rows. They rest on the lemmas about sums at the head of that
module: `SumFunctionOnSet` is defined through a recursive function over sets,
whose recursion equation is derived there (`TableExists`, `SumIsTable`) because
an induction theorem that takes an operator as a parameter cannot be used; the
induction over finite sets is done on a set of sets (`SubsetInduction`) instead.
`RewindCorrect` needs one more invariant, `HistoryIsProcessed`: a history
entry's event was marked as processed, so the entry an accepted event adds is a
new one.

`WorkerImplements` rests on `WorkerInv`: the message in hand is one of the log,
and the action decided in `Decide` is still what the tables call for when the
batch is written, because none of the steps in between (a publication to the
DLQ, requests, rebalances) writes them. The batch, acknowledged or timed out, is
then one step of `Projection`, everything else a stuttering step. The
definitions that `INSTANCE Projection` brings along are shown to be those of
`EventProcessor` one by one (`SameSum` to `SameTables`). With the refinement
the theorems about `Projection` hold of the tables of `ConsumerWorker` too.

The three theorems about losses compare the size of a set with counters. None
of the sets grows by more than one element in a step, and never without a
counter paying for it: `PaidFor` states this of one step, `BoundedStep` carries
it over to the sizes. The sets themselves are not inductive and are replaced by
larger ones: for `DeadLettersStayDead` the dead letters that the loop is no
longer committed to refuse (`Loose`), for `LossesHaveACause` the messages that
the thread, the committed offset or the position has *reached* without a record
(`Behind`), less the message in hand (`Held`).

The accounts add `Finite`, that only finitely many events and orders have
been seen, to form `BooksInv`: sums over the history and over the lines of the
orders are then sums over finite sets. `AppliedGrows` says what an accepted event
adds to the quantities of the history (it is a new one, by `HistoryIsProcessed`),
`DemandWithOrder` and `DemandWithoutOrder` what an order that enters or leaves a
status does to the demand of its rows, line by line, with several lines about one
row added up as `_normalize_items` groups them. `ReservedChanges` puts the row on
the other side of the scales. For the stock of a product, `LedgerFollowsRows`
does so row by row for every event but a move, which shifts stock between two
rows and cancels in the sum (`MoveCancels`), and a count, which the property
excludes; `TotalsFollowLedger` joins them.

`CopiesCorrect` rests on `CellInv`: cells carry distinct times per row, none later
than the clock, and of the *latest* cells, visible or hidden, each has its like
in the other copies (`Mirrored`). A batch is mirrored (`BatchMirrored`) and later
than everything before it, so that it replaces the latest cells of all the copies
of a row or of none; a delivery moves a cell from hidden to visible and leaves
the latest ones as they are.

`TablesImplement` adds `TableInv` (typed cells, finitely many, each job read from
some) and shows that a decision depends only on the rows that `RowsToRead` names
(`AlikeDecisions`, `AlikeChanges`): if what a member has read is what `Settled`
holds, the batch it writes is what `Projection` would do to `Settled`
(`TablesChange`), acknowledged or not, and the later arrival of its cells is a
stuttering step. `RecordInv` ties history to processed rows for
`RecordsCorrect`: a job whose event was recorded meanwhile has outdated reads.

For the generator, an operation on positions is `LocalBounded`: it changes one
position, or two for a move, oversells none and overfills no zone unless it
counts. `GenInv` adds to `TypeOK` and `OpenOrdersAreReserved` that open orders
have well-formed items (`OpenWellFormed`) and that the number of the next order
is free (`NextIsUnused`): only an id drawn twice, which sets `collided`, can
replace an open order.
`QuietInv` counts what a task that a pause caught awake may still send.

`MigrationInv` says that no run ever gives a zone more than its final capacity
and that what a run has executed of 005 and 006 is final; the statements of
these two reach every zone (`EveryZone`), hence `CompletedRunRestores`.
`VersionsInv` says the same of every row that a read may still return. What the
consumer accepts by the capacities it has read it would therefore also accept by
the final ones (`HandlerApplies`), and still when it comes to write, since nobody
else changes its tables (`HandInv`); so the lemmas of `EventProcessor_proofs` apply
to them (`TablesInv`) although they are stated for constant capacities. For
`RefusalCorrect`, a decision made when no run is under way or broken off and every
write has arrived can only have read the final capacities (`ReadingWhenCompleted`).
`ReportInv` is the
report's loop invariant: of the days it is past it has read every row of its
range that was there when the request came.

For `WmsApi` each event is followed from its partition's queue over the topic
(`Flow(q)` is the topic with the queue behind it) to where the consumer has *seen*
it (`Seen`: recorded in the history, `Handled`, or skipped). What flows or was
seen is made of a valid request (`MadeOf`) whose ids are its own (`IssueInv`,
`OriginInv`), of an id there is one record in the history (`RecordInv`), and an id
that was given out is recorded, missed, flowing, or of a request that no table can
hold (`KeptInv`). With `ClientInv`, which says what a client at a given step has
been answered, these are already enough for `RetriesCorrect`. For the order of
two events on one partition, precedence of *values* is not inductive, since a
retry may put an equal record behind both; `Foremost` speaks of positions: before
every occurrence of the completion is one of the creation, or the creation is
`Settled`, that is recorded, missed or impossible to record, and it stays so
(`SettledStays`). `OrderInv` says this of what flows, and that a completion that
was seen, skipped ones included, found the creation settled: so a redelivery may
record it at any time. For staleness the times that the server chose increase
along each flow and are above those of what was seen before (`TimeInv`); a message
that is redelivered breaks this order, which is why the property excepts it and
nothing else: the times of what is *handled* from the topic are above those of all
that was seen, redelivered messages among them. The time of a row is that of an
applied event about its product or of an order (`RowInv`), so an event ignored as
stale meets a row whose time came from a client or from an order. A step is quiet,
an `Accept`, or one that changes the tables or goes past a message (`StepCases`),
and each invariant has a lemma for each of them.

For `Pipeline` neither the tables nor the simulated stock tell how the one came
from the other, so both are compared with a third thing: a *trace* `T` of
inventories, where `T[m]` is what the tables would hold if the first `m` events
that were sent had been applied in the order of sending. `PipelineInv` promises
one as long as the state is `Trusted`: no order id was drawn twice, nothing was
skipped, and the migrations, if they ran, made the consumer refuse nothing. A
state that may not be trusted stays so, hence a step into a trusted one comes from
one (`TrustStays`) and is none of `Skip`, `Redeliver` and `Refuse`. Under this
condition there is a trace (`TraceInv`), with the parts:

| part | says |
| --- | --- |
| `GenInv` | the generator's own invariant, from `TrafficGenerator_proofs` |
| `LogInv` | events are numbered as they are sent, each takes the partition of its key, an open order was sent and nothing completes it yet |
| `TransitInv` | the messages of a partition wait in the order they were sent, behind all that were handled; unless one was lost, none is missing |
| `TablesInv` | well-formed tables, totals that are sums, no zone above what was ever put there, stored orders are those that were sent |
| `TraceInv` | the last inventory of the trace is the simulated stock (`FollowsSim`), or no less than it once there were restarts (`AheadOfSim`); with nothing overplanned the whole trace respects rows and zones (`Feasible`); without split orders each stored row is the trace's at the message of its partition that waits first (`Matched`) |
| `AppliedInv` | `Undisturbed` implies that everything handled was applied |

A new event extends the trace by one inventory, and the simulation by the same
change: this is a lemma for each operation of the generator (`Mirrors`), and the
only place where the proof looks into them. Handling the first message of a
partition moves the rows of that partition on by one event and no others
(`NextRow`, `MatchedHandled`), whatever the progress of the other partitions;
this is where a split order would break the argument. That the message is
accepted needs the rows it leaves (they are rows of a feasible trace), the totals
(sums of such rows) and the zones. For these the two halves of `~Crowded` are two
proofs: with one partition the stored inventory *is* one of the trace, with
several ones what was ever put into a zone fits. The consumer's definitions that
`INSTANCE Projection` brings along are shown to be those of `EventProcessor`.
TLC checked the parts of `PipelineInv` on both instances, with the trace computed
from `sent`, before they were proved.

*Only model-checked*: liveness (`EveryEventRecorded`, `EveryAnswerKept`,
`GeneratorGoesOn`), which is out of the prover's reach with fairness and
ENABLED.

## State of the development

Every component that keeps or changes state is modelled, and every safety
property that a run finds to hold is proved: all invariants and action properties
and both refinements. What `Pipeline` proves it proves of the exceptions as they
stand: nothing is said about the stock after a lost or skipped message, an order id
drawn twice, a split order, a refusal by outdated capacities or in a crowded zone,
where TLC shows that the two stocks do drift apart.

## Not modelled

- Metrics, health flags and the lag gauge, the Prometheus gates, dashboards and
  alert rules: they observe, and no component reads them back.
- Deployment, load and demo scripts: what the models need of them (the restart
  policy, one migrator, the order of the first start, the partitions) is stated
  above as an assumption.
- Error codes, messages and the wording of answers; the weights with which the
  generator draws its operations; in the report, the counts by event type (made
  like those by outcome), the summary and the static dashboard page.
- Cassandra's replicas, but for the migrator's writes at `LOCAL_ONE` (`versions` in
  `Warehouse`): the consumer's reads and writes at QUORUM with read repair are
  taken to be regular, a cell once seen stays visible; clocks of several clients
  agree. A write of the migrator that some replica never gets is a `Settle`
  that never happens.
- In `Warehouse` the capacities are read in one step. `process` reads them one zone
  after the other, and refuses at the first one that is exceeded: the moment of a
  refusal is the read of that row.
- Schema registry and Avro encoding beyond the range of integers: a record that
  cannot be decoded is a call that fails. `text` values that differ only in
  surrounding whitespace.
