--------------------------- MODULE ConsumerWorker ---------------------------
(***************************************************************************)
(* The consumer loop of consumer-service: one thread that polls Kafka,     *)
(* lets EventProcessor decide, publishes to the DLQ, writes one Cassandra  *)
(* batch and commits the offset, against                                   *)
(*   - calls that fail, a batch whose timeout hides that it was applied,   *)
(*     DLQ messages and offset commits that are lost without an error,     *)
(*   - partitions revoked and assigned again, the process killed and       *)
(*     restarted by the container's restart policy,                        *)
(*   - the HTTP thread that pauses and resumes consumption.                *)
(*                                                                         *)
(* The consumer group has one member, as in docker-compose.yml.  Messages  *)
(* of a partition are numbered from 1; positions and committed offsets     *)
(* count the messages already polled and already committed.                *)
(***************************************************************************)
EXTENDS EventProcessor

CONSTANTS
    Partitions,         \* the partitions of the warehouse-events topic
    Logs,               \* the topic contents considered: [Partitions -> Seq(Events)]
    NoMessage,          \* the thread is not handling a message
    Dates,              \* the times that datetime.fromtimestamp makes a date of
    MaxFailures,        \* bound on the calls that raise
    MaxDlqLosses,       \* bound on the DLQ messages lost after produce
    MaxInterruptions,   \* bound on revocations and kills
    MaxRequests,        \* bound on pause and resume requests
    MaxDisturbances     \* bound on failures, interruptions and requests together

Messages == Partitions \X (Nat \ {0})

ASSUME LogsAreLogs == Logs \subseteq [Partitions -> Seq(Events)]
ASSUME NoMessageIsNone == NoMessage \notin Messages
ASSUME DatesAreTimes == Dates \subseteq Int
ASSUME BoundsAreNat == {MaxFailures, MaxDlqLosses, MaxInterruptions, MaxRequests,
                        MaxDisturbances} \subseteq Nat

VARIABLES
    \* Cassandra
    inventory, totals, orders, processed, history,
    \* Kafka
    log,                \* the messages of each partition
    committed,          \* the group's committed offsets
    dlq,                \* the events on the DLQ topic
    \* the Kafka client of the process
    assigned,           \* the member holds the partitions
    position,           \* next message to fetch, per partition
    fetchPaused,        \* consumer.pause() holds for the assigned partitions
    \* the worker thread
    pc, msg, action,
    \* shared with the HTTP thread
    paused,             \* ConsumerWorker._paused
    request,            \* the pause() or resume() call in progress
    \* the environment's budget
    failures, dlqLosses, interruptions, requests,
    drained             \* history: the messages that DrainMessage ignored

tables   == <<inventory, totals, orders, processed, history>>
client   == <<assigned, position, fetchPaused>>
thread   == <<pc, msg, action>>
http     == <<paused, request, requests>>
budget   == <<failures, dlqLosses, interruptions>>
vars     == <<tables, log, committed, dlq, client, thread, http, budget, drained>>

store == [inventory |-> inventory, by_zone |-> inventory, totals |-> totals, orders |-> orders]

Event(m) == log[m[1]][m[2]]

Init ==
    /\ inventory = EmptyStore.inventory
    /\ totals = EmptyStore.totals
    /\ orders = EmptyStore.orders
    /\ processed = {}
    /\ history = {}
    /\ log \in Logs
    /\ committed = [q \in Partitions |-> 0]     \* auto.offset.reset = earliest
    /\ dlq = {}
    /\ assigned = FALSE
    /\ position = committed
    /\ fetchPaused = FALSE
    /\ pc = "loop"
    /\ msg = NoMessage
    /\ action = "none"
    /\ paused = FALSE
    /\ request = "none"
    /\ failures = 0 /\ dlqLosses = 0 /\ interruptions = 0 /\ requests = 0
    /\ drained = 0

Goto(label) == pc' = label /\ UNCHANGED <<msg, action>>

(* The environment may still interfere.                                    *)
MayDisturb == failures + interruptions + requests < MaxDisturbances

(* The end of an iteration, whichever way it comes.                        *)
NextIteration == pc' = "loop" /\ msg' = NoMessage /\ action' = "none"

-----------------------------------------------------------------------------
(* The worker thread *)

(* The head of the loop reads _paused once.                                *)
CheckPaused ==
    /\ pc = "loop"
    /\ Goto(IF paused THEN "pausing" ELSE "polling")
    /\ UNCHANGED <<tables, log, committed, dlq, client, http, budget, drained>>

(* consumer.pause(assignment()), when something is assigned.               *)
PauseFetching ==
    /\ pc = "pausing"
    /\ fetchPaused' = assigned
    /\ Goto("draining")
    /\ UNCHANGED <<tables, log, committed, dlq, assigned, position, http, budget, drained>>

CanFetch(q) == assigned /\ ~fetchPaused /\ position[q] < Len(log[q])

(* poll(0.1) while paused: it keeps the membership alive and ignores what  *)
(* it returns, a message included.                                         *)
DrainMessage(q) ==
    /\ pc = "draining"
    /\ CanFetch(q)
    /\ position' = [position EXCEPT ![q] = @ + 1]
    /\ drained' = drained + 1
    /\ NextIteration
    /\ UNCHANGED <<tables, log, committed, dlq, assigned, fetchPaused, http, budget>>

(* Mutant: enable.auto.commit, the offset is committed when it is polled.  *)
PollMessageAutoCommit(q) ==
    /\ pc = "polling"
    /\ CanFetch(q)
    /\ position' = [position EXCEPT ![q] = @ + 1]
    /\ committed' = position'
    /\ pc' = "handling"
    /\ msg' = <<q, position[q] + 1>>
    /\ action' = "none"
    /\ UNCHANGED <<tables, log, dlq, assigned, fetchPaused, http, budget, drained>>

(* poll returns a message and moves the position past it.                  *)
PollMessage(q) ==
    /\ pc = "polling"
    /\ CanFetch(q)
    /\ position' = [position EXCEPT ![q] = @ + 1]
    /\ pc' = "handling"
    /\ msg' = <<q, position[q] + 1>>
    /\ action' = "none"
    /\ UNCHANGED <<tables, log, committed, dlq, assigned, fetchPaused, http, budget, drained>>

(* poll times out, or returns an error that the loop raises and logs.      *)
PollNothing ==
    /\ pc \in {"polling", "draining"}
    /\ NextIteration
    /\ UNCHANGED <<tables, log, committed, dlq, client, http, budget, drained>>

(* Mutant: processed_events_by_id is not consulted.                        *)
DecideAgain ==
    /\ pc = "handling"
    /\ action' = ProcessAction(store, {}, Event(msg))
    /\ pc' = IF action' = "dlq" THEN "publishing" ELSE "writing"
    /\ UNCHANGED <<msg, tables, log, committed, dlq, client, http, budget, drained>>

(* Mutant: a refused event is recorded, never published.                   *)
DecideWithoutDlq ==
    /\ pc = "handling"
    /\ action' = ProcessAction(store, processed, Event(msg))
    /\ pc' = IF action' = "duplicate" THEN "committing" ELSE "writing"
    /\ UNCHANGED <<msg, tables, log, committed, dlq, client, http, budget, drained>>

(* _build_context and the decision of EventProcessor.process: all the      *)
(* reads, up to the write.                                                 *)
Decide ==
    /\ pc = "handling"
    /\ action' = ProcessAction(store, processed, Event(msg))
    /\ pc' = CASE action' = "duplicate" -> "committing"
               [] action' = "dlq"       -> "publishing"
               [] OTHER                 -> "writing"
    /\ UNCHANGED <<msg, tables, log, committed, dlq, client, http, budget, drained>>

(* DLQProducer.publish: produce, then flush for at most ten seconds.       *)
PublishToDlq ==
    /\ pc = "publishing"
    /\ dlq' = dlq \cup {Event(msg)}
    /\ Goto("writing")
    /\ UNCHANGED <<tables, log, committed, client, http, budget, drained>>

(* Delivery failed or the flush ran out of time: the delivery callback     *)
(* logs it at most, and the loop goes on.                                  *)
LoseDlqMessage ==
    /\ pc = "publishing"
    /\ dlqLosses < MaxDlqLosses
    /\ dlqLosses' = dlqLosses + 1
    /\ Goto("writing")
    /\ UNCHANGED <<tables, log, committed, dlq, client, http, failures, interruptions, drained>>

OutcomeOf == [applied |-> "APPLIED", stale |-> "STALE", dlq |-> "DLQ"]

(* Mutant: every event is recorded as APPLIED.                             *)
WriteApplied ==
    /\ UNCHANGED <<inventory, totals, orders>>
    /\ processed' = processed \cup {Event(msg).event_id}
    /\ history' = history \cup {[event |-> Event(msg), outcome |-> "APPLIED"]}

(* The batch of apply_state_change, with the outcome the action stands for.*)
Write ==
    LET e == Event(msg)
    IN  /\ inventory' = IF action = "applied" THEN UpdatedInventory(store, e) ELSE inventory
        /\ totals' = IF action = "applied" THEN UpdatedTotals(store, e) ELSE totals
        /\ orders' = IF action = "applied" THEN UpdatedOrders(store, e) ELSE orders
        /\ processed' = processed \cup {e.event_id}
        /\ history' = history \cup
             {[event |-> e, outcome |-> OutcomeOf[action]]}

HasDate(m) == Event(m).occurred_at \in Dates

ApplyStateChange ==
    /\ pc = "writing"
    /\ HasDate(msg)
    /\ Write
    /\ Goto("committing")
    /\ UNCHANGED <<log, committed, dlq, client, http, budget, drained>>

(* event_date is computed from occurred_at, which the API takes as any     *)
(* integer: when no date can be made of it, building the batch raises, at  *)
(* each delivery of the event.                                             *)
BuildBatchFails ==
    /\ pc = "writing"
    /\ ~HasDate(msg)
    /\ NextIteration
    /\ UNCHANGED <<tables, log, committed, dlq, client, http, budget, drained>>

(* consumer.commit(message=msg, asynchronous=True).  Nobody waits for the  *)
(* answer: the commit may be lost.                                         *)
Commit ==
    /\ pc = "committing"
    /\ \/ committed' = [committed EXCEPT ![msg[1]] = msg[2]]
       \/ UNCHANGED committed
    /\ NextIteration
    /\ UNCHANGED <<tables, log, dlq, client, http, budget, drained>>

(* A call raises: reading Cassandra, decoding, publishing or writing.  The *)
(* loop logs the exception and polls the next message; the position has    *)
(* already moved past this one.                                            *)
CallFails ==
    /\ pc \in {"handling", "publishing", "writing"}
    /\ failures < MaxFailures
    /\ MayDisturb
    /\ failures' = failures + 1
    /\ NextIteration
    /\ UNCHANGED <<tables, log, committed, dlq, client, http, dlqLosses, interruptions, drained>>

(* Mutant: an unlogged batch, of which only the first row was written.     *)
WriteTimesOutHalfway ==
    /\ pc = "writing"
    /\ failures < MaxFailures
    /\ MayDisturb
    /\ failures' = failures + 1
    /\ inventory' = IF action = "applied" THEN UpdatedInventory(store, Event(msg)) ELSE inventory
    /\ NextIteration
    /\ UNCHANGED <<totals, orders, processed, history, log, committed, dlq, client, http,
                   dlqLosses, interruptions, drained>>

(* The batch times out although Cassandra applied it.                      *)
WriteTimesOut ==
    /\ pc = "writing"
    /\ HasDate(msg)
    /\ failures < MaxFailures
    /\ MayDisturb
    /\ failures' = failures + 1
    /\ Write
    /\ NextIteration
    /\ UNCHANGED <<log, committed, dlq, client, http, dlqLosses, interruptions, drained>>

-----------------------------------------------------------------------------
(* The HTTP thread: each request sets the flag, then calls the client. *)

Request(kind) ==
    /\ pc # "down"
    /\ request = "none"
    /\ requests < MaxRequests
    /\ MayDisturb
    /\ requests' = requests + 1
    /\ request' = kind
    /\ paused' = (kind = "pause")
    /\ UNCHANGED <<tables, log, committed, dlq, client, thread, budget, drained>>

FinishRequest ==
    /\ request # "none"
    /\ fetchPaused' = IF assigned THEN request = "pause" ELSE fetchPaused
    /\ request' = "none"
    /\ UNCHANGED <<tables, log, committed, dlq, assigned, position, thread, paused,
                   requests, budget, drained>>

-----------------------------------------------------------------------------
(* The environment *)

(* Mutant: auto.offset.reset = latest.                                     *)
AssignLatest ==
    /\ pc # "down"
    /\ ~assigned
    /\ assigned' = TRUE
    /\ position' = [q \in Partitions |-> IF committed[q] = 0 THEN Len(log[q]) ELSE committed[q]]
    /\ fetchPaused' = FALSE
    /\ UNCHANGED <<tables, log, committed, dlq, thread, http, budget, drained>>

(* Mutant: the last committed message is read again, even if there is none.*)
AssignOneBack ==
    /\ pc # "down"
    /\ ~assigned
    /\ assigned' = TRUE
    /\ position' = [q \in Partitions |-> committed[q] - 1]
    /\ fetchPaused' = FALSE
    /\ UNCHANGED <<tables, log, committed, dlq, thread, http, budget, drained>>

(* The group coordinator hands the member its partitions: fetching starts  *)
(* at the committed offsets, and nothing is paused.                        *)
Assign ==
    /\ pc # "down"
    /\ ~assigned
    /\ assigned' = TRUE
    /\ position' = committed
    /\ fetchPaused' = FALSE
    /\ UNCHANGED <<tables, log, committed, dlq, thread, http, budget, drained>>

Revoke ==
    /\ assigned
    /\ interruptions < MaxInterruptions
    /\ MayDisturb
    /\ interruptions' = interruptions + 1
    /\ assigned' = FALSE
    /\ fetchPaused' = FALSE
    /\ UNCHANGED <<tables, log, committed, dlq, position, thread, http, failures, dlqLosses, drained>>

(* The process ends at any point, stop() closing the consumer under the    *)
(* thread included.  Only Kafka and Cassandra remember anything.           *)
Kill ==
    /\ pc # "down"
    /\ interruptions < MaxInterruptions
    /\ MayDisturb
    /\ interruptions' = interruptions + 1
    /\ pc' = "down" /\ msg' = NoMessage /\ action' = "none"
    /\ assigned' = FALSE /\ fetchPaused' = FALSE
    /\ paused' = FALSE /\ request' = "none"
    /\ UNCHANGED <<tables, log, committed, dlq, position, requests, failures, dlqLosses, drained>>

Restart ==
    /\ pc = "down"
    /\ Goto("loop")
    /\ UNCHANGED <<tables, log, committed, dlq, client, http, budget, drained>>

-----------------------------------------------------------------------------
Worker ==
    \/ CheckPaused \/ PauseFetching \/ PollNothing \/ Decide
    \/ PublishToDlq \/ LoseDlqMessage \/ ApplyStateChange \/ Commit
    \/ BuildBatchFails \/ CallFails \/ WriteTimesOut
    \/ \E q \in Partitions : DrainMessage(q) \/ PollMessage(q)

Http == \/ \E kind \in {"pause", "resume"} : Request(kind)
        \/ FinishRequest

Next == Worker \/ Http \/ Assign \/ Revoke \/ Kill \/ Restart

Spec == Init /\ [][Next]_vars

(* The thread never stops by itself, the restart policy brings the process *)
(* back, the coordinator assigns the only member its partitions, and a     *)
(* poll that keeps finding messages in a partition returns one in the end. *)
(* Nobody has to send requests, and nothing has to fail.                   *)
Fairness ==
    /\ WF_vars(Worker)
    /\ WF_vars(FinishRequest)
    /\ WF_vars(Assign)
    /\ WF_vars(Restart)
    /\ \A q \in Partitions : SF_vars(PollMessage(q))

FairSpec == Spec /\ Fairness

-----------------------------------------------------------------------------
Labels == {"loop", "pausing", "draining", "polling", "handling", "publishing",
           "writing", "committing", "down"}

TypeOK ==
    /\ log \in Logs
    /\ committed \in [Partitions -> Nat]
    /\ position \in [Partitions -> Nat]
    /\ dlq \subseteq Events
    /\ assigned \in BOOLEAN /\ fetchPaused \in BOOLEAN /\ paused \in BOOLEAN
    /\ pc \in Labels
    /\ msg \in Messages \cup {NoMessage}
    /\ action \in {"none", "applied", "stale", "dlq", "duplicate"}
    /\ request \in {"none", "pause", "resume"}
    /\ {failures, dlqLosses, interruptions, requests, drained} \subseteq Nat

(* The loop implements the projection: whatever fails, is redelivered or   *)
(* killed half-way, Cassandra changes only by handling one unprocessed     *)
(* event against the rows as they are, never on an outdated decision and   *)
(* never twice for the same event.                                         *)
Projection == INSTANCE Projection
ImplementsProjection == Projection!Spec

(* The messages behind the consumer that were never recorded: Kafka will   *)
(* not deliver them again, or not until the next assignment.               *)
Passed(q) == IF assigned THEN Later(position[q], committed[q]) ELSE committed[q]

Skipped ==
    {m \in UNION {{q} \X (1 .. Passed(q)) : q \in Partitions} :
        m # msg /\ Event(m).event_id \notin processed}

(* No event is lost by kills, revocations, lost commits or redelivery: a   *)
(* message left behind was dropped by a call that raised (the loop polls   *)
(* on without seeking back) or by the poll of the paused loop, or its time *)
(* has no date.                                                            *)
LossesHaveACause == Cardinality({m \in Skipped : HasDate(m)}) <= failures + drained

(* An event recorded with outcome DLQ is on the DLQ topic, except for the  *)
(* messages that were lost after produce.                                  *)
RejectedOutsideDlq == {h.event : h \in {g \in history : g.outcome = "DLQ"}} \ dlq

DlqLossesHaveACause == Cardinality(RejectedOutsideDlq) <= dlqLosses

(* An event that was published to the DLQ may still be applied to the      *)
(* stock, when it is redelivered after the publication and other messages  *)
(* changed the rows in between; but not without a failure or an            *)
(* interruption between its publication and its record.                    *)
DeadAndApplied == dlq \cap {h.event : h \in {g \in history : g.outcome = "APPLIED"}}

DeadLettersStayDead == Cardinality(DeadAndApplied) <= failures + interruptions

(* Every event of the topic that has a date is recorded in the end, across *)
(* any number of kills and revocations that comes to an end and behind     *)
(* events that never can be, but for one event per call that fails,        *)
(* provided nobody pauses the consumer.                                    *)
Unrecorded ==
    {Event(m).event_id : m \in {n \in UNION {{q} \X DOMAIN log[q] : q \in Partitions} :
                                   HasDate(n)}} \ processed

EveryEventRecorded == [](requests = 0) => <>(Cardinality(Unrecorded) <= failures)

(* "status": "running" (api/routes.py): a consumer that was resumed for    *)
(* good goes on and reaches the end of its partitions.                     *)
ResumedConsumerRuns ==
    <>[](~paused /\ request = "none") => <>(\A q \in Partitions : position[q] = Len(log[q]))

(* "DLQ event for ... not found" (test_service_interactions.py): an event  *)
(* that was refused is found on the DLQ topic.                             *)
RejectedEventsAreOnDlq == RejectedOutsideDlq = {}
=============================================================================
