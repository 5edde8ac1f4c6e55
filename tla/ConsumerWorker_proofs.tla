------------------------- MODULE ConsumerWorker_proofs -------------------------
(***************************************************************************)
(* The consumer loop implements the projection, for any logs, partitions   *)
(* and number of failures.  What makes it true is that the decision taken  *)
(* in Decide is still the decision when the batch is written, however long *)
(* the publication to the DLQ takes: nobody else writes the tables.        *)
(*                                                                         *)
(* And what it loses it loses for a cause: refused events that are not on  *)
(* the DLQ, dead letters that are applied after all, and messages left     *)
(* behind are no more than the losses, failures and interruptions.         *)
(***************************************************************************)
EXTENDS ConsumerWorker, FiniteSetTheorems, SequenceTheorems, TLAPS

InHand == {"handling", "publishing", "writing", "committing"}

(* The message in hand is one of the log.                                  *)
MessageInHand ==
    pc \in InHand => /\ msg \in Messages
                     /\ msg[2] \in DOMAIN log[msg[1]]

(* The decision is the one that the tables of now call for.                *)
DecisionIsCurrent ==
    /\ pc \in {"publishing", "writing"} => action = ProcessAction(store, processed, Event(msg))
    /\ pc = "publishing" => action = "dlq"
    /\ pc = "writing" => action \in {"applied", "stale", "dlq"}

WorkerInv == TypeOK /\ MessageInHand /\ DecisionIsCurrent

LEMMA Decisions ==
    ASSUME NEW s, NEW done, NEW e
    PROVE  ProcessAction(s, done, e) \in {"applied", "stale", "dlq", "duplicate"}
BY DEF ProcessAction

LEMMA EventInHand ==
    ASSUME TypeOK, MessageInHand, pc \in InHand
    PROVE  Event(msg) \in Events
<1>1. log \in [Partitions -> Seq(Events)]
    BY LogsAreLogs DEF TypeOK
<1>2. msg[1] \in Partitions /\ msg[2] \in DOMAIN log[msg[1]]
    BY DEF MessageInHand, Messages
<1>3. log[msg[1]] \in Seq(Events)
    BY <1>1, <1>2
<1> QED BY <1>2, <1>3, ElementOfSeq DEF Event

LEMMA WorkerInit == Init => WorkerInv
<1> SUFFICES ASSUME Init PROVE WorkerInv
    OBVIOUS
<1>1. TypeOK
    <2>1. assigned \in BOOLEAN /\ fetchPaused \in BOOLEAN /\ paused \in BOOLEAN
        BY Zenon DEF Init
    <2>2. {failures, dlqLosses, interruptions, requests, drained} \subseteq Nat
        BY DEF Init
    <2>3. committed \in [Partitions -> Nat] /\ position \in [Partitions -> Nat]
        BY DEF Init
    <2>4. log \in Logs /\ dlq \subseteq Events /\ msg \in Messages \cup {NoMessage}
        BY DEF Init
    <2>5. /\ pc \in Labels
          /\ action \in {"none", "applied", "stale", "dlq", "duplicate"}
          /\ request \in {"none", "pause", "resume"}
        BY DEF Init, Labels
    <2> QED BY <2>1, <2>2, <2>3, <2>4, <2>5, Zenon DEF TypeOK
<1> QED BY <1>1 DEF Init, WorkerInv, MessageInHand, DecisionIsCurrent, InHand

(* The actions that leave the tables and the message in hand alone.        *)
LEMMA QuietSteps ==
    ASSUME WorkerInv, UNCHANGED <<tables, log>>, TypeOK',
           \/ UNCHANGED thread
           \/ pc' \in Labels \ InHand
    PROVE  WorkerInv'
BY DEF WorkerInv, MessageInHand, DecisionIsCurrent, InHand, tables, thread, store, Event

LEMMA WorkerNext == WorkerInv /\ [Next]_vars => WorkerInv'
<1> SUFFICES ASSUME WorkerInv, [Next]_vars PROVE WorkerInv'
    OBVIOUS
<1> USE DEF WorkerInv, Labels
<1>1. CASE CheckPaused
    <2>1. TypeOK'
        BY <1>1 DEF CheckPaused, Goto, TypeOK, client, http, budget
    <2>2. pc' \in Labels \ InHand /\ UNCHANGED <<tables, log>>
        BY <1>1 DEF CheckPaused, Goto, InHand
    <2> QED BY <2>1, <2>2, QuietSteps
<1>2. CASE PauseFetching
    <2>1. TypeOK'
        BY <1>2 DEF PauseFetching, Goto, TypeOK, client, http, budget
    <2>2. pc' \in Labels \ InHand /\ UNCHANGED <<tables, log>>
        BY <1>2 DEF PauseFetching, Goto, InHand
    <2> QED BY <2>1, <2>2, QuietSteps
<1>3. CASE PollNothing
    <2>1. TypeOK'
        BY <1>3 DEF PollNothing, NextIteration, TypeOK, client, http, budget
    <2>2. pc' \in Labels \ InHand /\ UNCHANGED <<tables, log>>
        BY <1>3 DEF PollNothing, NextIteration, InHand
    <2> QED BY <2>1, <2>2, QuietSteps
<1>4. ASSUME NEW q \in Partitions, DrainMessage(q) PROVE WorkerInv'
    <2>1. TypeOK'
        BY <1>4 DEF DrainMessage, NextIteration, TypeOK, http, budget
    <2>2. pc' \in Labels \ InHand /\ UNCHANGED <<tables, log>>
        BY <1>4 DEF DrainMessage, NextIteration, InHand
    <2> QED BY <2>1, <2>2, QuietSteps
<1>5. ASSUME NEW q \in Partitions, PollMessage(q) PROVE WorkerInv'
    <2>1. log[q] \in Seq(Events) /\ position[q] \in Nat /\ position[q] < Len(log[q])
        BY <1>5, LogsAreLogs DEF PollMessage, CanFetch, TypeOK
    <2>2. position[q] + 1 \in DOMAIN log[q] /\ position[q] + 1 \in Nat \ {0}
        BY <2>1, LenProperties
    <2>3. msg' \in Messages /\ MessageInHand'
        BY <1>5, <2>2 DEF PollMessage, Messages, MessageInHand
    <2>4. TypeOK'
        BY <1>5, <2>2, <2>3 DEF PollMessage, TypeOK, http, budget
    <2>5. DecisionIsCurrent'
        BY <1>5 DEF PollMessage, DecisionIsCurrent
    <2> QED BY <2>3, <2>4, <2>5
<1>6. CASE Decide
    <2>1. action' \in {"applied", "stale", "dlq", "duplicate"}
        BY <1>6, Decisions DEF Decide
    <2>2. /\ pc' \in {"committing", "publishing", "writing"}
          /\ pc' = "publishing" => action' = "dlq"
          /\ pc' = "writing" => action' \in {"applied", "stale", "dlq"}
        <3>1. CASE action' = "duplicate"
            BY <1>6, <3>1, Zenon DEF Decide
        <3>2. CASE action' = "dlq"
            BY <1>6, <3>2, Zenon DEF Decide
        <3>3. CASE action' \in {"applied", "stale"}
            <4>1. pc' = "writing"
                BY <1>6, <3>3, Zenon DEF Decide
            <4> QED BY <3>3, <4>1
        <3> QED BY <2>1, <3>1, <3>2, <3>3
    <2>3. UNCHANGED <<msg, tables, log>> /\ pc = "handling"
        BY <1>6 DEF Decide
    <2>4. TypeOK'
        <3>1. pc' \in Labels
            BY <2>2
        <3> QED BY <1>6, <2>1, <3>1 DEF Decide, TypeOK, client, http, budget
    <2>5. MessageInHand'
        BY <2>3 DEF MessageInHand, InHand
    <2>6. action' = ProcessAction(store', processed', Event(msg)')
        BY <1>6, <2>3 DEF Decide, store, tables, Event
    <2> QED BY <2>2, <2>4, <2>5, <2>6 DEF DecisionIsCurrent
<1>7. CASE PublishToDlq \/ LoseDlqMessage
    <2>1. Event(msg) \in Events
        BY <1>7, EventInHand DEF PublishToDlq, LoseDlqMessage, InHand
    <2>2. TypeOK'
        BY <1>7, <2>1 DEF PublishToDlq, LoseDlqMessage, Goto, TypeOK, client, http, budget
    <2>3. /\ pc = "publishing" /\ pc' = "writing"
          /\ UNCHANGED <<msg, action, tables, log>>
        BY <1>7 DEF PublishToDlq, LoseDlqMessage, Goto
    <2>4. MessageInHand'
        BY <2>3 DEF MessageInHand, InHand
    <2>5. DecisionIsCurrent'
        BY <2>3 DEF DecisionIsCurrent, store, tables, Event
    <2> QED BY <2>2, <2>4, <2>5
<1>8. CASE ApplyStateChange
    <2>1. TypeOK'
        BY <1>8 DEF ApplyStateChange, Goto, TypeOK, client, http, budget
    <2>2. pc = "writing" /\ pc' = "committing" /\ UNCHANGED <<msg, log>>
        BY <1>8 DEF ApplyStateChange, Goto
    <2>3. MessageInHand' /\ DecisionIsCurrent'
        BY <2>2 DEF MessageInHand, DecisionIsCurrent, InHand
    <2> QED BY <2>1, <2>3
<1>9. CASE Commit
    <2>1. msg \in Messages
        BY <1>9 DEF Commit, MessageInHand, InHand
    <2>2. committed' \in [Partitions -> Nat]
        BY <1>9, <2>1 DEF Commit, Messages, TypeOK
    <2>3. TypeOK'
        BY <1>9, <2>2 DEF Commit, NextIteration, TypeOK, client, http, budget
    <2>4. pc' \in Labels \ InHand /\ UNCHANGED <<tables, log>>
        BY <1>9 DEF Commit, NextIteration, InHand
    <2> QED BY <2>3, <2>4, QuietSteps
<1>10. CASE CallFails \/ BuildBatchFails
    <2>1. TypeOK'
        BY <1>10 DEF CallFails, BuildBatchFails, NextIteration, TypeOK, client, http, budget
    <2>2. pc' \in Labels \ InHand /\ UNCHANGED <<tables, log>>
        BY <1>10 DEF CallFails, BuildBatchFails, NextIteration, InHand
    <2> QED BY <2>1, <2>2, QuietSteps
<1>11. CASE WriteTimesOut
    <2>1. TypeOK'
        BY <1>11 DEF WriteTimesOut, NextIteration, TypeOK, client, http
    <2>2. pc' = "loop"
        BY <1>11 DEF WriteTimesOut, NextIteration
    <2> QED BY <2>1, <2>2 DEF MessageInHand, DecisionIsCurrent, InHand
<1>12. ASSUME NEW kind \in {"pause", "resume"}, Request(kind) PROVE WorkerInv'
    <2>1. TypeOK'
        BY <1>12 DEF Request, TypeOK, client, thread, budget
    <2> QED BY <1>12, <2>1, QuietSteps DEF Request
<1>13. CASE FinishRequest
    <2>1. TypeOK'
        BY <1>13 DEF FinishRequest, TypeOK, thread, budget
    <2> QED BY <1>13, <2>1, QuietSteps DEF FinishRequest
<1>14. CASE Assign \/ Revoke
    <2>1. TypeOK'
        <3>1. assigned' \in BOOLEAN /\ fetchPaused' \in BOOLEAN /\ paused' \in BOOLEAN
            BY <1>14, Zenon DEF Assign, Revoke, http, TypeOK
        <3>2. position' \in [Partitions -> Nat] /\ UNCHANGED <<log, committed, dlq>>
            BY <1>14 DEF Assign, Revoke, TypeOK
        <3>3. {failures, dlqLosses, interruptions, requests, drained}' \subseteq Nat
            BY <1>14 DEF Assign, Revoke, budget, http, TypeOK
        <3>4. UNCHANGED <<pc, msg, action, request>>
            BY <1>14 DEF Assign, Revoke, thread, http
        <3> QED BY <3>1, <3>2, <3>3, <3>4 DEF TypeOK
    <2> QED BY <1>14, <2>1, QuietSteps DEF Assign, Revoke
<1>15. CASE Kill \/ Restart
    <2>1. TypeOK'
        <3>1. assigned' \in BOOLEAN /\ fetchPaused' \in BOOLEAN /\ paused' \in BOOLEAN
            BY <1>15, Zenon DEF Kill, Restart, client, http, TypeOK
        <3>2. UNCHANGED <<log, committed, position, dlq>>
            BY <1>15 DEF Kill, Restart, client
        <3>3. {failures, dlqLosses, interruptions, requests, drained}' \subseteq Nat
            BY <1>15 DEF Kill, Restart, budget, http, TypeOK
        <3>4. /\ pc' \in Labels
              /\ msg' \in Messages \cup {NoMessage}
              /\ action' \in {"none", "applied", "stale", "dlq", "duplicate"}
              /\ request' \in {"none", "pause", "resume"}
            BY <1>15 DEF Kill, Restart, Goto, http, TypeOK
        <3> QED BY <3>1, <3>2, <3>3, <3>4 DEF TypeOK
    <2>2. pc' \in Labels \ InHand /\ UNCHANGED <<tables, log>>
        BY <1>15 DEF Kill, Restart, Goto, InHand
    <2> QED BY <2>1, <2>2, QuietSteps
<1>16. CASE UNCHANGED vars
    <2>1. TypeOK'
        BY <1>16 DEF vars, TypeOK, client, thread, http, budget
    <2> QED BY <1>16, <2>1, QuietSteps DEF vars
<1> QED BY <1>1, <1>2, <1>3, <1>4, <1>5, <1>6, <1>7, <1>8, <1>9, <1>10, <1>11, <1>12, <1>13,
           <1>14, <1>15, <1>16 DEF Next, Worker, Http

(* The offsets stay natural numbers, the DLQ holds events of the topic, and *)
(* the thread is always at one of its labels.                               *)
THEOREM WorkerTypeCorrect == Spec => []TypeOK
<1>1. WorkerInv => TypeOK
    BY DEF WorkerInv
<1> QED BY <1>1, WorkerInit, WorkerNext, PTL DEF Spec

-----------------------------------------------------------------------------
(* The projection that ConsumerWorker instantiates has definitions of its   *)
(* own; expanded, they are those of EventProcessor.                         *)

LEMMA SameStore == Projection!store = store
BY DEF Projection!store, store

LEMMA SameOperators ==
    ASSUME NEW s, NEW done, NEW e
    PROVE  /\ Projection!ProcessAction(s, done, e) = ProcessAction(s, done, e)
           /\ Projection!UpdatedInventory(s, e) = UpdatedInventory(s, e)
           /\ Projection!UpdatedTotals(s, e) = UpdatedTotals(s, e)
           /\ Projection!UpdatedOrders(s, e) = UpdatedOrders(s, e)
           /\ Projection!EmptyStore = EmptyStore
BY Zenon DEF ProcessAction, WellFormed, ItemsWellFormed, EventTypes, ProductEventTypes,
       OrderEventTypes, Stale, OlderThan, StockSuffices, OrderAllows, FitsZones, ReplacedTotal,
       ZoneTotal, Total, TotalsNonNegative, UpdatedTotal, KeysOf, Later, TouchedKeys, ItemKeys,
       GroupedQuantity, DeltaAvailable, DeltaReserved, NewSupplier, UpdatedRow, Keys,
       UpdatedInventory, UpdatedTotals, UpdatedOrders, EmptyStore, EmptyRow, EmptyTotal,
       SumFunctionOnSet, FoldFunctionOnSet, MapThenFoldSet,
       Projection!ProcessAction, Projection!WellFormed, Projection!ItemsWellFormed,
       Projection!EventTypes, Projection!ProductEventTypes, Projection!OrderEventTypes,
       Projection!Stale, Projection!OlderThan, Projection!StockSuffices, Projection!OrderAllows,
       Projection!FitsZones, Projection!ReplacedTotal, Projection!ZoneTotal, Projection!Total,
       Projection!TotalsNonNegative, Projection!UpdatedTotal, Projection!KeysOf,
       Projection!Later, Projection!TouchedKeys, Projection!ItemKeys,
       Projection!GroupedQuantity, Projection!DeltaAvailable, Projection!DeltaReserved,
       Projection!NewSupplier, Projection!UpdatedRow, Projection!Keys,
       Projection!UpdatedInventory, Projection!UpdatedTotals, Projection!UpdatedOrders,
       Projection!EmptyStore, Projection!EmptyRow, Projection!EmptyTotal,
       Projection!SumFunctionOnSet, Projection!FoldFunctionOnSet, Projection!MapThenFoldSet

LEMMA InitImplements == Init => Projection!Init
BY SameOperators DEF Init, Projection!Init

(* A batch, acknowledged or not, is one step of the projection.            *)
LEMMA WriteImplements ==
    ASSUME WorkerInv, pc = "writing", Write
    PROVE  Projection!Next
<1> DEFINE e == Event(msg)
<1>1. e \in Events
    BY EventInHand DEF WorkerInv, InHand
<1>2. /\ Projection!ProcessAction(Projection!store, processed, e) = action
      /\ action \in {"applied", "stale", "dlq"}
    BY SameStore, SameOperators DEF WorkerInv, DecisionIsCurrent
<1>3. CASE action = "applied"
    <2>1. Projection!Apply(e)
        BY <1>2, <1>3, SameStore, SameOperators
           DEF Write, OutcomeOf, Projection!Apply, Projection!Record
    <2> QED BY <1>1, <2>1 DEF Projection!Next
<1>4. CASE action = "stale"
    <2>1. Projection!Ignore(e)
        BY <1>2, <1>4 DEF Write, OutcomeOf, Projection!Ignore, Projection!Record
    <2> QED BY <1>1, <2>1 DEF Projection!Next
<1>5. CASE action = "dlq"
    <2>1. Projection!Reject(e)
        BY <1>2, <1>5 DEF Write, OutcomeOf, Projection!Reject, Projection!Record
    <2> QED BY <1>1, <2>1 DEF Projection!Next
<1> QED BY <1>2, <1>3, <1>4, <1>5

LEMMA NextImplements == WorkerInv /\ [Next]_vars => [Projection!Next]_(Projection!vars)
<1> SUFFICES ASSUME WorkerInv, [Next]_vars
             PROVE  Projection!Next \/ UNCHANGED tables
    BY DEF Projection!vars, tables
<1>1. CASE ApplyStateChange \/ WriteTimesOut
    BY <1>1, WriteImplements DEF ApplyStateChange, WriteTimesOut
<1>2. CASE ~(ApplyStateChange \/ WriteTimesOut)
    BY <1>2 DEF Next, Worker, Http, vars, CheckPaused, PauseFetching, PollNothing, DrainMessage,
                PollMessage, Decide, PublishToDlq, LoseDlqMessage, Commit, CallFails,
                BuildBatchFails, Request,
                FinishRequest, Assign, Revoke, Kill, Restart
<1> QED BY <1>1, <1>2

(* Whatever fails, is redelivered, lost or killed half-way, the consumer    *)
(* changes Cassandra only as the projection does: by handling one           *)
(* unprocessed event against the rows as they are.                          *)
THEOREM WorkerImplements == Spec => ImplementsProjection
<1>1. Spec => Projection!Spec
    BY InitImplements, NextImplements, WorkerInit, WorkerNext, PTL DEF Spec, Projection!Spec
<1> QED BY <1>1 DEF ImplementsProjection

-----------------------------------------------------------------------------
(* What is lost is counted: of a set that only grows by one element at a   *)
(* time, each time at the cost of one, no more elements than that.         *)

Bounded(S, n) == IsFiniteSet(S) /\ Cardinality(S) <= n

(* From S to T, and from a count n to k.                                   *)
PaidFor(S, T, n, k) ==
    \/ T \subseteq S /\ k >= n
    \/ \E x : T \subseteq S \cup {x} /\ k >= n + 1

LEMMA BoundedStep ==
    ASSUME NEW S, NEW T, NEW n \in Nat, NEW k \in Nat, Bounded(S, n), PaidFor(S, T, n, k)
    PROVE  Bounded(T, k)
<1>1. IsFiniteSet(S) /\ Cardinality(S) \in Nat /\ Cardinality(S) <= n
    BY FS_CardinalityType DEF Bounded
<1>2. CASE T \subseteq S /\ k >= n
    <2>1. IsFiniteSet(T) /\ Cardinality(T) \in Nat /\ Cardinality(T) <= Cardinality(S)
        BY <1>1, <1>2, FS_Subset, FS_CardinalityType
    <2> QED BY <1>1, <1>2, <2>1 DEF Bounded
<1>3. ASSUME NEW x, T \subseteq S \cup {x}, k >= n + 1 PROVE Bounded(T, k)
    <2>1. IsFiniteSet(S \cup {x}) /\ Cardinality(S \cup {x}) \in Nat
          /\ Cardinality(S \cup {x}) <= Cardinality(S) + 1
        <3>1. IsFiniteSet(S \cup {x})
            BY <1>1, FS_AddElement
        <3>2. Cardinality(S \cup {x}) = IF x \in S THEN Cardinality(S) ELSE Cardinality(S) + 1
            BY <1>1, FS_AddElement
        <3> QED BY <1>1, <3>1, <3>2
    <2>2. IsFiniteSet(T) /\ Cardinality(T) \in Nat /\ Cardinality(T) <= Cardinality(S \cup {x})
        BY <1>3, <2>1, FS_Subset, FS_CardinalityType
    <2> QED BY <1>1, <1>3, <2>1, <2>2 DEF Bounded
<1> QED BY <1>2, <1>3 DEF PaidFor

(* A step leaves the topic alone.                                          *)
LEMMA SameLog == ASSUME [Next]_vars PROVE log' = log
BY DEF Next, Worker, Http, CheckPaused, PauseFetching, PollNothing, Decide, PublishToDlq,
       LoseDlqMessage, ApplyStateChange, Commit, BuildBatchFails, CallFails, WriteTimesOut,
       DrainMessage, PollMessage, Request, FinishRequest, Assign, Revoke, Kill, Restart, vars

-----------------------------------------------------------------------------
(* The DLQ *)

(* The events recorded with an outcome.                                    *)
Recorded(outcome) == {h.event : h \in {g \in history : g.outcome = outcome}}

(* The refused event that is going to be written.                          *)
Rejecting == IF pc = "writing" /\ action = "dlq" THEN {Event(msg)} ELSE {}

Unpublished == (Recorded("DLQ") \cup Rejecting) \ dlq

(* A batch adds its event to those recorded with its outcome.              *)
LEMMA WriteRecords ==
    ASSUME Write, action \in {"applied", "stale", "dlq"}, NEW outcome
    PROVE  Recorded(outcome)' = IF outcome = OutcomeOf[action]
                                THEN Recorded(outcome) \cup {Event(msg)} ELSE Recorded(outcome)
<1> DEFINE g == [event |-> Event(msg), outcome |-> OutcomeOf[action]]
<1>1. history' = history \cup {g}
    BY DEF Write
<1>2. g.event = Event(msg) /\ g.outcome = OutcomeOf[action]
    OBVIOUS
<1> HIDE DEF g
<1> QED BY <1>1, <1>2 DEF Recorded

LEMMA UnpublishedNext ==
    ASSUME WorkerInv, [Next]_vars
    PROVE  PaidFor(Unpublished, Unpublished', dlqLosses, dlqLosses')
<1>0. dlqLosses \in Nat /\ log' = log
    BY SameLog DEF WorkerInv, TypeOK
<1>1. ASSUME history' = history, dlq' = dlq, dlqLosses' = dlqLosses,
             UNCHANGED thread \/ pc' # "writing" \/ action' # "dlq"
      PROVE  PaidFor(Unpublished, Unpublished', dlqLosses, dlqLosses')
    <2>1. Rejecting' \subseteq Rejecting
        BY <1>0, <1>1 DEF Rejecting, Event, thread
    <2>2. Unpublished' \subseteq Unpublished
        BY <1>1, <2>1 DEF Unpublished, Recorded
    <2> QED BY <1>0, <1>1, <2>2 DEF PaidFor
<1>2. CASE CheckPaused \/ PauseFetching \/ PollNothing \/ Commit \/ BuildBatchFails \/ CallFails
    BY <1>1, <1>2 DEF CheckPaused, PauseFetching, PollNothing, Commit, BuildBatchFails, CallFails,
                      Goto, NextIteration, tables, budget
<1>3. CASE \E q \in Partitions : DrainMessage(q) \/ PollMessage(q)
    BY <1>1, <1>3 DEF DrainMessage, PollMessage, NextIteration, tables, budget
<1>4. CASE Decide
    <2>1. action' = "dlq" => pc' = "publishing"
        BY <1>4, Zenon DEF Decide
    <2>2. history' = history /\ dlq' = dlq /\ dlqLosses' = dlqLosses
        BY <1>4 DEF Decide, tables, budget
    <2> QED BY <1>1, <2>1, <2>2
<1>5. CASE PublishToDlq
    <2>1. Rejecting' = {Event(msg)} /\ dlq' = dlq \cup {Event(msg)}
          /\ history' = history /\ dlqLosses' = dlqLosses
        BY <1>0, <1>5 DEF PublishToDlq, Goto, Rejecting, Event, WorkerInv, DecisionIsCurrent,
                          tables, budget
    <2>2. Unpublished' \subseteq Unpublished
        BY <2>1 DEF Unpublished, Recorded
    <2> QED BY <1>0, <2>1, <2>2 DEF PaidFor
<1>6. CASE LoseDlqMessage
    <2>1. Rejecting' \subseteq {Event(msg)} /\ dlq' = dlq
          /\ history' = history /\ dlqLosses' = dlqLosses + 1
        BY <1>0, <1>6 DEF LoseDlqMessage, Goto, Rejecting, Event, tables
    <2>2. Unpublished' \subseteq Unpublished \cup {Event(msg)}
        BY <2>1 DEF Unpublished, Recorded
    <2> QED BY <1>0, <2>1, <2>2 DEF PaidFor
<1>7. CASE ApplyStateChange \/ WriteTimesOut
    <2>1. Write /\ action \in {"applied", "stale", "dlq"} /\ pc = "writing"
        BY <1>7 DEF ApplyStateChange, WriteTimesOut, WorkerInv, DecisionIsCurrent
    <2>2. Recorded("DLQ")' \subseteq Recorded("DLQ") \cup Rejecting
        BY <2>1, WriteRecords DEF Rejecting, OutcomeOf
    <2>3. dlq' = dlq /\ dlqLosses' = dlqLosses /\ pc' # "writing"
        BY <1>7 DEF ApplyStateChange, WriteTimesOut, Goto, NextIteration, budget
    <2>4. Rejecting' = {}
        BY <2>3 DEF Rejecting
    <2>5. Unpublished' \subseteq Unpublished
        BY <2>2, <2>3, <2>4 DEF Unpublished
    <2> QED BY <1>0, <2>3, <2>5 DEF PaidFor
<1>8. CASE Http \/ Assign \/ Revoke \/ Kill \/ Restart \/ UNCHANGED vars
    BY <1>1, <1>8 DEF Http, Request, FinishRequest, Assign, Revoke, Kill, Restart, Goto, vars,
                      tables, budget
<1> QED BY <1>2, <1>3, <1>4, <1>5, <1>6, <1>7, <1>8 DEF Next, Worker

LEMMA EmptyBounded == Bounded({}, 0)
BY FS_EmptySet DEF Bounded

(* An event recorded with outcome DLQ is on the DLQ topic, but for one     *)
(* event per message lost after produce, whatever fails or is redelivered. *)
THEOREM DlqCorrect == Spec => []DlqLossesHaveACause
<1> DEFINE Inv == Bounded(Unpublished, dlqLosses)
<1>1. Init => Inv
    <2> SUFFICES ASSUME Init PROVE Inv
        OBVIOUS
    <2>1. Unpublished = {} /\ dlqLosses = 0
        BY DEF Init, Unpublished, Recorded, Rejecting
    <2> QED BY <2>1, EmptyBounded
<1>2. WorkerInv /\ Inv /\ [Next]_vars => Inv'
    <2> SUFFICES ASSUME WorkerInv, Inv, [Next]_vars PROVE Inv'
        OBVIOUS
    <2>1. dlqLosses \in Nat /\ dlqLosses' \in Nat
        BY WorkerNext DEF WorkerInv, TypeOK
    <2> QED BY <2>1, UnpublishedNext, BoundedStep
<1>3. WorkerInv /\ Inv => DlqLossesHaveACause
    <2> SUFFICES ASSUME WorkerInv, Inv PROVE DlqLossesHaveACause
        OBVIOUS
    <2>1. dlqLosses \in Nat
        BY DEF WorkerInv, TypeOK
    <2>2. RejectedOutsideDlq \subseteq Unpublished
        BY DEF RejectedOutsideDlq, Unpublished, Recorded
    <2>3. Bounded(RejectedOutsideDlq, dlqLosses)
        BY <2>1, <2>2, BoundedStep DEF PaidFor
    <2> QED BY <2>3 DEF Bounded, DlqLossesHaveACause
<1> QED BY <1>1, <1>2, <1>3, WorkerInit, WorkerNext, PTL DEF Spec

-----------------------------------------------------------------------------
(* Dead letters *)

(* What is recorded is marked as processed, and has a date.                *)
RecordsMarked ==
    \A h \in history : h.event.event_id \in processed /\ h.event.occurred_at \in Dates

(* The published events that are, or still may be, applied to the stock:   *)
(* all but those about to be recorded as refused.                          *)
Loose ==
    {e \in dlq : /\ e.occurred_at \in Dates
                 /\ e.event_id \notin processed \/ e \in Recorded("APPLIED")} \ Rejecting

LEMMA MarkedInit == Init => RecordsMarked
BY DEF Init, RecordsMarked

LEMMA MarkedNext == RecordsMarked /\ [Next]_vars => RecordsMarked'
<1> SUFFICES ASSUME RecordsMarked, [Next]_vars PROVE RecordsMarked'
    OBVIOUS
<1>1. CASE UNCHANGED tables
    BY <1>1 DEF RecordsMarked, tables
<1>2. CASE ApplyStateChange \/ WriteTimesOut
    <2>1. Write /\ Event(msg).occurred_at \in Dates
        BY <1>2 DEF ApplyStateChange, WriteTimesOut, HasDate
    <2>2. /\ history' = history \cup {[event |-> Event(msg), outcome |-> OutcomeOf[action]]}
          /\ processed' = processed \cup {Event(msg).event_id}
        BY <2>1 DEF Write
    <2> QED BY <2>1, <2>2 DEF RecordsMarked
<1> QED BY <1>1, <1>2
        DEF Next, Worker, Http, CheckPaused, PauseFetching, PollNothing, Decide, PublishToDlq,
            LoseDlqMessage, Commit, BuildBatchFails, CallFails, DrainMessage, PollMessage,
            Request, FinishRequest, Assign, Revoke, Kill, Restart, vars

LEMMA LooseNext ==
    ASSUME WorkerInv, RecordsMarked, [Next]_vars
    PROVE  PaidFor(Loose, Loose', failures + interruptions, failures' + interruptions')
<1> DEFINE n == failures + interruptions
<1>0. failures \in Nat /\ interruptions \in Nat /\ log' = log
    BY SameLog DEF WorkerInv, TypeOK
<1>1. ASSUME UNCHANGED <<tables, dlq>>, n' = n,
             UNCHANGED thread \/ pc # "writing" \/ action # "dlq"
      PROVE  PaidFor(Loose, Loose', n, n')
    <2>1. Rejecting \subseteq Rejecting'
        BY <1>0, <1>1 DEF Rejecting, Event, thread
    <2>2. Loose' \subseteq Loose
        BY <1>1, <2>1 DEF Loose, Recorded, tables
    <2> QED BY <1>0, <1>1, <2>2 DEF PaidFor
<1>2. CASE CheckPaused \/ PauseFetching \/ PollNothing \/ Commit \/ Decide
    BY <1>1, <1>2 DEF CheckPaused, PauseFetching, PollNothing, Commit, Decide,
                      Goto, NextIteration, budget
<1>3. CASE \E q \in Partitions : DrainMessage(q) \/ PollMessage(q)
    BY <1>1, <1>3 DEF DrainMessage, PollMessage, NextIteration, budget
<1>4. CASE PublishToDlq \/ LoseDlqMessage
    <2>1. Rejecting' = {Event(msg)} /\ dlq' \subseteq dlq \cup {Event(msg)}
          /\ UNCHANGED tables /\ n' = n /\ Rejecting = {}
        BY <1>0, <1>4 DEF PublishToDlq, LoseDlqMessage, Goto, Rejecting, Event,
                          WorkerInv, DecisionIsCurrent, budget
    <2>2. Loose' \subseteq Loose
        BY <2>1 DEF Loose, Recorded, tables
    <2> QED BY <1>0, <2>1, <2>2 DEF PaidFor
<1>5. CASE ApplyStateChange \/ WriteTimesOut
    <2> DEFINE e == Event(msg)
    <2>1. Write /\ action \in {"applied", "stale", "dlq"} /\ pc = "writing"
          /\ e.occurred_at \in Dates
        BY <1>5 DEF ApplyStateChange, WriteTimesOut, WorkerInv, DecisionIsCurrent, HasDate
    <2>2. Recorded("APPLIED")'
             = IF action = "applied" THEN Recorded("APPLIED") \cup {e} ELSE Recorded("APPLIED")
        BY <2>1, WriteRecords DEF OutcomeOf
    <2>3. processed' = processed \cup {e.event_id}
        BY <2>1 DEF Write
    <2>4. e.event_id \notin processed
        BY <2>1 DEF WorkerInv, DecisionIsCurrent, ProcessAction
    <2>5. \A x \in Recorded("APPLIED") : x.event_id \in processed
        BY DEF Recorded, RecordsMarked
    <2>6. dlq' = dlq /\ n' >= n
        BY <1>0, <1>5 DEF ApplyStateChange, WriteTimesOut, budget
    <2>7. ASSUME NEW x \in Loose' PROVE x \in Loose
        <3>1. x \in dlq /\ x.occurred_at \in Dates
            BY <2>6 DEF Loose
        <3>2. CASE x = e /\ action = "applied"
            <4>1. Rejecting = {}
                BY <3>2 DEF Rejecting
            <4> QED BY <2>4, <3>1, <3>2, <4>1 DEF Loose
        <3>3. CASE ~(x = e /\ action = "applied")
            <4>1. x.event_id \notin processed' \/ x \in Recorded("APPLIED")
                BY <2>2, <3>3 DEF Loose
            <4>2. x # e
                BY <2>3, <2>4, <2>5, <4>1
            <4>3. x \notin Rejecting
                BY <4>2 DEF Rejecting
            <4> QED BY <2>3, <3>1, <4>1, <4>3 DEF Loose
        <3> QED BY <3>2, <3>3
    <2>8. Loose' \subseteq Loose
        BY <2>7
    <2> QED BY <2>6, <2>8 DEF PaidFor
<1>6. CASE BuildBatchFails
    <2>1. UNCHANGED <<tables, dlq>> /\ n' = n /\ Event(msg).occurred_at \notin Dates
        BY <1>6 DEF BuildBatchFails, HasDate, budget
    <2>2. \A x \in Rejecting : x.occurred_at \notin Dates
        BY <2>1 DEF Rejecting
    <2>3. Loose' \subseteq Loose
        BY <2>1, <2>2 DEF Loose, Recorded, tables
    <2> QED BY <1>0, <2>1, <2>3 DEF PaidFor
<1>7. CASE CallFails \/ Kill
    <2>1. UNCHANGED <<tables, dlq>> /\ n' = n + 1
        BY <1>0, <1>7 DEF CallFails, Kill
    <2>2. Rejecting \subseteq {Event(msg)}
        BY DEF Rejecting
    <2>3. Loose' \subseteq Loose \cup {Event(msg)}
        BY <2>1, <2>2 DEF Loose, Recorded, tables
    <2>4. n' >= n + 1
        BY <1>0, <2>1
    <2> QED BY <2>3, <2>4 DEF PaidFor
<1>8. CASE Revoke
    <2>1. UNCHANGED <<tables, dlq, thread>> /\ n' = n + 1
        BY <1>0, <1>8 DEF Revoke
    <2>2. Loose' = Loose
        BY <1>0, <2>1 DEF Loose, Recorded, Rejecting, Event, tables, thread
    <2> QED BY <1>0, <2>1, <2>2 DEF PaidFor
<1>9. CASE Http \/ Assign \/ Restart \/ UNCHANGED vars
    BY <1>1, <1>9 DEF Http, Request, FinishRequest, Assign, Restart, Goto, vars, budget
<1> QED BY <1>2, <1>3, <1>4, <1>5, <1>6, <1>7, <1>8, <1>9 DEF Next, Worker

(* Of the events published to the DLQ, no more are applied to the stock    *)
(* after all than there were failures and interruptions.                   *)
THEOREM DeadLettersCorrect == Spec => []DeadLettersStayDead
<1> DEFINE Inv == RecordsMarked /\ Bounded(Loose, failures + interruptions)
<1>1. Init => Inv
    <2> SUFFICES ASSUME Init PROVE Inv
        OBVIOUS
    <2>1. Loose = {} /\ failures + interruptions = 0
        BY DEF Init, Loose
    <2> QED BY <2>1, EmptyBounded, MarkedInit
<1>2. WorkerInv /\ Inv /\ [Next]_vars => Inv'
    <2> SUFFICES ASSUME WorkerInv, Inv, [Next]_vars PROVE Inv'
        OBVIOUS
    <2>1. failures + interruptions \in Nat /\ failures' + interruptions' \in Nat
        BY WorkerNext DEF WorkerInv, TypeOK
    <2> QED BY <2>1, LooseNext, MarkedNext, BoundedStep
<1>3. WorkerInv /\ Inv => DeadLettersStayDead
    <2> SUFFICES ASSUME WorkerInv, Inv PROVE DeadLettersStayDead
        OBVIOUS
    <2>1. failures + interruptions \in Nat
        BY DEF WorkerInv, TypeOK
    <2>2. ASSUME NEW e \in DeadAndApplied PROVE e \in Loose
        <3>1. e \in dlq /\ e \in Recorded("APPLIED")
            BY DEF DeadAndApplied, Recorded
        <3>2. e.event_id \in processed /\ e.occurred_at \in Dates
            BY <3>1 DEF Recorded, RecordsMarked
        <3>3. e \notin Rejecting
            BY <3>2 DEF Rejecting, WorkerInv, DecisionIsCurrent, ProcessAction
        <3> QED BY <3>1, <3>2, <3>3 DEF Loose
    <2> DEFINE n == failures + interruptions
    <2>4. DeadAndApplied \subseteq Loose /\ n >= n
        BY <2>1, <2>2
    <2>5. Bounded(Loose, n) /\ PaidFor(Loose, DeadAndApplied, n, n)
        BY <2>4 DEF PaidFor
    <2>3. Bounded(DeadAndApplied, failures + interruptions)
        BY <2>1, <2>5, BoundedStep
    <2> QED BY <2>3 DEF Bounded, DeadLettersStayDead
<1> QED BY <1>1, <1>2, <1>3, WorkerInit, WorkerNext, PTL DEF Spec

-----------------------------------------------------------------------------
(* Messages left behind *)

(* The thread, the committed offset or, as long as the partitions are      *)
(* assigned, the position has come to m.                                   *)
Reached(m) ==
    \/ m[2] <= committed[m[1]]
    \/ assigned /\ m[2] <= position[m[1]]
    \/ pc \in InHand /\ m[1] = msg[1] /\ m[2] <= msg[2]

(* The message in hand is delivered again after a kill, unless a later one *)
(* of its partition was committed.                                         *)
Held == IF pc \in InHand /\ msg[2] > committed[msg[1]] THEN {msg} ELSE {}

Behind ==
    {m \in Messages : Reached(m) /\ HasDate(m) /\ Event(m).event_id \notin processed} \ Held

(* A message is in hand from the poll on, and recorded when it is          *)
(* committed.                                                              *)
HandInv ==
    /\ pc \notin InHand => msg = NoMessage
    /\ pc = "committing" => Event(msg).event_id \in processed

LEMMA HandInit == Init => HandInv
BY DEF Init, HandInv, InHand

LEMMA HandNext == WorkerInv /\ HandInv /\ [Next]_vars => HandInv'
<1> SUFFICES ASSUME WorkerInv, HandInv, [Next]_vars PROVE HandInv'
    OBVIOUS
<1>0. log' = log
    BY SameLog
<1>1. ASSUME pc' \notin InHand, msg' = NoMessage PROVE HandInv'
    BY <1>1 DEF HandInv, InHand
<1>2. ASSUME UNCHANGED <<thread, tables>> PROVE HandInv'
    BY <1>0, <1>2 DEF HandInv, Event, thread, tables
<1>3. CASE CheckPaused \/ PauseFetching \/ Restart
    <2>1. pc \notin InHand /\ pc' \notin InHand /\ msg' = msg
        BY <1>3 DEF CheckPaused, PauseFetching, Restart, Goto, InHand
    <2> QED BY <1>1, <2>1 DEF HandInv
<1>4. CASE PollNothing \/ Commit \/ BuildBatchFails \/ CallFails \/ WriteTimesOut \/ Kill
    BY <1>1, <1>4 DEF PollNothing, Commit, BuildBatchFails, CallFails, WriteTimesOut, Kill,
                      NextIteration, InHand
<1>5. CASE \E q \in Partitions : DrainMessage(q)
    BY <1>1, <1>5 DEF DrainMessage, NextIteration, InHand
<1>6. CASE \E q \in Partitions : PollMessage(q)
    BY <1>6 DEF PollMessage, HandInv, InHand
<1>7. CASE Decide
    <2>1. action' = ProcessAction(store, processed, Event(msg))
          /\ UNCHANGED <<msg, tables>>
        BY <1>7 DEF Decide
    <2>2. CASE action' = "duplicate"
        <3>1. pc' = "committing"
            BY <1>7, <2>2, Zenon DEF Decide
        <3>2. Event(msg).event_id \in processed
            BY <2>1, <2>2 DEF ProcessAction
        <3> QED BY <1>0, <2>1, <3>1, <3>2 DEF HandInv, Event, tables, InHand
    <2>3. CASE action' # "duplicate"
        <3>1. pc' \in {"publishing", "writing"}
            <4>1. action' = "dlq" => pc' = "publishing"
                BY <1>7, Zenon DEF Decide
            <4>2. action' \in {"applied", "stale"} => pc' = "writing"
                BY <1>7, Zenon DEF Decide
            <4> QED BY <2>1, <2>3, <4>1, <4>2, Decisions
        <3> QED BY <3>1 DEF HandInv, InHand
    <2> QED BY <2>2, <2>3
<1>8. CASE PublishToDlq \/ LoseDlqMessage
    BY <1>8 DEF PublishToDlq, LoseDlqMessage, Goto, HandInv, InHand
<1>9. CASE ApplyStateChange
    <2>1. Event(msg).event_id \in processed' /\ pc' = "committing" /\ msg' = msg
        BY <1>9 DEF ApplyStateChange, Write, Goto
    <2> QED BY <1>0, <2>1 DEF HandInv, Event, InHand
<1>10. CASE Http \/ Assign \/ Revoke \/ UNCHANGED vars
    BY <1>2, <1>10 DEF Http, Request, FinishRequest, Assign, Revoke, vars
<1> QED BY <1>3, <1>4, <1>5, <1>6, <1>7, <1>8, <1>9, <1>10 DEF Next, Worker

(* What the thread goes past costs a failure or a drained message.         *)
LEMMA BehindNext ==
    ASSUME WorkerInv, HandInv, [Next]_vars
    PROVE  PaidFor(Behind, Behind', failures + drained, failures' + drained')
<1> DEFINE n == failures + drained
<1>0. failures \in Nat /\ drained \in Nat /\ log' = log
    BY SameLog DEF WorkerInv, TypeOK
<1>10. /\ committed \in [Partitions -> Nat]
       /\ position \in [Partitions -> Nat]
       /\ pc \in InHand => msg \in Messages
    BY DEF WorkerInv, TypeOK, MessageInHand
<1>11. \A m \in Messages : m[1] \in Partitions /\ m[2] \in Nat /\ m = <<m[1], m[2]>>
    BY DEF Messages
<1>1. ASSUME UNCHANGED <<committed, assigned, position, msg, processed>>, n' = n,
             pc \in InHand <=> pc' \in InHand
      PROVE  PaidFor(Behind, Behind', n, n')
    <2>1. Behind' = Behind
        BY <1>0, <1>1 DEF Behind, Reached, Held, HasDate, Event
    <2> QED BY <1>0, <1>1, <2>1 DEF PaidFor
<1>2. CASE CheckPaused \/ PauseFetching \/ PollNothing \/ Decide \/ PublishToDlq
           \/ LoseDlqMessage \/ Http \/ Restart \/ UNCHANGED vars
    <2>1. UNCHANGED <<committed, assigned, position, processed>> /\ n' = n
        BY <1>2 DEF CheckPaused, PauseFetching, PollNothing, Decide, PublishToDlq, LoseDlqMessage,
                    Http, Request, FinishRequest, Restart, vars, tables, client, budget
    <2>2. pc \in InHand <=> pc' \in InHand
        <3>1. CASE Decide
            <4>1. pc \in InHand
                BY <3>1 DEF Decide, InHand
            <4>2. pc' \in {"committing", "publishing", "writing"}
                BY <3>1, Zenon DEF Decide
            <4> QED BY <4>1, <4>2 DEF InHand
        <3> QED BY <1>2, <3>1
                DEF CheckPaused, PauseFetching, PollNothing, PublishToDlq, LoseDlqMessage,
                    Http, Request, FinishRequest, Restart, Goto, NextIteration, InHand, vars, thread
    <2>3. msg' = msg
        <3>1. CASE PollNothing
            BY <3>1 DEF PollNothing, NextIteration, HandInv, InHand
        <3> QED BY <1>2, <3>1
                DEF CheckPaused, PauseFetching, PublishToDlq, LoseDlqMessage, Decide,
                    Http, Request, FinishRequest, Restart, Goto, vars, thread
    <2> QED BY <1>1, <2>1, <2>2, <2>3
<1>3. ASSUME NEW q \in Partitions, DrainMessage(q) PROVE PaidFor(Behind, Behind', n, n')
    <2> DEFINE x == <<q, position[q] + 1>>
    <2>1. /\ assigned /\ assigned' = assigned /\ UNCHANGED <<committed, processed>> /\ n' = n + 1
          /\ position' = [position EXCEPT ![q] = @ + 1]
          /\ pc = "draining" /\ pc' \notin InHand
        BY <1>0, <1>3 DEF DrainMessage, CanFetch, NextIteration, tables, budget, InHand
    <2>2. ASSUME NEW m \in Behind' PROVE m \in Behind \cup {x}
        <3>1. m \in Messages /\ HasDate(m) /\ Event(m).event_id \notin processed
              /\ (m[2] <= committed[m[1]] \/ m[2] <= position'[m[1]])
            BY <1>0, <2>1 DEF Behind, Reached, HasDate, Event
        <3>2. Held = {}
            BY <2>1 DEF Held, InHand
        <3>3. m[2] <= committed[m[1]] \/ m[2] <= position[m[1]] \/ m = x
            BY <1>10, <1>11, <2>1, <3>1
        <3> QED BY <2>1, <3>1, <3>2, <3>3 DEF Behind, Reached
    <2>3. Behind' \subseteq Behind \cup {x} /\ n' >= n + 1
        BY <1>0, <2>1, <2>2
    <2> QED BY <2>3 DEF PaidFor
<1>4. ASSUME NEW q \in Partitions, PollMessage(q) PROVE PaidFor(Behind, Behind', n, n')
    <2> DEFINE x == <<q, position[q] + 1>>
    <2>1. /\ assigned /\ assigned' = assigned /\ UNCHANGED <<committed, processed>> /\ n' = n
          /\ position' = [position EXCEPT ![q] = @ + 1]
          /\ pc = "polling" /\ pc' \in InHand /\ msg' = x
        BY <1>4 DEF PollMessage, CanFetch, tables, budget, InHand
    <2>2. ASSUME NEW m \in Behind' PROVE m \in Behind
        <3>1. m \in Messages /\ HasDate(m) /\ Event(m).event_id \notin processed
              /\ (m[2] <= committed[m[1]] \/ m[2] <= position'[m[1]]
                  \/ (m[1] = q /\ m[2] <= position[q] + 1))
            BY <1>0, <2>1 DEF Behind, Reached, HasDate, Event
        <3>2. Held = {}
            BY <2>1 DEF Held, InHand
        <3>3. m[2] <= committed[m[1]] \/ m[2] <= position[m[1]] \/ m = x
            BY <1>10, <1>11, <2>1, <3>1
        <3>4. m = x => m[2] <= committed[m[1]]
            <4>1. m = x => m \notin Held'
                BY DEF Behind
            <4>2. Held' = IF position[q] + 1 > committed[q] THEN {x} ELSE {}
                BY <2>1 DEF Held
            <4> QED BY <1>10, <4>1, <4>2
        <3> QED BY <2>1, <3>1, <3>2, <3>3, <3>4 DEF Behind, Reached
    <2>3. Behind' \subseteq Behind
        BY <2>2
    <2> QED BY <1>0, <2>1, <2>3 DEF PaidFor
<1>5. CASE ApplyStateChange
    <2>1. /\ UNCHANGED <<committed, assigned, position, msg>> /\ n' = n
          /\ processed \subseteq processed'
          /\ pc \in InHand /\ pc' \in InHand
        BY <1>5 DEF ApplyStateChange, Write, Goto, client, budget, InHand
    <2>2. Behind' \subseteq Behind
        BY <1>0, <2>1 DEF Behind, Reached, Held, HasDate, Event
    <2> QED BY <1>0, <2>1, <2>2 DEF PaidFor
<1>6. CASE Commit \/ BuildBatchFails \/ CallFails \/ WriteTimesOut
    <2>1. /\ UNCHANGED <<assigned, position>> /\ pc \in InHand /\ pc' \notin InHand
          /\ processed \subseteq processed' /\ n' >= n /\ failures' \in Nat /\ drained' = drained
        BY <1>0, <1>6 DEF Commit, BuildBatchFails, CallFails, WriteTimesOut, Write, NextIteration,
                          tables, client, budget, InHand
    <2>2. \A q \in Partitions : committed'[q] = committed[q] \/ (q = msg[1] /\ committed'[q] = msg[2])
        BY <1>6, <1>10 DEF Commit, BuildBatchFails, CallFails, WriteTimesOut
    <2>3. ASSUME NEW m \in Behind' PROVE m \in Behind \cup {msg}
        <3>1. m \in Messages /\ HasDate(m) /\ Event(m).event_id \notin processed
            BY <1>0, <2>1 DEF Behind, HasDate, Event
        <3>2. m[2] <= committed'[m[1]] \/ (assigned /\ m[2] <= position[m[1]])
            BY <2>1 DEF Behind, Reached
        <3>3. Reached(m)
            BY <1>11, <2>1, <2>2, <3>1, <3>2 DEF Reached
        <3> QED BY <3>1, <3>3 DEF Behind, Held
    <2>4. CASE CallFails
        <3>1. n' >= n + 1
            BY <1>0, <2>4 DEF CallFails
        <3>2. Behind' \subseteq Behind \cup {msg}
            BY <2>3
        <3> QED BY <3>1, <3>2 DEF PaidFor
    <2>5. CASE ~CallFails
        <3>2. HasDate(msg) => Event(msg).event_id \in processed'
            <4>1. CASE Commit
                BY <4>1 DEF Commit, HandInv, tables
            <4>2. CASE BuildBatchFails
                BY <4>2 DEF BuildBatchFails
            <4>3. CASE WriteTimesOut
                BY <4>3 DEF WriteTimesOut, Write
            <4> QED BY <1>6, <2>5, <4>1, <4>2, <4>3
        <3>3. msg \notin Behind'
            BY <1>0, <3>2 DEF Behind, HasDate, Event
        <3>4. Behind' \subseteq Behind
            BY <2>3, <3>3
        <3> QED BY <2>1, <3>4 DEF PaidFor
    <2> QED BY <2>4, <2>5
<1>7. CASE Assign \/ Revoke
    <2>1. UNCHANGED <<committed, processed, pc, msg>> /\ n' = n
          /\ (assigned' => position' = committed)
        BY <1>7, Zenon DEF Assign, Revoke, tables, thread, budget
    <2>2. Behind' \subseteq Behind
        BY <1>0, <2>1 DEF Behind, Reached, Held, HasDate, Event
    <2> QED BY <1>0, <2>1, <2>2 DEF PaidFor
<1>8. CASE Kill
    <2>1. UNCHANGED <<committed, processed>> /\ n' = n /\ ~assigned' /\ pc' \notin InHand
        BY <1>8 DEF Kill, tables, InHand
    <2>2. ASSUME NEW m \in Behind' PROVE m \in Behind
        <3>1. m \in Messages /\ HasDate(m) /\ Event(m).event_id \notin processed
              /\ m[2] <= committed[m[1]]
            BY <1>0, <2>1 DEF Behind, Reached, HasDate, Event
        <3>2. m \notin Held
            BY <1>10, <1>11, <3>1 DEF Held
        <3> QED BY <3>1, <3>2 DEF Behind, Reached
    <2>3. Behind' \subseteq Behind
        BY <2>2
    <2> QED BY <1>0, <2>1, <2>3 DEF PaidFor
<1> QED BY <1>2, <1>3, <1>4, <1>5, <1>6, <1>7, <1>8 DEF Next, Worker

(* No message is left behind but by a call that raised or by the poll of   *)
(* the paused loop, across any number of kills, revocations, lost commits  *)
(* and redeliveries, provided its time has a date.                         *)
THEOREM LossesCorrect == Spec => []LossesHaveACause
<1> DEFINE Inv == HandInv /\ Bounded(Behind, failures + drained)
<1>1. Init => Inv
    <2> SUFFICES ASSUME Init PROVE Inv
        OBVIOUS
    <2>1. Behind = {}
        <3>1. \A m \in Messages : m[1] \in Partitions /\ m[2] \in Nat /\ ~(m[2] <= 0)
            BY DEF Messages
        <3>2. \A m \in Messages : ~Reached(m)
            BY <3>1 DEF Init, Reached, InHand
        <3> QED BY <3>2 DEF Behind
    <2>2. failures + drained = 0
        BY DEF Init
    <2> QED BY <2>1, <2>2, EmptyBounded, HandInit
<1>2. WorkerInv /\ Inv /\ [Next]_vars => Inv'
    <2> SUFFICES ASSUME WorkerInv, Inv, [Next]_vars PROVE Inv'
        OBVIOUS
    <2>1. failures + drained \in Nat /\ failures' + drained' \in Nat
        BY WorkerNext DEF WorkerInv, TypeOK
    <2> QED BY <2>1, HandNext, BehindNext, BoundedStep
<1>3. WorkerInv /\ Inv => LossesHaveACause
    <2> SUFFICES ASSUME WorkerInv, Inv PROVE LossesHaveACause
        OBVIOUS
    <2> DEFINE n == failures + drained
               D == {m \in Skipped : HasDate(m)}
    <2>1. n \in Nat /\ n >= n
        BY DEF WorkerInv, TypeOK
    <2>2. ASSUME NEW m \in D PROVE m \in Behind
        <3>1. PICK q \in Partitions : m \in {q} \X (1 .. Passed(q))
            BY DEF Skipped
        <3>2. committed[q] \in Nat /\ position[q] \in Nat
            BY DEF WorkerInv, TypeOK
        <3>3. m \in Messages /\ m[1] = q /\ m[2] <= Passed(q)
            BY <3>1 DEF Messages
        <3>4. Reached(m)
            BY <3>2, <3>3 DEF Reached, Passed, Later
        <3>5. m \notin Held
            BY DEF Held, Skipped
        <3> QED BY <3>3, <3>4, <3>5 DEF Behind, Skipped
    <2>3. D \subseteq Behind
        BY <2>2
    <2>4. Bounded(Behind, n) /\ PaidFor(Behind, D, n, n)
        BY <2>1, <2>3 DEF PaidFor
    <2>5. Bounded(D, n)
        BY <2>1, <2>4, BoundedStep
    <2> QED BY <2>5 DEF Bounded, LossesHaveACause
<1> QED BY <1>1, <1>2, <1>3, WorkerInit, WorkerNext, PTL DEF Spec
=============================================================================
