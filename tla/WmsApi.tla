------------------------------- MODULE WmsApi -------------------------------
(***************************************************************************)
(* POST /api/v1/events from the client to the warehouse: what the request  *)
(* schemas let by, the record that becomes of a request, the producer that *)
(* queues it while the client already has its 202, the service that stops  *)
(* with a queue, and the clients that send a request again when they hear  *)
(* nothing.                                                                *)
(*                                                                         *)
(* publish_event awaits nothing, so a request is handled in one step.  The *)
(* producer is idempotent: it keeps the order of a partition and sends     *)
(* nothing twice.  The server's clock advances from one request to the     *)
(* next.                                                                   *)
(*                                                                         *)
(* The consumer takes the messages of each partition in order, but it goes *)
(* past one when a call raises, and may meet it again much later.  What a  *)
(* message that it handles does to the tables is a step of Projection,     *)
(* which ConsumerWorker implements.                                        *)
(***************************************************************************)
EXTENDS EventProcessor

CONSTANTS
    Clients,
    Scripts,            \* what the clients may want: [Clients -> Seq of request bodies]
    GivenIds,           \* the event ids that clients choose themselves
    NoId, NoTime,       \* a body without event_id or occurred_at
    NoNumber,           \* a quantity that is missing or no integer
    Blank,              \* a text that is not empty but white space
    BadIds,             \* the ids among them that are no key in Cassandra: "" or too long
    AvroInts, AvroLongs,    \* the integers that the Avro types int and long hold
    Dates,              \* the times that datetime.fromtimestamp makes a date of
    Partitions,
    PartitionOf,        \* the partition a routing key is hashed to
    MaxRetries,         \* bound on the requests that are sent again
    MaxTroubles         \* bound on expired and skipped messages, failed tasks and stops

ASSUME ApiBounds == MaxRetries \in Nat /\ MaxTroubles \in Nat
ASSUME NoIdIsNoId == /\ NoId \notin EventIds
                     /\ BadIds \subseteq GivenIds /\ GivenIds \subseteq EventIds

(* What may be posted: texts and numbers may be missing, texts be blank.   *)
TextOf(S) == S \cup {NoText, Blank}
Number    == Int \cup {NoNumber}

Bodies ==
    [event_id : GivenIds \cup {NoId}, event_type : EventTypes \cup {"OTHER"},
     occurred_at : Int \cup {NoTime}, product_id : TextOf(Products), zone_id : TextOf(ZoneIds),
     quantity : Number, from_zone_id : TextOf(ZoneIds), to_zone_id : TextOf(ZoneIds),
     counted_quantity : Number, order_id : TextOf(OrderIds),
     items : Seq([product_id : TextOf(Products), zone_id : TextOf(ZoneIds), quantity : Number]),
     supplier_id : Suppliers \cup {NoText}, schema_version : {"v1", "v2"}]

ASSUME BodiesArePosted == Scripts \subseteq [Clients -> Seq(Bodies)]
ASSUME AvroIntsAreInts == AvroInts \subseteq Int /\ AvroLongs \subseteq Int /\ Dates \subseteq Int
ASSUME KeysAreHashed   == /\ IsFiniteSet(Partitions)
                          /\ \A key \in Products \cup OrderIds \cup {Blank} :
                                PartitionOf[key] \in Partitions

(* Of the clients: an event_id that one of them gives is of one request.   *)
ASSUME OneRequestPerId ==
    \A s \in Scripts : \A c, d \in Clients : \A i \in DOMAIN s[c], j \in DOMAIN s[d] :
        s[c][i].event_id # NoId /\ s[c][i].event_id = s[d][j].event_id => c = d /\ i = j

VARIABLES
    \* the clients
    script,             \* the bodies each client wants to send, one after the other
    step, attempt,      \* per client: the body it is at, and how often it has sent it
    retries,            \* the requests sent again
    pending,            \* the requests on their way: <<client, step, attempt>>
    \* the service
    up,                 \* the process runs
    taskFailed,         \* the generator's task ended with an exception
    now,                \* the server's clock
    queue,              \* per partition, what the producer has not delivered yet
    \* Kafka
    topic,              \* per partition, what the consumer has not handled yet
    \* Cassandra: Projection
    inventory, totals, orders, processed, history,
    \* histories and bounds
    answered,           \* per client, the steps it has heard a 202 for
    issued,             \* per client and step, the ids of its attempts answered with 202
    serverTimed,        \* the ids of events whose time the server chose
    lost,               \* the ids of the messages lost between their 202 and the topic
    skipped,            \* the messages that the consumer went past when a call raised
    troubles

client   == <<script, step, attempt, retries>>
tables   == <<inventory, totals, orders, processed, history>>
notes    == <<answered, issued, serverTimed>>
vars     == <<client, pending, up, taskFailed, now, queue, topic, tables, notes, lost, skipped,
              troubles>>

Consumer == INSTANCE Projection

Init ==
    /\ script \in Scripts
    /\ step = [c \in Clients |-> 1] /\ attempt = [c \in Clients |-> 0]
    /\ retries = 0
    /\ pending = {}
    /\ up = TRUE /\ taskFailed = FALSE /\ now = 0
    /\ queue = [q \in Partitions |-> <<>>] /\ topic = queue
    /\ Consumer!Init
    /\ serverTimed = {}
    /\ answered = [c \in Clients |-> {}]
    /\ issued = [c \in Clients |-> [i \in DOMAIN script[c] |-> {}]]
    /\ lost = {} /\ skipped = {} /\ troubles = 0

-----------------------------------------------------------------------------
(* Requests *)

(* The schema of the event's type: required texts must not be empty,       *)
(* required numbers must be integers, of any size and sign.                *)
Valid(body) ==
    /\ body.event_type \in EventTypes
    /\ body.event_type \in ProductEventTypes => NoText \notin {body.product_id, body.zone_id}
    /\ body.event_type = "PRODUCT_MOVED" =>
          NoText \notin {body.product_id, body.from_zone_id, body.to_zone_id}
    /\ body.event_type \in (ProductEventTypes \ {"INVENTORY_COUNTED"}) \cup {"PRODUCT_MOVED"}
          => body.quantity # NoNumber
    /\ body.event_type = "INVENTORY_COUNTED" => body.counted_quantity # NoNumber
    /\ body.event_type \in OrderEventTypes => body.order_id # NoText
    /\ body.event_type = "ORDER_CREATED" =>
          /\ body.items # <<>>
          /\ \A i \in DOMAIN body.items :
                /\ NoText \notin {body.items[i].product_id, body.items[i].zone_id}
                /\ body.items[i].quantity # NoNumber

(* To the consumer a blank text is as good as none.                        *)
Text(t) == IF t = Blank THEN NoText ELSE t

(* The fields that are not of the event's type are dropped.                *)
Envelope(body, id, time) ==
    LET type == body.event_type
        Only(types, value, otherwise) == IF type \in types THEN value ELSE otherwise
        moved == {"PRODUCT_MOVED"}
    IN  [event_id         |-> id,
         event_type       |-> type,
         occurred_at      |-> time,
         product_id       |-> Only(ProductEventTypes \cup moved, Text(body.product_id), NoText),
         zone_id          |-> Only(ProductEventTypes, Text(body.zone_id), NoText),
         quantity         |-> Only((ProductEventTypes \ {"INVENTORY_COUNTED"}) \cup moved,
                                   body.quantity, 0),
         from_zone_id     |-> Only(moved, Text(body.from_zone_id), NoText),
         to_zone_id       |-> Only(moved, Text(body.to_zone_id), NoText),
         counted_quantity |-> Only({"INVENTORY_COUNTED"}, body.counted_quantity, -1),
         order_id         |-> Only(OrderEventTypes, Text(body.order_id), NoText),
         items            |-> Only({"ORDER_CREATED"},
                                   [i \in DOMAIN body.items |->
                                      [product_id |-> Text(body.items[i].product_id),
                                       zone_id    |-> Text(body.items[i].zone_id),
                                       quantity   |-> body.items[i].quantity]], <<>>),
         supplier_id      |-> Only(IF body.schema_version = "v2" THEN {"PRODUCT_RECEIVED"} ELSE {},
                                   body.supplier_id, NoText)]

(* Mutant: messages are spread evenly over the partitions.                 *)
RoutingKeyOfEvent(body, id) == id

(* A valid request has one of the two: the event's id is never the key.    *)
RoutingKey(body, id) ==
    IF body.event_type \in OrderEventTypes THEN body.order_id ELSE body.product_id

(* Mutant: the schema gives quantities the type long.                      *)
EncodableLong(e) == {e.occurred_at, e.counted_quantity} \subseteq AvroLongs

(* What the Avro schema allows in the fields of type int and long.         *)
Encodable(e) == /\ e.occurred_at \in AvroLongs
                /\ {e.quantity, e.counted_quantity} \subseteq AvroInts
                /\ \A i \in DOMAIN e.items : e.items[i].quantity \in AvroInts

(* uuid4 never gives the same id twice, nor one that a client chose.       *)
UsedIds  == UNION UNION {{issued[c][i] : i \in DOMAIN issued[c]} : c \in Clients}
FreshIds == EventIds \ (GivenIds \cup UsedIds)

(* Mutant: the service numbers its events itself.                          *)
EventIdFresh(body) == CHOOSE id \in FreshIds : TRUE

EventId(body) == IF body.event_id # NoId THEN body.event_id ELSE CHOOSE id \in FreshIds : TRUE

-----------------------------------------------------------------------------
(* The clients *)

Wanted(c)   == step[c] \in DOMAIN script[c]
Body(r)     == script[r[1]][r[2]]
Awaiting(c) == <<c, step[c], attempt[c]>>

(* A client sends its next request, or the same one again when it has not  *)
(* heard of it: it timed out, found no service, or was answered with 503.  *)
Send(c) ==
    /\ Wanted(c)
    /\ retries' = IF attempt[c] = 0 THEN retries ELSE retries + 1
    /\ retries' <= MaxRetries
    /\ attempt' = [attempt EXCEPT ![c] = @ + 1]
    /\ pending' = pending \cup {<<c, step[c], attempt'[c]>>}
    /\ UNCHANGED <<script, step, up, taskFailed, now, queue, topic, tables, notes, lost, skipped,
                   troubles>>

(* The answer 202 reaches the client, if it still waits for that attempt.  *)
Hear(r) ==
    /\ r = Awaiting(r[1])
    /\ step' = [step EXCEPT ![r[1]] = @ + 1]
    /\ attempt' = [attempt EXCEPT ![r[1]] = 0]
    /\ answered' = [answered EXCEPT ![r[1]] = @ \cup {r[2]}]

(* 202: the message is in the queue of the producer.  EventIds bounds the  *)
(* ids that the service gives, Dates the time its clock can show.          *)
Accept(r) ==
    LET body == Body(r)
        id   == EventId(body)
        time == IF body.occurred_at = NoTime THEN now + 1 ELSE body.occurred_at
        e    == Envelope(body, id, time)
        q    == PartitionOf[RoutingKey(body, id)]
    IN  /\ r \in pending
        /\ up
        /\ body.event_id # NoId \/ FreshIds # {}
        /\ body.occurred_at = NoTime => time \in Dates
        /\ Valid(body) /\ Encodable(e)
        /\ pending' = pending \ {r}
        /\ now' = now + 1
        /\ queue' = [queue EXCEPT ![q] = Append(@, e)]
        /\ issued' = [issued EXCEPT ![r[1]][r[2]] = @ \cup {id}]
        /\ serverTimed' = IF body.occurred_at = NoTime THEN serverTimed \cup {id} ELSE serverTimed
        /\ Hear(r) \/ UNCHANGED <<step, attempt, answered>>
        /\ UNCHANGED <<script, retries, up, taskFailed, topic, tables, lost, skipped, troubles>>

(* 422, or 503 when the producer raises: the record does not fit the Avro  *)
(* schema, the registry is away, the queue is full.  Or no service.        *)
Refuse(r) ==
    /\ r \in pending
    /\ pending' = pending \ {r}
    /\ UNCHANGED <<client, up, taskFailed, now, queue, topic, tables, notes, lost, skipped,
                   troubles>>

-----------------------------------------------------------------------------
(* The producer *)

Trouble == troubles < MaxTroubles /\ troubles' = troubles + 1

Deliver(q) ==
    /\ up
    /\ queue[q] # <<>>
    /\ topic' = [topic EXCEPT ![q] = Append(@, Head(queue[q]))]
    /\ queue' = [queue EXCEPT ![q] = Tail(@)]
    /\ UNCHANGED <<client, pending, up, taskFailed, now, tables, notes, lost, skipped, troubles>>

(* The delivery fails for good: the callback logs it.                      *)
Expire(q) ==
    /\ up
    /\ queue[q] # <<>>
    /\ Trouble
    /\ lost' = lost \cup {Head(queue[q]).event_id}
    /\ queue' = [queue EXCEPT ![q] = Tail(@)]
    /\ UNCHANGED <<client, pending, up, taskFailed, now, topic, tables, notes, skipped>>

-----------------------------------------------------------------------------
(* The consumer *)

(* An event is recorded under its id and the date of occurred_at.          *)
Recordable(e) == e.event_id \notin BadIds /\ e.occurred_at \in Dates

Project(e) == Consumer!Apply(e) \/ Consumer!Ignore(e) \/ Consumer!Reject(e)

GoPast(q) ==
    /\ topic[q] # <<>>
    /\ topic' = [topic EXCEPT ![q] = Tail(@)]
    /\ UNCHANGED <<client, pending, up, taskFailed, now, queue, notes, lost>>

(* A message that was handled before is a duplicate and changes nothing.   *)
Handle(q) ==
    /\ GoPast(q)
    /\ LET e == Head(topic[q])
       IN  \/ Recordable(e) /\ Project(e)
           \/ e.event_id \in processed /\ UNCHANGED tables
    /\ UNCHANGED <<skipped, troubles>>

(* Looking up the id, or making a date of the time, raises at every        *)
(* delivery: the event is never recorded.                                  *)
Pass(q) ==
    /\ GoPast(q)
    /\ ~Recordable(Head(topic[q])) /\ Head(topic[q]).event_id \notin processed
    /\ UNCHANGED <<tables, skipped, troubles>>

(* A call raises, or the paused loop's poll returns the message: the loop  *)
(* goes on with the next one, whose commit covers this one too.            *)
Skip(q) ==
    /\ GoPast(q)
    /\ Trouble
    /\ skipped' = skipped \cup {Head(topic[q])}
    /\ UNCHANGED tables

(* A restart or a rebalance before the next commit goes back to a message  *)
(* that was skipped, and maybe to later ones that were handled and are     *)
(* duplicates now.                                                         *)
Redeliver(e) ==
    /\ Recordable(e) /\ Project(e)
    /\ UNCHANGED <<client, pending, up, taskFailed, now, queue, topic, notes, lost, skipped,
                   troubles>>

Consume(q) == Handle(q) \/ Pass(q) \/ Skip(q)

-----------------------------------------------------------------------------
(* The service stops and starts *)

Queued  == UNION {{e.event_id : e \in Range(queue[q])} : q \in Partitions}
Nothing == [q \in Partitions |-> <<>>]

GoDown ==
    /\ up /\ up' = FALSE
    /\ Trouble
    /\ taskFailed' = FALSE
    /\ queue' = Nothing
    /\ UNCHANGED <<client, pending, now, tables, notes, skipped>>

(* The generator's task dies of an exception.                              *)
FailTask ==
    /\ up /\ ~taskFailed
    /\ Trouble
    /\ taskFailed' = TRUE
    /\ UNCHANGED <<client, pending, up, now, queue, topic, tables, notes, lost, skipped>>

(* Mutant: lifespan does not flush the producer.                           *)
StopUnflushed ==
    /\ GoDown
    /\ ~taskFailed
    /\ UNCHANGED <<topic, lost>>

(* lifespan: generator.stop(), then flush.                                 *)
Stop ==
    /\ GoDown
    /\ ~taskFailed
    /\ topic' = [q \in Partitions |-> topic[q] \o queue[q]]
    /\ UNCHANGED lost

(* A kill, a flush that runs out of its ten seconds, or the stop of a      *)
(* service whose generator had failed: stop() raises the exception of the  *)
(* task, and flush is never called.  What was not delivered is gone.       *)
StopUnclean ==
    /\ GoDown
    /\ lost' = lost \cup Queued
    /\ UNCHANGED topic

Start ==
    /\ ~up /\ up' = TRUE
    /\ UNCHANGED <<client, pending, taskFailed, now, queue, topic, tables, notes, lost, skipped,
                   troubles>>

Next ==
    \/ \E c \in Clients : Send(c)
    \/ \E r \in pending : Accept(r) \/ Refuse(r)
    \/ \E q \in Partitions : Deliver(q) \/ Expire(q) \/ Consume(q)
    \/ \E e \in skipped : Redeliver(e)
    \/ FailTask \/ Stop \/ StopUnclean \/ Start

Spec == Init /\ [][Next]_vars

(* The client library's thread sends what is queued, and the restart       *)
(* policy brings the service back.  The consumer, which nobody leaves      *)
(* paused, polls on: something happens to the next message of a partition, *)
(* but that may be a Skip, and nothing has to bring a skipped one back.    *)
(* No client has to send, and nothing has to be accepted.                  *)
Fairness ==
    /\ \A q \in Partitions : WF_vars(Deliver(q)) /\ WF_vars(Consume(q))
    /\ WF_vars(Start)

FairSpec == Spec /\ Fairness

-----------------------------------------------------------------------------
(* What is queued and what is on the topic is of the schema, its integers  *)
(* within the range of their Avro types.                                   *)
TypeOK ==
    /\ script \in Scripts
    /\ \A q \in Partitions :
          /\ queue[q] \in Seq(EventRecords) /\ topic[q] \in Seq(EventRecords)
          /\ \A e \in Range(queue[q]) \cup Range(topic[q]) :
                /\ e.occurred_at \in AvroLongs
                /\ {e.quantity, e.counted_quantity} \subseteq AvroInts
                /\ {e.items[i].quantity : i \in DOMAIN e.items} \subseteq AvroInts
    /\ serverTimed \cup lost \subseteq EventIds /\ skipped \subseteq EventRecords
    /\ up \in BOOLEAN /\ taskFailed \in BOOLEAN
    /\ {now, troubles, retries} \subseteq Nat
    /\ \A c \in Clients : attempt[c] \in 0 .. MaxRetries + 1

(* Where an event that has an id may have ended without being recorded.    *)
Missed == lost \cup {e.event_id : e \in skipped}

RecordableBody(body) == body.event_id \notin BadIds /\ body.occurred_at \in Dates \cup {NoTime}

(* "status": "accepted" (api/schemas.py): every event answered with 202    *)
(* is handled in the end, unless its message expired or was queued at an   *)
(* unclean stop, the consumer went past it when a call raised, or it can   *)
(* never be recorded; a stop with a live generator loses none.             *)
EveryAnswerKept ==
    []<>(\A c \in Clients : \A i \in DOMAIN script[c] :
            RecordableBody(script[c][i]) => issued[c][i] \subseteq processed \cup Missed)

(* What became of the request of a client's step.                          *)
Effects(c, i) == {h \in history : h.event.event_id \in issued[c][i] /\ h.outcome = "APPLIED"}

(* A client that chooses the event's id may send the request as often as   *)
(* it likes: it takes effect once.  (One that leaves the id to the service *)
(* repeats the effect with every attempt whose answer is lost.)            *)
RetriesTakeEffectOnce ==
    \A c \in Clients : \A i \in DOMAIN script[c] :
        script[c][i].event_id # NoId => Cardinality(Effects(c, i)) <= 1

(* An order completed after its creation was answered with 202 is created  *)
(* first, the messages of an order sharing a routing key, unless the       *)
(* creation was lost, skipped by the consumer or impossible to record.     *)
CompletionFollowsCreation ==
    \A c \in Clients : \A i, j \in DOMAIN script[c] :
        /\ i < j
        /\ script[c][i].event_type = "ORDER_CREATED"
        /\ script[c][j].event_type = "ORDER_COMPLETED"
        /\ script[c][i].order_id = script[c][j].order_id
        /\ \E h \in history : h.event.event_id \in issued[c][j]
        => \/ \E h \in history : h.event.event_id \in issued[c][i]
           \/ issued[c][i] \cap Missed # {}
           \/ ~RecordableBody(script[c][i])

(* A product event that took its time from the server is ignored as stale  *)
(* only when the consumer had skipped it before, an order event overtook   *)
(* it, through another partition, or a client had dated an event later     *)
(* than the server's clock.                                                *)
StaleMeansOvertaken ==
    \A h \in history :
        /\ h.outcome = "STALE"
        /\ h.event.event_id \in serverTimed
        /\ h.event.event_type \notin OrderEventTypes
        /\ h.event \notin skipped
        => \E g \in history :
              /\ g.outcome = "APPLIED"
              /\ g.event.occurred_at > h.event.occurred_at
              /\ \/ g.event.event_type \in OrderEventTypes
                 \/ g.event.event_id \notin serverTimed
=============================================================================
