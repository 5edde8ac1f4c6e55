-------------------------- MODULE TrafficGenerator --------------------------
(***************************************************************************)
(* The traffic generator of wms-service: an asyncio task that chooses one  *)
(* warehouse operation after another from a stock it simulates, changes    *)
(* the simulated stock and publishes the event, while HTTP requests pause  *)
(* and resume it.                                                          *)
(*                                                                         *)
(* All of it runs in one event loop: nothing comes between the choice of   *)
(* an operation and its publication, and requests are handled where the    *)
(* task awaits the pause event or sleeps.  An operation is one step.       *)
(*                                                                         *)
(* The weights of the operations only make some more likely than others,   *)
(* and every operation has its hour: any of them may come next.  The       *)
(* generator's own zone table is the one of zones_by_id.                   *)
(***************************************************************************)
EXTENDS EventProcessor

Sized == {"receive", "ship", "move", "reserve", "release", "order"}

CONSTANTS
    FirstProduct,   \* the first product of the generator's list
    ZoneOrder,      \* the zones in the order of the generator's table
    Minimum,        \* per operation: the stock a position must have to be picked
    Sizes,          \* per operation: the quantities drawn
    CountDeltas,    \* the differences an inventory count finds
    MaxLines,       \* the lines of an order
    MaxEvents,      \* bound on the events sent
    MaxFailures,    \* bound on the publications that raise
    MaxRequests,    \* bound on pause and resume requests
    MaxRestarts     \* bound on restarts of the service

ASSUME ListIsNotEmpty   == FirstProduct \in Products
ASSUME TableHasTheZones == /\ ZoneOrder \in Seq(Zones)
                           /\ {ZoneOrder[i] : i \in DOMAIN ZoneOrder} = Zones
                           /\ Zones # {} /\ \A z \in Zones : Capacity[z] > 0
ASSUME SizesArePositive == /\ Minimum \in [Sized -> Nat \ {0}]
                           /\ Sizes \in [Sized -> SUBSET (Nat \ {0})]
                           /\ CountDeltas \subseteq Int /\ MaxLines \in Nat \ {0}
ASSUME NumberedEvents   == EventIds = 1 .. MaxEvents /\ OrderIds = EventIds
ASSUME LimitsAreNat     == {MaxEvents, MaxFailures, MaxRequests, MaxRestarts} \subseteq Nat

VARIABLES
    sim,                \* _inventory: the simulated position of each product and zone
    open,               \* _open_orders: the items of each open order, or <<>>
    task,               \* the task: "sleeping", "waiting" for the pause event, "woken", "failed"
    paused,             \* the pause event is cleared
    sent,               \* the events handed to the Kafka producer
    overplanned,        \* history: a position went below zero or a zone above its capacity
    collided,           \* history: an order got the id of an earlier one
    sentWhilePaused,    \* history: events sent since the last pause
    failures, requests, restarts

stock   == <<sim, open, overplanned, collided>>
control == <<task, paused, sentWhilePaused>>
limits  == <<failures, requests, restarts>>
vars    == <<stock, control, sent, limits>>

Positions     == Products \X Zones
EmptyPosition == [available |-> 0, reserved_manual |-> 0, reserved_order |-> 0,
                  supplier_id |-> NoText]
NewStock      == [k \in Positions |-> EmptyPosition]
NoOrders      == [o \in OrderIds |-> <<>>]

Init ==
    /\ sim = NewStock /\ open = NoOrders /\ overplanned = FALSE /\ collided = FALSE
    /\ task = "sleeping" /\ paused = FALSE /\ sentWhilePaused = 0
    /\ sent = <<>>
    /\ failures = 0 /\ requests = 0 /\ restarts = 0

-----------------------------------------------------------------------------
(* The simulated stock *)

Held(position) == position.available + position.reserved_manual + position.reserved_order

ZoneLoad(z) ==
    SumFunctionOnSet([k \in Positions |-> Held(sim[k])], {k \in Positions : k[2] = z})

Remaining(z) == IF ZoneLoad(z) < Capacity[z] THEN Capacity[z] - ZoneLoad(z) ELSE 0

(* The zone with the least load in proportion to its capacity, the first   *)
(* of the table among equals; there is none when all are full.             *)
ReceivingZones ==
    LET roomy == {i \in DOMAIN ZoneOrder : Remaining(ZoneOrder[i]) > 0}
        Compare(i, j) == ZoneLoad(ZoneOrder[i]) * Capacity[ZoneOrder[j]]
                            - ZoneLoad(ZoneOrder[j]) * Capacity[ZoneOrder[i]]
    IN  {ZoneOrder[i] : i \in {j \in roomy : \A l \in roomy :
            Compare(j, l) < 0 \/ (Compare(j, l) = 0 /\ j <= l)}}

PickAvailable(operation) == {k \in Positions : sim[k].available >= Minimum[operation]}

(* What the real stock could be.                                           *)
SimulationIsPossible ==
    /\ \A k \in Positions : sim[k].available >= 0
    /\ \A z \in Zones : ZoneLoad(z) <= Capacity[z]

PickReserved == {k \in Positions : sim[k].reserved_manual >= Minimum["release"]}

Smaller(a, b) == IF a <= b THEN a ELSE b

-----------------------------------------------------------------------------
(* Publishing *)

(* The next event's identifier and time: the clock advances between events *)
(* and a whole uuid4 never repeats itself.                                 *)
Now == Len(sent) + 1

(* The id of a new order has the date and 32 bits of a uuid4: it may be    *)
(* that of an order sent before.                                           *)
OrderIdsDrawn ==
    {Now} \cup {o \in OrderIds : \E i \in DOMAIN sent :
                    sent[i].event_type = "ORDER_CREATED" /\ sent[i].order_id = o}

EventOf(type) ==
    [event_id |-> Now, event_type |-> type, occurred_at |-> Now, product_id |-> NoText,
     zone_id |-> NoText, quantity |-> 0, from_zone_id |-> NoText, to_zone_id |-> NoText,
     counted_quantity |-> -1, order_id |-> NoText, items |-> <<>>, supplier_id |-> NoText]

PositionEvent(type, k, n) ==
    [EventOf(type) EXCEPT !.product_id = k[1], !.zone_id = k[2], !.quantity = n]

(* publish_generated comes after the change of the simulated stock; when   *)
(* it raises, the task is over with the change made.                       *)
Publish(e) ==
    /\ overplanned' = (overplanned \/ ~(SimulationIsPossible'))
    /\ collided' = (collided \/ (e.event_type = "ORDER_CREATED" /\ e.order_id # Now))
    /\ \/ /\ sent' = Append(sent, e)
          /\ task' = "sleeping"
          /\ sentWhilePaused' = IF paused THEN sentWhilePaused + 1 ELSE 0
          /\ UNCHANGED failures
       \/ /\ failures < MaxFailures
          /\ failures' = failures + 1
          /\ task' = "failed"
          /\ UNCHANGED <<sent, sentWhilePaused>>
    /\ UNCHANGED <<paused, requests, restarts>>

-----------------------------------------------------------------------------
(* The operations *)

(* Mutant: the quantity drawn is received whole.                           *)
ReceiveWhole ==
    \E p \in Products, z \in ReceivingZones, n \in Sizes["receive"], s \in Suppliers :
        LET k == <<p, z>>
        IN  /\ sim' = [sim EXCEPT ![k].available = @ + n, ![k].supplier_id = s]
            /\ UNCHANGED open
            /\ Publish([PositionEvent("PRODUCT_RECEIVED", k, n) EXCEPT !.supplier_id = s])

Receive ==
    \E p \in Products, z \in ReceivingZones, size \in Sizes["receive"], s \in Suppliers :
        LET k == <<p, z>>
            n == Smaller(size, Remaining(z))
        IN  /\ sim' = [sim EXCEPT ![k].available = @ + n, ![k].supplier_id = s]
            /\ UNCHANGED open
            /\ Publish([PositionEvent("PRODUCT_RECEIVED", k, n) EXCEPT !.supplier_id = s])

(* Mutant: the quantity drawn is shipped, whatever there is.               *)
ShipAny ==
    \E k \in PickAvailable("ship"), n \in Sizes["ship"] :
        /\ sim' = [sim EXCEPT ![k].available = @ - n]
        /\ UNCHANGED open
        /\ Publish(PositionEvent("PRODUCT_SHIPPED", k, n))

Ship ==
    \E k \in PickAvailable("ship"), n \in Sizes["ship"] :
        /\ n <= sim[k].available
        /\ sim' = [sim EXCEPT ![k].available = @ - n]
        /\ UNCHANGED open
        /\ Publish(PositionEvent("PRODUCT_SHIPPED", k, n))

MoveEvent(p, from, to, n) ==
    [EventOf("PRODUCT_MOVED") EXCEPT !.product_id = p, !.from_zone_id = from,
                                     !.to_zone_id = to, !.quantity = n]

(* Mutant: the source keeps what is moved.                                 *)
MoveCopies ==
    \E k \in PickAvailable("move"), to \in Zones, size \in Sizes["move"] :
        LET n == Smaller(Smaller(size, sim[k].available), Remaining(to))
        IN  /\ to # k[2] /\ n > 0
            /\ sim' = [sim EXCEPT ![<<k[1], to>>].available = @ + n]
            /\ UNCHANGED open
            /\ Publish(MoveEvent(k[1], k[2], to, n))

(* The target takes over the supplier when it has none.                    *)
Move ==
    \E k \in PickAvailable("move"), to \in Zones, size \in Sizes["move"] :
        LET target == <<k[1], to>>
            n == Smaller(Smaller(size, sim[k].available), Remaining(to))
        IN  /\ to # k[2] /\ n > 0
            /\ sim' = [sim EXCEPT ![k].available = @ - n,
                                  ![target].available = @ + n,
                                  ![target].supplier_id =
                                        IF @ = NoText THEN sim[k].supplier_id ELSE @]
            /\ UNCHANGED open
            /\ Publish(MoveEvent(k[1], k[2], to, n))

Reserve ==
    \E k \in PickAvailable("reserve"), n \in Sizes["reserve"] :
        /\ n <= sim[k].available
        /\ sim' = [sim EXCEPT ![k].available = @ - n, ![k].reserved_manual = @ + n]
        /\ UNCHANGED open
        /\ Publish(PositionEvent("PRODUCT_RESERVED", k, n))

(* Mutant: the stock reserved for orders may be released too.              *)
ReleaseOfOrders ==
    \E k \in Positions, n \in Sizes["release"] :
        /\ n <= sim[k].reserved_manual + sim[k].reserved_order
        /\ sim' = [sim EXCEPT ![k].available = @ + n, ![k].reserved_manual = @ - n]
        /\ UNCHANGED open
        /\ Publish(PositionEvent("PRODUCT_RELEASED", k, n))

Release ==
    \E k \in PickReserved, n \in Sizes["release"] :
        /\ n <= sim[k].reserved_manual
        /\ sim' = [sim EXCEPT ![k].available = @ + n, ![k].reserved_manual = @ - n]
        /\ UNCHANGED open
        /\ Publish(PositionEvent("PRODUCT_RELEASED", k, n))

Counted(k, delta) == IF sim[k].available + delta < 0 THEN 0 ELSE sim[k].available + delta

CountFits(k, delta) ==
    Counted(k, delta) + sim[k].reserved_manual + sim[k].reserved_order <= Capacity[k[2]]

ApplyCount(k, n) ==
    /\ sim' = [sim EXCEPT ![k].available = n]
    /\ UNCHANGED open
    /\ Publish([PositionEvent("INVENTORY_COUNTED", k, 0) EXCEPT !.counted_quantity = n])

Count ==
    \E k \in Positions, delta \in CountDeltas :
        CountFits(k, delta) /\ ApplyCount(k, Counted(k, delta))

(* After twenty operations that turned out impossible, and when neither a  *)
(* shipment nor the count that is drawn then is possible, the first        *)
(* position is counted as empty.                                           *)
CountAsEmpty ==
    /\ PickAvailable("ship") = {}
    /\ \E k \in Positions, delta \in CountDeltas : ~CountFits(k, delta)
    /\ ApplyCount(<<FirstProduct, ZoneOrder[1]>>, 0)

(* The lines of an order are drawn one by one, each against the stock of   *)
(* its position; only a line equal to an earlier one is left out.          *)
Lines ==
    {[product_id |-> kn[1][1], zone_id |-> kn[1][2], quantity |-> kn[2]] :
        kn \in {pair \in PickAvailable("order") \X Sizes["order"] :
                    pair[2] <= sim[pair[1]].available}}

OrderItems == UNION {Injection(1 .. n, Lines) : n \in 1 .. MaxLines}

(* An open order with the same id is forgotten, its stock stays reserved.  *)
CreateOrder ==
    \E items \in OrderItems, o \in OrderIdsDrawn :
        /\ sim' = [k \in Positions |->
                      [sim[k] EXCEPT !.available = @ - GroupedQuantity(items, k),
                                     !.reserved_order = @ + GroupedQuantity(items, k)]]
        /\ open' = [open EXCEPT ![o] = items]
        /\ Publish([EventOf("ORDER_CREATED") EXCEPT !.order_id = o, !.items = items])

(* Mutant: a completed order puts its items back on the shelf.             *)
CompleteOrderBack ==
    \E o \in OrderIds :
        /\ open[o] # <<>>
        /\ sim' = [k \in Positions |->
                      [sim[k] EXCEPT !.reserved_order = @ - GroupedQuantity(open[o], k),
                                     !.available = @ + GroupedQuantity(open[o], k)]]
        /\ open' = [open EXCEPT ![o] = <<>>]
        /\ Publish([EventOf("ORDER_COMPLETED") EXCEPT !.order_id = o])

(* Mutant: only the first item leaves the reserved stock.                  *)
CompleteOrderFirstItem ==
    \E o \in OrderIds :
        /\ open[o] # <<>>
        /\ sim' = [k \in Positions |->
                      [sim[k] EXCEPT !.reserved_order = @ - GroupedQuantity(<<open[o][1]>>, k)]]
        /\ open' = [open EXCEPT ![o] = <<>>]
        /\ Publish([EventOf("ORDER_COMPLETED") EXCEPT !.order_id = o])

CompleteOrder ==
    \E o \in OrderIds :
        /\ open[o] # <<>>
        /\ sim' = [k \in Positions |->
                      [sim[k] EXCEPT !.reserved_order = @ - GroupedQuantity(open[o], k)]]
        /\ open' = [open EXCEPT ![o] = <<>>]
        /\ Publish([EventOf("ORDER_COMPLETED") EXCEPT !.order_id = o])

-----------------------------------------------------------------------------
(* The task and the requests *)

AwakeAnyway == task \in {"sleeping", "woken"}     \* mutant: only a waiting task is paused

(* The task goes on when it is woken, without looking at the pause event   *)
(* again, or when its sleep is over and the event is set.                  *)
Awake == task = "woken" \/ (task = "sleeping" /\ ~paused)

Operate ==
    /\ Awake
    /\ Len(sent) < MaxEvents
    /\ \/ Receive \/ Ship \/ Move \/ Reserve \/ Release \/ Count \/ CountAsEmpty
       \/ CreateOrder \/ CompleteOrder

WaitForResume ==
    /\ task = "sleeping" /\ paused
    /\ task' = "waiting"
    /\ UNCHANGED <<stock, paused, sentWhilePaused, sent, limits>>

Pause ==
    /\ requests < MaxRequests
    /\ requests' = requests + 1
    /\ paused' = TRUE
    /\ sentWhilePaused' = IF paused THEN sentWhilePaused ELSE 0
    /\ UNCHANGED <<stock, task, sent, failures, restarts>>

(* Mutant: the pause event is set, but nobody is woken.                    *)
ResumeQuietly ==
    /\ requests < MaxRequests
    /\ requests' = requests + 1
    /\ paused' = FALSE
    /\ UNCHANGED <<stock, task, sentWhilePaused, sent, failures, restarts>>

Resume ==
    /\ requests < MaxRequests
    /\ requests' = requests + 1
    /\ paused' = FALSE
    /\ task' = IF task = "waiting" THEN "woken" ELSE task
    /\ UNCHANGED <<stock, sentWhilePaused, sent, failures, restarts>>

(* The service stops or dies and is started again: the simulated stock is  *)
(* empty, whatever the real one is.                                        *)
Restart ==
    /\ restarts < MaxRestarts
    /\ restarts' = restarts + 1
    /\ sim' = NewStock /\ open' = NoOrders
    /\ task' = "sleeping" /\ paused' = FALSE /\ sentWhilePaused' = 0
    /\ UNCHANGED <<overplanned, collided, sent, failures, requests>>

Next == Operate \/ WaitForResume \/ Pause \/ Resume \/ Restart

Spec == Init /\ [][Next]_vars

(* The event loop runs what is ready; nobody has to send a request.        *)
FairSpec == Spec /\ WF_vars(Operate) /\ WF_vars(WaitForResume)

-----------------------------------------------------------------------------
(* The reserved counters never go below zero, only available may: an order *)
(* with two lines about one position checks each line alone.               *)
TypeOK ==
    /\ sim \in [Positions -> [available : Int, reserved_manual : Nat, reserved_order : Nat,
                              supplier_id : Suppliers \cup {NoText}]]
    /\ open \in [OrderIds -> Seq(Items)]
    /\ overplanned \in BOOLEAN /\ collided \in BOOLEAN /\ paused \in BOOLEAN
    /\ task \in {"sleeping", "waiting", "woken", "failed"}
    /\ sent \in Seq(EventRecords)
    /\ {sentWhilePaused, failures, requests, restarts} \subseteq Nat

(* A paused generator sends at most one more event: the one of a task that *)
(* was woken by a resume just before the pause and no longer looks at the  *)
(* pause event.                                                            *)
PausedGeneratorIsQuiet == sentWhilePaused <= 1

(* Stock reserved for orders is the stock of the orders still open: no     *)
(* release, count or shipment takes it away from under them.  It is more   *)
(* only where an order got the id of an open one, which nothing completes. *)
OpenOrdersAreReserved ==
    \A k \in Positions :
        LET ordered == SumFunctionOnSet([o \in OrderIds |-> GroupedQuantity(open[o], k)], OrderIds)
        IN  /\ sim[k].reserved_order >= ordered
            /\ sim[k].reserved_order > ordered => collided

(* A position is oversold by an order with two lines about it alone, each  *)
(* of which was checked against the whole stock: no other operation takes  *)
(* more than there is.                                                     *)
Oversold == {k \in Positions : sim[k].available < 0}

DoubleLine(items, k) ==
    \E i, j \in DOMAIN items :
        i # j /\ k = <<items[i].product_id, items[i].zone_id>>
              /\ k = <<items[j].product_id, items[j].zone_id>>

OnlyDoubleLinesOversell ==
    [][\A k \in Oversold' \ Oversold : \E o \in OrderIds :
          /\ DoubleLine(open'[o], k)
          /\ sim'[k].reserved_order = sim[k].reserved_order + GroupedQuantity(open'[o], k)]_vars

(* A zone is overfilled by a count alone, which compares the position with *)
(* the capacity of the zone and leaves out the other products there: what  *)
(* is received or moved always fits.                                       *)
OnlyCountsOverfill ==
    [][\A z \in Zones : ZoneLoad(z) <= Capacity[z] /\ ZoneLoad(z)' > Capacity[z] /\ sent' # sent
          => sent'[Len(sent')].event_type = "INVENTORY_COUNTED"]_vars

(* A generator that is not left paused goes on, unless a publication       *)
(* raised; no resume is lost, whenever it comes.                           *)
GeneratorGoesOn ==
    <>[](~paused) => <>(Len(sent) = MaxEvents \/ task = "failed")
=============================================================================
