--------------------------- MODULE WmsApi_proofs ---------------------------
(***************************************************************************)
(* What becomes of a request, for any clients, bodies, partitions and      *)
(* troubles.  The events of a request are followed from the queue of the   *)
(* producer over the topic into the history, or to the place where they    *)
(* were missed: the invariants speak of what flows through a partition, of *)
(* its order, and of what the consumer has seen.                           *)
(***************************************************************************)
EXTENDS WmsApi, EventProcessor_proofs

(* The messages of a partition from the producer's queue to the consumer,  *)
(* and which of two is handled first.                                      *)
Flow(q) == Range(topic[q]) \cup Range(queue[q])

Precedes(x, y, s) == \E a, b \in DOMAIN s : a < b /\ s[a] = x /\ s[b] = y

Ahead(x, y, q) ==
    \/ Precedes(x, y, topic[q]) \/ Precedes(x, y, queue[q])
    \/ x \in Range(topic[q]) /\ y \in Range(queue[q])

(* Some x comes before every y.                                            *)
Leads(x, y, s) == \E a \in DOMAIN s : s[a] = x /\ \A b \in DOMAIN s : s[b] = y => a < b

Foremost(x, y, q) ==
    \/ Leads(x, y, topic[q])
    \/ y \notin Range(topic[q]) /\ Leads(x, y, queue[q])

(* What the consumer has recorded, and what it has recorded or skipped.    *)
Handled == {h.event : h \in history}
Seen    == Handled \cup skipped

ClientInv ==
    /\ script \in Scripts
    /\ step \in [Clients -> Nat] /\ attempt \in [Clients -> Nat]
    /\ retries \in 0 .. MaxRetries
    /\ \A c \in Clients : attempt[c] <= retries + 1
    /\ \A r \in pending : r[1] \in Clients /\ r[2] \in DOMAIN script[r[1]] /\ r[2] <= step[r[1]]

(* The ids a request was given are its own.                                *)
IssueInv ==
    /\ DOMAIN issued = Clients
    /\ \A c \in Clients :
          /\ issued[c] \in [DOMAIN script[c] -> SUBSET EventIds]
          /\ \A i \in DOMAIN script[c] :
                LET body == script[c][i]
                IN  /\ i < step[c] => issued[c][i] # {}
                    /\ body.event_id # NoId => issued[c][i] \subseteq {body.event_id}
                    /\ body.event_id = NoId => issued[c][i] \cap GivenIds = {}
                    /\ \A id \in issued[c][i] : id \in serverTimed <=> body.occurred_at = NoTime
    /\ \A c, d \in Clients : \A i \in DOMAIN script[c], j \in DOMAIN script[d] :
          issued[c][i] \cap issued[d][j] # {} => c = d /\ i = j
    /\ \A id \in serverTimed : \E c \in Clients : \E i \in DOMAIN script[c] : id \in issued[c][i]

(* Every message is the record of a valid request.                         *)
MadeOf(e, c, i) ==
    /\ c \in Clients /\ i \in DOMAIN script[c]
    /\ Valid(script[c][i])
    /\ e.event_id \in issued[c][i]
    /\ e = Envelope(script[c][i], e.event_id, e.occurred_at)
    /\ IF script[c][i].occurred_at = NoTime THEN e.occurred_at \in Dates
       ELSE e.occurred_at = script[c][i].occurred_at

OriginInv ==
    /\ queue \in [Partitions -> Seq(EventRecords)] /\ topic \in [Partitions -> Seq(EventRecords)]
    /\ Seen \subseteq EventRecords
    /\ \A q \in Partitions : \A e \in Flow(q) : Encodable(e)
    /\ \A q \in Partitions : \A e \in Flow(q) : \E c \in Clients : \E i \in DOMAIN script[c] :
          MadeOf(e, c, i) /\ q = PartitionOf[RoutingKey(script[c][i], e.event_id)]
    /\ \A e \in Seen : \E c \in Clients : \E i \in DOMAIN script[c] : MadeOf(e, c, i)

(* The history has one entry per processed id.                             *)
RecordInv ==
    /\ processed = {e.event_id : e \in Handled}
    /\ \A g, h \in history : g.event.event_id = h.event.event_id => g = h

(* An accepted event is recorded, missed, under way or impossible to       *)
(* record.                                                                 *)
KeptInv ==
    \A c \in Clients : \A i \in DOMAIN script[c] : \A id \in issued[c][i] :
        \/ id \in processed \cup Missed
        \/ \E q \in Partitions : \E e \in Flow(q) : e.event_id = id
        \/ ~RecordableBody(script[c][i])

Before(c, i, j) ==
    /\ i < j
    /\ script[c][i].event_type = "ORDER_CREATED"
    /\ script[c][j].event_type = "ORDER_COMPLETED"
    /\ script[c][i].order_id = script[c][j].order_id

(* Nothing is to be waited for any more: an event of the step is recorded, *)
(* one was missed, or none can be recorded.                                *)
Settled(c, i) ==
    \/ \E x \in Handled : x.event_id \in issued[c][i]
    \/ issued[c][i] \cap Missed # {}
    \/ ~RecordableBody(script[c][i])

OrderInv ==
    \A c \in Clients : \A i, j \in DOMAIN script[c] : Before(c, i, j) =>
        /\ \A q \in Partitions : \A y \in Flow(q) : y.event_id \in issued[c][j] =>
              \/ Settled(c, i)
              \/ \E x \in Flow(q) : x.event_id \in issued[c][i] /\ Foremost(x, y, q)
        /\ \A y \in Seen : y.event_id \in issued[c][j] => Settled(c, i)

(* The times the server gives increase along a partition.                  *)
ByServer(e) == e.event_id \in serverTimed
AboutProduct(e) == e.event_type \notin OrderEventTypes /\ e.product_id # NoText

TimeInv ==
    /\ now \in Nat
    /\ \A q \in Partitions : \A e \in Flow(q) : ByServer(e) => e.occurred_at <= now
    /\ \A e \in Seen : ByServer(e) => e.occurred_at <= now
    /\ \A q \in Partitions : \A x, y \in Flow(q) :
          Ahead(x, y, q) /\ ByServer(x) /\ ByServer(y) => x.occurred_at < y.occurred_at
    /\ \A x \in Seen : \A q \in Partitions : \A y \in Flow(q) :
          AboutProduct(x) /\ q = PartitionOf[x.product_id] /\ ByServer(x) /\ ByServer(y)
              => x.occurred_at < y.occurred_at

(* A row's time is the time of an event that was applied to its product.   *)
RowInv ==
    \A k \in Keys : inventory[k].last_event_ts # 0 =>
        \E g \in history :
            /\ g.outcome = "APPLIED"
            /\ g.event.occurred_at = inventory[k].last_event_ts
            /\ g.event.event_type \in OrderEventTypes \/ g.event.product_id = k[1]
-----------------------------------------------------------------------------
(* Sequences: what appending, taking the head and joining do to the        *)
(* elements and to their order.                                            *)

LEMMA AppendOrder ==
    ASSUME NEW T, NEW s \in Seq(T), NEW e \in T
    PROVE  /\ Append(s, e) \in Seq(T)
           /\ Range(Append(s, e)) = Range(s) \cup {e}
           /\ \A x, y : Precedes(x, y, Append(s, e))
                            <=> Precedes(x, y, s) \/ (x \in Range(s) /\ y = e)
<1> DEFINE t == Append(s, e)
<1>1. /\ t \in Seq(T) /\ Len(t) = Len(s) + 1 /\ t[Len(s) + 1] = e
      /\ \A i \in 1 .. Len(s) : t[i] = s[i]
      /\ DOMAIN s = 1 .. Len(s) /\ DOMAIN t = 1 .. Len(s) + 1 /\ Len(s) \in Nat
    OBVIOUS
<1> HIDE DEF t
<1>2. Range(t) = Range(s) \cup {e}
    <2>1. ASSUME NEW x \in Range(t) PROVE x \in Range(s) \cup {e}
        BY <1>1, <2>1 DEF Range
    <2>2. ASSUME NEW x \in Range(s) \cup {e} PROVE x \in Range(t)
        <3>1. CASE x = e
            BY <1>1, <3>1 DEF Range
        <3>2. CASE x \in Range(s)
            <4>1. PICK i \in DOMAIN s : s[i] = x
                BY <3>2 DEF Range
            <4>2. i \in DOMAIN t /\ t[i] = x
                BY <1>1, <4>1
            <4> QED BY <4>2 DEF Range
        <3> QED BY <3>1, <3>2
    <2> QED BY <2>1, <2>2
<1>3. ASSUME NEW x, NEW y, Precedes(x, y, t)
      PROVE  Precedes(x, y, s) \/ (x \in Range(s) /\ y = e)
    <2>1. PICK a \in DOMAIN t, b \in DOMAIN t : a < b /\ t[a] = x /\ t[b] = y
        BY <1>3 DEF Precedes
    <2>2. a \in DOMAIN s /\ s[a] = x
        BY <1>1, <2>1
    <2>3. CASE b = Len(s) + 1
        BY <1>1, <2>1, <2>2, <2>3 DEF Range
    <2>4. CASE b # Len(s) + 1
        <3>1. b \in DOMAIN s /\ s[b] = y
            BY <1>1, <2>1, <2>4
        <3> QED BY <2>1, <2>2, <3>1 DEF Precedes
    <2> QED BY <2>3, <2>4
<1>4. ASSUME NEW x, NEW y, Precedes(x, y, s) PROVE Precedes(x, y, t)
    <2>1. PICK a \in DOMAIN s, b \in DOMAIN s : a < b /\ s[a] = x /\ s[b] = y
        BY <1>4 DEF Precedes
    <2>2. a \in DOMAIN t /\ b \in DOMAIN t /\ t[a] = x /\ t[b] = y
        BY <1>1, <2>1
    <2> QED BY <2>1, <2>2 DEF Precedes
<1>5. ASSUME NEW x \in Range(s) PROVE Precedes(x, e, t)
    <2>1. PICK a \in DOMAIN s : s[a] = x
        BY DEF Range
    <2>2. a \in DOMAIN t /\ Len(s) + 1 \in DOMAIN t /\ a < Len(s) + 1 /\ t[a] = x
        BY <1>1, <2>1
    <2> QED BY <1>1, <2>2 DEF Precedes
<1> QED BY <1>1, <1>2, <1>3, <1>4, <1>5 DEF t

LEMMA TailOrder ==
    ASSUME NEW T, NEW s \in Seq(T), s # <<>>
    PROVE  /\ Tail(s) \in Seq(T) /\ Head(s) \in T
           /\ Range(s) = {Head(s)} \cup Range(Tail(s))
           /\ \A x, y : Precedes(x, y, s)
                            <=> Precedes(x, y, Tail(s)) \/ (x = Head(s) /\ y \in Range(Tail(s)))
<1> DEFINE t == Tail(s)
<1>1. /\ t \in Seq(T) /\ Head(s) = s[1] /\ Head(s) \in T /\ Len(s) \in Nat /\ Len(s) >= 1
      /\ \A i \in 1 .. Len(s) - 1 : t[i] = s[i + 1]
      /\ DOMAIN s = 1 .. Len(s) /\ DOMAIN t = 1 .. Len(s) - 1
    OBVIOUS
<1> HIDE DEF t
<1>2. ASSUME NEW i \in DOMAIN s, i # 1 PROVE i - 1 \in DOMAIN t /\ t[i - 1] = s[i]
    <2>1. i - 1 \in 1 .. Len(s) - 1 /\ (i - 1) + 1 = i
        BY <1>1, <1>2
    <2> QED BY <1>1, <2>1
<1>3. ASSUME NEW i \in DOMAIN t PROVE i + 1 \in DOMAIN s /\ s[i + 1] = t[i] /\ i + 1 > 1
    BY <1>1
<1>4. 1 \in DOMAIN s
    BY <1>1
<1>5. Range(s) = {Head(s)} \cup Range(t)
    <2>1. ASSUME NEW x \in Range(s) PROVE x \in {Head(s)} \cup Range(t)
        BY <1>1, <1>2 DEF Range
    <2>2. ASSUME NEW x \in Range(t) PROVE x \in Range(s)
        BY <1>3 DEF Range
    <2> QED BY <1>1, <1>4, <2>1, <2>2 DEF Range
<1>6. ASSUME NEW x, NEW y, Precedes(x, y, s)
      PROVE  Precedes(x, y, t) \/ (x = Head(s) /\ y \in Range(t))
    <2>1. PICK a \in DOMAIN s, b \in DOMAIN s : a < b /\ s[a] = x /\ s[b] = y
        BY <1>6 DEF Precedes
    <2>2. b # 1 /\ a \in Nat /\ b \in Nat
        BY <1>1, <2>1
    <2>3. b - 1 \in DOMAIN t /\ t[b - 1] = y
        BY <1>2, <2>1, <2>2
    <2>4. CASE a = 1
        BY <1>1, <2>1, <2>3, <2>4 DEF Range
    <2>5. CASE a # 1
        <3>1. a - 1 \in DOMAIN t /\ t[a - 1] = x
            BY <1>2, <2>1, <2>5
        <3>2. a - 1 < b - 1
            BY <2>1, <2>2
        <3> QED BY <2>3, <3>1, <3>2 DEF Precedes
    <2> QED BY <2>4, <2>5
<1>7. ASSUME NEW x, NEW y, Precedes(x, y, t) PROVE Precedes(x, y, s)
    <2>1. PICK a \in DOMAIN t, b \in DOMAIN t : a < b /\ t[a] = x /\ t[b] = y
        BY <1>7 DEF Precedes
    <2>2. a + 1 < b + 1
        BY <1>1, <2>1
    <2> QED BY <1>3, <2>1, <2>2 DEF Precedes
<1>8. ASSUME NEW y \in Range(t) PROVE Precedes(Head(s), y, s)
    <2>1. PICK b \in DOMAIN t : t[b] = y
        BY DEF Range
    <2>2. b + 1 \in DOMAIN s /\ s[b + 1] = y /\ 1 < b + 1
        BY <1>1, <1>3, <2>1
    <2> QED BY <1>1, <1>4, <2>2 DEF Precedes
<1> QED BY <1>1, <1>5, <1>6, <1>7, <1>8 DEF t

LEMMA JoinOrder ==
    ASSUME NEW T, NEW s \in Seq(T), NEW t \in Seq(T)
    PROVE  /\ s \o t \in Seq(T)
           /\ Range(s \o t) = Range(s) \cup Range(t)
           /\ \A x, y : Precedes(x, y, s \o t) <=>
                  \/ Precedes(x, y, s) \/ Precedes(x, y, t)
                  \/ x \in Range(s) /\ y \in Range(t)
<1> DEFINE u == s \o t
           m == Len(s)
           n == Len(t)
<1>1. /\ u \in Seq(T) /\ m \in Nat /\ n \in Nat
      /\ \A i \in 1 .. m + n : u[i] = IF i <= m THEN s[i] ELSE t[i - m]
      /\ DOMAIN s = 1 .. m /\ DOMAIN t = 1 .. n /\ DOMAIN u = 1 .. m + n
    OBVIOUS
<1> HIDE DEF u, m, n
<1>2. ASSUME NEW i \in DOMAIN s PROVE i \in DOMAIN u /\ u[i] = s[i] /\ i \in Int /\ i <= m
    BY <1>1
<1>3. ASSUME NEW i \in DOMAIN t
      PROVE  i + m \in DOMAIN u /\ u[i + m] = t[i] /\ i \in Int /\ i + m > m
    <2>1. i \in Nat /\ i + m \in 1 .. m + n /\ ~(i + m <= m) /\ (i + m) - m = i
        BY <1>1
    <2> QED BY <1>1, <2>1
<1>4. ASSUME NEW i \in DOMAIN u
      PROVE  \/ i \in DOMAIN s /\ u[i] = s[i] /\ i <= m
             \/ i - m \in DOMAIN t /\ u[i] = t[i - m] /\ i > m
    <2>1. CASE i <= m
        BY <1>1, <2>1
    <2>2. CASE ~(i <= m)
        <3>1. i \in 1 .. m + n /\ i - m \in 1 .. n
            BY <1>1, <2>2
        <3> QED BY <1>1, <2>2, <3>1
    <2> QED BY <2>1, <2>2
<1>5. Range(u) = Range(s) \cup Range(t)
    <2>1. ASSUME NEW x \in Range(u) PROVE x \in Range(s) \cup Range(t)
        BY <1>4 DEF Range
    <2>2. ASSUME NEW x \in Range(s) PROVE x \in Range(u)
        BY <1>2 DEF Range
    <2>3. ASSUME NEW x \in Range(t) PROVE x \in Range(u)
        BY <1>3 DEF Range
    <2> QED BY <2>1, <2>2, <2>3
<1>6. ASSUME NEW x, NEW y, Precedes(x, y, u)
      PROVE  \/ Precedes(x, y, s) \/ Precedes(x, y, t)
             \/ x \in Range(s) /\ y \in Range(t)
    <2>1. PICK a \in DOMAIN u, b \in DOMAIN u : a < b /\ u[a] = x /\ u[b] = y
        BY <1>6 DEF Precedes
    <2>2. a \in Int /\ b \in Int
        BY <1>1, <2>1
    <2>3. CASE b <= m
        <3>1. a \in DOMAIN s /\ b \in DOMAIN s /\ u[a] = s[a] /\ u[b] = s[b]
            BY <1>1, <1>4, <2>1, <2>2, <2>3
        <3> QED BY <2>1, <3>1 DEF Precedes
    <2>4. CASE b > m /\ a <= m
        <3>1. a \in DOMAIN s /\ u[a] = s[a] /\ b - m \in DOMAIN t /\ u[b] = t[b - m]
            BY <1>1, <1>4, <2>1, <2>2, <2>4
        <3> QED BY <2>1, <3>1 DEF Range
    <2>5. CASE a > m
        <3>1. b > m /\ a - m < b - m
            BY <1>1, <2>1, <2>2, <2>5
        <3>2. a - m \in DOMAIN t /\ u[a] = t[a - m] /\ b - m \in DOMAIN t /\ u[b] = t[b - m]
            BY <1>1, <1>4, <2>1, <2>2, <2>5, <3>1
        <3> QED BY <2>1, <3>1, <3>2 DEF Precedes
    <2> QED BY <1>1, <2>2, <2>3, <2>4, <2>5
<1>7. ASSUME NEW x, NEW y, Precedes(x, y, s) PROVE Precedes(x, y, u)
    BY <1>2, <1>7 DEF Precedes
<1>8. ASSUME NEW x, NEW y, Precedes(x, y, t) PROVE Precedes(x, y, u)
    <2>1. PICK a \in DOMAIN t, b \in DOMAIN t : a < b /\ t[a] = x /\ t[b] = y
        BY <1>8 DEF Precedes
    <2>2. a + m < b + m
        BY <1>1, <2>1
    <2> QED BY <1>3, <2>1, <2>2 DEF Precedes
<1>9. ASSUME NEW x \in Range(s), NEW y \in Range(t) PROVE Precedes(x, y, u)
    <2>1. PICK a \in DOMAIN s : s[a] = x
        BY DEF Range
    <2>2. PICK b \in DOMAIN t : t[b] = y
        BY DEF Range
    <2>3. a < b + m
        BY <1>1, <1>2, <1>3, <2>1, <2>2
    <2> QED BY <1>2, <1>3, <2>1, <2>2, <2>3 DEF Precedes
<1> QED BY <1>1, <1>5, <1>6, <1>7, <1>8, <1>9 DEF u, m, n

(* The same for coming before every one.                                   *)
LEMMA AbsentIsLed ==
    ASSUME NEW s, NEW x \in Range(s), NEW y, y \notin Range(s)
    PROVE  Leads(x, y, s)
BY DEF Leads, Range

LEMMA AppendLeads ==
    ASSUME NEW T, NEW s \in Seq(T), NEW e \in T, NEW x, NEW y
    PROVE  Leads(x, y, Append(s, e))
               <=> (Leads(x, y, s) \/ (x = e /\ y # e /\ y \notin Range(s)))
<1> DEFINE t == Append(s, e)
           n == Len(s)
<1>1. /\ n \in Nat /\ t[n + 1] = e /\ \A i \in 1 .. n : t[i] = s[i]
      /\ DOMAIN s = 1 .. n /\ DOMAIN t = 1 .. n + 1
    OBVIOUS
<1> HIDE DEF t, n
<1>2. \A i \in DOMAIN t : (i \in DOMAIN s /\ t[i] = s[i]) \/ i = n + 1
    BY <1>1
<1>3. ASSUME Leads(x, y, s) PROVE Leads(x, y, t)
    <2>1. PICK a \in DOMAIN s : s[a] = x /\ \A b \in DOMAIN s : s[b] = y => a < b
        BY <1>3 DEF Leads
    <2>2. a \in DOMAIN t /\ t[a] = x /\ a < n + 1
        BY <1>1, <2>1
    <2>3. \A b \in DOMAIN t : t[b] = y => a < b
        BY <1>2, <2>1, <2>2
    <2> QED BY <2>2, <2>3 DEF Leads
<1>4. ASSUME x = e, y # e, y \notin Range(s) PROVE Leads(x, y, t)
    <2>1. n + 1 \in DOMAIN t /\ t[n + 1] = x
        BY <1>1, <1>4
    <2>2. \A b \in DOMAIN t : t[b] # y
        BY <1>1, <1>2, <1>4 DEF Range
    <2> QED BY <2>1, <2>2 DEF Leads
<1>5. ASSUME Leads(x, y, t) PROVE Leads(x, y, s) \/ (x = e /\ y # e /\ y \notin Range(s))
    <2>1. PICK a \in DOMAIN t : t[a] = x /\ \A b \in DOMAIN t : t[b] = y => a < b
        BY <1>5 DEF Leads
    <2>2. CASE a = n + 1
        <3>1. x = e
            BY <1>1, <2>1, <2>2
        <3>2. \A b \in DOMAIN t : t[b] # y
            BY <1>1, <2>1, <2>2
        <3>3. y # e /\ y \notin Range(s)
            <4>1. n + 1 \in DOMAIN t /\ \A b \in DOMAIN s : b \in DOMAIN t /\ t[b] = s[b]
                BY <1>1
            <4> QED BY <1>1, <3>2, <4>1 DEF Range
        <3> QED BY <3>1, <3>3
    <2>3. CASE a # n + 1
        <3>1. a \in DOMAIN s /\ s[a] = x
            BY <1>2, <2>1, <2>3
        <3>2. \A b \in DOMAIN s : s[b] = y => a < b
            BY <1>1, <2>1
        <3> QED BY <3>1, <3>2 DEF Leads
    <2> QED BY <2>2, <2>3
<1> QED BY <1>3, <1>4, <1>5 DEF t

LEMMA TailLeads ==
    ASSUME NEW T, NEW s \in Seq(T), s # <<>>, NEW x, NEW y
    PROVE  Leads(x, y, s) <=> y # Head(s) /\ (x = Head(s) \/ Leads(x, y, Tail(s)))
<1> DEFINE t == Tail(s)
           n == Len(s)
<1>1. /\ n \in Nat /\ n >= 1 /\ Head(s) = s[1] /\ \A i \in 1 .. n - 1 : t[i] = s[i + 1]
      /\ DOMAIN s = 1 .. n /\ DOMAIN t = 1 .. n - 1
    OBVIOUS
<1> HIDE DEF t, n
<1>2. ASSUME NEW i \in DOMAIN s, i # 1 PROVE i - 1 \in DOMAIN t /\ t[i - 1] = s[i]
    <2>1. i - 1 \in 1 .. n - 1 /\ (i - 1) + 1 = i
        BY <1>1, <1>2
    <2> QED BY <1>1, <2>1
<1>3. ASSUME NEW i \in DOMAIN t
      PROVE  i + 1 \in DOMAIN s /\ s[i + 1] = t[i] /\ i + 1 > 1 /\ i \in Int
    BY <1>1
<1>4. ASSUME Leads(x, y, s) PROVE y # Head(s) /\ (x = Head(s) \/ Leads(x, y, t))
    <2>1. PICK a \in DOMAIN s : s[a] = x /\ \A b \in DOMAIN s : s[b] = y => a < b
        BY <1>4 DEF Leads
    <2>2. a \in Int /\ a >= 1 /\ 1 \in DOMAIN s
        BY <1>1
    <2>3. y # Head(s)
        BY <1>1, <2>1, <2>2
    <2>4. CASE a = 1
        BY <1>1, <2>1, <2>3, <2>4
    <2>5. CASE a # 1
        <3>1. a - 1 \in DOMAIN t /\ t[a - 1] = x
            BY <1>2, <2>1, <2>5
        <3>2. ASSUME NEW b \in DOMAIN t, t[b] = y PROVE a - 1 < b
            <4>1. a < b + 1
                BY <1>3, <2>1, <3>2
            <4> QED BY <1>3, <2>2, <4>1
        <3> QED BY <2>3, <3>1, <3>2 DEF Leads
    <2> QED BY <2>4, <2>5
<1>5. ASSUME y # Head(s), x = Head(s) PROVE Leads(x, y, s)
    <2>1. 1 \in DOMAIN s /\ s[1] = x /\ \A b \in DOMAIN s : s[b] = y => 1 < b
        BY <1>1, <1>5
    <2> QED BY <2>1 DEF Leads
<1>6. ASSUME y # Head(s), Leads(x, y, t) PROVE Leads(x, y, s)
    <2>1. PICK a \in DOMAIN t : t[a] = x /\ \A b \in DOMAIN t : t[b] = y => a < b
        BY <1>6 DEF Leads
    <2>2. a + 1 \in DOMAIN s /\ s[a + 1] = x /\ a \in Int
        BY <1>3, <2>1
    <2>3. ASSUME NEW b \in DOMAIN s, s[b] = y PROVE a + 1 < b
        <3>1. b # 1 /\ b \in Int
            BY <1>1, <1>6, <2>3
        <3>2. b - 1 \in DOMAIN t /\ t[b - 1] = y
            BY <1>2, <2>3, <3>1
        <3>3. a < b - 1
            BY <2>1, <3>2
        <3> QED BY <2>2, <3>1, <3>3
    <2> QED BY <2>2, <2>3 DEF Leads
<1> QED BY <1>4, <1>5, <1>6 DEF t

LEMMA JoinLeads ==
    ASSUME NEW T, NEW s \in Seq(T), NEW t \in Seq(T), NEW x, NEW y
    PROVE  Leads(x, y, s \o t) <=> Leads(x, y, s) \/ (y \notin Range(s) /\ Leads(x, y, t))
<1> DEFINE u == s \o t
           m == Len(s)
           n == Len(t)
<1>1. /\ m \in Nat /\ n \in Nat
      /\ \A i \in 1 .. m + n : u[i] = IF i <= m THEN s[i] ELSE t[i - m]
      /\ DOMAIN s = 1 .. m /\ DOMAIN t = 1 .. n /\ DOMAIN u = 1 .. m + n
    OBVIOUS
<1> HIDE DEF u, m, n
<1>2. ASSUME NEW i \in DOMAIN s PROVE i \in DOMAIN u /\ u[i] = s[i] /\ i \in Int /\ i <= m
    BY <1>1
<1>3. ASSUME NEW i \in DOMAIN t
      PROVE  i + m \in DOMAIN u /\ u[i + m] = t[i] /\ i \in Int /\ i + m > m
    <2>1. i \in Nat /\ i + m \in 1 .. m + n /\ ~(i + m <= m) /\ (i + m) - m = i
        BY <1>1
    <2> QED BY <1>1, <2>1
<1>4. ASSUME NEW i \in DOMAIN u
      PROVE  /\ i \in Int
             /\ \/ i \in DOMAIN s /\ u[i] = s[i] /\ i <= m
                \/ i - m \in DOMAIN t /\ u[i] = t[i - m] /\ i > m
    <2>1. CASE i <= m
        BY <1>1, <2>1
    <2>2. CASE ~(i <= m)
        <3>1. i \in 1 .. m + n /\ i - m \in 1 .. n
            BY <1>1, <2>2
        <3> QED BY <1>1, <2>2, <3>1
    <2> QED BY <2>1, <2>2
<1>5. ASSUME Leads(x, y, u) PROVE Leads(x, y, s) \/ (y \notin Range(s) /\ Leads(x, y, t))
    <2>1. PICK a \in DOMAIN u : u[a] = x /\ \A b \in DOMAIN u : u[b] = y => a < b
        BY <1>5 DEF Leads
    <2>2. CASE a \in DOMAIN s /\ u[a] = s[a]
        <3>1. \A b \in DOMAIN s : s[b] = y => a < b
            BY <1>2, <2>1
        <3> QED BY <2>1, <2>2, <3>1 DEF Leads
    <2>3. CASE a - m \in DOMAIN t /\ u[a] = t[a - m] /\ a > m
        <3>1. ASSUME NEW b \in DOMAIN s PROVE s[b] # y
            BY <1>1, <1>2, <1>4, <2>1, <2>3
        <3>2. ASSUME NEW b \in DOMAIN t, t[b] = y PROVE a - m < b
            <4>1. a < b + m
                BY <1>3, <2>1, <3>2
            <4> QED BY <1>1, <1>3, <1>4, <4>1
        <3> QED BY <2>1, <2>3, <3>1, <3>2 DEF Leads, Range
    <2> QED BY <1>4, <2>1, <2>2, <2>3
<1>6. ASSUME Leads(x, y, s) PROVE Leads(x, y, u)
    <2>1. PICK a \in DOMAIN s : s[a] = x /\ \A b \in DOMAIN s : s[b] = y => a < b
        BY <1>6 DEF Leads
    <2>2. a \in DOMAIN u /\ u[a] = x /\ a \in Int /\ a <= m
        BY <1>2, <2>1
    <2>3. ASSUME NEW b \in DOMAIN u, u[b] = y PROVE a < b
        BY <1>1, <1>4, <2>1, <2>2, <2>3
    <2> QED BY <2>2, <2>3 DEF Leads
<1>7. ASSUME y \notin Range(s), Leads(x, y, t) PROVE Leads(x, y, u)
    <2>1. PICK a \in DOMAIN t : t[a] = x /\ \A b \in DOMAIN t : t[b] = y => a < b
        BY <1>7 DEF Leads
    <2>2. a + m \in DOMAIN u /\ u[a + m] = x /\ a \in Int
        BY <1>3, <2>1
    <2>3. ASSUME NEW b \in DOMAIN u, u[b] = y PROVE a + m < b
        <3>1. b - m \in DOMAIN t /\ t[b - m] = y /\ b \in Int
            BY <1>4, <1>7, <2>3 DEF Range
        <3>2. a < b - m
            BY <2>1, <3>1
        <3> QED BY <1>1, <2>2, <3>1, <3>2
    <2> QED BY <2>2, <2>3 DEF Leads
<1> QED BY <1>5, <1>6, <1>7 DEF u

LEMMA NothingInOrder ==
    Range(<<>>) = {} /\ \A x, y : ~Precedes(x, y, <<>>) /\ ~Leads(x, y, <<>>)
BY DEF Range, Precedes, Leads

-----------------------------------------------------------------------------
(* What the steps do to the flow of a partition *)

FlowTyped ==
    queue \in [Partitions -> Seq(EventRecords)] /\ topic \in [Partitions -> Seq(EventRecords)]

(* A step that neither takes a request in nor takes a message from the     *)
(* topic.  It may lose messages, but then it says so.                      *)
Quiet ==
    /\ UNCHANGED <<script, step, issued, serverTimed, tables, now, skipped>>
    /\ lost \subseteq lost'
    /\ FlowTyped'
    /\ \A q \in Partitions :
          /\ Flow(q)' \subseteq Flow(q)
          /\ \A x \in Flow(q) : x \in Flow(q)' \/ x.event_id \in lost'
          /\ \A x, y : Ahead(x, y, q)' => Ahead(x, y, q)
          /\ \A x, y : Foremost(x, y, q) => Foremost(x, y, q)' \/ x.event_id \in lost'

LEMMA SameFlowIsQuiet ==
    ASSUME FlowTyped,
           UNCHANGED <<script, step, issued, serverTimed, tables, now, skipped, lost>>,
           FlowTyped',
           \A q \in Partitions :
              /\ Flow(q)' = Flow(q)
              /\ \A x, y : Ahead(x, y, q)' <=> Ahead(x, y, q)
              /\ \A x, y : Foremost(x, y, q) => Foremost(x, y, q)'
    PROVE  Quiet
BY DEF Quiet

LEMMA UntouchedIsQuiet ==
    ASSUME FlowTyped,
           UNCHANGED <<script, step, issued, serverTimed, tables, now, skipped, lost,
                       queue, topic>>
    PROVE  Quiet
<1>1. FlowTyped'
    BY DEF FlowTyped
<1>2. \A q \in Partitions :
        /\ Flow(q)' = Flow(q)
        /\ \A x, y : Ahead(x, y, q)' <=> Ahead(x, y, q)
        /\ \A x, y : Foremost(x, y, q) => Foremost(x, y, q)'
    BY DEF Flow, Ahead, Foremost
<1> QED BY <1>1, <1>2, SameFlowIsQuiet

(* A delivery moves the head of the queue to the end of the topic.         *)
LEMMA DeliverIsQuiet ==
    ASSUME FlowTyped, NEW q \in Partitions, Deliver(q)
    PROVE  Quiet
<1>1. /\ topic' = [topic EXCEPT ![q] = Append(@, Head(queue[q]))]
      /\ queue' = [queue EXCEPT ![q] = Tail(@)]
      /\ queue[q] # <<>> /\ queue[q] \in Seq(EventRecords) /\ topic[q] \in Seq(EventRecords)
    BY DEF Deliver, FlowTyped
<1>2. /\ Tail(queue[q]) \in Seq(EventRecords) /\ Head(queue[q]) \in EventRecords
      /\ Range(queue[q]) = {Head(queue[q])} \cup Range(Tail(queue[q]))
      /\ \A x, y : Precedes(x, y, queue[q])
                       <=> \/ Precedes(x, y, Tail(queue[q]))
                           \/ x = Head(queue[q]) /\ y \in Range(Tail(queue[q]))
    BY <1>1, TailOrder
<1>3. /\ Append(topic[q], Head(queue[q])) \in Seq(EventRecords)
      /\ Range(Append(topic[q], Head(queue[q]))) = Range(topic[q]) \cup {Head(queue[q])}
      /\ \A x, y : Precedes(x, y, Append(topic[q], Head(queue[q])))
                       <=> Precedes(x, y, topic[q]) \/ (x \in Range(topic[q]) /\ y = Head(queue[q]))
    BY <1>1, <1>2, AppendOrder
<1>4. /\ topic'[q] = Append(topic[q], Head(queue[q])) /\ queue'[q] = Tail(queue[q])
      /\ \A p \in Partitions \ {q} : topic'[p] = topic[p] /\ queue'[p] = queue[p]
      /\ FlowTyped'
    BY <1>1, <1>2, <1>3 DEF FlowTyped
<1>5. ASSUME NEW p \in Partitions
      PROVE  /\ Flow(p)' = Flow(p)
             /\ \A x, y : Ahead(x, y, p)' <=> Ahead(x, y, p)
             /\ \A x, y : Foremost(x, y, p) => Foremost(x, y, p)'
    <2>1. CASE p = q
        <3>1. Flow(p)' = Flow(p)
            BY <1>2, <1>3, <1>4, <2>1 DEF Flow
        <3>2. ASSUME NEW x, NEW y PROVE Ahead(x, y, p)' <=> Ahead(x, y, p)
            BY ZenonT(30), <1>2, <1>3, <1>4, <2>1 DEF Ahead
        <3>3. ASSUME NEW x, NEW y, Foremost(x, y, p) PROVE Foremost(x, y, p)'
            <4> DEFINE h == Head(queue[q])
            <4>1. Leads(x, y, queue[q]) <=> y # h /\ (x = h \/ Leads(x, y, Tail(queue[q])))
                BY <1>1, TailLeads
            <4>2. Leads(x, y, Append(topic[q], h))
                      <=> Leads(x, y, topic[q]) \/ (x = h /\ y # h /\ y \notin Range(topic[q]))
                BY <1>1, <1>2, AppendLeads
            <4> QED BY <1>3, <1>4, <2>1, <3>3, <4>1, <4>2 DEF Foremost
        <3> QED BY <3>1, <3>2, <3>3
    <2>2. CASE p # q
        BY <1>4, <2>2 DEF Flow, Ahead, Foremost
    <2> QED BY <2>1, <2>2
<1> QED BY <1>4, <1>5, SameFlowIsQuiet DEF Deliver, client, notes

(* The flush of an orderly stop moves the whole queue.                     *)
LEMMA StopIsQuiet == ASSUME FlowTyped, Stop PROVE Quiet
<1>1. /\ topic' = [q \in Partitions |-> topic[q] \o queue[q]]
      /\ queue' = [q \in Partitions |-> <<>>]
    BY DEF Stop, GoDown, Nothing
<1>2. ASSUME NEW p \in Partitions
      PROVE  /\ topic'[p] \in Seq(EventRecords)
             /\ Flow(p)' = Flow(p)
             /\ \A x, y : Ahead(x, y, p)' <=> Ahead(x, y, p)
             /\ \A x, y : Foremost(x, y, p) => Foremost(x, y, p)'
    <2>1. topic[p] \in Seq(EventRecords) /\ queue[p] \in Seq(EventRecords)
        BY DEF FlowTyped
    <2>2. topic'[p] = topic[p] \o queue[p] /\ queue'[p] = <<>>
        BY <1>1
    <2>3. /\ topic'[p] \in Seq(EventRecords)
          /\ Range(topic'[p]) = Range(topic[p]) \cup Range(queue[p])
          /\ \A x, y : Precedes(x, y, topic'[p]) <=>
                 \/ Precedes(x, y, topic[p]) \/ Precedes(x, y, queue[p])
                 \/ x \in Range(topic[p]) /\ y \in Range(queue[p])
        BY <2>1, <2>2, JoinOrder
    <2>4. ASSUME NEW x, NEW y PROVE Ahead(x, y, p)' <=> Ahead(x, y, p)
        BY <2>2, <2>3, NothingInOrder DEF Ahead
    <2>5. ASSUME NEW x, NEW y, Foremost(x, y, p) PROVE Foremost(x, y, p)'
        <3>1. Leads(x, y, topic'[p])
            BY <2>1, <2>2, <2>5, JoinLeads DEF Foremost
        <3> QED BY <3>1 DEF Foremost
    <2> QED BY <2>2, <2>3, <2>4, <2>5, NothingInOrder DEF Flow
<1>3. FlowTyped'
    BY <1>1, <1>2 DEF FlowTyped
<1> QED BY <1>2, <1>3, SameFlowIsQuiet DEF Stop, GoDown, client, notes

(* What leaves the queue for good is named in lost.                        *)
LEMMA LossyIsQuiet ==
    ASSUME FlowTyped,
           UNCHANGED <<script, step, issued, serverTimed, tables, now, skipped, topic>>,
           lost \subseteq lost', FlowTyped',
           \A q \in Partitions :
              /\ Range(queue'[q]) \subseteq Range(queue[q])
              /\ \A x \in Range(queue[q]) : x \in Range(queue'[q]) \/ x.event_id \in lost'
              /\ \A x, y : Precedes(x, y, queue'[q]) => Precedes(x, y, queue[q])
              /\ \A x, y : Leads(x, y, queue[q]) =>
                    Leads(x, y, queue'[q]) \/ x.event_id \in lost'
    PROVE  Quiet
<1>1. ASSUME NEW q \in Partitions
      PROVE  /\ Flow(q)' \subseteq Flow(q)
             /\ \A x \in Flow(q) : x \in Flow(q)' \/ x.event_id \in lost'
    BY DEF Flow
<1>2. ASSUME NEW q \in Partitions, NEW x, NEW y
      PROVE  /\ Ahead(x, y, q)' => Ahead(x, y, q)
             /\ Foremost(x, y, q) => Foremost(x, y, q)' \/ x.event_id \in lost'
    BY DEF Ahead, Foremost
<1> QED BY <1>1, <1>2 DEF Quiet

LEMMA ExpireIsQuiet == ASSUME FlowTyped, NEW q \in Partitions, Expire(q) PROVE Quiet
<1>0. PICK h : h = Head(queue[q])
    OBVIOUS
<1>1. /\ queue' = [queue EXCEPT ![q] = Tail(@)] /\ topic' = topic
      /\ queue[q] # <<>> /\ queue[q] \in Seq(EventRecords)
      /\ lost' = lost \cup {h.event_id}
    BY <1>0 DEF Expire, FlowTyped
<1>2. /\ Tail(queue[q]) \in Seq(EventRecords)
      /\ Range(queue[q]) = {h} \cup Range(Tail(queue[q]))
      /\ \A x, y : Precedes(x, y, Tail(queue[q])) => Precedes(x, y, queue[q])
    BY <1>0, <1>1, TailOrder
<1>3. \A x, y : Leads(x, y, queue[q]) => x = h \/ Leads(x, y, Tail(queue[q]))
    BY <1>0, <1>1, TailLeads
<1>4. queue'[q] = Tail(queue[q]) /\ \A p \in Partitions \ {q} : queue'[p] = queue[p]
    BY <1>1 DEF FlowTyped
<1>5. FlowTyped'
    BY <1>1, <1>2 DEF FlowTyped
<1>6. ASSUME NEW p \in Partitions
      PROVE  /\ Range(queue'[p]) \subseteq Range(queue[p])
             /\ \A x \in Range(queue[p]) : x \in Range(queue'[p]) \/ x.event_id \in lost'
             /\ \A x, y : Precedes(x, y, queue'[p]) => Precedes(x, y, queue[p])
             /\ \A x, y : Leads(x, y, queue[p]) =>
                   Leads(x, y, queue'[p]) \/ x.event_id \in lost'
    <2>1. CASE p = q
        BY <1>1, <1>2, <1>3, <1>4, <2>1
    <2>2. CASE p # q
        BY <1>4, <2>2
    <2> QED BY <2>1, <2>2
<1>7. lost \subseteq lost'
    BY <1>1
<1>8. UNCHANGED <<script, step, issued, serverTimed, tables, now, skipped, topic>>
    BY DEF Expire, client, notes
<1> QED BY <1>5, <1>6, <1>7, <1>8, LossyIsQuiet

LEMMA StopUncleanIsQuiet == ASSUME FlowTyped, StopUnclean PROVE Quiet
<1>1. queue' = [q \in Partitions |-> <<>>] /\ topic' = topic /\ lost' = lost \cup Queued
    BY DEF StopUnclean, GoDown, Nothing
<1>2. FlowTyped'
    BY <1>1 DEF FlowTyped
<1>3. ASSUME NEW q \in Partitions, NEW x \in Range(queue[q]) PROVE x.event_id \in lost'
    BY <1>1 DEF Queued
<1>4. \A q \in Partitions : \A x, y : Leads(x, y, queue[q]) => x \in Range(queue[q])
    BY DEF Leads, Range
<1>5. \A q \in Partitions :
          /\ Range(queue'[q]) \subseteq Range(queue[q])
          /\ \A x \in Range(queue[q]) : x \in Range(queue'[q]) \/ x.event_id \in lost'
          /\ \A x, y : Precedes(x, y, queue'[q]) => Precedes(x, y, queue[q])
          /\ \A x, y : Leads(x, y, queue[q]) =>
                Leads(x, y, queue'[q]) \/ x.event_id \in lost'
    BY <1>1, <1>3, <1>4, NothingInOrder
<1>6. UNCHANGED <<script, step, issued, serverTimed, tables, now, skipped, topic>>
    BY DEF StopUnclean, GoDown, client, notes
<1> QED BY <1>1, <1>2, <1>5, <1>6, LossyIsQuiet

-----------------------------------------------------------------------------
(* The quiet steps *)

Facts == IssueInv /\ OriginInv /\ RecordInv /\ KeptInv /\ OrderInv /\ TimeInv /\ RowInv

IInv == ClientInv /\ Facts

LEMMA QuietKeepsOrigins == OriginInv /\ Quiet => OriginInv'
<1> SUFFICES ASSUME OriginInv, Quiet PROVE OriginInv'
    OBVIOUS
<1>1. script' = script /\ issued' = issued /\ Seen' = Seen
    BY DEF Quiet, tables, Seen, Handled
<1>2. \A e, c, i : MadeOf(e, c, i)' <=> MadeOf(e, c, i)
    BY <1>1 DEF MadeOf
<1>3. ASSUME NEW q \in Partitions, NEW e \in Flow(q)'
      PROVE  /\ Encodable(e)
             /\ \E c \in Clients : \E i \in DOMAIN script'[c] :
                   MadeOf(e, c, i)' /\ q = PartitionOf[RoutingKey(script'[c][i], e.event_id)]
    <2>1. e \in Flow(q)
        BY <1>3 DEF Quiet
    <2>2. \E c \in Clients : \E i \in DOMAIN script[c] :
            MadeOf(e, c, i) /\ q = PartitionOf[RoutingKey(script[c][i], e.event_id)]
        BY <2>1 DEF OriginInv
    <2>3. Encodable(e)
        BY <2>1 DEF OriginInv
    <2> QED BY <1>1, <1>2, <2>2, <2>3
<1>4. \A e \in Seen' : \E c \in Clients : \E i \in DOMAIN script'[c] : MadeOf(e, c, i)'
    BY <1>1, <1>2 DEF OriginInv
<1>5. Seen' \subseteq EventRecords
    BY <1>1 DEF OriginInv
<1>6. \A e : Encodable(e)' <=> Encodable(e)
    BY DEF Encodable
<1> QED BY <1>3, <1>4, <1>5, <1>6 DEF OriginInv, Quiet, FlowTyped

LEMMA QuietKeepsEvents == KeptInv /\ Quiet => KeptInv'
<1> SUFFICES ASSUME KeptInv, Quiet,
                    NEW c \in Clients, NEW i \in DOMAIN script[c], NEW id \in issued[c][i]
             PROVE  \/ id \in processed \cup Missed'
                    \/ \E q \in Partitions : \E e \in Flow(q)' : e.event_id = id
                    \/ ~RecordableBody(script[c][i])
    BY DEF KeptInv, Quiet, tables, RecordableBody
<1>1. Missed \subseteq Missed' /\ lost' \subseteq Missed'
    BY DEF Quiet, Missed
<1>2. \A q \in Partitions : \A x \in Flow(q) : x \in Flow(q)' \/ x.event_id \in lost'
    BY DEF Quiet
<1> QED BY <1>1, <1>2 DEF KeptInv

(* Nothing that was settled is waited for again.                           *)
LEMMA SettledStays ==
    ASSUME NEW c, NEW i, Settled(c, i), script' = script, issued[c][i] \subseteq issued'[c][i],
           Handled \subseteq Handled', Missed \subseteq Missed'
    PROVE  Settled(c, i)'
BY DEF Settled, RecordableBody

LEMMA QuietKeepsOrder == OrderInv /\ Quiet => OrderInv'
<1> SUFFICES ASSUME OrderInv, Quiet PROVE OrderInv'
    OBVIOUS
<1>1. /\ UNCHANGED <<script, issued, Handled, Seen>>
      /\ \A c, i, j : Before(c, i, j)' <=> Before(c, i, j)
    BY DEF Quiet, tables, Before, Handled, Seen
<1>2. Missed \subseteq Missed' /\ lost' \subseteq Missed'
    BY DEF Quiet, Missed
<1>3. \A c, i : Settled(c, i) => Settled(c, i)'
    BY <1>1, <1>2, SettledStays
<1>4. ASSUME NEW c \in Clients,
             NEW i \in DOMAIN script[c], NEW j \in DOMAIN script[c], Before(c, i, j)
      PROVE  /\ \A q \in Partitions : \A y \in Flow(q)' : y.event_id \in issued[c][j] =>
                    \/ Settled(c, i)'
                    \/ \E x \in Flow(q)' : x.event_id \in issued[c][i] /\ Foremost(x, y, q)'
             /\ \A y \in Seen : y.event_id \in issued[c][j] => Settled(c, i)'
    <2>1. ASSUME NEW q \in Partitions, NEW y \in Flow(q)', y.event_id \in issued[c][j]
          PROVE  \/ Settled(c, i)'
                 \/ \E x \in Flow(q)' : x.event_id \in issued[c][i] /\ Foremost(x, y, q)'
        <3>1. y \in Flow(q)
            BY <2>1 DEF Quiet
        <3>2. CASE Settled(c, i)
            BY <1>3, <3>2
        <3>3. CASE \E x \in Flow(q) : x.event_id \in issued[c][i] /\ Foremost(x, y, q)
            <4>1. PICK x \in Flow(q) : x.event_id \in issued[c][i] /\ Foremost(x, y, q)
                BY <3>3
            <4>2. CASE x.event_id \in lost'
                BY <1>1, <1>2, <4>1, <4>2 DEF Settled
            <4>3. CASE x.event_id \notin lost'
                BY <4>1, <4>3 DEF Quiet
            <4> QED BY <4>2, <4>3
        <3> QED BY <1>4, <2>1, <3>1, <3>2, <3>3 DEF OrderInv
    <2>2. ASSUME NEW y \in Seen, y.event_id \in issued[c][j] PROVE Settled(c, i)'
        BY <1>3, <1>4, <2>2 DEF OrderInv
    <2> QED BY <2>1, <2>2
<1> QED BY <1>1, <1>4 DEF OrderInv

LEMMA QuietKeepsTimes == TimeInv /\ OriginInv /\ Quiet => TimeInv'
<1> SUFFICES ASSUME TimeInv, OriginInv, Quiet PROVE TimeInv'
    OBVIOUS
<1>1. /\ \A e : ByServer(e)' <=> ByServer(e)
      /\ \A e : AboutProduct(e)' <=> AboutProduct(e)
      /\ now' = now /\ Seen' = Seen
    BY DEF ByServer, AboutProduct, Quiet, tables, Handled, Seen
<1>2. \A q \in Partitions :
          Flow(q)' \subseteq Flow(q) /\ \A x, y : Ahead(x, y, q)' => Ahead(x, y, q)
    BY DEF Quiet
<1> QED BY <1>1, <1>2 DEF TimeInv

LEMMA QuietKeeps == Facts /\ Quiet => Facts'
<1> SUFFICES ASSUME Facts, Quiet PROVE Facts'
    OBVIOUS
<1>1. UNCHANGED <<script, step, issued, serverTimed, tables>>
    BY DEF Quiet
<1>2. IssueInv'
    BY <1>1 DEF Facts, IssueInv
<1>3. RecordInv' /\ RowInv'
    BY <1>1 DEF Facts, RecordInv, RowInv, Handled, tables
<1> QED BY <1>2, <1>3, QuietKeepsOrigins, QuietKeepsEvents, QuietKeepsOrder, QuietKeepsTimes
        DEF Facts

-----------------------------------------------------------------------------
(* A request is taken in *)

LEMMA KeyIsHashed ==
    ASSUME NEW body \in Bodies, NEW id, Valid(body)
    PROVE  PartitionOf[RoutingKey(body, id)] \in Partitions
<1>1. body.event_type \in EventTypes
    BY DEF Valid
<1>2. CASE body.event_type \in OrderEventTypes
    <2>1. body.order_id \in OrderIds \cup {Blank}
        BY <1>2 DEF Valid, Bodies, TextOf
    <2> QED BY <1>2, <2>1, KeysAreHashed DEF RoutingKey
<1>3. CASE body.event_type \notin OrderEventTypes
    <2>1. body.product_id # NoText
        BY <1>1, <1>3 DEF Valid, EventTypes
    <2>2. body.product_id \in Products \cup {Blank}
        BY <2>1 DEF Bodies, TextOf
    <2> QED BY <1>3, <2>2, KeysAreHashed DEF RoutingKey
<1> QED BY <1>2, <1>3

LEMMA TextTyped == ASSUME NEW S, NEW t \in TextOf(S) PROVE Text(t) \in S \cup {NoText}
BY DEF Text, TextOf

(* What is queued is a record of the schema.                               *)
LEMMA RecordTyped ==
    ASSUME NEW body \in Bodies, NEW id \in EventIds, NEW time \in Int,
           Valid(body), Encodable(Envelope(body, id, time))
    PROVE  Envelope(body, id, time) \in EventRecords
<1> DEFINE e == Envelope(body, id, time)
<1>1. Encodable(e)
    OBVIOUS
<1> HIDE DEF e
<1>2. /\ body.product_id \in TextOf(Products) /\ body.zone_id \in TextOf(ZoneIds)
      /\ body.from_zone_id \in TextOf(ZoneIds) /\ body.to_zone_id \in TextOf(ZoneIds)
      /\ body.order_id \in TextOf(OrderIds)
      /\ body.supplier_id \in Suppliers \cup {NoText}
      /\ body.items \in Seq([product_id : TextOf(Products), zone_id : TextOf(ZoneIds),
                             quantity : Number])
    BY DEF Bodies
<1>3. /\ e.event_id = id /\ e.event_type = body.event_type /\ e.occurred_at = time
      /\ e.event_type \in EventTypes
    BY DEF e, Envelope, Valid
<1>4. /\ e.product_id \in Products \cup {NoText} /\ e.zone_id \in ZoneIds \cup {NoText}
      /\ e.from_zone_id \in ZoneIds \cup {NoText} /\ e.to_zone_id \in ZoneIds \cup {NoText}
      /\ e.order_id \in OrderIds \cup {NoText}
    BY <1>2, TextTyped DEF e, Envelope
<1>5. /\ e.quantity \in Int /\ e.counted_quantity \in Int
      /\ \A i \in DOMAIN e.items : e.items[i].quantity \in Int
    BY <1>1, AvroIntsAreInts DEF Encodable
<1>6. e.supplier_id \in Suppliers \cup {NoText}
    BY <1>2 DEF e, Envelope
<1>7. e.items \in Seq(Items)
    <2>1. CASE body.event_type # "ORDER_CREATED"
        <3>1. e.items = <<>>
            BY <2>1 DEF e, Envelope
        <3> QED BY <3>1
    <2>2. CASE body.event_type = "ORDER_CREATED"
        <3> DEFINE line(i) == [product_id |-> Text(body.items[i].product_id),
                               zone_id    |-> Text(body.items[i].zone_id),
                               quantity   |-> body.items[i].quantity]
        <3>1. e.items = [i \in DOMAIN body.items |-> line(i)]
            BY <2>2 DEF e, Envelope
        <3>2. ASSUME NEW i \in DOMAIN body.items PROVE line(i) \in Items
            <4> DEFINE posted == [product_id : TextOf(Products), zone_id : TextOf(ZoneIds),
                                  quantity : Number]
            <4>1. body.items \in Seq(posted)
                BY <1>2
            <4> HIDE DEF posted
            <4>2. body.items[i] \in posted
                BY <4>1
            <4>3. /\ body.items[i].product_id \in TextOf(Products)
                  /\ body.items[i].zone_id \in TextOf(ZoneIds)
                BY <4>2 DEF posted
            <4>4. /\ Text(body.items[i].product_id) \in Products \cup {NoText}
                  /\ Text(body.items[i].zone_id) \in ZoneIds \cup {NoText}
                BY <4>3, TextTyped
            <4>5. e.items[i].quantity = body.items[i].quantity /\ i \in DOMAIN e.items
                BY <3>1
            <4>6. e.items[i].quantity \in Int
                BY <1>5, <4>5
            <4> QED BY <4>4, <4>5, <4>6 DEF Items
        <3>3. DOMAIN body.items = 1 .. Len(body.items) /\ Len(body.items) \in Nat
            BY <1>2
        <3> HIDE DEF line
        <3> QED BY <3>1, <3>2, <3>3
    <2> QED BY <2>1, <2>2
<1>8. e = [event_id |-> e.event_id, event_type |-> e.event_type, occurred_at |-> e.occurred_at,
           product_id |-> e.product_id, zone_id |-> e.zone_id, quantity |-> e.quantity,
           from_zone_id |-> e.from_zone_id, to_zone_id |-> e.to_zone_id,
           counted_quantity |-> e.counted_quantity, order_id |-> e.order_id,
           items |-> e.items, supplier_id |-> e.supplier_id]
    BY DEF e, Envelope
<1>9. e \in EventRecords
    BY <1>3, <1>4, <1>5, <1>6, <1>7, <1>8 DEF EventRecords
<1> QED BY <1>9 DEF e

(* The names of what Accept makes of a request.                            *)
IdOf(r)      == EventId(Body(r))
TimeOf(r)    == IF Body(r).occurred_at = NoTime THEN now + 1 ELSE Body(r).occurred_at
MessageOf(r) == Envelope(Body(r), IdOf(r), TimeOf(r))
PlaceOf(r)   == PartitionOf[RoutingKey(Body(r), IdOf(r))]

LEMMA AcceptSteps ==
    ASSUME NEW r, Accept(r)
    PROVE  /\ r \in pending
           /\ Body(r).event_id # NoId \/ FreshIds # {}
           /\ Body(r).occurred_at = NoTime => TimeOf(r) \in Dates
           /\ Valid(Body(r)) /\ Encodable(MessageOf(r))
           /\ pending' = pending \ {r}
           /\ now' = now + 1
           /\ queue' = [queue EXCEPT ![PlaceOf(r)] = Append(@, MessageOf(r))]
           /\ issued' = [issued EXCEPT ![r[1]][r[2]] = @ \cup {IdOf(r)}]
           /\ serverTimed' = IF Body(r).occurred_at = NoTime THEN serverTimed \cup {IdOf(r)}
                             ELSE serverTimed
           /\ Hear(r) \/ UNCHANGED <<step, attempt, answered>>
           /\ UNCHANGED <<script, retries, up, taskFailed, topic, tables, lost, skipped, troubles>>
BY DEF Accept, IdOf, TimeOf, MessageOf, PlaceOf

LEMMA RequestIsPosted ==
    ASSUME ClientInv, NEW r \in pending
    PROVE  /\ r[1] \in Clients /\ r[2] \in DOMAIN script[r[1]]
           /\ Body(r) = script[r[1]][r[2]] /\ Body(r) \in Bodies
<1>1. r[1] \in Clients /\ r[2] \in DOMAIN script[r[1]]
    BY DEF ClientInv
<1>2. script[r[1]] \in Seq(Bodies)
    BY <1>1, BodiesArePosted DEF ClientInv
<1> QED BY <1>1, <1>2 DEF Body

LEMMA ChosenId ==
    ASSUME ClientInv, NEW r \in pending, Body(r).event_id # NoId \/ FreshIds # {}
    PROVE  /\ IdOf(r) \in EventIds
           /\ Body(r).event_id # NoId => IdOf(r) = Body(r).event_id /\ IdOf(r) \in GivenIds
           /\ Body(r).event_id = NoId => IdOf(r) \in FreshIds
<1>1. Body(r) \in Bodies
    BY RequestIsPosted
<1>2. CASE Body(r).event_id # NoId
    <2>1. Body(r).event_id \in GivenIds
        BY <1>1, <1>2 DEF Bodies
    <2> QED BY <1>2, <2>1, NoIdIsNoId DEF IdOf, EventId
<1>3. CASE Body(r).event_id = NoId
    <2>1. FreshIds # {}
        BY <1>3
    <2>2. (CHOOSE id \in FreshIds : TRUE) \in FreshIds
        BY <2>1
    <2>3. IdOf(r) \in FreshIds
        BY <1>3, <2>2 DEF IdOf, EventId
    <2> QED BY <1>3, <2>3 DEF FreshIds
<1> QED BY <1>2, <1>3

(* An id that was issued before was issued to the same request.            *)
LEMMA OwnId ==
    ASSUME ClientInv, IssueInv, NEW r \in pending, Body(r).event_id # NoId \/ FreshIds # {},
           NEW c \in Clients, NEW i \in DOMAIN script[c], IdOf(r) \in issued[c][i]
    PROVE  c = r[1] /\ i = r[2]
<1> DEFINE body == script[c][i]
<1>1. /\ body.event_id # NoId => issued[c][i] \subseteq {body.event_id}
      /\ body.event_id = NoId => issued[c][i] \cap GivenIds = {}
      /\ DOMAIN issued[c] = DOMAIN script[c]
    BY DEF IssueInv
<1>2. IdOf(r) \in UsedIds
    BY <1>1 DEF UsedIds
<1>3. Body(r).event_id # NoId /\ IdOf(r) = Body(r).event_id /\ IdOf(r) \in GivenIds
    BY <1>2, ChosenId DEF FreshIds
<1>4. body.event_id # NoId /\ body.event_id = Body(r).event_id
    BY <1>1, <1>3
<1>5. Body(r) = script[r[1]][r[2]] /\ r[1] \in Clients /\ r[2] \in DOMAIN script[r[1]]
    BY RequestIsPosted
<1>6. script \in Scripts
    BY DEF ClientInv
<1> QED BY <1>4, <1>5, <1>6, OneRequestPerId

(* What taking a request in does to the ids, in short.                     *)
LEMMA AcceptIssues ==
    ASSUME ClientInv, IssueInv, NEW r \in pending, Accept(r)
    PROVE  /\ DOMAIN issued' = Clients
           /\ \A c \in Clients : \A i \in DOMAIN script[c] :
                 issued'[c][i] = IF c = r[1] /\ i = r[2] THEN issued[c][i] \cup {IdOf(r)}
                                 ELSE issued[c][i]
           /\ \A c \in Clients : issued'[c] \in [DOMAIN script[c] -> SUBSET EventIds]
           /\ \A c \in Clients : \A i \in DOMAIN script[c] : \A id \in issued[c][i] :
                 id \in serverTimed' <=> id \in serverTimed
           /\ IdOf(r) \in serverTimed' <=> Body(r).occurred_at = NoTime
<1>1. /\ Body(r).event_id # NoId \/ FreshIds # {}
      /\ issued' = [issued EXCEPT ![r[1]][r[2]] = @ \cup {IdOf(r)}]
      /\ serverTimed' = IF Body(r).occurred_at = NoTime THEN serverTimed \cup {IdOf(r)}
                        ELSE serverTimed
    BY AcceptSteps
<1>2. /\ r[1] \in Clients /\ r[2] \in DOMAIN script[r[1]]
      /\ Body(r) = script[r[1]][r[2]]
    BY RequestIsPosted
<1>3. IdOf(r) \in EventIds
    BY <1>1, ChosenId
<1>4. /\ DOMAIN issued = Clients
      /\ \A c \in Clients : issued[c] \in [DOMAIN script[c] -> SUBSET EventIds]
    BY DEF IssueInv
<1>5. /\ DOMAIN issued' = Clients
      /\ \A c \in Clients : issued'[c] = IF c = r[1]
            THEN [issued[c] EXCEPT ![r[2]] = @ \cup {IdOf(r)}] ELSE issued[c]
    BY <1>1, <1>2, <1>4
<1>6. ASSUME NEW c \in Clients
      PROVE  /\ issued'[c] \in [DOMAIN script[c] -> SUBSET EventIds]
             /\ \A i \in DOMAIN script[c] :
                   issued'[c][i] = IF c = r[1] /\ i = r[2] THEN issued[c][i] \cup {IdOf(r)}
                                   ELSE issued[c][i]
    <2>1. CASE c = r[1]
        <3>1. issued'[c] = [issued[c] EXCEPT ![r[2]] = @ \cup {IdOf(r)}]
            BY <1>5, <2>1
        <3>2. issued[c] \in [DOMAIN script[c] -> SUBSET EventIds] /\ r[2] \in DOMAIN script[c]
            BY <1>2, <1>4, <2>1
        <3> QED BY <1>3, <2>1, <3>1, <3>2
    <2>2. CASE c # r[1]
        BY <1>4, <1>5, <2>2
    <2> QED BY <2>1, <2>2
<1>7. ASSUME NEW c \in Clients, NEW i \in DOMAIN script[c], NEW id \in issued[c][i]
      PROVE  id \in serverTimed' <=> id \in serverTimed
    <2>1. CASE id = IdOf(r)
        <3>1. c = r[1] /\ i = r[2]
            BY <1>1, <2>1, OwnId
        <3>2. id \in serverTimed <=> Body(r).occurred_at = NoTime
            BY <1>2, <3>1 DEF IssueInv
        <3> QED BY <1>1, <2>1, <3>2
    <2>2. CASE id # IdOf(r)
        BY <1>1, <2>2
    <2> QED BY <2>1, <2>2
<1>8. IdOf(r) \in serverTimed' <=> Body(r).occurred_at = NoTime
    <2>1. CASE Body(r).occurred_at = NoTime
        BY <1>1, <2>1
    <2>2. CASE Body(r).occurred_at # NoTime
        <3>1. serverTimed' = serverTimed
            BY <1>1, <2>2
        <3>2. ASSUME IdOf(r) \in serverTimed PROVE FALSE
            <4>1. PICK c \in Clients : \E i \in DOMAIN script[c] : IdOf(r) \in issued[c][i]
                BY <3>2 DEF IssueInv
            <4>2. PICK i \in DOMAIN script[c] : IdOf(r) \in issued[c][i]
                BY <4>1
            <4>3. c = r[1] /\ i = r[2]
                BY <1>1, <4>2, OwnId
            <4> QED BY <1>2, <2>2, <3>2, <4>2, <4>3 DEF IssueInv
        <3> QED BY <2>2, <3>1, <3>2
    <2> QED BY <2>1, <2>2
<1> QED BY <1>5, <1>6, <1>7, <1>8

LEMMA AcceptKeepsIds ==
    ASSUME ClientInv, IssueInv, NEW r \in pending, Accept(r)
    PROVE  IssueInv'
<1>1. \A c \in Clients : \A i \in DOMAIN script[c] :
        issued'[c][i] = IF c = r[1] /\ i = r[2] THEN issued[c][i] \cup {IdOf(r)}
                        ELSE issued[c][i]
    BY AcceptIssues
<1>2. /\ Body(r).event_id # NoId \/ FreshIds # {}
      /\ script' = script
      /\ serverTimed' = IF Body(r).occurred_at = NoTime THEN serverTimed \cup {IdOf(r)}
                        ELSE serverTimed
      /\ Hear(r) \/ step' = step
    BY AcceptSteps
<1>3. /\ r[1] \in Clients /\ r[2] \in DOMAIN script[r[1]]
      /\ Body(r) = script[r[1]][r[2]] /\ r[2] \in Int
    <2>1. script[r[1]] \in Seq(Bodies) /\ r[2] \in DOMAIN script[r[1]]
        BY RequestIsPosted, BodiesArePosted DEF ClientInv
    <2> QED BY <2>1, RequestIsPosted
<1>4. ASSUME NEW c \in Clients, NEW i \in DOMAIN script[c], i < step'[c]
      PROVE  issued'[c][i] # {}
    <2>1. step' = step \/ (Hear(r) /\ step' = [step EXCEPT ![r[1]] = @ + 1])
        BY <1>2 DEF Hear
    <2>2. step[c] \in Nat /\ i \in Int
        <3>1. script[c] \in Seq(Bodies)
            BY BodiesArePosted DEF ClientInv
        <3> QED BY <3>1 DEF ClientInv
    <2>3. CASE c = r[1] /\ i = r[2]
        BY <2>3, AcceptIssues
    <2>4. CASE ~(c = r[1] /\ i = r[2])
        <3>1. i < step[c]
            <4>1. CASE step' = step
                BY <1>4, <4>1
            <4>2. CASE c # r[1] /\ step' = [step EXCEPT ![r[1]] = @ + 1]
                BY <1>4, <4>2 DEF ClientInv
            <4>3. CASE c = r[1] /\ Hear(r) /\ step' = [step EXCEPT ![r[1]] = @ + 1]
                <5>1. step'[c] = step[c] + 1
                    BY <4>3 DEF ClientInv
                <5>2. r[2] = step[c]
                    BY <4>3 DEF Hear, Awaiting
                <5> QED BY <1>4, <2>2, <2>4, <4>3, <5>1, <5>2
            <4> QED BY <2>1, <4>1, <4>2, <4>3
        <3>2. issued[c][i] # {}
            BY <3>1 DEF IssueInv
        <3> QED BY <2>4, <3>2, AcceptIssues
    <2> QED BY <2>3, <2>4
<1>5. ASSUME NEW c \in Clients, NEW i \in DOMAIN script[c]
      PROVE  LET body == script[c][i]
             IN  /\ body.event_id # NoId => issued'[c][i] \subseteq {body.event_id}
                 /\ body.event_id = NoId => issued'[c][i] \cap GivenIds = {}
                 /\ \A id \in issued'[c][i] : id \in serverTimed' <=> body.occurred_at = NoTime
    <2> DEFINE body == script[c][i]
    <2>1. /\ body.event_id # NoId => issued[c][i] \subseteq {body.event_id}
          /\ body.event_id = NoId => issued[c][i] \cap GivenIds = {}
          /\ \A id \in issued[c][i] : id \in serverTimed <=> body.occurred_at = NoTime
        BY DEF IssueInv
    <2>2. \A id \in issued[c][i] : id \in serverTimed' <=> body.occurred_at = NoTime
        BY <2>1, AcceptIssues
    <2>3. CASE c = r[1] /\ i = r[2]
        <3>1. issued'[c][i] = issued[c][i] \cup {IdOf(r)} /\ body = Body(r)
            BY <1>3, <2>3, AcceptIssues
        <3>2. /\ body.event_id # NoId => IdOf(r) = body.event_id
              /\ body.event_id = NoId => IdOf(r) \notin GivenIds
            BY <1>2, <3>1, ChosenId DEF FreshIds
        <3>3. IdOf(r) \in serverTimed' <=> body.occurred_at = NoTime
            BY <3>1, AcceptIssues
        <3> QED BY <2>1, <2>2, <3>1, <3>2, <3>3
    <2>4. CASE ~(c = r[1] /\ i = r[2])
        <3>1. issued'[c][i] = issued[c][i]
            BY ZenonT(30), <2>4, AcceptIssues
        <3> QED BY <2>1, <2>2, <3>1
    <2> QED BY <2>3, <2>4
<1>6. ASSUME NEW c \in Clients, NEW i \in DOMAIN script[c]
      PROVE  issued'[c][i] \subseteq issued[c][i] \cup {IdOf(r)}
    BY <1>1
<1>7. ASSUME NEW c \in Clients, NEW d \in Clients,
             NEW i \in DOMAIN script[c], NEW j \in DOMAIN script[d],
             NEW id, id \in issued'[c][i], id \in issued'[d][j]
      PROVE  c = d /\ i = j
    <2>1. CASE id = IdOf(r)
        <3>1. /\ id \in issued[c][i] \/ (c = r[1] /\ i = r[2])
              /\ id \in issued[d][j] \/ (d = r[1] /\ j = r[2])
            BY <1>7, AcceptIssues
        <3>2. (c = r[1] /\ i = r[2]) /\ (d = r[1] /\ j = r[2])
            BY <1>2, <2>1, <3>1, OwnId
        <3> QED BY <3>2
    <2>2. CASE id # IdOf(r)
        <3>1. id \in issued[c][i] /\ id \in issued[d][j]
            BY <1>6, <1>7, <2>2
        <3> QED BY <3>1 DEF IssueInv
    <2> QED BY <2>1, <2>2
<1>8. ASSUME NEW id \in serverTimed'
      PROVE  \E c \in Clients : \E i \in DOMAIN script[c] : id \in issued'[c][i]
    <2>1. CASE id = IdOf(r)
        BY <1>3, <2>1, AcceptIssues
    <2>2. CASE id # IdOf(r)
        <3>1. id \in serverTimed
            BY <1>2, <1>8, <2>2
        <3>2. PICK c \in Clients : \E i \in DOMAIN script[c] : id \in issued[c][i]
            BY <3>1 DEF IssueInv
        <3>3. PICK i \in DOMAIN script[c] : id \in issued[c][i]
            BY <3>2
        <3>4. id \in issued'[c][i]
            BY <1>1, <3>3
        <3> QED BY <3>4
    <2> QED BY <2>1, <2>2
<1> QED BY <1>2, <1>4, <1>5, <1>7, <1>8, AcceptIssues DEF IssueInv

(* The message joins the end of its partition's queue.                     *)
LEMMA AcceptFlow ==
    ASSUME ClientInv, FlowTyped, now \in Nat, NEW r \in pending, Accept(r)
    PROVE  /\ FlowTyped'
           /\ PlaceOf(r) \in Partitions /\ Encodable(MessageOf(r))
           /\ \A q \in Partitions :
                 /\ Flow(q)' = IF q = PlaceOf(r) THEN Flow(q) \cup {MessageOf(r)} ELSE Flow(q)
                 /\ \A x, y : Ahead(x, y, q)' <=>
                       \/ Ahead(x, y, q)
                       \/ q = PlaceOf(r) /\ x \in Flow(q) /\ y = MessageOf(r)
                 /\ \A x, y : \/ Foremost(x, y, q)
                              \/ x \in Flow(q) /\ y \notin Flow(q)
                              => Foremost(x, y, q)'
<1> DEFINE e == MessageOf(r)
           p == PlaceOf(r)
<1>1. /\ Body(r).event_id # NoId \/ FreshIds # {}
      /\ Valid(Body(r)) /\ Encodable(MessageOf(r))
      /\ queue' = [queue EXCEPT ![p] = Append(@, e)] /\ topic' = topic
    BY AcceptSteps
<1>2. Body(r) \in Bodies /\ IdOf(r) \in EventIds
    BY <1>1, RequestIsPosted, ChosenId
<1>3. TimeOf(r) \in Int
    BY <1>2 DEF TimeOf, Bodies
<1>4. e \in EventRecords /\ Encodable(e)
    BY <1>1, <1>2, <1>3, RecordTyped DEF MessageOf
<1>5. p \in Partitions
    BY <1>1, <1>2, KeyIsHashed DEF PlaceOf
<1> HIDE DEF e, p
<1>6. queue[p] \in Seq(EventRecords)
    BY <1>5 DEF FlowTyped
<1>7. /\ Append(queue[p], e) \in Seq(EventRecords)
      /\ Range(Append(queue[p], e)) = Range(queue[p]) \cup {e}
      /\ \A x, y : Precedes(x, y, Append(queue[p], e))
                       <=> Precedes(x, y, queue[p]) \/ (x \in Range(queue[p]) /\ y = e)
    BY <1>4, <1>6, AppendOrder
<1>8. /\ queue'[p] = Append(queue[p], e)
      /\ \A q \in Partitions \ {p} : queue'[q] = queue[q]
      /\ FlowTyped'
    BY <1>1, <1>5, <1>7 DEF FlowTyped
<1>9. ASSUME NEW q \in Partitions
      PROVE  /\ Flow(q)' = IF q = p THEN Flow(q) \cup {e} ELSE Flow(q)
             /\ \A x, y : Ahead(x, y, q)' <=> Ahead(x, y, q) \/ (q = p /\ x \in Flow(q) /\ y = e)
    <2>1. CASE q = p
        <3>1. Flow(q)' = Flow(q) \cup {e}
            BY <1>1, <1>7, <1>8, <2>1 DEF Flow
        <3>2. ASSUME NEW x, NEW y
              PROVE  Ahead(x, y, q)' <=> Ahead(x, y, q) \/ (x \in Flow(q) /\ y = e)
            BY <1>1, <1>7, <1>8, <2>1 DEF Ahead, Flow
        <3> QED BY <2>1, <3>1, <3>2
    <2>2. CASE q # p
        BY <1>1, <1>8, <2>2 DEF Flow, Ahead
    <2> QED BY <2>1, <2>2
<1>10. ASSUME NEW q \in Partitions, NEW x, NEW y,
              Foremost(x, y, q) \/ (x \in Flow(q) /\ y \notin Flow(q))
       PROVE  Foremost(x, y, q)'
    <2>1. topic'[q] = topic[q] /\ (Leads(x, y, queue[q]) => Leads(x, y, queue'[q]))
        <3>1. CASE q = p
            BY <1>1, <1>4, <1>6, <1>8, <3>1, AppendLeads
        <3>2. CASE q # p
            BY <1>1, <1>8, <3>2
        <3> QED BY <3>1, <3>2
    <2>2. CASE Foremost(x, y, q)
        BY <2>1, <2>2 DEF Foremost
    <2>3. CASE x \in Flow(q) /\ y \notin Flow(q)
        <3>1. y \notin Range(topic[q]) /\ y \notin Range(queue[q])
            BY <2>3 DEF Flow
        <3>2. Leads(x, y, topic[q]) \/ Leads(x, y, queue[q])
            BY <2>3, <3>1, AbsentIsLed DEF Flow
        <3> QED BY <2>1, <3>1, <3>2 DEF Foremost
    <2> QED BY <1>10, <2>2, <2>3
<1> QED BY <1>4, <1>5, <1>8, <1>9, <1>10 DEF e, p

LEMMA MessageFields ==
    ASSUME NEW r
    PROVE  /\ MessageOf(r).event_id = IdOf(r) /\ MessageOf(r).occurred_at = TimeOf(r)
           /\ MessageOf(r) = Envelope(Body(r), MessageOf(r).event_id, MessageOf(r).occurred_at)
BY DEF MessageOf, Envelope

(* What was seen before has the ids it had.                                *)
LEMMA SeenIds ==
    ASSUME ClientInv, IssueInv, OriginInv, NEW r \in pending, Accept(r),
           NEW e, (\E q \in Partitions : e \in Flow(q)) \/ e \in Seen
    PROVE  /\ e.event_id \in serverTimed' <=> e.event_id \in serverTimed
           /\ \A c \in Clients : \A i \in DOMAIN script[c] :
                 e.event_id \in issued'[c][i] <=> e.event_id \in issued[c][i]
<1>1. PICK d \in Clients : \E j \in DOMAIN script[d] : MadeOf(e, d, j)
    BY DEF OriginInv
<1>2. PICK j \in DOMAIN script[d] : e.event_id \in issued[d][j]
    BY <1>1 DEF MadeOf
<1>3. e.event_id \in serverTimed' <=> e.event_id \in serverTimed
    BY <1>2, AcceptIssues
<1>4. ASSUME NEW c \in Clients, NEW i \in DOMAIN script[c]
      PROVE  e.event_id \in issued'[c][i] <=> e.event_id \in issued[c][i]
    <2>1. issued'[c][i] = IF c = r[1] /\ i = r[2] THEN issued[c][i] \cup {IdOf(r)}
                          ELSE issued[c][i]
        BY ZenonT(30), AcceptIssues
    <2>2. CASE e.event_id # IdOf(r)
        BY <2>1, <2>2
    <2>3. CASE e.event_id = IdOf(r)
        <3>1. d = r[1] /\ j = r[2]
            BY <1>2, <2>3, OwnId, AcceptSteps
        <3>2. CASE c = r[1] /\ i = r[2]
            BY <1>2, <2>1, <3>1, <3>2
        <3>3. CASE ~(c = r[1] /\ i = r[2])
            BY <2>1, <3>3
        <3> QED BY <3>2, <3>3
    <2> QED BY <2>2, <2>3
<1> QED BY <1>3, <1>4

LEMMA AcceptKeepsOrigins ==
    ASSUME ClientInv, IssueInv, OriginInv, now \in Nat, NEW r \in pending, Accept(r)
    PROVE  OriginInv'
<1>1. FlowTyped
    BY DEF OriginInv, FlowTyped
<1>2. /\ script' = script /\ Seen' = Seen /\ Valid(Body(r))
      /\ Body(r).occurred_at = NoTime => TimeOf(r) \in Dates
    BY AcceptSteps DEF Seen, Handled, tables
<1>3. /\ r[1] \in Clients /\ r[2] \in DOMAIN script[r[1]]
      /\ Body(r) = script[r[1]][r[2]]
    BY RequestIsPosted
<1>4. ASSUME NEW x, NEW c, NEW i, MadeOf(x, c, i) PROVE MadeOf(x, c, i)'
    <2>1. c \in Clients /\ i \in DOMAIN script[c] /\ x.event_id \in issued[c][i]
        BY <1>4 DEF MadeOf
    <2>2. x.event_id \in issued'[c][i]
        BY <2>1, AcceptIssues
    <2> QED BY <1>2, <1>4, <2>2 DEF MadeOf
<1>5. ASSUME NEW x, x = MessageOf(r) PROVE MadeOf(x, r[1], r[2])'
    <2>1. x.event_id = IdOf(r) /\ x = Envelope(Body(r), x.event_id, x.occurred_at)
        BY <1>5, MessageFields
    <2>2. x.event_id \in issued'[r[1]][r[2]]
        BY <1>3, <2>1, AcceptIssues
    <2>3. IF Body(r).occurred_at = NoTime THEN x.occurred_at \in Dates
          ELSE x.occurred_at = Body(r).occurred_at
        <3>1. x.occurred_at = TimeOf(r)
            BY <1>5, MessageFields
        <3> QED BY <1>2, <3>1 DEF TimeOf
    <2> QED BY <1>2, <1>3, <2>1, <2>2, <2>3 DEF MadeOf
<1>6. ASSUME NEW q \in Partitions, NEW x \in Flow(q)'
      PROVE  \E c \in Clients : \E i \in DOMAIN script'[c] :
                MadeOf(x, c, i)' /\ q = PartitionOf[RoutingKey(script'[c][i], x.event_id)]
    <2>1. CASE x \in Flow(q)
        <3>1. PICK c \in Clients : \E i \in DOMAIN script[c] :
                MadeOf(x, c, i) /\ q = PartitionOf[RoutingKey(script[c][i], x.event_id)]
            BY <2>1 DEF OriginInv
        <3> QED BY <1>2, <1>4, <3>1
    <2>2. CASE x = MessageOf(r) /\ q = PlaceOf(r)
        <3>1. q = PartitionOf[RoutingKey(script'[r[1]][r[2]], x.event_id)]
            BY <1>2, <1>3, <2>2 DEF PlaceOf, RoutingKey
        <3>2. MadeOf(x, r[1], r[2])'
            BY <1>5, <2>2
        <3> QED BY <1>2, <1>3, <3>1, <3>2
    <2> QED BY <1>1, <1>6, <2>1, <2>2, AcceptFlow
<1>7. ASSUME NEW x \in Seen'
      PROVE  \E c \in Clients : \E i \in DOMAIN script'[c] : MadeOf(x, c, i)'
    BY <1>2, <1>4 DEF OriginInv
<1>8. FlowTyped' /\ \A q \in Partitions : \A x \in Flow(q)' : Encodable(x)
    <2>1. Encodable(MessageOf(r))
        BY AcceptSteps
    <2>2. \A q \in Partitions : \A x \in Flow(q)' : x \in Flow(q) \/ x = MessageOf(r)
        BY <1>1, AcceptFlow
    <2> QED BY <1>1, <2>1, <2>2, AcceptFlow DEF OriginInv
<1>9. Seen' \subseteq EventRecords /\ \A x : Encodable(x)' <=> Encodable(x)
    BY <1>2 DEF OriginInv, Encodable
<1> QED BY <1>6, <1>7, <1>8, <1>9 DEF OriginInv, FlowTyped

LEMMA AcceptKeepsEvents ==
    ASSUME ClientInv, IssueInv, OriginInv, KeptInv, now \in Nat, NEW r \in pending, Accept(r)
    PROVE  KeptInv'
<1>1. FlowTyped
    BY DEF OriginInv, FlowTyped
<1>2. script' = script /\ processed' = processed /\ Missed' = Missed
    BY AcceptSteps DEF tables, Missed
<1>3. ASSUME NEW c \in Clients, NEW i \in DOMAIN script[c], NEW id \in issued'[c][i]
      PROVE  \/ id \in processed \cup Missed
             \/ \E q \in Partitions : \E e \in Flow(q)' : e.event_id = id
             \/ ~RecordableBody(script[c][i])
    <2>1. CASE id \in issued[c][i]
        <3>1. \/ id \in processed \cup Missed
              \/ \E q \in Partitions : \E e \in Flow(q) : e.event_id = id
              \/ ~RecordableBody(script[c][i])
            BY <2>1 DEF KeptInv
        <3> QED BY <1>1, <3>1, AcceptFlow
    <2>2. CASE id = IdOf(r)
        <3>1. \E q \in Partitions : q = PlaceOf(r) /\ MessageOf(r) \in Flow(q)'
            BY <1>1, AcceptFlow
        <3> QED BY <2>2, <3>1, MessageFields
    <2>3. issued'[c][i] = IF c = r[1] /\ i = r[2] THEN issued[c][i] \cup {IdOf(r)} ELSE issued[c][i]
        BY AcceptIssues
    <2> QED BY <1>3, <2>1, <2>2, <2>3
<1> QED BY <1>2, <1>3 DEF KeptInv, RecordableBody

LEMMA AcceptKeepsTimes ==
    ASSUME ClientInv, IssueInv, OriginInv, TimeInv, NEW r \in pending, Accept(r)
    PROVE  TimeInv'
<1>0. PICK e, p : e = MessageOf(r) /\ p = PlaceOf(r)
    OBVIOUS
<1>1. FlowTyped /\ now \in Nat
    BY DEF OriginInv, FlowTyped, TimeInv
<1>2. now' = now + 1 /\ Seen' = Seen
    BY AcceptSteps DEF tables, Handled, Seen
<1>3. /\ \A q \in Partitions : \A x \in Flow(q) : ByServer(x)' <=> ByServer(x)
      /\ \A x \in Seen : ByServer(x)' <=> ByServer(x)
    BY SeenIds DEF ByServer
<1>4. ByServer(e)' => e.occurred_at = now + 1
    BY <1>0, AcceptIssues, MessageFields DEF ByServer, TimeOf
<1>5. \A q \in Partitions :
          /\ Flow(q)' = IF q = p THEN Flow(q) \cup {e} ELSE Flow(q)
          /\ \A x, y : Ahead(x, y, q)' <=> Ahead(x, y, q) \/ (q = p /\ x \in Flow(q) /\ y = e)
    BY <1>0, <1>1, AcceptFlow
<1>6. /\ \A q \in Partitions : \A x \in Flow(q) : x \in EventRecords
      /\ \A x \in Seen : x \in EventRecords
    <2>1. \A q \in Partitions : queue[q] \in Seq(EventRecords) /\ topic[q] \in Seq(EventRecords)
        BY <1>1 DEF FlowTyped
    <2> QED BY <2>1 DEF OriginInv, Flow, Range
<1>7. /\ \A q \in Partitions : \A x \in Flow(q) :
            ByServer(x)' => x.occurred_at \in Int /\ x.occurred_at < now + 1
      /\ \A x \in Seen : ByServer(x)' => x.occurred_at \in Int /\ x.occurred_at < now + 1
    <2>1. \A x \in EventRecords : x.occurred_at \in Int
        BY DEF EventRecords
    <2> QED BY <1>1, <1>3, <1>6, <2>1 DEF TimeInv
<1>8. ASSUME NEW q \in Partitions, NEW x \in Flow(q)', ByServer(x)'
      PROVE  x.occurred_at <= now + 1
    <2>1. x \in Flow(q) \/ x = e
        BY <1>5, <1>8
    <2> QED BY <1>1, <1>4, <1>7, <1>8, <2>1
<1>9. ASSUME NEW x \in Seen, ByServer(x)' PROVE x.occurred_at <= now + 1
    BY <1>1, <1>7, <1>9
<1>10. ASSUME NEW q \in Partitions, NEW x \in Flow(q)', NEW y \in Flow(q)',
              Ahead(x, y, q)', ByServer(x)', ByServer(y)'
       PROVE  x.occurred_at < y.occurred_at
    <2>1. CASE Ahead(x, y, q)
        <3>1. x \in Flow(q) /\ y \in Flow(q)
            BY <2>1 DEF Ahead, Flow, Precedes, Range
        <3> QED BY <1>3, <1>10, <2>1, <3>1 DEF TimeInv
    <2>2. CASE x \in Flow(q) /\ y = e
        BY <1>4, <1>7, <1>10, <2>2
    <2> QED BY <1>5, <1>10, <2>1, <2>2
<1>11. ASSUME NEW x \in Seen, NEW q \in Partitions, NEW y \in Flow(q)',
              AboutProduct(x), q = PartitionOf[x.product_id], ByServer(x)', ByServer(y)'
       PROVE  x.occurred_at < y.occurred_at
    <2>1. CASE y \in Flow(q)
        BY <1>3, <1>11, <2>1 DEF TimeInv
    <2>2. CASE y = e
        BY <1>4, <1>7, <1>11, <2>2
    <2> QED BY <1>5, <1>11, <2>1, <2>2
<1>12. \A x : AboutProduct(x)' <=> AboutProduct(x)
    BY DEF AboutProduct
<1> QED BY <1>1, <1>2, <1>8, <1>9, <1>10, <1>11, <1>12 DEF TimeInv

LEMMA AcceptKeepsOrder ==
    ASSUME ClientInv, IssueInv, OriginInv, RecordInv, KeptInv, OrderInv, now \in Nat,
           NEW r \in pending, Accept(r)
    PROVE  OrderInv'
<1>0. PICK e, p : e = MessageOf(r) /\ p = PlaceOf(r)
    OBVIOUS
<1>1. FlowTyped
    BY DEF OriginInv, FlowTyped
<1>2. script' = script /\ Handled' = Handled /\ Seen' = Seen /\ Missed' = Missed
    BY AcceptSteps DEF tables, Handled, Seen, Missed
<1>3. \A q \in Partitions :
          /\ Flow(q)' = IF q = p THEN Flow(q) \cup {e} ELSE Flow(q)
          /\ \A x, y : Foremost(x, y, q) \/ (x \in Flow(q) /\ y \notin Flow(q))
                          => Foremost(x, y, q)'
    BY <1>0, <1>1, AcceptFlow
<1>4. e.event_id = IdOf(r)
    BY <1>0, MessageFields
<1>5. /\ r[1] \in Clients /\ r[2] \in DOMAIN script[r[1]] /\ r[2] <= step[r[1]]
      /\ Body(r) = script[r[1]][r[2]]
    BY RequestIsPosted DEF ClientInv
<1>6. p = PartitionOf[RoutingKey(Body(r), IdOf(r))]
    BY <1>0 DEF PlaceOf
<1> SUFFICES ASSUME NEW c \in Clients,
                    NEW i \in DOMAIN script[c], NEW j \in DOMAIN script[c], Before(c, i, j)
             PROVE  /\ \A q \in Partitions : \A y \in Flow(q)' : y.event_id \in issued'[c][j] =>
                          \/ Settled(c, i)'
                          \/ \E x \in Flow(q)' : x.event_id \in issued'[c][i] /\ Foremost(x, y, q)'
                    /\ \A y \in Seen : y.event_id \in issued'[c][j] => Settled(c, i)'
    BY <1>2 DEF OrderInv, Before
<1>7. /\ issued[c][i] \subseteq issued'[c][i]
      /\ \A y \in Seen : y.event_id \in issued'[c][j] => y.event_id \in issued[c][j]
      /\ \A q \in Partitions : \A y \in Flow(q) :
            y.event_id \in issued'[c][j] => y.event_id \in issued[c][j]
    BY AcceptIssues, SeenIds
<1>8. Settled(c, i) => Settled(c, i)'
    BY <1>2, <1>7, SettledStays
<1>9. ASSUME NEW y \in Seen, y.event_id \in issued'[c][j]
      PROVE  Settled(c, i)'
    BY <1>7, <1>8, <1>9 DEF OrderInv
<1>10. ASSUME NEW q \in Partitions, NEW y \in Flow(q)', y.event_id \in issued'[c][j], y \in Flow(q)
       PROVE  \/ Settled(c, i)'
              \/ \E x \in Flow(q)' : x.event_id \in issued'[c][i] /\ Foremost(x, y, q)'
    <2>1. \/ Settled(c, i)
          \/ \E x \in Flow(q) : x.event_id \in issued[c][i] /\ Foremost(x, y, q)
        BY <1>7, <1>10 DEF OrderInv
    <2> QED BY <1>3, <1>7, <1>8, <2>1
<1>11. ASSUME e.event_id \in issued'[c][j]
       PROVE  Settled(c, i) \/ \E x \in Flow(p) : x.event_id \in issued'[c][i]
    <2>1. c = r[1] /\ j = r[2]
        <3>1. IdOf(r) \in issued[c][j] \/ (c = r[1] /\ j = r[2])
            BY <1>4, <1>11, AcceptIssues
        <3> QED BY <3>1, OwnId, AcceptSteps
    <2>2. i < step[c]
        <3>1. script[c] \in Seq(Bodies)
            BY BodiesArePosted DEF ClientInv
        <3>2. i \in Int /\ j \in Int /\ step[c] \in Int
            BY <3>1 DEF ClientInv
        <3> QED BY <1>5, <2>1, <3>2 DEF Before
    <2>3. PICK id : id \in issued[c][i]
        BY <2>2 DEF IssueInv
    <2>4. CASE id \in processed \cup Missed \/ ~RecordableBody(script[c][i])
        BY <2>3, <2>4 DEF RecordInv, Settled
    <2>5. CASE \E q \in Partitions : \E x \in Flow(q) : x.event_id = id
        <3>1. PICK q \in Partitions : \E x \in Flow(q) : x.event_id = id
            BY <2>5
        <3>2. PICK x \in Flow(q) : x.event_id = id
            BY <3>1
        <3>3. PICK d \in Clients : \E k \in DOMAIN script[d] :
                MadeOf(x, d, k) /\ q = PartitionOf[RoutingKey(script[d][k], x.event_id)]
            BY DEF OriginInv
        <3>4. PICK k \in DOMAIN script[d] :
                MadeOf(x, d, k) /\ q = PartitionOf[RoutingKey(script[d][k], x.event_id)]
            BY <3>3
        <3>5. d = c /\ k = i
            <4>1. id \in issued[d][k]
                BY <3>2, <3>4 DEF MadeOf
            <4>2. issued[d][k] \cap issued[c][i] # {}
                BY <2>3, <4>1
            <4> QED BY <4>2 DEF IssueInv
        <3>6. q = p
            BY <1>5, <1>6, <2>1, <3>4, <3>5 DEF RoutingKey, Before, OrderEventTypes
        <3> QED BY <1>7, <2>3, <3>2, <3>6
    <2> QED BY <2>3, <2>4, <2>5 DEF KeptInv
<1>12. ASSUME NEW q \in Partitions, NEW y \in Flow(q)',
              y.event_id \in issued'[c][j], y \notin Flow(q)
       PROVE  \/ Settled(c, i)'
              \/ \E x \in Flow(q)' : x.event_id \in issued'[c][i] /\ Foremost(x, y, q)'
    <2>1. y = e /\ q = p
        BY <1>3, <1>12
    <2>2. CASE Settled(c, i)
        BY <1>8, <2>2
    <2>3. CASE \E x \in Flow(p) : x.event_id \in issued'[c][i]
        <3>1. PICK x \in Flow(q) : x.event_id \in issued'[c][i]
            BY <2>1, <2>3
        <3>2. x \in Flow(q)' /\ Foremost(x, y, q)'
            BY <1>3, <1>12, <2>1
        <3> QED BY <3>1, <3>2
    <2> QED BY <1>11, <1>12, <2>1, <2>2, <2>3
<1> QED BY <1>9, <1>10, <1>12

LEMMA AcceptKeeps ==
    ASSUME IInv, NEW r \in pending, Accept(r)
    PROVE  Facts'
<1>1. now \in Nat
    BY DEF IInv, Facts, TimeInv
<1>2. RecordInv' /\ RowInv'
    BY AcceptSteps DEF IInv, Facts, RecordInv, RowInv, Handled, tables
<1> QED BY <1>1, <1>2, AcceptKeepsIds, AcceptKeepsOrigins, AcceptKeepsEvents, AcceptKeepsTimes,
           AcceptKeepsOrder DEF IInv, Facts

-----------------------------------------------------------------------------
(* A message is taken from the topic, or comes again *)

(* The head of the topic leaves it.                                        *)
LEMMA ConsumeFlow ==
    ASSUME FlowTyped, NEW q \in Partitions, Consume(q), NEW e, e = Head(topic[q])
    PROVE  /\ FlowTyped' /\ e \in EventRecords /\ e \in Flow(q)
           /\ \A p \in Partitions : Flow(p)' \subseteq Flow(p)
           /\ \A p \in Partitions : \A x \in Flow(p) : x \in Flow(p)' \/ (p = q /\ x = e)
           /\ \A p \in Partitions : \A x, y :
                 /\ Ahead(x, y, p)' => Ahead(x, y, p)
                 /\ Foremost(x, y, p) => Foremost(x, y, p)' \/ (p = q /\ x = e)
           /\ \A y \in Flow(q)' : Ahead(e, y, q)
           /\ \A x : ~Foremost(x, e, q)
<1>1. /\ topic' = [topic EXCEPT ![q] = Tail(@)] /\ queue' = queue
      /\ topic[q] # <<>> /\ topic[q] \in Seq(EventRecords)
    BY DEF Consume, Handle, Pass, Skip, GoPast, FlowTyped
<1>2. /\ Tail(topic[q]) \in Seq(EventRecords) /\ e \in EventRecords
      /\ Range(topic[q]) = {e} \cup Range(Tail(topic[q]))
      /\ \A x, y : Precedes(x, y, topic[q])
                       <=> Precedes(x, y, Tail(topic[q])) \/ (x = e /\ y \in Range(Tail(topic[q])))
    BY <1>1, TailOrder
<1>3. \A x, y : Leads(x, y, topic[q]) <=> y # e /\ (x = e \/ Leads(x, y, Tail(topic[q])))
    BY <1>1, TailLeads
<1>4. /\ topic'[q] = Tail(topic[q])
      /\ \A p \in Partitions \ {q} : topic'[p] = topic[p]
      /\ FlowTyped'
    BY <1>1, <1>2 DEF FlowTyped
<1>5. ASSUME NEW p \in Partitions
      PROVE  /\ Flow(p)' \subseteq Flow(p)
             /\ \A x \in Flow(p) : x \in Flow(p)' \/ (p = q /\ x = e)
             /\ \A x, y : /\ Ahead(x, y, p)' => Ahead(x, y, p)
                          /\ Foremost(x, y, p) => Foremost(x, y, p)' \/ (p = q /\ x = e)
    <2>1. CASE p = q
        <3>1. Flow(p) = Flow(p)' \cup {e}
            BY <1>1, <1>2, <1>4, <2>1 DEF Flow
        <3>2. ASSUME NEW x, NEW y, Ahead(x, y, p)' PROVE Ahead(x, y, p)
            BY <1>1, <1>2, <1>4, <2>1, <3>2 DEF Ahead
        <3>3. ASSUME NEW x, NEW y, Foremost(x, y, p), x # e PROVE Foremost(x, y, p)'
            BY <1>1, <1>2, <1>3, <1>4, <2>1, <3>3 DEF Foremost
        <3> QED BY <2>1, <3>1, <3>2, <3>3
    <2>2. CASE p # q
        BY <1>1, <1>4, <2>2 DEF Flow, Ahead, Foremost
    <2> QED BY <2>1, <2>2
<1>6. ASSUME NEW y \in Flow(q)' PROVE Ahead(e, y, q)
    BY <1>1, <1>2, <1>4 DEF Flow, Ahead
<1>7. ASSUME NEW x PROVE ~Foremost(x, e, q)
    BY <1>2, <1>3 DEF Foremost
<1>8. e \in Flow(q)
    BY <1>2 DEF Flow
<1> QED BY <1>2, <1>4, <1>5, <1>6, <1>7, <1>8

(* A row that an event writes gets the time of the event, and a product    *)
(* event writes rows of its product.                                       *)
WrittenBy(e, k) ==
    /\ inventory'[k].last_event_ts = e.occurred_at
    /\ e.event_type \in OrderEventTypes \/ e.product_id = k[1]

(* The handling of an event is recorded with its outcome.                  *)
HandledAs(e, outcome) ==
    /\ e.event_id \notin processed /\ processed' = processed \cup {e.event_id}
    /\ history' = history \cup {[event |-> e, outcome |-> outcome]}
    /\ \A k \in Keys : \/ inventory'[k] = inventory[k]
                       \/ outcome = "APPLIED" /\ WrittenBy(e, k)
    /\ outcome = "STALE" /\ e.event_type \notin OrderEventTypes =>
          \E k \in Keys : /\ inventory[k].last_event_ts # 0
                          /\ e.occurred_at < inventory[k].last_event_ts
                          /\ e.product_id = k[1] /\ e.product_id # NoText

LEMMA ApplyHandles ==
    ASSUME NEW e \in EventRecords, Consumer!Apply(e)
    PROVE  HandledAs(e, "APPLIED")
<1>1. /\ Consumer!ProcessAction(Consumer!store, processed, e) = "applied"
      /\ inventory' = Consumer!UpdatedInventory(Consumer!store, e)
      /\ processed' = processed \cup {e.event_id}
      /\ history' = history \cup {[event |-> e, outcome |-> "APPLIED"]}
    BY DEF Consumer!Apply, Consumer!Record
<1>2. e.event_id \notin processed /\ Consumer!WellFormed(e)
    BY <1>1 DEF Consumer!ProcessAction
<1>3. e.event_type \in EventTypes
    BY <1>2 DEF Consumer!WellFormed, Consumer!EventTypes, Consumer!ProductEventTypes,
                Consumer!OrderEventTypes, EventTypes, ProductEventTypes, OrderEventTypes
<1>4. ASSUME NEW k \in Keys
      PROVE  inventory'[k] = inventory[k] \/ WrittenBy(e, k)
    <2>1. k \in Consumer!Keys
        BY DEF Keys, Consumer!Keys
    <2>2. inventory'[k] = IF k \in Consumer!TouchedKeys(Consumer!store, e)
                          THEN Consumer!UpdatedRow(Consumer!store, e, k)
                          ELSE Consumer!store.inventory[k]
        BY <1>1, <2>1 DEF Consumer!UpdatedInventory
    <2>3. CASE k \notin Consumer!TouchedKeys(Consumer!store, e)
        BY <2>2, <2>3 DEF Consumer!store
    <2>4. CASE k \in Consumer!TouchedKeys(Consumer!store, e)
        <3>1. inventory'[k].last_event_ts = e.occurred_at
            BY <2>2, <2>4 DEF Consumer!UpdatedRow
        <3>2. e.event_type \in OrderEventTypes \/ e.product_id = k[1]
            BY <1>3, <2>4 DEF Consumer!TouchedKeys, Consumer!ProductEventTypes, EventTypes,
                              ProductEventTypes, OrderEventTypes
        <3> QED BY <3>1, <3>2 DEF WrittenBy
    <2> QED BY <2>3, <2>4
<1> QED BY <1>1, <1>2, <1>4 DEF HandledAs

LEMMA IgnoreHandles ==
    ASSUME NEW e \in EventRecords, Consumer!Ignore(e)
    PROVE  HandledAs(e, "STALE")
<1>1. /\ Consumer!ProcessAction(Consumer!store, processed, e) = "stale"
      /\ inventory' = inventory
      /\ processed' = processed \cup {e.event_id}
      /\ history' = history \cup {[event |-> e, outcome |-> "STALE"]}
    BY DEF Consumer!Ignore, Consumer!Record
<1>2. e.event_id \notin processed /\ Consumer!WellFormed(e) /\ Consumer!Stale(Consumer!store, e)
    BY <1>1 DEF Consumer!ProcessAction
<1>3. ASSUME e.event_type \notin OrderEventTypes
      PROVE  \E k \in Keys : /\ inventory[k].last_event_ts # 0
                             /\ e.occurred_at < inventory[k].last_event_ts
                             /\ e.product_id = k[1] /\ e.product_id # NoText
    <2>1. PICK k \in Consumer!TouchedKeys(Consumer!store, e) :
            Consumer!OlderThan(e, Consumer!store.inventory[k].last_event_ts)
        BY <1>2, <1>3 DEF Consumer!Stale, Consumer!OrderEventTypes, OrderEventTypes
    <2>2. inventory[k].last_event_ts # 0 /\ e.occurred_at < inventory[k].last_event_ts
        BY <2>1 DEF Consumer!OlderThan, Consumer!store
    <2>3. e.event_type \in ProductEventTypes \/ e.event_type = "PRODUCT_MOVED"
        BY <1>2, <1>3 DEF Consumer!WellFormed, Consumer!EventTypes, Consumer!ProductEventTypes,
                          Consumer!OrderEventTypes, ProductEventTypes, OrderEventTypes
    <2>4. CASE e.event_type \in ProductEventTypes
        <3>1. k = <<e.product_id, e.zone_id>> /\ e.product_id # NoText /\ e.zone_id # NoText
            BY <1>2, <2>1, <2>4 DEF Consumer!WellFormed, Consumer!TouchedKeys,
                                    Consumer!ProductEventTypes, ProductEventTypes
        <3>2. e.product_id \in Products /\ e.zone_id \in ZoneIds
            BY <3>1 DEF EventRecords
        <3> QED BY <2>2, <3>1, <3>2 DEF Keys
    <2>5. CASE e.event_type = "PRODUCT_MOVED"
        <3>1. /\ k \in {<<e.product_id, e.from_zone_id>>, <<e.product_id, e.to_zone_id>>}
              /\ e.product_id # NoText /\ e.from_zone_id # NoText /\ e.to_zone_id # NoText
            BY <1>2, <2>1, <2>5 DEF Consumer!WellFormed, Consumer!TouchedKeys,
                                    Consumer!ProductEventTypes
        <3>2. e.product_id \in Products /\ e.from_zone_id \in ZoneIds /\ e.to_zone_id \in ZoneIds
            BY <3>1 DEF EventRecords
        <3> QED BY <2>2, <3>1, <3>2 DEF Keys
    <2> QED BY <2>3, <2>4, <2>5
<1> QED BY <1>1, <1>2, <1>3 DEF HandledAs

LEMMA RejectHandles ==
    ASSUME NEW e \in EventRecords, Consumer!Reject(e)
    PROVE  HandledAs(e, "DLQ")
<1>1. /\ Consumer!ProcessAction(Consumer!store, processed, e) = "dlq"
      /\ inventory' = inventory
      /\ processed' = processed \cup {e.event_id}
      /\ history' = history \cup {[event |-> e, outcome |-> "DLQ"]}
    BY DEF Consumer!Reject, Consumer!Record
<1>2. e.event_id \notin processed
    BY <1>1 DEF Consumer!ProcessAction
<1> QED BY <1>1, <1>2 DEF HandledAs

LEMMA ProjectHandles ==
    ASSUME NEW e \in EventRecords, Project(e)
    PROVE  \E outcome \in {"APPLIED", "STALE", "DLQ"} : HandledAs(e, outcome)
<1>1. HandledAs(e, "APPLIED") \/ HandledAs(e, "STALE") \/ HandledAs(e, "DLQ")
    BY ApplyHandles, IgnoreHandles, RejectHandles DEF Project
<1> QED BY <1>1

(* What recording an event does to the histories and to the rows.          *)
LEMMA RecordedOnce ==
    ASSUME RecordInv, NEW e, NEW outcome, HandledAs(e, outcome)
    PROVE  /\ RecordInv'
           /\ history \subseteq history' /\ Handled' = Handled \cup {e}
           /\ processed \subseteq processed' /\ e.event_id \in processed'
<1> DEFINE new == [event |-> e, outcome |-> outcome]
<1>1. /\ e.event_id \notin processed /\ processed' = processed \cup {e.event_id}
      /\ history' = history \cup {new} /\ new.event = e
    BY DEF HandledAs
<1> HIDE DEF new
<1>2. Handled' = Handled \cup {e}
    BY <1>1 DEF Handled
<1>3. processed' = {x.event_id : x \in Handled'}
    BY <1>1, <1>2 DEF RecordInv
<1>4. \A h \in history : h.event.event_id \in processed
    BY DEF RecordInv, Handled
<1>5. ASSUME NEW g \in history', NEW h \in history', g.event.event_id = h.event.event_id
      PROVE  g = h
    <2>1. CASE g \in history /\ h \in history
        BY <1>5, <2>1 DEF RecordInv
    <2>2. CASE g = new /\ h = new
        BY <2>2
    <2>3. CASE (g \in history /\ h = new) \/ (g = new /\ h \in history)
        BY <1>1, <1>4, <1>5, <2>3
    <2> QED BY <1>1, <2>1, <2>2, <2>3
<1> QED BY <1>1, <1>2, <1>3, <1>5 DEF RecordInv

LEMMA RowsAreDated ==
    ASSUME RowInv, NEW e, NEW outcome, HandledAs(e, outcome)
    PROVE  RowInv'
<1> DEFINE new == [event |-> e, outcome |-> outcome]
<1>1. history' = history \cup {new}
    BY DEF HandledAs
<1>2. new.event = e /\ new.outcome = outcome
    OBVIOUS
<1> HIDE DEF new
<1>3. ASSUME NEW k \in Keys, inventory'[k].last_event_ts # 0
      PROVE  \E g \in history' :
                /\ g.outcome = "APPLIED"
                /\ g.event.occurred_at = inventory'[k].last_event_ts
                /\ g.event.event_type \in OrderEventTypes \/ g.event.product_id = k[1]
    <2>1. CASE inventory'[k] = inventory[k]
        <3>1. \E g \in history :
                /\ g.outcome = "APPLIED"
                /\ g.event.occurred_at = inventory[k].last_event_ts
                /\ g.event.event_type \in OrderEventTypes \/ g.event.product_id = k[1]
            BY <1>3, <2>1 DEF RowInv
        <3> QED BY <1>1, <2>1, <3>1
    <2>2. CASE inventory'[k] # inventory[k]
        <3>1. outcome = "APPLIED" /\ WrittenBy(e, k) /\ new \in history'
            BY <1>1, <2>2 DEF HandledAs
        <3> QED BY <1>2, <3>1 DEF WrittenBy
    <2> QED BY <2>1, <2>2
<1> QED BY <1>3 DEF RowInv

(* The loop records the message, knows it already, can never record it, or *)
(* skips it.                                                               *)
LEMMA ConsumeSteps ==
    ASSUME FlowTyped, NEW q \in Partitions, Consume(q), NEW e, e = Head(topic[q])
    PROVE  /\ UNCHANGED <<script, step, attempt, retries, pending, up, taskFailed, now, queue,
                          issued, serverTimed, lost>>
           /\ \/ /\ \E outcome \in {"APPLIED", "STALE", "DLQ"} : HandledAs(e, outcome)
                 /\ skipped' = skipped
              \/ e.event_id \in processed /\ UNCHANGED <<tables, skipped>>
              \/ ~Recordable(e) /\ UNCHANGED <<tables, skipped>>
              \/ UNCHANGED tables /\ skipped' = skipped \cup {e}
<1>1. e \in EventRecords
    BY ConsumeFlow
<1>2. UNCHANGED <<script, step, attempt, retries, pending, up, taskFailed, now, queue,
                  issued, serverTimed, lost>>
    BY DEF Consume, Handle, Pass, Skip, GoPast, client, notes
<1>3. CASE Handle(q)
    <2>1. skipped' = skipped /\ (Project(e) \/ (e.event_id \in processed /\ UNCHANGED tables))
        BY <1>3 DEF Handle
    <2>2. CASE Project(e)
        BY <1>1, <1>2, <2>1, <2>2, ProjectHandles
    <2>3. CASE e.event_id \in processed /\ UNCHANGED tables
        BY <1>2, <2>1, <2>3
    <2> QED BY <2>1, <2>2, <2>3
<1>4. CASE Pass(q)
    BY <1>2, <1>4 DEF Pass
<1>5. CASE Skip(q)
    BY <1>2, <1>5 DEF Skip
<1> QED BY <1>3, <1>4, <1>5 DEF Consume

LEMMA ConsumeRecords ==
    ASSUME FlowTyped, RecordInv, NEW q \in Partitions, Consume(q), NEW e, e = Head(topic[q])
    PROVE  /\ RecordInv'
           /\ history \subseteq history' /\ Handled \subseteq Handled'
           /\ Seen' \subseteq Seen \cup {e}
           /\ processed \subseteq processed' /\ Missed \subseteq Missed'
           /\ e.event_id \in processed' \cup Missed' \/ ~Recordable(e)
<1>1. lost' = lost
    BY ConsumeSteps
<1>2. CASE UNCHANGED tables
    <2>1. RecordInv' /\ UNCHANGED <<history, processed, Handled>>
        BY <1>2 DEF RecordInv, Handled, tables
    <2>2. CASE (e.event_id \in processed \/ ~Recordable(e)) /\ skipped' = skipped
        BY <1>1, <2>1, <2>2 DEF Seen, Missed
    <2>3. CASE skipped' = skipped \cup {e}
        BY <1>1, <2>1, <2>3 DEF Seen, Missed
    <2>4. CASE \E outcome : HandledAs(e, outcome)
        BY <2>1, <2>4 DEF HandledAs
    <2> QED BY <2>2, <2>3, <2>4, ConsumeSteps
<1>3. CASE (\E outcome : HandledAs(e, outcome)) /\ skipped' = skipped
    <2>1. PICK outcome : HandledAs(e, outcome)
        BY <1>3
    <2>2. /\ RecordInv' /\ history \subseteq history' /\ Handled' = Handled \cup {e}
          /\ processed \subseteq processed' /\ e.event_id \in processed'
        BY <2>1, RecordedOnce
    <2>3. Missed' = Missed
        BY <1>1, <1>3 DEF Missed
    <2> QED BY <1>3, <2>2, <2>3 DEF Seen
<1> QED BY <1>2, <1>3, ConsumeSteps

LEMMA ConsumeKeepsOrigins ==
    ASSUME OriginInv, RecordInv, NEW q \in Partitions, Consume(q)
    PROVE  OriginInv'
<1>0. PICK e : e = Head(topic[q])
    OBVIOUS
<1>1. FlowTyped
    BY DEF OriginInv, FlowTyped
<1>2. script' = script /\ issued' = issued
    BY <1>0, <1>1, ConsumeSteps
<1>3. \A x, c, i : MadeOf(x, c, i)' <=> MadeOf(x, c, i)
    BY <1>2 DEF MadeOf
<1>4. Seen' \subseteq Seen \cup {e}
    BY <1>0, <1>1, ConsumeRecords
<1>5. /\ FlowTyped' /\ e \in EventRecords /\ e \in Flow(q)
      /\ \A p \in Partitions : Flow(p)' \subseteq Flow(p)
    BY <1>0, <1>1, ConsumeFlow
<1>6. ASSUME NEW p \in Partitions, NEW x \in Flow(p)
      PROVE  \E c \in Clients : \E i \in DOMAIN script[c] :
                MadeOf(x, c, i) /\ p = PartitionOf[RoutingKey(script[c][i], x.event_id)]
    BY DEF OriginInv
<1>7. ASSUME NEW p \in Partitions, NEW x \in Flow(p)'
      PROVE  \E c \in Clients : \E i \in DOMAIN script'[c] :
                MadeOf(x, c, i)' /\ p = PartitionOf[RoutingKey(script'[c][i], x.event_id)]
    <2>1. x \in Flow(p)
        BY <1>5
    <2> QED BY <1>2, <1>3, <1>6, <2>1
<1>8. ASSUME NEW x \in Seen'
      PROVE  x \in EventRecords /\ \E c \in Clients : \E i \in DOMAIN script'[c] : MadeOf(x, c, i)'
    <2>1. CASE x \in Seen
        BY <1>2, <1>3, <2>1 DEF OriginInv
    <2>2. CASE x = e
        <3>1. \E c \in Clients : \E i \in DOMAIN script[c] : MadeOf(e, c, i)
            BY <1>5, <1>6
        <3> QED BY <1>2, <1>3, <1>5, <2>2, <3>1
    <2> QED BY <1>4, <2>1, <2>2
<1>9. \A p \in Partitions : \A x \in Flow(p)' : Encodable(x)'
    BY <1>5 DEF OriginInv, Encodable
<1> QED BY <1>5, <1>7, <1>8, <1>9 DEF OriginInv, FlowTyped

(* What the consumer can never record comes of a body that cannot be.      *)
LEMMA NeverRecordable ==
    ASSUME IssueInv, OriginInv, NEW q \in Partitions, NEW e \in Flow(q), ~Recordable(e),
           NEW c \in Clients, NEW i \in DOMAIN script[c], e.event_id \in issued[c][i]
    PROVE  ~RecordableBody(script[c][i])
<1>0. PICK d \in Clients : \E k \in DOMAIN script[d] : MadeOf(e, d, k)
    BY DEF OriginInv
<1>1. PICK k \in DOMAIN script[d] : MadeOf(e, d, k)
    BY <1>0
<1>2. d = c /\ k = i
    <2>1. e.event_id \in issued[d][k]
        BY <1>1 DEF MadeOf
    <2>2. issued[d][k] \cap issued[c][i] # {}
        BY <2>1
    <2> QED BY <2>2 DEF IssueInv
<1> DEFINE body == script[c][i]
<1>3. /\ body.event_id # NoId => issued[c][i] \subseteq {body.event_id}
      /\ body.event_id = NoId => issued[c][i] \cap GivenIds = {}
    BY DEF IssueInv
<1>4. IF body.occurred_at = NoTime THEN e.occurred_at \in Dates
      ELSE e.occurred_at = body.occurred_at
    BY <1>1, <1>2 DEF MadeOf
<1> HIDE DEF body
<1>5. CASE e.event_id \in BadIds
    <2>1. e.event_id = body.event_id
        BY <1>3, <1>5, NoIdIsNoId
    <2> QED BY <1>5, <2>1 DEF RecordableBody, body
<1>6. CASE e.occurred_at \notin Dates
    <2>1. body.occurred_at # NoTime /\ body.occurred_at \notin Dates
        BY <1>4, <1>6
    <2> QED BY <2>1 DEF RecordableBody, body
<1> QED BY <1>5, <1>6 DEF Recordable

LEMMA ConsumeKeepsEvents ==
    ASSUME IssueInv, OriginInv, RecordInv, KeptInv, NEW q \in Partitions, Consume(q)
    PROVE  KeptInv'
<1>0. PICK e : e = Head(topic[q])
    OBVIOUS
<1>1. FlowTyped
    BY DEF OriginInv, FlowTyped
<1>2. script' = script /\ issued' = issued
    BY <1>0, <1>1, ConsumeSteps
<1>3. /\ processed \subseteq processed' /\ Missed \subseteq Missed'
      /\ e.event_id \in processed' \cup Missed' \/ ~Recordable(e)
    BY <1>0, <1>1, ConsumeRecords
<1>4. /\ e \in Flow(q)
      /\ \A p \in Partitions : \A x \in Flow(p) : x \in Flow(p)' \/ (p = q /\ x = e)
    BY <1>0, <1>1, ConsumeFlow
<1>5. ASSUME NEW c \in Clients, NEW i \in DOMAIN script[c], NEW id \in issued[c][i]
      PROVE  \/ id \in processed' \cup Missed'
             \/ \E p \in Partitions : \E x \in Flow(p)' : x.event_id = id
             \/ ~RecordableBody(script[c][i])
    <2>1. \/ id \in processed \cup Missed
          \/ \E p \in Partitions : \E x \in Flow(p) : x.event_id = id
          \/ ~RecordableBody(script[c][i])
        BY DEF KeptInv
    <2>2. CASE id \in processed \cup Missed
        BY <1>3, <2>2
    <2>3. CASE \E p \in Partitions : \E x \in Flow(p) : x.event_id = id
        <3>1. PICK p \in Partitions : \E x \in Flow(p) : x.event_id = id
            BY <2>3
        <3>2. PICK x \in Flow(p) : x.event_id = id
            BY <3>1
        <3>3. CASE x = e
            <4>1. ~Recordable(e) => ~RecordableBody(script[c][i])
                BY <1>4, <3>2, <3>3, NeverRecordable
            <4> QED BY <1>3, <3>2, <3>3, <4>1
        <3>4. CASE x # e
            BY <1>4, <3>2, <3>4
        <3> QED BY <3>3, <3>4
    <2> QED BY <2>1, <2>2, <2>3
<1> QED BY <1>2, <1>5 DEF KeptInv, RecordableBody

LEMMA ConsumeKeepsOrder ==
    ASSUME IssueInv, OriginInv, RecordInv, OrderInv, NEW q \in Partitions, Consume(q)
    PROVE  OrderInv'
<1>0. PICK e : e = Head(topic[q])
    OBVIOUS
<1>1. FlowTyped
    BY DEF OriginInv, FlowTyped
<1>2. script' = script /\ issued' = issued
    BY <1>0, <1>1, ConsumeSteps
<1>3. /\ RecordInv' /\ Missed \subseteq Missed'
      /\ Handled \subseteq Handled' /\ Seen' \subseteq Seen \cup {e}
      /\ e.event_id \in processed' \cup Missed' \/ ~Recordable(e)
    BY <1>0, <1>1, ConsumeRecords
<1>4. /\ e \in Flow(q)
      /\ \A p \in Partitions : Flow(p)' \subseteq Flow(p)
      /\ \A p \in Partitions : \A x \in Flow(p) : x \in Flow(p)' \/ (p = q /\ x = e)
      /\ \A p \in Partitions : \A x, y :
            Foremost(x, y, p) => Foremost(x, y, p)' \/ (p = q /\ x = e)
      /\ \A x : ~Foremost(x, e, q)
    BY <1>0, <1>1, ConsumeFlow
<1>5. \A c, i : Settled(c, i) => Settled(c, i)'
    BY <1>2, <1>3, SettledStays
<1>6. ASSUME NEW c \in Clients,
             NEW i \in DOMAIN script[c], NEW j \in DOMAIN script[c], Before(c, i, j)
      PROVE  /\ \A p \in Partitions : \A y \in Flow(p)' : y.event_id \in issued[c][j] =>
                    \/ Settled(c, i)'
                    \/ \E x \in Flow(p)' : x.event_id \in issued[c][i] /\ Foremost(x, y, p)'
             /\ \A y \in Seen' : y.event_id \in issued[c][j] => Settled(c, i)'
    <2>1. ASSUME NEW p \in Partitions, NEW y \in Flow(p), y.event_id \in issued[c][j]
          PROVE  \/ Settled(c, i)
                 \/ \E x \in Flow(p) : x.event_id \in issued[c][i] /\ Foremost(x, y, p)
        BY <1>6, <2>1 DEF OrderInv
    <2>2. ASSUME e.event_id \in issued[c][i] PROVE Settled(c, i)'
        <3>1. ~Recordable(e) => ~RecordableBody(script[c][i])
            BY <1>4, <2>2, NeverRecordable
        <3>2. CASE e.event_id \in processed'
            <4>1. \E x \in Handled' : x.event_id = e.event_id
                BY <1>3, <3>2 DEF RecordInv
            <4> QED BY <1>2, <2>2, <4>1 DEF Settled
        <3>3. CASE e.event_id \in Missed'
            BY <1>2, <2>2, <3>3 DEF Settled
        <3>4. CASE ~RecordableBody(script[c][i])
            BY <1>2, <3>4 DEF Settled, RecordableBody
        <3> QED BY <1>3, <3>1, <3>2, <3>3, <3>4
    <2>3. ASSUME NEW p \in Partitions, NEW y \in Flow(p)', y.event_id \in issued[c][j]
          PROVE  \/ Settled(c, i)'
                 \/ \E x \in Flow(p)' : x.event_id \in issued[c][i] /\ Foremost(x, y, p)'
        <3>1. CASE Settled(c, i)
            BY <1>5, <3>1
        <3>2. CASE \E x \in Flow(p) : x.event_id \in issued[c][i] /\ Foremost(x, y, p)
            <4>1. PICK x \in Flow(p) : x.event_id \in issued[c][i] /\ Foremost(x, y, p)
                BY <3>2
            <4>2. CASE x = e
                BY <2>2, <4>1, <4>2
            <4>3. CASE x # e
                BY <1>4, <4>1, <4>3
            <4> QED BY <4>2, <4>3
        <3> QED BY <1>4, <2>1, <2>3, <3>1, <3>2
    <2>4. ASSUME NEW y \in Seen', y.event_id \in issued[c][j] PROVE Settled(c, i)'
        <3>1. CASE y \in Seen
            BY <1>5, <1>6, <2>4, <3>1 DEF OrderInv
        <3>2. CASE y = e
            BY <1>4, <1>5, <2>1, <2>4, <3>2
        <3> QED BY <1>3, <3>1, <3>2
    <2> QED BY <2>3, <2>4
<1>7. \A c, i, j : Before(c, i, j)' <=> Before(c, i, j)
    BY <1>2 DEF Before
<1> QED BY <1>2, <1>6, <1>7 DEF OrderInv

(* A message about a product comes through the partition of its product.   *)
LEMMA ProductPlace ==
    ASSUME OriginInv, NEW q \in Partitions, NEW e \in Flow(q), AboutProduct(e)
    PROVE  q = PartitionOf[e.product_id]
<1>1. PICK c \in Clients : \E i \in DOMAIN script[c] :
        MadeOf(e, c, i) /\ q = PartitionOf[RoutingKey(script[c][i], e.event_id)]
    BY DEF OriginInv
<1>2. PICK i \in DOMAIN script[c] :
        MadeOf(e, c, i) /\ q = PartitionOf[RoutingKey(script[c][i], e.event_id)]
    BY <1>1
<1> DEFINE body == script[c][i]
<1>3. e = Envelope(body, e.event_id, e.occurred_at)
    BY <1>2 DEF MadeOf
<1>4. e.event_type = body.event_type /\ e.product_id \in {Text(body.product_id), NoText}
    BY <1>3 DEF Envelope
<1>5. e.event_type \notin OrderEventTypes /\ e.product_id # NoText
    BY DEF AboutProduct
<1>6. e.product_id = body.product_id
    BY <1>4, <1>5 DEF Text
<1>7. RoutingKey(body, e.event_id) = body.product_id
    BY <1>4, <1>5 DEF RoutingKey
<1> QED BY <1>2, <1>6, <1>7

LEMMA ConsumeKeepsTimes ==
    ASSUME OriginInv, RecordInv, TimeInv, NEW q \in Partitions, Consume(q)
    PROVE  TimeInv'
<1>0. PICK e : e = Head(topic[q])
    OBVIOUS
<1>1. FlowTyped
    BY DEF OriginInv, FlowTyped
<1>2. serverTimed' = serverTimed /\ now' = now
    BY <1>0, <1>1, ConsumeSteps
<1>3. /\ \A x : ByServer(x)' <=> ByServer(x)
      /\ \A x : AboutProduct(x)' <=> AboutProduct(x)
    BY <1>2 DEF ByServer, AboutProduct
<1>4. Seen' \subseteq Seen \cup {e}
    BY <1>0, <1>1, ConsumeRecords
<1>5. /\ e \in Flow(q)
      /\ \A p \in Partitions : Flow(p)' \subseteq Flow(p)
      /\ \A p \in Partitions : \A x, y : Ahead(x, y, p)' => Ahead(x, y, p)
      /\ \A y \in Flow(q)' : Ahead(e, y, q)
    BY <1>0, <1>1, ConsumeFlow
<1>6. ASSUME NEW x \in Seen', ByServer(x) PROVE x.occurred_at <= now
    BY <1>4, <1>5, <1>6 DEF TimeInv
<1>7. ASSUME NEW x \in Seen', NEW p \in Partitions, NEW y \in Flow(p)',
             AboutProduct(x), p = PartitionOf[x.product_id], ByServer(x), ByServer(y)
      PROVE  x.occurred_at < y.occurred_at
    <2>1. y \in Flow(p)
        BY <1>5
    <2>2. CASE x \in Seen
        BY <1>7, <2>1, <2>2 DEF TimeInv
    <2>3. CASE x = e
        <3>1. p = q
            BY <1>5, <1>7, <2>3, ProductPlace
        <3>2. Ahead(x, y, p)
            BY <1>5, <2>3, <3>1
        <3> QED BY <1>5, <1>7, <2>1, <2>3, <3>1, <3>2 DEF TimeInv
    <2> QED BY <1>4, <2>2, <2>3
<1>8. ASSUME NEW p \in Partitions, NEW x \in Flow(p)', ByServer(x) PROVE x.occurred_at <= now
    BY <1>5, <1>8 DEF TimeInv
<1>9. ASSUME NEW p \in Partitions, NEW x \in Flow(p)', NEW y \in Flow(p)',
             Ahead(x, y, p)', ByServer(x), ByServer(y)
      PROVE  x.occurred_at < y.occurred_at
    BY <1>5, <1>9 DEF TimeInv
<1>10. now \in Nat
    BY DEF TimeInv
<1> QED BY <1>2, <1>3, <1>6, <1>7, <1>8, <1>9, <1>10 DEF TimeInv

LEMMA ConsumeKeepsRows ==
    ASSUME FlowTyped, RowInv, NEW q \in Partitions, Consume(q)
    PROVE  RowInv'
<1>0. PICK e : e = Head(topic[q])
    OBVIOUS
<1>1. CASE UNCHANGED tables
    BY <1>1 DEF RowInv, tables
<1>2. CASE \E outcome : HandledAs(e, outcome)
    BY <1>2, RowsAreDated
<1> QED BY <1>0, <1>1, <1>2, ConsumeSteps

LEMMA ConsumeKeeps == ASSUME Facts, NEW q \in Partitions, Consume(q) PROVE Facts'
<1>0. PICK e : e = Head(topic[q])
    OBVIOUS
<1>1. FlowTyped
    BY DEF Facts, OriginInv, FlowTyped
<1>2. script' = script /\ step' = step /\ issued' = issued /\ serverTimed' = serverTimed
    BY <1>0, <1>1, ConsumeSteps
<1>3. IssueInv'
    BY <1>2 DEF Facts, IssueInv
<1>4. RecordInv'
    BY <1>0, <1>1, ConsumeRecords DEF Facts
<1> QED BY <1>1, <1>3, <1>4, ConsumeKeepsOrigins, ConsumeKeepsEvents, ConsumeKeepsOrder,
           ConsumeKeepsTimes, ConsumeKeepsRows DEF Facts

(* What was skipped is recorded after all: it was seen before.             *)
LEMMA RedeliverSteps ==
    ASSUME OriginInv, RecordInv, NEW e \in skipped, Redeliver(e)
    PROVE  /\ UNCHANGED <<client, pending, up, taskFailed, now, queue, topic, script, step, issued,
                          serverTimed, lost, skipped, troubles>>
           /\ \E outcome \in {"APPLIED", "STALE", "DLQ"} : HandledAs(e, outcome)
           /\ RecordInv' /\ history \subseteq history'
           /\ processed \subseteq processed' /\ Handled \subseteq Handled'
           /\ Seen' = Seen /\ Missed' = Missed
           /\ \A q : /\ Flow(q)' = Flow(q)
                     /\ \A x, y : /\ Ahead(x, y, q)' <=> Ahead(x, y, q)
                                  /\ Foremost(x, y, q)' <=> Foremost(x, y, q)
<1>1. UNCHANGED <<client, pending, up, taskFailed, now, queue, topic, script, step, issued,
                  serverTimed, lost, skipped, troubles>>
    BY DEF Redeliver, client, notes
<1>2. e \in EventRecords
    BY DEF OriginInv, Seen
<1>3. \E outcome \in {"APPLIED", "STALE", "DLQ"} : HandledAs(e, outcome)
    BY <1>2, ProjectHandles DEF Redeliver
<1>4. PICK outcome : HandledAs(e, outcome)
    BY <1>3
<1>5. /\ RecordInv' /\ history \subseteq history' /\ Handled' = Handled \cup {e}
      /\ processed \subseteq processed'
    BY <1>4, RecordedOnce
<1>6. Seen' = Seen /\ Missed' = Missed
    BY <1>1, <1>5 DEF Seen, Missed
<1>7. \A q : /\ Flow(q)' = Flow(q)
             /\ \A x, y : /\ Ahead(x, y, q)' <=> Ahead(x, y, q)
                          /\ Foremost(x, y, q)' <=> Foremost(x, y, q)
    BY <1>1 DEF Flow, Ahead, Foremost
<1> QED BY <1>1, <1>3, <1>5, <1>6, <1>7

LEMMA RedeliverKeeps == ASSUME Facts, NEW e \in skipped, Redeliver(e) PROVE Facts'
<1>1. /\ UNCHANGED <<script, step, issued, serverTimed, now, queue, topic, Seen, Missed>>
      /\ RecordInv' /\ Handled \subseteq Handled' /\ processed \subseteq processed'
    BY RedeliverSteps DEF Facts
<1>2. \A q : /\ Flow(q)' = Flow(q)
             /\ \A x, y : /\ Ahead(x, y, q)' <=> Ahead(x, y, q)
                          /\ Foremost(x, y, q)' <=> Foremost(x, y, q)
    BY RedeliverSteps DEF Facts
<1>3. IssueInv'
    BY <1>1 DEF Facts, IssueInv
<1>4. OriginInv'
    <2>1. /\ \A x, c, i : MadeOf(x, c, i)' <=> MadeOf(x, c, i)
          /\ \A x : Encodable(x)' <=> Encodable(x)
        BY <1>1 DEF MadeOf, Encodable
    <2> QED BY <1>1, <1>2, <2>1 DEF Facts, OriginInv
<1>5. KeptInv'
    BY <1>1, <1>2 DEF Facts, KeptInv, RecordableBody
<1>6. OrderInv'
    <2>1. \A c, i : Settled(c, i) => Settled(c, i)'
        BY <1>1, SettledStays
    <2>2. \A c, i, j : Before(c, i, j)' <=> Before(c, i, j)
        BY <1>1 DEF Before
    <2> QED BY <1>1, <1>2, <2>1, <2>2 DEF Facts, OrderInv
<1>7. TimeInv'
    <2>1. /\ \A x : ByServer(x)' <=> ByServer(x)
          /\ \A x : AboutProduct(x)' <=> AboutProduct(x)
        BY <1>1 DEF ByServer, AboutProduct
    <2> QED BY <1>1, <1>2, <2>1 DEF Facts, TimeInv
<1>8. RowInv'
    BY RedeliverSteps, RowsAreDated DEF Facts
<1> QED BY <1>1, <1>3, <1>4, <1>5, <1>6, <1>7, <1>8 DEF Facts

-----------------------------------------------------------------------------
(* Every step *)

LEMMA StepCases ==
    ASSUME IInv, [Next]_vars
    PROVE  \/ Quiet
           \/ \E r \in pending : Accept(r)
           \/ \E q \in Partitions : Consume(q)
           \/ \E e \in skipped : Redeliver(e)
<1>1. FlowTyped
    BY DEF IInv, Facts, OriginInv, FlowTyped
<1>2. ASSUME UNCHANGED <<script, step, issued, serverTimed, tables, now, skipped, lost,
                         queue, topic>>
      PROVE  Quiet
    BY <1>1, <1>2, UntouchedIsQuiet
<1>3. CASE UNCHANGED vars
    BY <1>2, <1>3 DEF vars, client, notes
<1>4. CASE \E c \in Clients : Send(c)
    BY <1>2, <1>4 DEF Send, notes
<1>5. CASE \E r \in pending : Refuse(r)
    BY <1>2, <1>5 DEF Refuse, client, notes
<1>6. CASE FailTask \/ Start
    BY <1>2, <1>6 DEF FailTask, Start, client, notes
<1>7. CASE \E q \in Partitions : Deliver(q) \/ Expire(q)
    BY <1>1, <1>7, DeliverIsQuiet, ExpireIsQuiet
<1>8. CASE Stop \/ StopUnclean
    BY <1>1, <1>8, StopIsQuiet, StopUncleanIsQuiet
<1> QED BY <1>3, <1>4, <1>5, <1>6, <1>7, <1>8 DEF Next

(* A step of a client, or of the service for one.                          *)
LEMMA ClientsNext == ClientInv /\ [Next]_vars => ClientInv'
<1> SUFFICES ASSUME ClientInv, [Next]_vars PROVE ClientInv'
    OBVIOUS
<1>1. ASSUME UNCHANGED client, pending' \subseteq pending PROVE ClientInv'
    BY <1>1 DEF ClientInv, client
<1>2. ASSUME NEW c \in Clients, Send(c) PROVE ClientInv'
    <2>1. /\ step[c] \in DOMAIN script[c] /\ UNCHANGED <<script, step>>
          /\ retries' = IF attempt[c] = 0 THEN retries ELSE retries + 1
          /\ retries' <= MaxRetries
          /\ attempt' = [attempt EXCEPT ![c] = @ + 1]
          /\ pending' = pending \cup {<<c, step[c], attempt'[c]>>}
        BY <1>2 DEF Send, Wanted
    <2>2. retries \in Nat /\ attempt[c] \in Nat /\ attempt[c] <= retries + 1 /\ MaxRetries \in Nat
        BY ApiBounds DEF ClientInv
    <2>3. retries' \in 0 .. MaxRetries /\ retries <= retries' /\ attempt'[c] <= retries' + 1
        <3>1. attempt'[c] = attempt[c] + 1
            BY <2>1 DEF ClientInv
        <3> QED BY <2>1, <2>2, <3>1
    <2>4. ASSUME NEW d \in Clients PROVE attempt'[d] <= retries' + 1
        <3>1. CASE d = c
            BY <2>3, <3>1
        <3>2. CASE d # c
            <4>1. attempt'[d] = attempt[d] /\ attempt[d] \in Nat /\ attempt[d] <= retries + 1
                BY <2>1, <3>2 DEF ClientInv
            <4> QED BY <2>2, <2>3, <4>1
        <3> QED BY <3>1, <3>2
    <2>5. attempt' \in [Clients -> Nat]
        BY <2>1, <2>2 DEF ClientInv
    <2>6. ASSUME NEW r \in pending'
          PROVE  r[1] \in Clients /\ r[2] \in DOMAIN script[r[1]] /\ r[2] <= step[r[1]]
        <3>1. CASE r \in pending
            BY <3>1 DEF ClientInv
        <3>2. CASE r = <<c, step[c], attempt'[c]>>
            <4>1. r[1] = c /\ r[2] = step[c] /\ step[c] \in Nat
                BY <3>2 DEF ClientInv
            <4> QED BY <2>1, <4>1
        <3> QED BY <2>1, <3>1, <3>2
    <2> QED BY <2>1, <2>3, <2>4, <2>5, <2>6 DEF ClientInv
<1>3. ASSUME NEW r \in pending, Accept(r) PROVE ClientInv'
    <2>1. /\ pending' \subseteq pending /\ script' = script /\ retries' = retries
          /\ Hear(r) \/ UNCHANGED <<step, attempt, answered>>
        BY <1>3, AcceptSteps
    <2>2. CASE UNCHANGED <<step, attempt, answered>>
        BY <1>1, <2>1, <2>2 DEF client
    <2>3. CASE Hear(r)
        <3>1. /\ step' = [step EXCEPT ![r[1]] = @ + 1]
              /\ attempt' = [attempt EXCEPT ![r[1]] = 0]
            BY <2>3 DEF Hear
        <3>2. step' \in [Clients -> Nat] /\ \A c \in Clients : step[c] <= step'[c]
            BY <3>1 DEF ClientInv
        <3>3. /\ attempt' \in [Clients -> Nat]
              /\ \A c \in Clients : attempt'[c] = attempt[c] \/ attempt'[c] = 0
            BY <3>1 DEF ClientInv
        <3>4. ASSUME NEW c \in Clients PROVE attempt'[c] <= retries + 1
            <4>1. attempt[c] <= retries + 1 /\ 0 <= retries + 1
                BY DEF ClientInv
            <4> QED BY <3>3, <4>1
        <3>5. ASSUME NEW s \in pending'
              PROVE  s[1] \in Clients /\ s[2] \in DOMAIN script[s[1]] /\ s[2] <= step'[s[1]]
            <4>1. s[1] \in Clients /\ s[2] \in DOMAIN script[s[1]] /\ s[2] <= step[s[1]]
                BY <2>1 DEF ClientInv
            <4>2. script[s[1]] \in Seq(Bodies)
                BY <4>1, BodiesArePosted DEF ClientInv
            <4>3. s[2] \in Int /\ step[s[1]] \in Int /\ step'[s[1]] \in Int
                BY <3>2, <4>1, <4>2 DEF ClientInv
            <4> QED BY <3>2, <4>1, <4>3
        <3> QED BY <2>1, <3>2, <3>3, <3>4, <3>5 DEF ClientInv
    <2> QED BY <2>1, <2>2, <2>3
<1>4. ASSUME \/ \E r \in pending : Refuse(r)
             \/ \E q \in Partitions : Deliver(q) \/ Expire(q) \/ Consume(q)
             \/ \E e \in skipped : Redeliver(e)
             \/ FailTask \/ Stop \/ StopUnclean \/ Start
             \/ UNCHANGED vars
      PROVE  ClientInv'
    <2>1. UNCHANGED client
        BY <1>4 DEF Refuse, Deliver, Expire, Consume, Handle, Pass, Skip, GoPast, Redeliver,
                    FailTask, Stop, StopUnclean, GoDown, Start, vars
    <2>2. pending' \subseteq pending
        BY <1>4 DEF Refuse, Deliver, Expire, Consume, Handle, Pass, Skip, GoPast, Redeliver,
                    FailTask, Stop, StopUnclean, GoDown, Start, vars
    <2> QED BY <1>1, <2>1, <2>2
<1> QED BY <1>2, <1>3, <1>4 DEF Next

LEMMA InvariantInit == Init => IInv
<1> SUFFICES ASSUME Init PROVE IInv
    OBVIOUS
<1>1. /\ script \in Scripts
      /\ step = [c \in Clients |-> 1] /\ attempt = [c \in Clients |-> 0]
      /\ retries = 0 /\ pending = {} /\ now = 0 /\ skipped = {} /\ serverTimed = {}
      /\ queue = [q \in Partitions |-> <<>>] /\ topic = queue
      /\ issued = [c \in Clients |-> [i \in DOMAIN script[c] |-> {}]]
    BY DEF Init
<1>2. /\ inventory = [k \in Keys |-> EmptyRow] /\ processed = {} /\ history = {}
    BY DEF Init, Consumer!Init, Consumer!EmptyStore, Consumer!Keys, Consumer!EmptyRow,
           Keys, EmptyRow
<1>3. /\ Handled = {} /\ Seen = {}
      /\ \A q \in Partitions : Flow(q) = {}
    BY <1>1, <1>2, NothingInOrder DEF Handled, Seen, Flow
<1>4. ClientInv
    BY <1>1, ApiBounds DEF ClientInv
<1>5. IssueInv
    <2>1. ASSUME NEW c \in Clients
          PROVE  /\ issued[c] \in [DOMAIN script[c] -> SUBSET EventIds]
                 /\ \A i \in DOMAIN script[c] : issued[c][i] = {} /\ ~(i < step[c])
        <3>1. script[c] \in Seq(Bodies)
            BY <1>1, BodiesArePosted
        <3>2. step[c] = 1 /\ \A i \in DOMAIN script[c] : ~(i < 1)
            BY <1>1, <3>1
        <3>3. issued[c] = [i \in DOMAIN script[c] |-> {}]
            BY <1>1
        <3> QED BY <3>2, <3>3
    <2> QED BY <1>1, <2>1 DEF IssueInv
<1>6. OriginInv
    BY <1>1, <1>3 DEF OriginInv
<1>7. RecordInv
    BY <1>2, <1>3 DEF RecordInv
<1>8. KeptInv
    <2>1. \A c \in Clients : \A i \in DOMAIN script[c] : issued[c][i] = {}
        BY <1>1
    <2> QED BY <1>1, <2>1 DEF KeptInv
<1>9. OrderInv
    BY <1>3 DEF OrderInv
<1>10. TimeInv
    BY <1>1, <1>3 DEF TimeInv
<1>11. RowInv
    BY <1>2 DEF RowInv, EmptyRow
<1> QED BY <1>4, <1>5, <1>6, <1>7, <1>8, <1>9, <1>10, <1>11 DEF IInv, Facts

LEMMA InvariantNext == IInv /\ [Next]_vars => IInv'
<1> SUFFICES ASSUME IInv, [Next]_vars PROVE IInv'
    OBVIOUS
<1>1. ClientInv'
    BY ClientsNext DEF IInv
<1>2. Quiet => Facts'
    BY QuietKeeps DEF IInv
<1>3. \A r \in pending : Accept(r) => Facts'
    BY AcceptKeeps
<1>4. \A q \in Partitions : Consume(q) => Facts'
    BY ConsumeKeeps DEF IInv
<1>5. \A e \in skipped : Redeliver(e) => Facts'
    BY RedeliverKeeps DEF IInv
<1> QED BY <1>1, <1>2, <1>3, <1>4, <1>5, StepCases DEF IInv

(* The rest of the type invariant, which no step depends on.               *)
RestInv ==
    /\ serverTimed \cup lost \subseteq EventIds
    /\ up \in BOOLEAN /\ taskFailed \in BOOLEAN /\ troubles \in Nat

LEMMA RestNext == IInv /\ RestInv /\ [Next]_vars => RestInv'
<1> SUFFICES ASSUME IInv, RestInv, [Next]_vars PROVE RestInv'
    OBVIOUS
<1>1. CASE \E r \in pending : Accept(r)
    <2>1. PICK r \in pending : Accept(r)
        BY <1>1
    <2>2. IdOf(r) \in EventIds
        BY <2>1, AcceptSteps, ChosenId DEF IInv
    <2>3. /\ serverTimed' \in {serverTimed \cup {IdOf(r)}, serverTimed}
          /\ UNCHANGED <<up, taskFailed, lost, troubles>>
        BY <2>1, AcceptSteps
    <2> QED BY <2>2, <2>3 DEF RestInv
<1>2. CASE ~\E r \in pending : Accept(r)
    <2>1. serverTimed' = serverTimed
        BY <1>2 DEF Next, Send, Refuse, Deliver, Expire, Consume, Handle, Pass, Skip, GoPast,
                    Redeliver, FailTask, Stop, StopUnclean, GoDown, Start, vars, notes
    <2>2. /\ up' \in {up, TRUE, FALSE} /\ taskFailed' \in {taskFailed, TRUE, FALSE}
          /\ troubles' \in {troubles, troubles + 1}
        BY <1>2 DEF Next, Send, Refuse, Deliver, Expire, Consume, Handle, Pass, Skip, GoPast,
                    Redeliver, FailTask, Stop, StopUnclean, GoDown, Start, Trouble, vars
    <2>3. lost' \subseteq lost \cup Queued
        <3>1. ASSUME NEW q \in Partitions, Expire(q) PROVE lost' \subseteq lost \cup Queued
            <4>1. /\ queue[q] # <<>> /\ lost' = lost \cup {Head(queue[q]).event_id}
                  /\ queue[q] \in Seq(EventRecords)
                BY <3>1 DEF Expire, IInv, Facts, OriginInv
            <4>2. Head(queue[q]) \in Range(queue[q])
                BY <4>1, TailOrder
            <4> QED BY <4>1, <4>2 DEF Queued
        <3>2. ASSUME ~\E q \in Partitions : Expire(q) PROVE lost' \subseteq lost \cup Queued
            BY <1>2, <3>2 DEF Next, Send, Refuse, Deliver, Consume, Handle, Pass, Skip, GoPast,
                    Redeliver, FailTask, Stop, StopUnclean, GoDown, Start, vars
        <3> QED BY <3>1, <3>2
    <2>4. Queued \subseteq EventIds
        <3>1. ASSUME NEW q \in Partitions, NEW e \in Range(queue[q]) PROVE e.event_id \in EventIds
            <4>1. queue[q] \in Seq(EventRecords)
                BY DEF IInv, Facts, OriginInv
            <4>2. e \in EventRecords
                BY <4>1 DEF Range
            <4> QED BY <4>2 DEF EventRecords
        <3> QED BY <3>1 DEF Queued
    <2>5. up' \in BOOLEAN /\ taskFailed' \in BOOLEAN
        BY <2>2, Zenon DEF RestInv
    <2>6. troubles' \in Nat
        BY <2>2 DEF RestInv
    <2> QED BY <2>1, <2>3, <2>4, <2>5, <2>6 DEF RestInv
<1> QED BY <1>1, <1>2

-----------------------------------------------------------------------------
(* What is proved *)

LEMMA Invariance == Spec => [](IInv /\ RestInv)
<1>1. Init => IInv /\ RestInv
    <2>1. ASSUME Init PROVE up \in BOOLEAN /\ taskFailed \in BOOLEAN
        BY <2>1, Zenon DEF Init
    <2>2. ASSUME Init PROVE troubles \in Nat
        BY <2>2 DEF Init
    <2>3. ASSUME Init PROVE serverTimed \cup lost \subseteq EventIds
        BY <2>3 DEF Init
    <2> QED BY <2>1, <2>2, <2>3, InvariantInit DEF RestInv
<1>2. (IInv /\ RestInv) /\ [Next]_vars => (IInv /\ RestInv)'
    BY InvariantNext, RestNext
<1> QED BY <1>1, <1>2, PTL DEF Spec

(* What the producer queues and the topic carries are records of the       *)
(* schema, every integer of them within the range of its Avro type,        *)
(* whatever a client posts that the request schemas let by; no client      *)
(* exceeds its retries.                                                    *)
THEOREM ApiTypeCorrect == Spec => []TypeOK
<1>1. IInv /\ RestInv => TypeOK
    <2> SUFFICES ASSUME IInv, RestInv PROVE TypeOK
        OBVIOUS
    <2>1. ASSUME NEW q \in Partitions
          PROVE  /\ queue[q] \in Seq(EventRecords) /\ topic[q] \in Seq(EventRecords)
                 /\ \A e \in Range(queue[q]) \cup Range(topic[q]) :
                       /\ e.occurred_at \in AvroLongs
                       /\ {e.quantity, e.counted_quantity} \subseteq AvroInts
                       /\ {e.items[i].quantity : i \in DOMAIN e.items} \subseteq AvroInts
        BY DEF IInv, Facts, OriginInv, Flow, Encodable
    <2>2. {now, troubles, retries} \subseteq Nat
        BY DEF IInv, Facts, ClientInv, TimeInv, RestInv
    <2>4. skipped \subseteq EventRecords
        BY DEF IInv, Facts, OriginInv, Seen
    <2>3. ASSUME NEW c \in Clients PROVE attempt[c] \in 0 .. MaxRetries + 1
        <3>1. /\ attempt[c] \in Nat /\ attempt[c] <= retries + 1
              /\ retries \in 0 .. MaxRetries /\ MaxRetries \in Nat
            BY ApiBounds DEF IInv, ClientInv
        <3> QED BY <3>1
    <2> QED BY <2>1, <2>2, <2>3, <2>4 DEF TypeOK, RestInv, IInv, ClientInv
<1> QED BY <1>1, Invariance, PTL

(* A request whose event has an id of its client's choice takes effect at  *)
(* most once, however often the client sends it, whatever is lost and      *)
(* whenever the service stops.                                             *)
THEOREM RetriesCorrect == Spec => []RetriesTakeEffectOnce
<1>1. IInv => RetriesTakeEffectOnce
    <2> SUFFICES ASSUME IInv, NEW c \in Clients, NEW i \in DOMAIN script[c],
                        script[c][i].event_id # NoId
                 PROVE  Cardinality(Effects(c, i)) <= 1
        BY DEF RetriesTakeEffectOnce
    <2>1. issued[c][i] \subseteq {script[c][i].event_id}
        BY DEF IInv, Facts, IssueInv
    <2>2. ASSUME NEW g \in Effects(c, i), NEW h \in Effects(c, i) PROVE g = h
        <3>1. /\ g \in history /\ h \in history
              /\ g.event.event_id \in issued[c][i] /\ h.event.event_id \in issued[c][i]
            BY DEF Effects
        <3> QED BY <2>1, <3>1 DEF IInv, Facts, RecordInv
    <2>3. CASE Effects(c, i) = {}
        <3>1. Cardinality(Effects(c, i)) = 0
            BY <2>3, FS_EmptySet
        <3> QED BY <3>1
    <2>4. CASE Effects(c, i) # {}
        <3>1. PICK h : Effects(c, i) = {h}
            BY <2>2, <2>4
        <3>2. Cardinality(Effects(c, i)) = 1
            BY <3>1, FS_Singleton
        <3> QED BY <3>2
    <2> QED BY <2>3, <2>4
<1> QED BY <1>1, Invariance, PTL

(* When an order's completion is recorded, the creation that its client    *)
(* got a 202 for before is recorded too, or an event of it was lost by the *)
(* service or skipped by the consumer, or it can never be recorded: the    *)
(* two share a routing key, and neither the producer nor an orderly stop   *)
(* reorders a partition.                                                   *)
THEOREM CompletionCorrect == Spec => []CompletionFollowsCreation
<1>1. IInv => CompletionFollowsCreation
    <2> SUFFICES ASSUME IInv, NEW c \in Clients,
                        NEW i \in DOMAIN script[c], NEW j \in DOMAIN script[c], Before(c, i, j),
                        NEW h \in history, h.event.event_id \in issued[c][j]
                 PROVE  \/ \E g \in history : g.event.event_id \in issued[c][i]
                        \/ issued[c][i] \cap Missed # {}
                        \/ ~RecordableBody(script[c][i])
        BY DEF CompletionFollowsCreation, Before
    <2>1. h.event \in Seen
        BY DEF Seen, Handled
    <2>2. Settled(c, i)
        BY <2>1 DEF IInv, Facts, OrderInv
    <2> QED BY <2>2 DEF Settled, Handled
<1> QED BY <1>1, Invariance, PTL

(* An event that was applied, is dated later, and came through another     *)
(* partition or has its time from a client.                                *)
Overtakes(g, h) ==
    /\ g.outcome = "APPLIED"
    /\ g.event.occurred_at > h.event.occurred_at
    /\ g.event.event_type \in OrderEventTypes \/ g.event.event_id \notin serverTimed

LEMMA ConsumeStale ==
    ASSUME IInv, NEW q \in Partitions, Consume(q), NEW e, e = Head(topic[q]), HandledAs(e, "STALE"),
           e.event_id \in serverTimed, e.event_type \notin OrderEventTypes
    PROVE  \E g \in history : Overtakes(g, [event |-> e, outcome |-> "STALE"])
<1>1. FlowTyped /\ OriginInv /\ TimeInv /\ RowInv
    BY DEF IInv, Facts, OriginInv, FlowTyped
<1>2. e \in Flow(q) /\ e \in EventRecords
    BY <1>1, ConsumeFlow
<1>3. PICK k \in Keys : /\ inventory[k].last_event_ts # 0
                        /\ e.occurred_at < inventory[k].last_event_ts
                        /\ e.product_id = k[1] /\ e.product_id # NoText
    BY DEF HandledAs
<1>4. PICK g \in history :
        /\ g.outcome = "APPLIED"
        /\ g.event.occurred_at = inventory[k].last_event_ts
        /\ g.event.event_type \in OrderEventTypes \/ g.event.product_id = k[1]
    BY <1>1, <1>3 DEF RowInv
<1>5. g.event \in Seen /\ g.event \in EventRecords
    BY <1>1 DEF OriginInv, Seen, Handled
<1>6. e.occurred_at \in Int /\ g.event.occurred_at \in Int
    BY <1>2, <1>5 DEF EventRecords
<1>7. g.event.occurred_at > e.occurred_at
    BY <1>3, <1>4, <1>6
<1>8. ASSUME g.event.event_type \notin OrderEventTypes PROVE g.event.event_id \notin serverTimed
    <2>1. g.event.product_id = e.product_id /\ AboutProduct(g.event) /\ AboutProduct(e)
        BY <1>3, <1>4, <1>8 DEF AboutProduct
    <2>2. q = PartitionOf[g.event.product_id]
        BY <1>1, <1>2, <2>1, ProductPlace
    <2>3. ByServer(g.event) /\ ByServer(e) => g.event.occurred_at < e.occurred_at
        BY <1>1, <1>2, <1>5, <2>1, <2>2 DEF TimeInv
    <2> QED BY <1>6, <1>7, <2>3 DEF ByServer
<1> QED BY <1>4, <1>7, <1>8 DEF Overtakes

LEMMA StaleNext == IInv /\ StaleMeansOvertaken /\ [Next]_vars => StaleMeansOvertaken'
<1> SUFFICES ASSUME IInv, StaleMeansOvertaken, [Next]_vars,
                    NEW h \in history', h.outcome = "STALE",
                    h.event.event_id \in serverTimed', h.event.event_type \notin OrderEventTypes,
                    h.event \notin skipped'
             PROVE  \E g \in history' : Overtakes(g, h)'
    BY DEF StaleMeansOvertaken, Overtakes
<1>1. ASSUME h \in history, h.event.event_id \in serverTimed, h.event \notin skipped
      PROVE  \E g \in history : Overtakes(g, h)
    BY <1>1 DEF StaleMeansOvertaken, Overtakes
<1>2. CASE Quiet
    <2>1. history' = history /\ serverTimed' = serverTimed /\ skipped' = skipped
        BY <1>2 DEF Quiet, tables
    <2> QED BY <1>1, <2>1 DEF Overtakes
<1>3. CASE \E r \in pending : Accept(r)
    <2>1. PICK r \in pending : Accept(r)
        BY <1>3
    <2>2. history' = history /\ skipped' = skipped
        BY <2>1, AcceptSteps DEF tables
    <2>3. \A g \in history : g.event.event_id \in serverTimed' <=> g.event.event_id \in serverTimed
        <3>1. \A g \in history : g.event \in Seen
            BY DEF Seen, Handled
        <3> QED BY <2>1, <3>1, SeenIds DEF IInv, Facts
    <2>4. PICK g \in history : Overtakes(g, h)
        BY <1>1, <2>2, <2>3
    <2> QED BY <2>2, <2>3, <2>4 DEF Overtakes
<1>4. CASE \E q \in Partitions : Consume(q)
    <2>1. PICK q \in Partitions : Consume(q)
        BY <1>4
    <2>2. PICK e : e = Head(topic[q])
        OBVIOUS
    <2>3. FlowTyped /\ RecordInv
        BY DEF IInv, Facts, OriginInv, FlowTyped
    <2>4. serverTimed' = serverTimed /\ history \subseteq history' /\ skipped \subseteq skipped'
        BY <2>1, <2>2, <2>3, ConsumeSteps, ConsumeRecords
    <2>5. \E g \in history : Overtakes(g, h)
        <3>1. CASE h \in history
            BY <1>1, <2>4, <3>1
        <3>2. CASE h \notin history
            <4>1. PICK outcome : HandledAs(e, outcome)
                BY <2>1, <2>2, <2>3, <3>2, ConsumeSteps DEF tables
            <4>2. h = [event |-> e, outcome |-> outcome]
                BY <3>2, <4>1 DEF HandledAs
            <4>3. outcome = "STALE" /\ h.event = e
                BY <4>2
            <4> QED BY <2>1, <2>2, <2>4, <4>1, <4>2, <4>3, ConsumeStale
        <3> QED BY <3>1, <3>2
    <2> QED BY <2>4, <2>5 DEF Overtakes
(* What is recorded late was skipped before.                               *)
<1>5. CASE \E e \in skipped : Redeliver(e)
    <2>1. PICK e \in skipped : Redeliver(e)
        BY <1>5
    <2>2. OriginInv /\ RecordInv
        BY DEF IInv, Facts
    <2>3. /\ serverTimed' = serverTimed /\ skipped' = skipped /\ history \subseteq history'
          /\ \E outcome : HandledAs(e, outcome)
        BY <2>1, <2>2, RedeliverSteps
    <2>4. PICK outcome : HandledAs(e, outcome)
        BY <2>3
    <2>5. h \in history
        <3>1. h \in history \/ h = [event |-> e, outcome |-> outcome]
            BY <2>4 DEF HandledAs
        <3>2. h.event # e
            BY <2>3
        <3> QED BY <3>1, <3>2
    <2>6. \E g \in history : Overtakes(g, h)
        BY <1>1, <2>3, <2>5
    <2> QED BY <2>3, <2>6 DEF Overtakes
<1> QED BY <1>2, <1>3, <1>4, <1>5, StepCases

(* A product event that has its time from the server is ignored as stale   *)
(* only when the consumer had skipped it before, an order event overtook   *)
(* it, or an event that a client dated: within a partition the server's    *)
(* times increase, and the consumer keeps the order of what it does not    *)
(* skip.                                                                   *)
THEOREM StaleCorrect == Spec => []StaleMeansOvertaken
<1>1. Init => StaleMeansOvertaken
    BY DEF Init, Consumer!Init, StaleMeansOvertaken
<1> QED BY <1>1, StaleNext, Invariance, PTL DEF Spec

=============================================================================
