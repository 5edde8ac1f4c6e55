-------------------------- MODULE TrafficAnalytics --------------------------
(***************************************************************************)
(* GET /api/v1/analytics/traffic: the events of the last days, counted by  *)
(* the hour they occurred in.  The history is read one day's partition     *)
(* after the other, while the consumer's thread goes on writing to it.     *)
(*                                                                         *)
(* Times are numbers; an hour has Ticks of them and a day Hours hours.     *)
(* Counting by event type, done as by outcome, and the summary, which adds *)
(* up the series, are left out.  The route blocks the server's event loop: *)
(* requests are answered one at a time.                                    *)
(***************************************************************************)
EXTENDS Integers, FiniteSets

CONSTANTS
    Ticks, Hours,
    DaysAsked,      \* the lookbacks that may be asked for
    NoRequest,      \* no request is being answered
    MaxRequests     \* bound on the requests

VARIABLES
    history,        \* event_history_by_day, written by the consumer
    time,           \* the server's clock
    request,        \* the request being answered: now, start of the lookback, day to read,
                    \* rows counted; and, as a history variable, the history before it
    answer,         \* the last answer: the series
    requests

vars == <<history, time, request, answer, requests>>

HourOf(t) == t \div Ticks
DayOf(h)  == h \div Hours

(* The partition a row is in: the date is that of occurred_at.             *)
Partition(day) == {h \in history : DayOf(HourOf(h.event.occurred_at)) = day}

Init == request = NoRequest /\ answer = NoRequest /\ requests = 0

(* now is cut down to the hour first; the lookback is whole days from it.  *)
Ask(days) ==
    /\ request = NoRequest
    /\ requests < MaxRequests
    /\ requests' = requests + 1
    /\ LET now == HourOf(time)
           start == now - days * Hours
       IN  request' = [now |-> now, start |-> start, day |-> DayOf(start), rows |-> {},
                       before |-> history]
    /\ UNCHANGED <<history, time, answer>>

(* Mutant: the current hour, not over yet, is left out.                    *)
InRangeBeforeNow(h) == request.start <= HourOf(h.event.occurred_at)
                         /\ HourOf(h.event.occurred_at) < request.now

InRange(h) == /\ request.start <= HourOf(h.event.occurred_at)
              /\ HourOf(h.event.occurred_at) <= request.now

ReadDay ==
    /\ request # NoRequest
    /\ request.day <= DayOf(request.now)
    /\ request' = [request EXCEPT !.day = @ + 1,
                                  !.rows = @ \cup {h \in Partition(request.day) : InRange(h)}]
    /\ UNCHANGED <<history, time, answer, requests>>

CountAt(rows, hour, outcomes) ==
    Cardinality({h \in rows : HourOf(h.event.occurred_at) = hour /\ h.outcome \in outcomes})

Outcomes == {"APPLIED", "STALE", "DLQ"}

Point(rows, hour) == [total   |-> CountAt(rows, hour, Outcomes),
                      applied |-> CountAt(rows, hour, {"APPLIED"}),
                      dlq     |-> CountAt(rows, hour, {"DLQ"}),
                      stale   |-> CountAt(rows, hour, {"STALE"})]

(* The series starts with the first hour that has an event, or with the    *)
(* last hour when there is none, and has every hour up to now.             *)
FirstHour(rows, now) ==
    IF rows = {} THEN now - 1
    ELSE CHOOSE hour \in {HourOf(h.event.occurred_at) : h \in rows} :
            \A h \in rows : hour <= HourOf(h.event.occurred_at)

Answer ==
    /\ request # NoRequest
    /\ request.day > DayOf(request.now)
    /\ answer' = [hour \in FirstHour(request.rows, request.now) .. request.now |->
                     Point(request.rows, hour)]
    /\ request' = NoRequest
    /\ UNCHANGED <<history, time, requests>>

Next == (\E days \in DaysAsked : Ask(days)) \/ ReadDay \/ Answer

-----------------------------------------------------------------------------
AtMost(p, q) == \A field \in DOMAIN p : p[field] <= q[field]

(* An answer is no snapshot: an event of a day that was read already is    *)
(* missing, a later one of the next day counts.  But every hour of the     *)
(* lookback lies between what the history held when the request came and   *)
(* what it holds when it is answered, and no hour with an event is left    *)
(* out of the series.                                                      *)
Bracketed(before, series, after, first, last) ==
    \A hour \in first .. last :
        IF hour \in DOMAIN series
        THEN AtMost(Point(before, hour), series[hour]) /\ AtMost(series[hour], Point(after, hour))
        ELSE CountAt(before, hour, Outcomes) = 0

AnswersAreBracketed ==
    [][answer' # answer =>
          Bracketed(request.before, answer', history', request.start, request.now)]_vars
=============================================================================
