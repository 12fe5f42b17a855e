------------------------------ MODULE Metrics -------------------------------
(***************************************************************************)
(* The measurements of a replica or client (metrics/*.go) on top of an     *)
(* event loop.  The process has two loops of the same code: EventLoop for  *)
(* the protocol, and MetricsEventLoop, where handlers count what happens   *)
(* and, on every tick, observers log the counts and reset them.  A replica *)
(* counts commits and view changes, a client the latency of its commands.  *)
(* A behaviour is that of one of these loops, as role says.                *)
(***************************************************************************)
EXTENDS EventLoop, FiniteSetsExt

CONSTANTS
    Value,      \* the commands of a commit, the latency, 1 for a timeout
    Scale       \* mean counts in units of 1/Scale, m2 in units of 1/Scale^2

ASSUME MetricsAssumption ==
    /\ Value \in [Event -> Nat]
    /\ Scale \in Nat \ {0}

VARIABLES
    role,           \* which loop it is: the protocol's, or whose metrics
    lastTick,       \* Ticker.lastTick is not zero
    throughput,     \* Throughput
    viewTimeouts,   \* ViewTimeouts
    wf,             \* ClientLatency.wf
    log,            \* what MetricsLogger.Log was given
    since           \* history: the events handled since the last measurement

metricVars == <<lastTick, throughput, viewTimeouts, wf, log, since>>

\* The types that the metrics of a replica and of a client have handlers for.
MetricTypes ==
    [replica |-> {"CommitEvent", "ViewChangeEvent"},
     client |-> {"LatencyMeasurementEvent"}]

\* The handlers of these types delay no event.
ASSUME MetricTypesAssumption ==
    \A e \in Event : TypeOf[e] \in UNION {MetricTypes[r] : r \in DOMAIN MetricTypes} =>
        Awaits[e] = {}

Metric == role \in DOMAIN MetricTypes

\* The events that are added to this loop.
OwnEvents ==
    {e \in Event :
        IF Metric THEN TypeOf[e] \in MetricTypes[role]
        ELSE TypeOf[e] \notin UNION {MetricTypes[r] : r \in DOMAIN MetricTypes}}

NoThroughput == [commits |-> 0, commands |-> 0]

NoViews == [views |-> 0, timeouts |-> 0]

\* Welford.Reset.
Reset == [mean |-> 0, m2 |-> 0, count |-> 0]

MetricsInit ==
    /\ Init
    /\ role \in {"protocol"} \cup DOMAIN MetricTypes
    /\ lastTick = FALSE
    /\ throughput = NoThroughput
    /\ viewTimeouts = NoViews
    /\ wf = Reset
    /\ log = {}
    /\ since = {}

-----------------------------------------------------------------------------
(* Handlers *)

RecordCommit(commands) ==
    /\ throughput' = [commits |-> throughput.commits + 1,
                      commands |-> throughput.commands + commands]
    /\ UNCHANGED <<viewTimeouts, wf>>

ViewChange(timeout) ==
    /\ viewTimeouts' = [views |-> viewTimeouts.views + 1,
                        timeouts |-> viewTimeouts.timeouts + timeout]
    /\ UNCHANGED <<throughput, wf>>

\* Welford.Update.
Update(w, val) ==
    LET count == w.count + 1
        delta == val - w.mean
        mean == w.mean + delta \div count
        delta2 == val - mean
    IN  [mean |-> mean, m2 |-> w.m2 + delta * delta2, count |-> count]

AddLatency(latency) ==
    /\ wf' = Update(wf, latency * Scale)
    /\ UNCHANGED <<throughput, viewTimeouts>>

\* The handler of an event.
Handle(e) ==
    /\ \/ TypeOf[e] = "CommitEvent" /\ RecordCommit(Value[e])
       \/ TypeOf[e] = "ViewChangeEvent" /\ ViewChange(Value[e])
       \/ TypeOf[e] = "LatencyMeasurementEvent" /\ AddLatency(Value[e])
    /\ since' = since \cup {e}
    /\ UNCHANGED <<lastTick, log>>

-----------------------------------------------------------------------------
(* Ticks *)

\* What the observers of a TickEvent log; the variance is m2 / (count - 1), and
\* not a number with less than two values (Welford.Get).
Measurement ==
    [throughput |-> throughput, views |-> viewTimeouts, mean |-> wf.mean,
     m2 |-> IF wf.count < 2 THEN -1 ELSE wf.m2, count |-> wf.count]

\* Throughput.tick, ViewTimeouts.tick and ClientLatency.tick reset what they
\* have logged.
TickThroughput == throughput' = NoThroughput

TickViewTimeouts == viewTimeouts' = NoViews

TickLatencyKeeping == UNCHANGED wf

TickLatency == wf' = Reset

ObserveTick ==
    /\ log' = log \cup {[events |-> since, logged |-> Measurement]}
    /\ TickThroughput /\ TickViewTimeouts /\ TickLatency
    /\ since' = {}

\* Ticker.tick makes a nil event of the first tick, which has no observer; as
\* the queue keeps its order that is the first one that arrives.
OnTick ==
    /\ lastTick' = TRUE
    /\ IF lastTick THEN ObserveTick
       ELSE UNCHANGED <<throughput, viewTimeouts, wf, log, since>>

\* The metrics have nothing registered on the other loop.
Observe(q) ==
    IF Metric /\ "event" \in DOMAIN q THEN Handle(q.event)
    ELSE IF Metric /\ "tick" \in DOMAIN q THEN OnTick
    ELSE UNCHANGED metricVars

-----------------------------------------------------------------------------
MetricsNext ==
    /\ \/ (RunEvent \/ DrainEvent) /\ Observe(Head(eventQ))
       \/ OtherGoroutine(OwnEvents) /\ UNCHANGED metricVars
       \/ (Cancel \/ SeeCancelled \/ Stop) /\ UNCHANGED metricVars
    /\ UNCHANGED role

MetricsSpec == MetricsInit /\ [][MetricsNext]_<<vars, metricVars, role>>

MetricsFairSpec == MetricsSpec /\ Fairness

-----------------------------------------------------------------------------
(* Properties *)

OfType(events, t) == {e \in events : TypeOf[e] = t}

\* The values of some events.
Total(events) == MapThenSumSet(LAMBDA e : Value[e], events)

\* What should be logged for some events.
Reference(events) ==
    LET lat == OfType(events, "LatencyMeasurementEvent")
        n == Cardinality(lat)
        mean == IF n = 0 THEN 0 ELSE (Total(lat) * Scale) \div n
        Square(e) == (Value[e] * Scale - mean) * (Value[e] * Scale - mean)
        commits == OfType(events, "CommitEvent")
        views == OfType(events, "ViewChangeEvent")
    IN  [throughput |-> [commits |-> Cardinality(commits), commands |-> Total(commits)],
         views |-> [views |-> Cardinality(views), timeouts |-> Total(views)],
         mean |-> mean, m2 |-> IF n < 2 THEN -1 ELSE MapThenSumSet(Square, lat),
         count |-> n]

\* Every commit, view change and latency that was handled is in exactly one
\* measurement or still to be logged, in whatever order it comes between the
\* ticks.
MeasuredOnce ==
    /\ \A m \in log : m.events \cap since = {}
    /\ \A m, o \in log : m = o \/ m.events \cap o.events = {}
    /\ Metric => handled = since \cup UNION {m.events : m \in log}

\* So it is, and each measurement (tick, Welford.Update and Get) is that of its
\* events: their numbers, sums, mean and squared deviations.
MeasurementsExact ==
    /\ MeasuredOnce
    /\ Measurement = Reference(since)
    /\ \A m \in log : m.logged = Reference(m.events)
=============================================================================
