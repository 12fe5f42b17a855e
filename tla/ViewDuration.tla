---------------------------- MODULE ViewDuration ----------------------------
(***************************************************************************)
(* viewDuration: the estimate that sets the timers of the synchronizer.    *)
(* The floating point numbers are fixed-point ones: mean counts in units   *)
(* of 1/Scale, m2 and prevM2 in units of 1/Scale^2.  Scale is a multiple   *)
(* of every divisor met, so that no quotient is rounded.  inM2 and inPrev  *)
(* only observe: the measurements that contributed to m2 and to prevM2.    *)
(***************************************************************************)
EXTENDS Integers, FiniteSets

CONSTANTS Limit, StartTimeout, Multiplier, Scale, MaxMeasured

ASSUME LimitAssumption == Limit \in Nat \ {0}
ASSUME ScaleAssumption == Scale \in Nat \ {0}
ASSUME DurationAssumption ==
    StartTimeout \in Nat /\ Multiplier \in Nat \ {0} /\ MaxMeasured \in Nat

\* NewViewDuration; started is whether startTime was ever set.
NewViewDuration ==
    [mean |-> StartTimeout * Scale, m2 |-> 0, prevM2 |-> 0, count |-> 0,
     started |-> FALSE, inM2 |-> {}, inPrev |-> {}]

\* A bug that keeps the sum of an earlier period.
NextPeriodKept(d) == [d EXCEPT !.m2 = 0, !.inM2 = {}]

\* ViewSucceeded starts a new period.
NextPeriod(d) ==
    [d EXCEPT !.prevM2 = d.m2, !.m2 = 0, !.inPrev = d.inM2, !.inM2 = {}]

\* The number of measurements the mean is taken of.
Window(count) == IF count > Limit THEN Limit ELSE count

\* A bug that throws one away as soon as the window is full.
ThrowAwayEarly(d) ==
    IF d.count >= Limit THEN [d EXCEPT !.mean = @ - @ \div Limit] ELSE d

\* Once there are more than Limit measurements, one is thrown away.
ThrowAway(d) ==
    IF d.count > Limit THEN [d EXCEPT !.mean = @ - @ \div Limit] ELSE d

\* Welford's algorithm.
Welford(d, duration) ==
    LET d1   == duration - d.mean
        mean == d.mean + d1 \div Window(d.count)
        d2   == duration - mean
    IN  [d EXCEPT !.mean = mean, !.m2 = @ + d1 * d2,
                  !.inM2 = @ \cup {d.count}]

Counted(d) ==
    LET n == [d EXCEPT !.count = @ + 1]
    IN  IF n.count % Limit = 0 THEN NextPeriod(n) ELSE n

Measured(d, x) == Welford(ThrowAway(Counted(d)), x * Scale)

\* ViewSucceeded; x is the time since ViewStarted.  Bound: measurements
\* after the first MaxMeasured are not followed.
ViewSucceeded(d, x) ==
    IF d.started /\ d.count < MaxMeasured THEN Measured(d, x) ELSE d

ViewTimeout(d) == [d EXCEPT !.mean = @ * Multiplier]

ViewStarted(d) == [d EXCEPT !.started = TRUE]

\* Duration: the sum of squares, the measurements that contributed to it,
\* and the number it is divided by.
SumOfSquares(d) == d.m2 + (IF d.count >= Limit THEN d.prevM2 ELSE 0)
Contributed(d) ==
    Cardinality(d.inM2 \cup (IF d.count >= Limit THEN d.inPrev ELSE {}))
Divisor(d) ==
    IF d.count >= Limit THEN Limit + (d.count % Limit) ELSE d.count
=============================================================================
