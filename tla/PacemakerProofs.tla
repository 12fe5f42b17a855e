-------------------------- MODULE PacemakerProofs --------------------------
(***************************************************************************)
(* The leader rotations and the view durations of Pacemaker for every      *)
(* number of replicas, every window of measurements and every length of    *)
(* the chain.                                                              *)
(***************************************************************************)
EXTENDS Pacemaker, TLAPS, WellFoundedInduction, FiniteSetTheorems

-----------------------------------------------------------------------------
(* Arithmetic *)

\* Division rounds towards minus infinity.
LEMMA Quotient ==
    ASSUME NEW a \in Int, NEW w \in Nat \ {0}
    PROVE  /\ a \div w \in Int
           /\ a >= 0 => 0 <= a \div w /\ a \div w <= a
           /\ a < 0 => a <= a \div w /\ a \div w < 0
<1> DEFINE q == a \div w
           s == a % w
<1>1. q \in Int /\ s \in Int /\ 0 <= s /\ s < w /\ a = w * q + s
  OBVIOUS
<1> HIDE DEF q, s
<1>2. q >= 1 => w * q >= q
  BY <1>1
<1>3. q <= -1 => w * q <= q
  BY <1>1
<1>4. q <= -1 => w * q <= -w
  BY <1>1
<1>5. q >= 0 => w * q >= 0
  BY <1>1
<1>6. a >= 0 => 0 <= q /\ q <= a
  BY <1>1, <1>2, <1>4
<1>7. a < 0 => q < 0
  BY <1>1, <1>5
<1>8. a < 0 => a <= q
  <2>1. SUFFICES ASSUME a < 0, q < a PROVE FALSE
    BY <1>1
  <2>2. w * (a - q) >= w
    BY <1>1, <2>1
  <2>3. w * a <= a
    BY <2>1
  <2>4. w * (a - q) = w * a - w * q
    BY <1>1
  <2> QED
    BY <1>1, <2>1, <2>2, <2>3, <2>4
<1> QED
  BY <1>1, <1>6, <1>7, <1>8, Zenon DEF q

\* The product of two numbers on the same side of zero.
LEMMA SameSign ==
    ASSUME NEW a \in Int, NEW b \in Int, (a >= 0 /\ b >= 0) \/ (a <= 0 /\ b <= 0)
    PROVE  a * b \in Nat
OBVIOUS

\* The place of a measurement in its period.
LEMMA Remainder ==
    ASSUME NEW c \in Nat
    PROVE  /\ c % Limit \in 0..(Limit - 1)
           /\ c < Limit => c % Limit = c
           /\ c >= Limit => c - (c % Limit) >= Limit
           /\ (c + 1) % Limit = IF (c % Limit) + 1 = Limit THEN 0 ELSE (c % Limit) + 1
<1> DEFINE L == Limit
           q == c \div L
           s == c % L
           p == (c + 1) \div L
           u == (c + 1) % L
<1>1. L \in Nat \ {0}
  BY LimitAssumption, Zenon
<1> HIDE DEF L
<1>2. /\ q \in Int /\ s \in Int /\ 0 <= s /\ s < L /\ c = L * q + s
      /\ p \in Int /\ u \in Int /\ 0 <= u /\ u < L /\ c + 1 = L * p + u
  BY <1>1
<1> HIDE DEF q, s, p, u
<1>3. q >= 1 => L * q >= L
  BY <1>1, <1>2
<1>4. q <= -1 => L * q <= -L
  BY <1>1, <1>2
<1>5. q >= 0
  BY <1>1, <1>2, <1>4
<1>6. q = 0 => L * q = 0
  BY <1>1
<1>7. L * (p - q) = L * p - L * q
  BY <1>1, <1>2
<1>8. p - q >= 2 => L * (p - q) >= 2 * L
  BY <1>1, <1>2
<1>9. p - q <= -1 => L * (p - q) <= -L
  BY <1>1, <1>2
<1>10. p - q = 0 \/ p - q = 1
  BY <1>1, <1>2, <1>7, <1>8, <1>9
<1>11. u = IF s + 1 = L THEN 0 ELSE s + 1
  <2>1. CASE p - q = 0
    <3>1. L * (p - q) = 0
      BY <1>1, <2>1
    <3> QED
      BY <1>1, <1>2, <1>7, <3>1
  <2>2. CASE p - q = 1
    <3>1. L * (p - q) = L
      BY <1>1, <2>2
    <3> QED
      BY <1>1, <1>2, <1>7, <3>1
  <2> QED
    BY <1>10, <2>1, <2>2, Zenon
<1>12. c < L => s = c
  BY <1>1, <1>2, <1>3, <1>5, <1>6
<1>13. c >= L => c - s >= L
  BY <1>1, <1>2, <1>3, <1>5, <1>6
<1> QED
  BY <1>1, <1>2, <1>11, <1>12, <1>13 DEF L, s, u

-----------------------------------------------------------------------------
(* The view duration *)

\* The first measurement of the period that measurement c is in, and of the
\* period before.
Base(c) == c - (c % Limit)
First(c) == IF Base(c) = 0 THEN 1 ELSE Base(c)
PrevFirst(c) == IF Base(c) = Limit THEN 1 ELSE Base(c) - Limit

\* The sums of squares are those of the last two periods, and not negative.
DurationOK(d) ==
    /\ d \in [mean : Nat, m2 : Nat, prevM2 : Nat, count : 0..MaxMeasured,
              started : BOOLEAN, inM2 : SUBSET Nat, inPrev : SUBSET Nat]
    /\ d.inM2 = First(d.count)..d.count
    /\ d.count >= Limit => d.inPrev = PrevFirst(d.count)..(Base(d.count) - 1)

\* Before the first measurement.
LEMMA NewDuration == DurationOK(NewViewDuration)
<1>1. StartTimeout * Scale \in Nat /\ 0 \in 0..MaxMeasured
  BY DurationAssumption, ScaleAssumption
<1>2. Base(0) = 0 /\ First(0) = 1 /\ ~ (0 >= Limit)
  BY Remainder, LimitAssumption DEF Base, First
<1>3. First(0)..0 = {}
  BY <1>2
<1> QED
  BY <1>1, <1>2, <1>3, Zenon DEF NewViewDuration, DurationOK

\* A timeout and the start of a view.
LEMMA OtherDurations ==
    ASSUME NEW d, DurationOK(d)
    PROVE  DurationOK(ViewTimeout(d)) /\ DurationOK(ViewStarted(d))
<1>1. d.mean * Multiplier \in Nat
  BY DurationAssumption DEF DurationOK
<1> QED
  BY <1>1, Zenon DEF DurationOK, ViewTimeout, ViewStarted

\* A period ends with each measurement that is a multiple of Limit.
LEMMA CountedOK ==
    ASSUME NEW d, DurationOK(d), d.count < MaxMeasured
    PROVE  LET n == Counted(d) IN
           /\ n \in [mean : Nat, m2 : Nat, prevM2 : Nat, count : 0..MaxMeasured,
                     started : BOOLEAN, inM2 : SUBSET Nat, inPrev : SUBSET Nat]
           /\ n.count = d.count + 1
           /\ n.inM2 \cup {n.count} = First(n.count)..n.count
           /\ n.count >= Limit => n.inPrev = PrevFirst(n.count)..(Base(n.count) - 1)
<1> DEFINE c == d.count
           n == Counted(d)
           m == [d EXCEPT !.count = c + 1]
<1>1. c \in Nat /\ c + 1 \in 0..MaxMeasured /\ Limit \in Nat \ {0} /\ MaxMeasured \in Nat
  BY LimitAssumption, DurationAssumption DEF DurationOK
<1>2. /\ c % Limit \in 0..(Limit - 1)
      /\ c < Limit => c % Limit = c
      /\ c >= Limit => c - (c % Limit) >= Limit
      /\ (c + 1) % Limit = IF (c % Limit) + 1 = Limit THEN 0 ELSE (c % Limit) + 1
  BY <1>1, Remainder, Zenon
<1>3. n = IF (c + 1) % Limit = 0 THEN NextPeriod(m) ELSE m
  BY Zenon DEF Counted, DurationOK
<1>4. /\ m \in [mean : Nat, m2 : Nat, prevM2 : Nat, count : 0..MaxMeasured,
                started : BOOLEAN, inM2 : SUBSET Nat, inPrev : SUBSET Nat]
      /\ m.count = c + 1 /\ m.inM2 = First(c)..c
      /\ c >= Limit => m.inPrev = PrevFirst(c)..(Base(c) - 1)
  BY <1>1, Zenon DEF DurationOK
<1> HIDE DEF m, n, c
<1>5. CASE (c + 1) % Limit = 0
  <2>1. (c % Limit) + 1 = Limit
    BY <1>1, <1>2, <1>5
  <2>2. Base(c + 1) = c + 1 /\ First(c + 1) = c + 1
    BY <1>1, <1>5 DEF Base, First
  <2>3. First(c) = PrevFirst(c + 1)
    BY <1>1, <1>2, <2>1, <2>2 DEF Base, First, PrevFirst
  <2>4. n = NextPeriod(m)
    BY <1>3, <1>5, Zenon
  <2>5. /\ n \in [mean : Nat, m2 : Nat, prevM2 : Nat, count : 0..MaxMeasured,
                  started : BOOLEAN, inM2 : SUBSET Nat, inPrev : SUBSET Nat]
        /\ n.count = c + 1 /\ n.inM2 = {} /\ n.inPrev = First(c)..c
    BY <1>4, <2>4, Zenon DEF NextPeriod
  <2>6. First(c + 1)..(c + 1) = {c + 1} /\ (c + 1) - 1 = c
    BY <1>1, <2>2
  <2> QED
    BY <2>2, <2>3, <2>5, <2>6, ZenonT(30) DEF n, c
<1>6. CASE (c + 1) % Limit # 0
  <2>1. (c + 1) % Limit = (c % Limit) + 1
    BY <1>1, <1>2, <1>6, Zenon
  <2>2. Base(c + 1) = Base(c) /\ First(c + 1) = First(c) /\ PrevFirst(c + 1) = PrevFirst(c)
    BY <1>1, <1>2, <2>1 DEF Base, First, PrevFirst
  <2>3. n = m
    BY <1>3, <1>6, Zenon
  <2>4. First(c) \in Nat /\ First(c) <= c + 1
    BY <1>1, <1>2 DEF Base, First
  <2>5. (First(c)..c) \cup {c + 1} = First(c)..(c + 1)
    BY <1>1, <2>4
  <2>6. c + 1 >= Limit => c >= Limit
    BY <1>1, <1>2, <1>6, <2>1
  <2> QED
    BY <1>4, <2>2, <2>3, <2>5, <2>6, ZenonT(40) DEF n, c
<1> QED
  BY <1>5, <1>6, Zenon
\* Welford's step lies between the old mean and the measurement, also after
\* one measurement of the window is thrown away: what it adds to the sum of
\* squares is the product of two differences of one sign.
LEMMA MeasuredOK ==
    ASSUME NEW d, DurationOK(d), NEW x \in Nat
    PROVE  DurationOK(ViewSucceeded(d, x))
<1>1. CASE d.started /\ d.count < MaxMeasured
  <2> DEFINE n == Counted(d)
             t == ThrowAway(n)
             y == x * Scale
             w == Window(n.count)
             d1 == y - t.mean
             mean == t.mean + d1 \div w
             d2 == y - mean
             e == Welford(t, y)
  <2>1. /\ n \in [mean : Nat, m2 : Nat, prevM2 : Nat, count : 0..MaxMeasured,
                  started : BOOLEAN, inM2 : SUBSET Nat, inPrev : SUBSET Nat]
        /\ n.count = d.count + 1
        /\ n.inM2 \cup {n.count} = First(n.count)..n.count
        /\ n.count >= Limit => n.inPrev = PrevFirst(n.count)..(Base(n.count) - 1)
    BY <1>1, CountedOK, Zenon
  <2>2. Limit \in Nat \ {0} /\ Scale \in Nat /\ MaxMeasured \in Nat
    BY LimitAssumption, ScaleAssumption, DurationAssumption, Zenon
  <2>3. n.count \in Nat \ {0} /\ w \in Nat \ {0} /\ y \in Nat
    <3>1. d.count \in Nat
      BY <2>2 DEF DurationOK
    <3> HIDE DEF n
    <3> QED
      BY <2>1, <2>2, <3>1 DEF Window
  <2>4. ViewSucceeded(d, x) = e
    BY <1>1, Zenon DEF ViewSucceeded, Measured
  <2> HIDE DEF n
  <2>5. n.mean - n.mean \div Limit \in Nat
    <3>1. n.mean \in Nat
      BY <2>1, Zenon
    <3> QED
      BY <2>2, <3>1, Quotient
  <2>6. /\ t \in [mean : Nat, m2 : Nat, prevM2 : Nat, count : 0..MaxMeasured,
                  started : BOOLEAN, inM2 : SUBSET Nat, inPrev : SUBSET Nat]
        /\ t.count = n.count /\ t.inM2 = n.inM2 /\ t.inPrev = n.inPrev
    BY <2>1, <2>5, Zenon DEF ThrowAway
  <2>7. e = [t EXCEPT !.mean = mean, !.m2 = t.m2 + d1 * d2,
                      !.inM2 = t.inM2 \cup {t.count}]
    BY <2>6, Zenon DEF Welford
  <2> HIDE DEF t, y, w, e
  <2>8. t.mean \in Nat /\ t.m2 \in Nat /\ d1 \in Int
    BY <2>3, <2>6
  <2>9. mean \in Nat /\ d1 * d2 \in Nat
    <3> DEFINE q == d1 \div w
    <3>1. /\ q \in Int
          /\ d1 >= 0 => 0 <= q /\ q <= d1
          /\ d1 < 0 => d1 <= q /\ q < 0
      <4> HIDE DEF d1
      <4> QED
        BY <2>3, <2>8, Quotient, Zenon
    <3> HIDE DEF q
    <3>2. mean = t.mean + q /\ d2 = d1 - q
      BY <2>3, <2>8, <3>1 DEF q
    <3>3. mean \in Nat
      BY <2>3, <2>8, <3>1, <3>2
    <3>4. (d1 >= 0 /\ d2 >= 0) \/ (d1 <= 0 /\ d2 <= 0)
      <4> HIDE DEF d1, d2
      <4> QED
        BY <2>8, <3>1, <3>2
    <3>5. d2 \in Int
      BY <2>8, <3>1, <3>2
    <3> HIDE DEF d1, d2, mean
    <3> QED
      BY <2>8, <3>3, <3>4, <3>5, SameSign, ZenonT(40)
  <2> HIDE DEF d1, d2, mean
  <2>10. t.inM2 \cup {t.count} = First(t.count)..t.count /\ t.count \in Nat
    BY <2>1, <2>3, <2>6, Zenon
  <2>11. t.count >= Limit => t.inPrev = PrevFirst(t.count)..(Base(t.count) - 1)
    BY <2>1, <2>6, Zenon
  <2>12. t.m2 + d1 * d2 \in Nat
    BY <2>8, <2>9
  <2>13. DurationOK(e)
    BY <2>6, <2>7, <2>9, <2>10, <2>11, <2>12, ZenonT(40) DEF DurationOK
  <2> QED
    BY <2>4, <2>13, Zenon
<1>2. CASE ~ (d.started /\ d.count < MaxMeasured)
  BY <1>2, Zenon DEF ViewSucceeded
<1> QED
  BY <1>1, <1>2, Zenon

\* The measurements that contribute are consecutive ones.
LEMMA DurationSound ==
    ASSUME NEW d, DurationOK(d)
    PROVE  /\ SumOfSquares(d) >= 0
           /\ d.count > 1 =>
                /\ Contributed(d) >= (IF d.count < Limit THEN d.count ELSE Limit)
                /\ Contributed(d) - Divisor(d) \in {0, 1}
<1> DEFINE c == d.count
<1>1. c \in Nat /\ Limit \in Nat \ {0}
  BY LimitAssumption, DurationAssumption DEF DurationOK
<1>2. /\ c % Limit \in 0..(Limit - 1)
      /\ c < Limit => c % Limit = c
      /\ c >= Limit => c - (c % Limit) >= Limit
  BY <1>1, Remainder, Zenon
<1>3. SumOfSquares(d) >= 0
  BY DEF SumOfSquares, DurationOK
<1>4. /\ d.inM2 = First(c)..c
      /\ c >= Limit => d.inPrev = PrevFirst(c)..(Base(c) - 1)
  BY Zenon DEF DurationOK
<1>5. CASE c < Limit /\ c > 1
  <2>1. First(c) = 1
    BY <1>1, <1>2, <1>5 DEF First, Base
  <2>2. Contributed(d) = Cardinality(1..c) /\ Divisor(d) = c
    <3>1. ~ (d.count >= Limit) /\ d.inM2 \cup {} = 1..c
      BY <1>1, <1>4, <1>5, <2>1
    <3> QED
      BY <3>1, Zenon DEF Contributed, Divisor
  <2>3. Cardinality(1..c) = c
    BY <1>1, <1>5, FS_Interval
  <2> QED
    BY <1>1, <1>3, <1>5, <2>2, <2>3
<1>6. CASE c >= Limit
  <2>1. First(c) = Base(c) /\ Base(c) \in Nat /\ Base(c) >= Limit /\ Base(c) <= c
    BY <1>1, <1>2, <1>6 DEF First, Base
  <2>2. PrevFirst(c) \in Nat /\ PrevFirst(c) <= Base(c)
    BY <1>1, <2>1 DEF PrevFirst
  <2>3. d.inM2 \cup d.inPrev = PrevFirst(c)..c
    BY <1>1, <1>4, <1>6, <2>1, <2>2
  <2>4. Contributed(d) = Cardinality(PrevFirst(c)..c) /\ Divisor(d) = Limit + (c % Limit)
    BY <1>6, <2>3, Zenon DEF Contributed, Divisor
  <2>5. Cardinality(PrevFirst(c)..c) = c - PrevFirst(c) + 1
    <3> DEFINE p == PrevFirst(c)
    <3>1. c \in Int /\ p \in Int /\ ~ (p > c)
      BY <1>1, <2>1, <2>2
    <3> HIDE DEF p, c
    <3> QED
      BY <3>1, FS_Interval DEF p
  <2>6. c - PrevFirst(c) + 1 >= Limit /\ (c - PrevFirst(c) + 1) - (Limit + (c % Limit)) \in {0, 1}
    BY <1>1, <1>2, <1>6, <2>1 DEF PrevFirst, Base
  <2> QED
    BY <1>1, <1>3, <1>6, <2>4, <2>5, <2>6
<1> QED
  BY <1>1, <1>3, <1>5, <1>6

\* The mean is at most M, and so is the root of each square in the two sums.
Bounded(d, M) ==
    /\ d.mean <= M
    /\ IsFiniteSet(d.inM2) /\ d.m2 <= Cardinality(d.inM2) * (M * M)
    /\ IsFiniteSet(d.inPrev) /\ d.prevM2 <= Cardinality(d.inPrev) * (M * M)

\* Nothing was measured.
Fresh(d) ==
    d.count = 0 /\ d.m2 = 0 /\ d.prevM2 = 0 /\ d.inM2 = {} /\ d.inPrev = {}

\* Products grow with their factors.
LEMMA Products ==
    ASSUME NEW a \in Nat, NEW b \in Nat, NEW m \in Nat, NEW n \in Nat, a <= m, b <= n
    PROVE  a * b \in Nat /\ m * n \in Nat /\ a * b <= m * n
<1>1. m * n - a * b = m * (n - b) + (m - a) * b
  OBVIOUS
<1>2. m * (n - b) >= 0 /\ (m - a) * b >= 0
  OBVIOUS
<1> QED
  BY <1>1, <1>2

\* A bound may be raised.
LEMMA BoundedMore ==
    ASSUME NEW d, DurationOK(d), NEW M \in Nat, NEW L \in Nat, M <= L, Bounded(d, M)
    PROVE  Bounded(d, L)
<1>1. M * M \in Nat /\ L * L \in Nat /\ M * M <= L * L
  BY Products
<1>2. Cardinality(d.inM2) \in Nat /\ Cardinality(d.inPrev) \in Nat
  BY FS_CardinalityType, Zenon DEF Bounded
<1>3. /\ Cardinality(d.inM2) * (M * M) <= Cardinality(d.inM2) * (L * L)
      /\ Cardinality(d.inPrev) * (M * M) <= Cardinality(d.inPrev) * (L * L)
      /\ Cardinality(d.inM2) * (M * M) \in Nat /\ Cardinality(d.inM2) * (L * L) \in Nat
      /\ Cardinality(d.inPrev) * (M * M) \in Nat /\ Cardinality(d.inPrev) * (L * L) \in Nat
  <2> DEFINE a == Cardinality(d.inM2)
             b == Cardinality(d.inPrev)
             m == M * M
             l == L * L
  <2>1. a \in Nat /\ b \in Nat /\ m \in Nat /\ l \in Nat /\ m <= l /\ a <= a /\ b <= b
    <3> HIDE DEF a, b, m, l
    <3>1. a \in Nat /\ b \in Nat /\ m \in Nat /\ l \in Nat /\ m <= l
      BY <1>1, <1>2, Zenon DEF a, b, m, l
    <3> QED
      BY <3>1
  <2> HIDE DEF a, b, m, l
  <2>2. a * m <= a * l /\ b * m <= b * l /\ a * m \in Nat /\ a * l \in Nat /\ b * m \in Nat /\ b * l \in Nat
    BY <2>1, Products, Zenon
  <2> QED
    BY <2>2, Zenon DEF a, b, m, l
<1>4. d.mean \in Nat /\ d.m2 \in Nat /\ d.prevM2 \in Nat
  BY Zenon DEF DurationOK
<1> DEFINE am == Cardinality(d.inM2) * (M * M)
           al == Cardinality(d.inM2) * (L * L)
           bm == Cardinality(d.inPrev) * (M * M)
           bl == Cardinality(d.inPrev) * (L * L)
<1>5. d.mean <= M /\ d.m2 <= am /\ d.prevM2 <= bm
  BY Zenon DEF Bounded
<1>6. am \in Nat /\ al \in Nat /\ bm \in Nat /\ bl \in Nat /\ am <= al /\ bm <= bl
  BY <1>3, Zenon
<1> HIDE DEF am, al, bm, bl
<1>7. d.mean <= L /\ d.m2 <= al /\ d.prevM2 <= bl
  BY <1>4, <1>5, <1>6
<1> QED
  BY <1>7, Zenon DEF Bounded, al, bl

\* A measurement of at most M keeps the bound M, which a first one sets.
LEMMA BoundedMeasured ==
    ASSUME NEW d, DurationOK(d), NEW x \in Nat, NEW M \in Nat, x * Scale <= M,
           d.started, d.count < MaxMeasured, Bounded(d, M) \/ Fresh(d)
    PROVE  Bounded(ViewSucceeded(d, x), M)
<1> DEFINE n == Counted(d)
           t == ThrowAway(n)
           y == x * Scale
           w == Window(n.count)
           d1 == y - t.mean
           q == d1 \div w
           mean == t.mean + q
           d2 == y - mean
           e == Welford(t, y)
           Q == M * M
<1>1. Limit \in Nat \ {0} /\ Scale \in Nat /\ MaxMeasured \in Nat /\ Q \in Nat /\ y \in Nat
  BY LimitAssumption, ScaleAssumption, DurationAssumption, Products
<1>2. /\ n \in [mean : Nat, m2 : Nat, prevM2 : Nat, count : 0..MaxMeasured,
                started : BOOLEAN, inM2 : SUBSET Nat, inPrev : SUBSET Nat]
      /\ n.count = d.count + 1
  BY CountedOK, Zenon
<1>3. d.count \in Nat /\ n.count \in Nat \ {0} /\ w \in Nat \ {0}
  <2>1. d.count \in Nat
    BY <1>1 DEF DurationOK
  <2> HIDE DEF n
  <2> QED
    BY <1>1, <1>2, <2>1 DEF Window
<1>4. ViewSucceeded(d, x) = e
  BY Zenon DEF ViewSucceeded, Measured
<1>5. /\ n.mean = d.mean
      /\ IsFiniteSet(n.inM2) /\ n.m2 <= Cardinality(n.inM2) * Q
      /\ IsFiniteSet(n.inPrev) /\ n.prevM2 <= Cardinality(n.inPrev) * Q
      /\ n.count \notin n.inM2
      /\ Fresh(d) => n.m2 = 0
  <2> DEFINE m == [d EXCEPT !.count = d.count + 1]
  <2>1. /\ m.mean = d.mean /\ m.m2 = d.m2 /\ m.prevM2 = d.prevM2
        /\ m.inM2 = d.inM2 /\ m.inPrev = d.inPrev /\ m.count = d.count + 1
    BY Zenon DEF DurationOK
  <2>2. /\ IsFiniteSet(d.inM2) /\ d.m2 <= Cardinality(d.inM2) * Q
        /\ IsFiniteSet(d.inPrev) /\ d.prevM2 <= Cardinality(d.inPrev) * Q
    <3>1. CASE Bounded(d, M)
      BY <3>1, Zenon DEF Bounded
    <3>2. CASE Fresh(d)
      <4>1. IsFiniteSet({}) /\ Cardinality({}) = 0
        BY FS_EmptySet, Zenon
      <4>2. 0 <= 0 * Q
        <5> HIDE DEF Q
        <5> QED
          BY <1>1
      <4> QED
        BY <3>2, <4>1, <4>2, Zenon DEF Fresh
    <3> QED
      BY <3>1, <3>2, Zenon
  <2>3. IsFiniteSet({}) /\ Cardinality({}) = 0 /\ 0 <= 0 * Q
    <3> HIDE DEF Q
    <3> QED
      BY <1>1, FS_EmptySet
  <2>4. d.count + 1 \notin d.inM2
    <3>1. d.inM2 = First(d.count)..d.count
      BY Zenon DEF DurationOK
    <3> QED
      BY <1>3, <3>1
  <2>5. n = IF (d.count + 1) % Limit = 0 THEN NextPeriod(m) ELSE m
    BY Zenon DEF Counted, DurationOK
  <2>6. m \in [mean : Nat, m2 : Nat, prevM2 : Nat, count : 0..MaxMeasured,
               started : BOOLEAN, inM2 : SUBSET Nat, inPrev : SUBSET Nat]
    <3>1. d.count + 1 \in 0..MaxMeasured
      BY <1>1, <1>3
    <3> QED
      BY <3>1, Zenon DEF DurationOK
  <2> HIDE DEF m, n, Q
  <2>7. CASE n = m
    BY <2>1, <2>2, <2>4, <2>7, Zenon DEF Fresh
  <2>8. CASE n = NextPeriod(m)
    <3>1. /\ n.mean = m.mean /\ n.m2 = 0 /\ n.inM2 = {} /\ n.prevM2 = m.m2 /\ n.inPrev = m.inM2
      BY <2>6, <2>8, Zenon DEF NextPeriod
    <3> QED
      BY <2>1, <2>2, <2>3, <3>1, ZenonT(30)
  <2> QED
    BY <2>5, <2>7, <2>8, Zenon
<1> HIDE DEF n
<1>6. n.mean \in Nat /\ n.mean - n.mean \div Limit \in Nat /\ n.mean - n.mean \div Limit <= n.mean
  <2>1. n.mean \in Nat
    BY <1>2, Zenon
  <2> QED
    BY <1>1, <2>1, Quotient
<1>7. /\ t \in [mean : Nat, m2 : Nat, prevM2 : Nat, count : 0..MaxMeasured,
                started : BOOLEAN, inM2 : SUBSET Nat, inPrev : SUBSET Nat]
      /\ t.count = n.count /\ t.inM2 = n.inM2 /\ t.inPrev = n.inPrev
      /\ t.m2 = n.m2 /\ t.prevM2 = n.prevM2
      /\ t.mean = n.mean \/ t.mean = n.mean - n.mean \div Limit
  BY <1>2, <1>6, Zenon DEF ThrowAway
<1>8. e = [t EXCEPT !.mean = mean, !.m2 = t.m2 + d1 * d2, !.inM2 = t.inM2 \cup {t.count}]
  BY <1>7, Zenon DEF Welford
<1> HIDE DEF t, y, w, e
<1>9. t.mean \in Nat /\ t.m2 \in Nat /\ d1 \in Int /\ t.mean <= n.mean
  BY <1>1, <1>6, <1>7
<1>10. /\ q \in Int
       /\ d1 >= 0 => 0 <= q /\ q <= d1
       /\ d1 < 0 => d1 <= q /\ q < 0
  <2> HIDE DEF d1
  <2> QED
    BY <1>3, <1>9, Quotient, Zenon
<1>11. y <= M
  BY Zenon DEF y
<1>12. mean \in Nat /\ mean <= M /\ d1 * d2 \in Nat /\ d1 * d2 <= Q
  <2>1. CASE Bounded(d, M)
    <3>1. t.mean <= M
      <4>1. d.mean <= M
        BY <2>1, Zenon DEF Bounded
      <4> QED
        BY <1>5, <1>6, <1>9, <4>1
    <3> HIDE DEF q
    <3>2. mean \in Nat /\ mean <= M /\ d2 \in Int /\ d2 = d1 - q
      BY <1>1, <1>9, <1>10, <1>11, <3>1
    <3>3. CASE d1 >= 0
      <4>1. d1 \in Nat /\ d2 \in Nat /\ d1 <= M /\ d2 <= M
        BY <1>1, <1>9, <1>10, <1>11, <3>2, <3>3
      <4> HIDE DEF d1, d2, mean
      <4>2. d1 * d2 \in Nat /\ d1 * d2 <= Q
        BY <4>1, Products, Zenon
      <4> QED
        BY <3>2, <4>2, Zenon
    <3>4. CASE d1 < 0
      <4>1. -d1 \in Nat /\ -d2 \in Nat /\ -d1 <= M /\ -d2 <= M
        BY <1>1, <1>9, <1>10, <1>11, <3>1, <3>2, <3>4
      <4> HIDE DEF d1, d2, mean
      <4>2. (-d1) * (-d2) \in Nat /\ (-d1) * (-d2) <= Q
        BY <4>1, Products, Zenon
      <4>3. (-d1) * (-d2) = d1 * d2
        BY <1>9, <3>2
      <4> QED
        BY <3>2, <4>2, <4>3, Zenon
    <3> QED
      BY <1>9, <3>3, <3>4
  <2>2. CASE Fresh(d)
    <3>1. n.count = 1
      BY <1>2, <2>2 DEF Fresh
    <3>2. w = 1
      BY <1>1, <3>1 DEF w, Window
    <3>3. q = d1
      <4> HIDE DEF d1
      <4> QED
        BY <1>9, <3>2
    <3>4. mean = y /\ d2 = 0
      <4> HIDE DEF q
      <4> QED
        BY <1>1, <1>9, <3>3
    <3>5. d1 * 0 = 0 /\ 0 <= Q
      <4> HIDE DEF d1, Q
      <4> QED
        BY <1>1, <1>9
    <3> HIDE DEF d1, d2, mean, Q
    <3>6. d1 * d2 = 0
      BY <3>4, <3>5, Zenon
    <3> QED
      BY <1>1, <1>11, <3>4, <3>5, <3>6
  <2> QED
    BY <2>1, <2>2, Zenon
<1> HIDE DEF d1, d2, mean, Q
<1>13. /\ IsFiniteSet(t.inM2 \cup {t.count})
       /\ Cardinality(t.inM2 \cup {t.count}) = Cardinality(t.inM2) + 1
       /\ Cardinality(t.inM2) \in Nat
  <2>1. IsFiniteSet(t.inM2) /\ t.count \notin t.inM2
    BY <1>5, <1>7, Zenon
  <2> QED
    BY <2>1, FS_AddElement, FS_CardinalityType
<1>14. t.m2 + d1 * d2 <= Cardinality(t.inM2 \cup {t.count}) * Q
  <2> DEFINE c == Cardinality(t.inM2)
             s == d1 * d2
  <2>1. c \in Nat /\ s \in Nat /\ s <= Q /\ t.m2 <= c * Q
    BY <1>5, <1>7, <1>12, <1>13, Zenon
  <2> HIDE DEF c, s
  <2>2. (c + 1) * Q = c * Q + Q /\ c * Q \in Nat
    BY <1>1, <2>1
  <2>3. t.m2 + s <= (c + 1) * Q
    BY <1>1, <1>9, <2>1, <2>2
  <2> QED
    BY <1>13, <2>3, Zenon DEF c, s
<1>15. /\ e.mean = mean /\ e.m2 = t.m2 + d1 * d2 /\ e.inM2 = t.inM2 \cup {t.count}
       /\ e.inPrev = n.inPrev /\ e.prevM2 = n.prevM2
  BY <1>7, <1>8, Zenon
<1>16. Bounded(e, M)
  BY <1>5, <1>12, <1>13, <1>14, <1>15, ZenonT(30) DEF Bounded, Q
<1> QED
  BY <1>4, <1>16, Zenon

\* The two sums are over different measurements.
LEMMA SquaresBounded ==
    ASSUME NEW d, DurationOK(d), NEW M \in Nat, Bounded(d, M)
    PROVE  SumOfSquares(d) <= Contributed(d) * (M * M)
<1> DEFINE Q == M * M
           a == Cardinality(d.inM2)
           b == Cardinality(d.inPrev)
<1>1. Q \in Nat /\ a \in Nat /\ b \in Nat
  <2>1. a \in Nat /\ b \in Nat
    BY FS_CardinalityType, Zenon DEF Bounded
  <2>2. Q \in Nat
    BY Products
  <2> QED
    BY <2>1, <2>2, Zenon
<1>2. /\ d.m2 \in Nat /\ d.prevM2 \in Nat /\ d.m2 <= a * Q /\ d.prevM2 <= b * Q
  BY Zenon DEF DurationOK, Bounded
<1>3. CASE ~ (d.count >= Limit)
  <2>1. d.inM2 \cup {} = d.inM2
    BY Zenon
  <2>2. Contributed(d) = a
    BY <1>3, <2>1, Zenon DEF Contributed
  <2>3. SumOfSquares(d) = d.m2
    BY <1>2, <1>3 DEF SumOfSquares
  <2> QED
    BY <1>2, <2>2, <2>3, Zenon
<1>4. CASE d.count >= Limit
  <2>1. d.inM2 \cap d.inPrev = {}
    <3> DEFINE c == d.count
    <3>1. c \in Nat /\ Limit \in Nat \ {0}
      BY LimitAssumption, DurationAssumption DEF DurationOK
    <3>2. c % Limit \in 0..(Limit - 1) /\ c - (c % Limit) >= Limit
      BY <1>4, <3>1, Remainder, Zenon
    <3>3. d.inM2 = First(c)..c /\ d.inPrev = PrevFirst(c)..(Base(c) - 1)
      BY <1>4, Zenon DEF DurationOK
    <3>4. First(c) = Base(c) /\ Base(c) \in Nat /\ PrevFirst(c) \in Nat
      BY <3>1, <3>2 DEF First, Base, PrevFirst
    <3> HIDE DEF c
    <3> QED
      BY <3>1, <3>3, <3>4
  <2>2. IsFiniteSet(d.inM2) /\ IsFiniteSet(d.inPrev)
    BY Zenon DEF Bounded
  <2>3. Cardinality(d.inM2 \cup d.inPrev) = a + b
    <3>1. Cardinality(d.inM2 \cup d.inPrev) = a + b - Cardinality(d.inM2 \cap d.inPrev)
      BY <2>2, FS_Union, Zenon
    <3>2. Cardinality(d.inM2 \cap d.inPrev) = 0
      BY <2>1, FS_EmptySet, Zenon
    <3> HIDE DEF a, b
    <3> QED
      BY <1>1, <3>1, <3>2
  <2>4. Contributed(d) = a + b /\ SumOfSquares(d) = d.m2 + d.prevM2
    BY <1>4, <2>3, Zenon DEF Contributed, SumOfSquares
  <2> HIDE DEF Q, a, b
  <2>5. (a + b) * Q = a * Q + b * Q /\ a * Q \in Nat /\ b * Q \in Nat
    BY <1>1
  <2>6. d.m2 + d.prevM2 <= (a + b) * Q
    BY <1>2, <2>5
  <2> QED
    BY <2>4, <2>6, Zenon DEF Q
<1> QED
  BY <1>3, <1>4, Zenon

-----------------------------------------------------------------------------
(* The leader rotations *)

Below == {p \in Nat \X Nat : p[1] < p[2]}

\* Induction up to a bound, for a set instead of a predicate: the least number
\* outside the set has a predecessor in it.
LEMMA BoundedInduction ==
    ASSUME NEW bound \in Nat, NEW S, 0 \in S,
           \A n \in 0..(bound - 1) : n \in S => n + 1 \in S
    PROVE  0..bound \subseteq S
<1> DEFINE T == {n \in Nat : n <= bound /\ n \notin S}
<1>1. SUFFICES ASSUME T # {} PROVE FALSE
  OBVIOUS
<1>2. Below = OpToRel(<, Nat)
  BY Zenon DEF Below, OpToRel
<1>3. IsWellFoundedOn(Below, Nat)
  BY <1>2, NatLessThanWellFounded, Zenon
<1>4. PICK n \in T : \A m \in T : ~ (<<m, n>> \in Below)
  BY <1>1, <1>3, WFMin, Zenon
<1>5. n \in Nat /\ n # 0 /\ n - 1 \in Nat /\ n - 1 \in 0..(bound - 1) /\ (n - 1) + 1 = n
  BY <1>4
<1>6. n - 1 \in T
  BY <1>4, <1>5
<1>7. <<n - 1, n>> \in Below
  BY <1>5 DEF Below
<1> QED
  BY <1>4, <1>6, <1>7, ZenonT(30)

\* The inner loop of RemoveActive puts only entries of the list into it.
LEMMA RemoveIDWithin ==
    ASSUME NEW S, NEW n \in Nat \ {0}, NEW active \in [1..n -> S], NEW id
    PROVE  RemoveID(active, id) \in [1..n -> S]
<1>1. active \in Seq(S) /\ Len(active) = n
  OBVIOUS
<1>2. Last(active) \in S
  BY <1>1 DEF Last
<1>3. ASSUME NEW i \in 1..n PROVE RemoveIndex(active, i)[i] \in S
  BY <1>2, Zenon DEF RemoveIndex
<1> QED
  BY <1>3, Zenon DEF RemoveID

\* So does the outer loop.
LEMMA RemoveActiveWithin ==
    ASSUME NEW S, NEW n \in Nat \ {0}, NEW active \in [1..n -> S], NEW last,
           Len(last) \in Nat
    PROVE  RemoveActive(active, last) \in [1..n -> S]
<1> DEFINE m == Len(last)
           T == [1..n -> S]
           Eq(f) == f = [k \in 0..m |-> IF k = 0 THEN active
                                        ELSE RemoveID(f[k - 1], last[k])]
           Run(f, k) == /\ f \in [0..k -> T] /\ f[0] = active
                        /\ \A j \in 1..k : f[j] = RemoveID(f[j - 1], last[j])
           R == {k \in Nat : \E f : Run(f, k)}
           after == CHOOSE f : Eq(f)
<1>1. RemoveActive(active, last) = after[m]
  BY Zenon DEF RemoveActive
<1>2. m \in Nat /\ active \in T
  BY Zenon
<1>3. \A a \in T : \A id : RemoveID(a, id) \in T
  BY RemoveIDWithin, Zenon
<1> HIDE DEF m, T
<1>4. 0 \in R
  <2> DEFINE f == [k \in 0..0 |-> active]
  <2>1. f \in [0..0 -> T] /\ f[0] = active
    BY <1>2
  <2>2. Run(f, 0)
    BY <2>1
  <2> QED
    BY <2>2, Zenon
<1>5. ASSUME NEW k \in 0..(m - 1), k \in R
      PROVE  k + 1 \in R
  <2>1. PICK f : Run(f, k)
    BY <1>5, Zenon
  <2> DEFINE v == RemoveID(f[k], last[k + 1])
             g == [j \in 0..(k + 1) |-> IF j = k + 1 THEN v ELSE f[j]]
  <2>2. v \in T
    <3>1. k \in 0..k
      BY <1>2
    <3>2. f[k] \in T
      BY <2>1, <3>1, Zenon
    <3> QED
      BY <1>3, <3>2, Zenon
  <2> HIDE DEF v
  <2>3. \A j \in 0..(k + 1) : g[j] = IF j = k + 1 THEN v ELSE f[j]
    BY Zenon
  <2>4. g \in [0..(k + 1) -> T]
    BY <2>1, <2>2
  <2> HIDE DEF g
  <2>5. g[0] = active
    BY <2>1, <2>3
  <2>6. ASSUME NEW j \in 1..(k + 1) PROVE g[j] = RemoveID(g[j - 1], last[j])
    <3>1. CASE j = k + 1
      BY <2>3, <3>1 DEF v
    <3>2. CASE j # k + 1
      <4>1. j \in 1..k /\ g[j] = f[j] /\ g[j - 1] = f[j - 1]
        BY <2>3, <3>2
      <4> QED
        BY <2>1, <4>1, Zenon
    <3> QED
      BY <3>1, <3>2, ZenonT(30)
  <2>7. Run(g, k + 1)
    BY <2>4, <2>5, <2>6, Zenon
  <2>8. k + 1 \in Nat
    BY <1>2
  <2> QED
    BY <2>7, <2>8, Zenon
<1>6. PICK f : Run(f, m)
  <2>1. \A k \in 0..(m - 1) : k \in R => k + 1 \in R
    BY <1>5, Zenon
  <2> HIDE DEF R
  <2>2. 0..m \subseteq R
    BY <1>2, <1>4, <2>1, BoundedInduction, Zenon
  <2>3. m \in R
    BY <1>2, <2>2
  <2> QED
    BY <2>3, Zenon DEF R
<1>7. Eq(f)
  <2>1. f = [k \in 0..m |-> f[k]]
    BY <1>6, Zenon
  <2>2. \A k \in 0..m : f[k] = IF k = 0 THEN active ELSE RemoveID(f[k - 1], last[k])
    BY <1>2, <1>6
  <2> QED
    BY <2>1, <2>2, Zenon
<1>8. Eq(after)
  BY <1>7, Zenon
<1> HIDE DEF after
<1>9. \A k \in 0..m : after[k] = IF k = 0 THEN active ELSE RemoveID(after[k - 1], last[k])
  BY <1>8, Zenon
<1> DEFINE U == {k \in 0..m : after[k] \in T}
<1>10. 0 \in U
  BY <1>2, <1>9
<1>11. \A k \in 0..(m - 1) : k \in U => k + 1 \in U
  <2>1. SUFFICES ASSUME NEW k \in 0..(m - 1), k \in U PROVE k + 1 \in U
    BY Zenon
  <2>2. k + 1 \in 0..m /\ k + 1 # 0 /\ (k + 1) - 1 = k
    BY <1>2
  <2>3. after[k + 1] = RemoveID(after[k], last[k + 1])
    BY <1>9, <2>2, ZenonT(30)
  <2> QED
    BY <1>3, <2>1, <2>2, <2>3, ZenonT(30)
<1>12. m \in U
  <2> HIDE DEF U
  <2>1. 0..m \subseteq U
    BY <1>2, <1>10, <1>11, BoundedInduction, ZenonT(30)
  <2> QED
    BY <1>2, <2>1
<1> QED
  BY <1>1, <1>12, Zenon DEF T

Blocks == [view : Nat, proposer : IDs, voters : Quorums]

\* The participants of a certificate are replicas.
LEMMA ParticipantsWithin ==
    ASSUME NEW c \in Seq(Blocks), NEW h \in 0..Len(c)
    PROVE  /\ Participants(c, h) \subseteq IDs /\ IsFiniteSet(Participants(c, h))
           /\ Participants(c, h) # {} => Cardinality(Participants(c, h)) = QuorumSize
<1>1. IsFiniteSet(IDs)
  BY NAssumption, FS_Interval DEF IDs
<1>2. CASE h <= 1
  BY <1>2, FS_EmptySet DEF Participants
<1>3. CASE ~ (h <= 1)
  <2>1. h - 1 \in 1..Len(c)
    BY <1>3
  <2>2. c[h - 1].voters \in Quorums
    <3>1. c[h - 1] \in Blocks
      BY <2>1
    <3> QED
      BY <3>1, Zenon DEF Blocks
  <2>3. Participants(c, h) = c[h - 1].voters
    BY <1>3, Zenon DEF Participants
  <2>4. c[h - 1].voters \subseteq IDs /\ Cardinality(c[h - 1].voters) = QuorumSize
    BY <2>2, PacemakerAssumption
  <2> QED
    BY <1>1, <2>3, <2>4, FS_Subset
<1> QED
  BY <1>2, <1>3, ZenonT(30)

\* Carousel draws a participant.
LEMMA CarouselWithin ==
    ASSUME NEW c \in Seq(Blocks), NEW h \in 0..Len(c), Participants(c, h) # {}
    PROVE  CarouselDraw(c, h) \subseteq Participants(c, h)
<1> DEFINE P == Participants(c, h)
           n == Cardinality(P)
           last == LastAuthors(c, h)
<1>1. n \in Nat \ {0}
  BY ParticipantsWithin, FS_CardinalityType, FS_EmptySet
<1>2. Len(last) \in Nat
  <2> DEFINE k == IF h < F THEN h ELSE F
             a(i) == c[h + 1 - i].proposer
  <2>1. F \in Nat
    BY NAssumption, Quotient DEF F
  <2>2. k \in Nat
    BY <2>1
  <2>3. last = [i \in 1..k |-> a(i)]
    BY Zenon DEF LastAuthors
  <2> HIDE DEF k, a
  <2>4. Len([i \in 1..k |-> a(i)]) = k
    BY <2>2
  <2> QED
    BY <2>2, <2>3, <2>4, ZenonT(30)
<1> HIDE DEF P, n, last
<1>3. ASSUME NEW active \in ActiveIDs(P)
      PROVE  Range(RemoveActive(active, last)) \subseteq P
  <2>1. active \in [1..n -> P]
    BY <1>3 DEF ActiveIDs, SetToSeqs, n
  <2>2. RemoveActive(active, last) \in [1..n -> P]
    BY <1>1, <1>2, <2>1, RemoveActiveWithin, Zenon
  <2> QED
    BY <2>2, Zenon DEF Range
<1> QED
  BY <1>3 DEF CarouselDraw, P, last

\* Every rotation names replicas only, or panics.
LEMMA LeadersAreReplicas ==
    ASSUME NEW k \in Rotations, NEW v \in Nat, NEW c \in Seq(Blocks),
           NEW h \in 0..Len(c), NEW r
    PROVE  GetLeader(k, v, c, h, r) \subseteq IDs \cup {Panicked}
<1>1. 1 \in IDs /\ ChooseRoundRobin(v) \in IDs
  BY NAssumption DEF IDs, ChooseRoundRobin
<1>2. Carousel(v, c, h) \subseteq IDs \cup {Panicked}
  BY <1>1, CarouselWithin, ParticipantsWithin, ZenonT(30) DEF Carousel
<1>3. RepBased(v, c, h, r) \subseteq IDs \cup {Panicked}
  BY <1>1, ParticipantsWithin, ZenonT(30) DEF RepBased
<1> QED
  BY <1>1, <1>2, <1>3, Zenon DEF GetLeader, Rotations

\* A quorum is large enough for reputations never to fall.
LEMMA ReputationsGrow ==
    ASSUME NEW k, NEW v, NEW c \in Seq(Blocks), NEW h \in 0..Len(c),
           NEW r \in [IDs -> Nat]
    PROVE  RepAfter(k, v, c, h, r) \in [IDs -> Nat]
<1> DEFINE P == Participants(c, h)
<1>1. ASSUME NEW id \in P PROVE Reputation(P) \in Nat
  <2>1. Cardinality(P) = QuorumSize
    BY <1>1, ParticipantsWithin, Zenon
  <2> DEFINE q == (N - 1) \div 3
  <2>2. N \in Nat \ {0} /\ q \in Int /\ 3 * q <= N - 1
    BY NAssumption
  <2>3. QuorumSize = N - q
    BY Zenon DEF QuorumSize, F
  <2> HIDE DEF q
  <2>4. 3 * (1 + (N - q)) - 2 * N \in Nat
    BY <2>2
  <2> QED
    BY <2>1, <2>3, <2>4 DEF Reputation
<1> HIDE DEF P
<1>2. UpdateRep(r, P) \in [IDs -> Nat]
  BY <1>1 DEF UpdateRep
<1> QED
  BY <1>2, Zenon DEF RepAfter, P

-----------------------------------------------------------------------------
(* The synchronizer *)

\* TypeOK with the types that it leaves open, and the state of the duration.
PacemakerInv ==
    /\ TypeOK
    /\ chain \in Seq(Blocks)
    /\ rep \in [IDs -> Nat]
    /\ DurationOK(dur)

\* The answers of GetLeader.
LEMMA AnswersWithin ==
    ASSUME PacemakerInv, NEW v \in Nat, NEW c \in Seq(Blocks), NEW h \in 0..Len(c), NEW r
    PROVE  Answers(v, c, h, r) \subseteq IDs \cup {Panicked}
BY LeadersAreReplicas, PacemakerAssumption, Zenon DEF Answers, PacemakerInv, TypeOK

\* Certified blocks are proposed by replicas: a panic is not an answer.
LEMMA ProposersWithin ==
    ASSUME PacemakerInv
    PROVE  Proposers(view) \subseteq IDs
<1>1. view \in Nat /\ head \in 0..Len(chain) /\ chain \in Seq(Blocks) /\ rotation \in Rotations
  BY PacemakerAssumption DEF PacemakerInv, TypeOK
<1>2. ChooseRoundRobin(view) \in IDs /\ 1 \in IDs
  BY <1>1, NAssumption DEF IDs, ChooseRoundRobin
<1>3. rotation = "fixed" => Answers(view, chain, head, rep) = {1}
  BY Zenon DEF Answers, GetLeader
<1> QED
  BY <1>2, <1>3, PacemakerAssumption, ZenonT(30) DEF Proposers

\* The next view is entered with a chain c and a committed block h.
LEMMA EnterViewOK ==
    ASSUME PacemakerInv, NEW c \in Seq(Blocks), NEW h \in 0..Len(c),
           NEW r \in [IDs -> Nat], NEW p \in BOOLEAN, EnterView(c, h, r, p)
    PROVE  /\ view' = view + 1 /\ view' \in 1..MaxView /\ leader' \in IDs \cup {Panicked}
           /\ timedOut' \in BOOLEAN /\ proposed' \in BOOLEAN /\ rep' \in [IDs -> Nat]
<1>1. view \in Nat /\ view \in 1..MaxView /\ MaxView \in Nat
  BY PacemakerAssumption DEF PacemakerInv, TypeOK
<1>2. view' = view + 1 /\ view < MaxView /\ timedOut' = FALSE /\ proposed' = p
  BY Zenon DEF EnterView
<1>3. leader' \in IDs \cup {Panicked}
  <2>1. view + 1 \in Nat
    BY <1>1
  <2>2. leader' \in Answers(view + 1, c, h, r)
    BY Zenon DEF EnterView
  <2> QED
    BY <2>1, <2>2, AnswersWithin, Zenon
<1>4. rep' \in [IDs -> Nat]
  BY ReputationsGrow, Zenon DEF EnterView
<1>5. timedOut' \in BOOLEAN /\ proposed' \in BOOLEAN
  BY <1>2, Zenon
<1>6. view' = view + 1 /\ view' \in 1..MaxView
  BY <1>1, <1>2
<1> QED
  BY <1>3, <1>4, <1>5, <1>6, Zenon

\* A certified block of the current view is put on the chain, or none is.
LEMMA ChainOK ==
    ASSUME PacemakerInv, NEW voters \in Quorums, NEW p \in IDs, NEW c,
           c = chain \/ c = Append(chain, [view |-> view, proposer |-> p, voters |-> voters])
    PROVE  /\ c \in Seq(Blocks) /\ Len(c) \in Nat /\ Len(chain) \in Nat /\ Len(c) >= Len(chain)
           /\ \A i \in DOMAIN c : /\ c[i].view \in 1..view /\ c[i].proposer \in IDs
                                  /\ c[i].voters \in Quorums
<1> DEFINE b == [view |-> view, proposer |-> p, voters |-> voters]
<1>1. view \in Nat /\ view \in 1..MaxView /\ MaxView \in Nat /\ chain \in Seq(Blocks)
  BY PacemakerAssumption DEF PacemakerInv, TypeOK
<1>2. \A i \in DOMAIN chain : /\ chain[i].view \in 1..view /\ chain[i].proposer \in IDs
                              /\ chain[i].voters \in Quorums
  BY <1>1 DEF PacemakerInv, TypeOK
<1>3. b \in Blocks /\ b.view \in 1..view /\ b.proposer \in IDs /\ b.voters \in Quorums
  BY <1>1 DEF Blocks
<1> HIDE DEF b
<1>4. CASE c = chain
  BY <1>1, <1>2, <1>4
<1>5. CASE c = Append(chain, b)
  BY <1>1, <1>2, <1>3, <1>5
<1> QED
  BY <1>4, <1>5, ZenonT(40) DEF b
\* OnPropose moves the committed block along the chain only.
LEMMA AskedOK ==
    ASSUME PacemakerInv, NEW v \in Nat, NEW c \in Seq(Blocks), Len(c) >= Len(chain),
           NEW answer, NEW after \in Asked(answer, v, c)
    PROVE  after.head \in 0..Len(c) /\ after.rep \in [IDs -> Nat]
<1> DEFINE once == RepAfter(rotation, v, chain, head, rep)
           twice == RepAfter(rotation, v, chain, head, once)
<1>1. chain \in Seq(Blocks) /\ head \in 0..Len(chain) /\ rep \in [IDs -> Nat]
  BY Zenon DEF PacemakerInv, TypeOK
<1>2. once \in [IDs -> Nat] /\ twice \in [IDs -> Nat]
  BY <1>1, ReputationsGrow, Zenon
<1>3. head \in 0..Len(c) /\ CommittedIn(c) \in 0..Len(c)
  BY <1>1 DEF CommittedIn
<1>4. after \in {[head |-> head, rep |-> rep], [head |-> head, rep |-> once],
                [head |-> head, rep |-> twice], [head |-> CommittedIn(c), rep |-> once],
                [head |-> CommittedIn(c), rep |-> twice]}
  BY Zenon DEF Asked
<1> HIDE DEF once, twice
<1> QED
  BY <1>1, <1>2, <1>3, <1>4

\* A replica starts with an empty chain and no measurement.
LEMMA PacemakerInit == Init => PacemakerInv
<1> SUFFICES ASSUME Init PROVE PacemakerInv
  BY Zenon
<1>1. /\ rotation \in Rotation /\ rotation \in Rotations /\ view = 1 /\ chain = <<>> /\ head = 0
      /\ timedOut = FALSE /\ proposed = FALSE /\ failed = 0 /\ steady = TRUE
  BY PacemakerAssumption, Zenon DEF Init
<1>2. rep \in [IDs -> Nat]
  <2>1. \A id \in IDs : id * RepUnit \in Nat
    BY NAssumption DEF IDs, RepUnit
  <2> QED
    BY <2>1, Zenon DEF Init
<1>3. DurationOK(dur) /\ dur.mean \in Nat /\ dur.count \in 0..MaxMeasured
  BY NewDuration, Zenon DEF Init, DurationOK
<1>4. chain \in Seq(Blocks) /\ head \in 0..Len(chain) /\ 0 \in 0..Len(<<>>)
  BY <1>1
<1>5. leader \in IDs \cup {Panicked}
  BY <1>1, <1>4, LeadersAreReplicas, ZenonT(40) DEF Init
<1>6. view \in 1..MaxView /\ failed \in 0..MaxFailed
  BY <1>1, PacemakerAssumption
<1>7. timedOut \in BOOLEAN /\ proposed \in BOOLEAN /\ steady \in BOOLEAN
  BY <1>1, Zenon
<1>8. \A i \in DOMAIN chain : /\ chain[i].view \in 1..(view - 1)
                              /\ chain[i].proposer \in IDs /\ chain[i].voters \in Quorums
  BY <1>1
<1>9. TypeOK
  BY <1>1, <1>2, <1>3, <1>4, <1>5, <1>6, <1>7, <1>8, ZenonT(30) DEF TypeOK
<1> QED
  BY <1>2, <1>3, <1>4, <1>9, ZenonT(30) DEF PacemakerInv

\* A view is entered: what is left to show of the invariant.
LEMMA EnteredOK ==
    ASSUME PacemakerInv, NEW voters \in Quorums, NEW p \in IDs,
           \/ chain' = chain
           \/ chain' = Append(chain, [view |-> view, proposer |-> p, voters |-> voters]),
           head' \in 0..Len(chain'), NEW r \in [IDs -> Nat], NEW b \in BOOLEAN,
           EnterView(chain', head', r, b), DurationOK(dur'), rotation' = rotation,
           steady' = steady, failed' \in 0..MaxFailed
    PROVE  PacemakerInv'
<1>1. /\ chain' \in Seq(Blocks)
      /\ \A i \in DOMAIN chain' : /\ chain'[i].view \in 1..view
                                   /\ chain'[i].proposer \in IDs /\ chain'[i].voters \in Quorums
  BY ChainOK, Zenon
<1>2. /\ view' = view + 1 /\ view' \in 1..MaxView /\ leader' \in IDs \cup {Panicked}
      /\ timedOut' \in BOOLEAN /\ proposed' \in BOOLEAN /\ rep' \in [IDs -> Nat]
  BY <1>1, EnterViewOK, ZenonT(40)
<1>3. rotation' \in Rotation /\ steady' \in BOOLEAN /\ view \in Nat
  BY PacemakerAssumption DEF PacemakerInv, TypeOK
<1>4. dur'.mean \in Nat /\ dur'.count \in 0..MaxMeasured
  BY Zenon DEF DurationOK
<1>5. view' - 1 = view /\ \A id \in IDs : rep'[id] \in Nat
  BY <1>2, <1>3
<1>6. TypeOK'
  BY <1>1, <1>2, <1>3, <1>4, <1>5, ZenonT(40) DEF TypeOK
<1> QED
  BY <1>1, <1>2, <1>6, ZenonT(30) DEF PacemakerInv
\* No handler of the synchronizer breaks the invariant.
LEMMA PacemakerStep == PacemakerInv /\ [Next]_vars => PacemakerInv'
<1> SUFFICES ASSUME PacemakerInv, [Next]_vars PROVE PacemakerInv'
  BY Zenon
<1>1. /\ view \in Nat /\ chain \in Seq(Blocks) /\ head \in 0..Len(chain)
      /\ rep \in [IDs -> Nat] /\ DurationOK(dur) /\ rotation \in Rotation
      /\ failed \in 0..MaxFailed /\ MaxFailed \in Nat
  BY PacemakerAssumption DEF PacemakerInv, TypeOK
<1>2. FALSE \in BOOLEAN /\ TRUE \in BOOLEAN
  BY Zenon
<1>3. ASSUME NEW voters \in Quorums, NEW x \in Elapsed[rotation], AdvanceByQC(voters, x)
      PROVE  PacemakerInv'
  <2>1. x \in Nat
    BY <1>1, PacemakerAssumption, ZenonT(30)
  <2>2. DurationOK(dur')
    BY <1>1, <1>3, <2>1, MeasuredOK, OtherDurations, ZenonT(30) DEF AdvanceByQC, Succeeded
  <2>3. /\ EnterView(chain', head', rep, FALSE)
        /\ rotation' = rotation /\ head' = head /\ steady' = steady
    BY <1>3, Zenon DEF AdvanceByQC
  <2>4. CASE \E p \in Proposers(view) :
                chain' = Append(chain, [view |-> view, proposer |-> p, voters |-> voters])
             /\ failed' = failed
    <3>1. PICK p \in IDs : chain' = Append(chain, [view |-> view, proposer |-> p,
                                                   voters |-> voters])
      BY <2>4, ProposersWithin, ZenonT(30)
    <3>2. head' \in 0..Len(chain')
      BY <1>1, <2>3, <3>1, ChainOK
    <3> QED
      BY <1>1, <1>2, <2>2, <2>3, <2>4, <3>1, <3>2, EnteredOK, ZenonT(40)
  <2>5. CASE failed < MaxFailed /\ failed' = failed + 1 /\ chain' = chain
    <3>1. failed' \in 0..MaxFailed
      BY <1>1, <2>5
    <3>2. 1 \in IDs
      BY NAssumption DEF IDs
    <3>3. head' \in 0..Len(chain')
      BY <1>1, <2>3, <2>5, ZenonT(30)
    <3> QED
      BY <1>1, <1>2, <2>2, <2>3, <2>5, <3>1, <3>2, <3>3, EnteredOK, ZenonT(40)
  <2> QED
    BY <1>3, <2>4, <2>5, ZenonT(40) DEF AdvanceByQC
<1>4. ASSUME AdvanceByTC PROVE PacemakerInv'
  <2>1. /\ failed < MaxFailed /\ failed' = failed + 1 /\ dur' = ViewStarted(dur)
        /\ EnterView(chain, head, rep, FALSE)
        /\ rotation' = rotation /\ chain' = chain /\ head' = head /\ steady' = steady
    BY <1>4, Zenon DEF AdvanceByTC
  <2>2. DurationOK(dur')
    BY <1>1, <2>1, OtherDurations, ZenonT(30)
  <2>3. failed' \in 0..MaxFailed
    BY <1>1, <2>1
  <2>4. /\ view' = view + 1 /\ view' \in 1..MaxView /\ leader' \in IDs \cup {Panicked}
        /\ timedOut' \in BOOLEAN /\ proposed' \in BOOLEAN /\ rep' \in [IDs -> Nat]
    BY <1>1, <1>2, <2>1, EnterViewOK, ZenonT(40)
  <2>5. \A i \in DOMAIN chain' : /\ chain'[i].view \in 1..(view' - 1)
                                 /\ chain'[i].proposer \in IDs /\ chain'[i].voters \in Quorums
    <3>1. \A i \in DOMAIN chain : /\ chain[i].view \in 1..(view - 1)
                                  /\ chain[i].proposer \in IDs /\ chain[i].voters \in Quorums
      BY Zenon DEF PacemakerInv, TypeOK
    <3>2. \A n \in 1..(view - 1) : n \in 1..(view' - 1)
      BY <1>1, <2>4
    <3> QED
      BY <2>1, <3>1, <3>2, Zenon
  <2>6. dur'.mean \in Nat /\ dur'.count \in 0..MaxMeasured
    BY <2>2, Zenon DEF DurationOK
  <2>7. steady' \in BOOLEAN /\ rotation' \in Rotation /\ head' \in 0..Len(chain')
    BY <1>1, <2>1, ZenonT(30) DEF PacemakerInv, TypeOK
  <2>8. \A id \in IDs : rep'[id] \in Nat
    BY <2>4, Zenon
  <2>9. TypeOK'
    BY <2>3, <2>4, <2>5, <2>6, <2>7, <2>8, ZenonT(40) DEF TypeOK
  <2> QED
    BY <1>1, <2>1, <2>2, <2>4, <2>9, ZenonT(30) DEF PacemakerInv
<1>5. ASSUME OnLocalTimeout PROVE PacemakerInv'
  <2>1. /\ timedOut' = TRUE /\ dur' = ViewTimeout(dur) /\ steady' = (steady /\ samples = <<>>)
        /\ UNCHANGED <<rotation, view, chain, head, rep, leader, proposed, failed>>
    BY <1>5, Zenon DEF OnLocalTimeout
  <2>2. DurationOK(dur')
    BY <1>1, <2>1, OtherDurations, ZenonT(30)
  <2>3. dur'.mean \in Nat /\ dur'.count \in 0..MaxMeasured
    BY <2>2, Zenon DEF DurationOK
  <2>4. timedOut' \in BOOLEAN /\ steady' \in BOOLEAN
    BY <2>1, Zenon
  <2>5. TypeOK'
    BY <2>1, <2>3, <2>4, Zenon DEF TypeOK, PacemakerInv
  <2> QED
    BY <1>1, <2>1, <2>2, <2>5, ZenonT(30) DEF PacemakerInv
<1>6. ASSUME NEW x \in Elapsed[rotation], OnPropose(x) PROVE PacemakerInv'
  <2>1. x \in Nat
    BY <1>1, PacemakerAssumption, ZenonT(30)
  <2>2. PICK after \in Asked(leader', view, chain) : head' = after.head /\ rep' = after.rep
    BY <1>6, Zenon DEF OnPropose
  <2>3. /\ proposed' = TRUE /\ dur' = Succeeded(x) /\ leader' \in Answers(view, chain, head, rep)
        /\ UNCHANGED <<rotation, view, chain, timedOut, failed, steady>>
    BY <1>6, Zenon DEF OnPropose
  <2>4. DurationOK(dur')
    BY <1>1, <2>1, <2>3, MeasuredOK, ZenonT(30) DEF Succeeded
  <2>5. dur'.mean \in Nat /\ dur'.count \in 0..MaxMeasured
    BY <2>4, Zenon DEF DurationOK
  <2>6. head' \in 0..Len(chain) /\ rep' \in [IDs -> Nat] /\ \A id \in IDs : rep'[id] \in Nat
    <3>1. Len(chain) >= Len(chain)
      BY <1>1
    <3>2. after.head \in 0..Len(chain) /\ after.rep \in [IDs -> Nat]
      BY <1>1, <3>1, AskedOK, ZenonT(30)
    <3> QED
      BY <2>2, <3>2, ZenonT(30)
  <2>7. leader' \in IDs \cup {Panicked}
    BY <1>1, <2>3, AnswersWithin, ZenonT(30)
  <2>8. proposed' \in BOOLEAN
    BY <2>3, Zenon
  <2>9. TypeOK'
    BY <2>3, <2>5, <2>6, <2>7, <2>8, ZenonT(40) DEF TypeOK, PacemakerInv
  <2> QED
    BY <1>1, <2>3, <2>4, <2>6, <2>9, ZenonT(30) DEF PacemakerInv
<1>7. ASSUME NEW voters \in Quorums, NEW x \in Elapsed[rotation], OnProposeNext(voters, x)
      PROVE  PacemakerInv'
  <2>1. x \in Nat
    BY <1>1, PacemakerAssumption, Zenon
  <2>2. DurationOK(dur')
    BY <1>1, <1>7, <2>1, MeasuredOK, OtherDurations, ZenonT(30) DEF OnProposeNext, Succeeded
  <2>3. PICK p \in IDs : chain' = Append(chain, [view |-> view, proposer |-> p,
                                                 voters |-> voters])
    BY <1>7, ProposersWithin, ZenonT(30) DEF OnProposeNext
  <2>a. PICK answer : \E after \in Asked(answer, view + 1, chain') :
            head' = after.head /\ EnterView(chain', after.head, after.rep, TRUE)
    BY <1>7, ZenonT(40) DEF OnProposeNext
  <2>4. PICK after \in Asked(answer, view + 1, chain') :
            head' = after.head /\ EnterView(chain', after.head, after.rep, TRUE)
    BY <2>a, Zenon
  <2>5. chain' \in Seq(Blocks) /\ Len(chain') >= Len(chain) /\ view + 1 \in Nat
    BY <1>1, <2>3, ChainOK
  <2>6. head' \in 0..Len(chain') /\ after.rep \in [IDs -> Nat]
    BY <2>4, <2>5, AskedOK, ZenonT(30)
  <2>7. EnterView(chain', head', after.rep, TRUE)
    BY <2>4, Zenon
  <2>8. rotation' = rotation /\ steady' = steady /\ failed' \in 0..MaxFailed
    BY <1>1, <1>7, ZenonT(30) DEF OnProposeNext
  <2> QED
    BY <1>2, <2>2, <2>3, <2>6, <2>7, <2>8, EnteredOK, ZenonT(40)
<1>8. CASE UNCHANGED vars
  BY <1>8, Zenon DEF vars, PacemakerInv, TypeOK
<1> QED
  BY <1>3, <1>4, <1>5, <1>6, <1>7, <1>8, ZenonT(40) DEF Next

\* The invariant always holds.
LEMMA PacemakerAlways == Spec => []PacemakerInv
BY PacemakerInit, PacemakerStep, PTL DEF Spec

\* Every answer of GetLeader is the ID of a replica of the configuration,
\* whatever the chain and the reputations are, and the committed block never
\* passes the end of the chain.
THEOREM LeadersInConfiguration == Spec => []TypeOK
<1>1. PacemakerInv => TypeOK
  BY ZenonT(30) DEF PacemakerInv
<1> QED
  BY <1>1, PacemakerAlways, PTL

\* A measurement of the estimate, if one was taken, bounds it.
EstimateInv ==
    /\ samples \in Seq(Nat)
    /\ samples = <<>> => Fresh(dur)
    /\ steady /\ samples # <<>> =>
         \E i \in 1..Len(samples) : Bounded(dur, samples[i] * Scale)

\* A measurement keeps the invariant of the estimate, with it or an older one
\* as the longest.
LEMMA SucceededOK ==
    ASSUME EstimateInv, DurationOK(dur), NEW x \in Nat
    PROVE  /\ Sampled(x) \in Seq(Nat)
           /\ Sampled(x) = <<>> => Fresh(Succeeded(x))
           /\ steady /\ Sampled(x) # <<>> =>
                \E i \in 1..Len(Sampled(x)) : Bounded(Succeeded(x), Sampled(x)[i] * Scale)
<1> DEFINE e == ViewSucceeded(dur, x)
           s == Append(samples, x)
<1>1. samples \in Seq(Nat) /\ Len(samples) \in Nat /\ Scale \in Nat
  BY ScaleAssumption DEF EstimateInv
<1>2. CASE ~ (dur.started /\ dur.count < MaxMeasured)
  <2>1. e = dur
    BY <1>2, Zenon DEF ViewSucceeded
  <2>2. Sampled(x) = samples
    <3>1. ~ (dur.count > dur.count)
      BY DurationAssumption DEF DurationOK
    <3> QED
      BY <2>1, <3>1, Zenon DEF Sampled, Succeeded
  <2> QED
    BY <2>1, <2>2, ZenonT(30) DEF EstimateInv, Succeeded
<1>3. CASE dur.started /\ dur.count < MaxMeasured
  <2>1. e.count = dur.count + 1 /\ dur.count \in Nat
    <3> DEFINE n == Counted(dur)
               t == ThrowAway(n)
    <3>1. /\ n \in [mean : Nat, m2 : Nat, prevM2 : Nat, count : 0..MaxMeasured,
                    started : BOOLEAN, inM2 : SUBSET Nat, inPrev : SUBSET Nat]
          /\ n.count = dur.count + 1
      BY <1>3, CountedOK, Zenon
    <3> HIDE DEF n
    <3>2. t.count = n.count /\ t = [n EXCEPT !.mean = t.mean]
      BY <3>1, Zenon DEF ThrowAway
    <3>3. \A r \in [mean : Nat, m2 : Nat, prevM2 : Nat, count : 0..MaxMeasured,
                    started : BOOLEAN, inM2 : SUBSET Nat, inPrev : SUBSET Nat] :
             \A m, k, z : [r EXCEPT !.mean = m, !.m2 = k, !.inM2 = z].count = r.count
      BY Zenon
    <3>4. e = Welford(t, x * Scale)
      BY <1>3, Zenon DEF ViewSucceeded, Measured, n
    <3>5. e.count = t.count
      <4>1. t.mean = n.mean \/ t.mean = n.mean - n.mean \div Limit
        BY <3>1, Zenon DEF ThrowAway
      <4> QED
        BY <3>1, <3>2, <3>4, Zenon DEF Welford
    <3>6. dur.count \in Nat
      BY DurationAssumption DEF DurationOK
    <3> QED
      BY <3>1, <3>2, <3>5, <3>6, Zenon
  <2> HIDE DEF e
  <2>2. e.count > dur.count
    BY <2>1
  <2>3. Sampled(x) = s /\ Succeeded(x) = e
    BY <2>2, Zenon DEF Sampled, Succeeded, e
  <2>4. /\ s \in Seq(Nat) /\ s # <<>> /\ Len(s) = Len(samples) + 1 /\ s[Len(s)] = x
        /\ \A i \in 1..Len(samples) : i \in 1..Len(s) /\ s[i] = samples[i]
        /\ Len(s) \in 1..Len(s)
    BY <1>1
  <2>5. ASSUME steady PROVE \E i \in 1..Len(s) : Bounded(e, s[i] * Scale)
    <3> DEFINE y == x * Scale
    <3>1. y \in Nat /\ y <= y
      BY <1>1
    <3>2. CASE samples = <<>>
      <4>1. Fresh(dur)
        BY <3>2, Zenon DEF EstimateInv
      <4>2. Bounded(e, y)
        BY <1>3, <3>1, <4>1, BoundedMeasured, Zenon DEF e
      <4> QED
        BY <2>4, <4>2, Zenon
    <3>3. CASE samples # <<>>
      <4>1. PICK i \in 1..Len(samples) : Bounded(dur, samples[i] * Scale)
        BY <2>5, <3>3, Zenon DEF EstimateInv
      <4> DEFINE M == samples[i] * Scale
      <4>2. M \in Nat
        BY <1>1
      <4>3. CASE y <= M
        <5>1. Bounded(e, M)
          <6> HIDE DEF M, y
          <6>1. Bounded(dur, M)
            BY <4>1, Zenon DEF M
          <6> QED
            BY <1>3, <4>2, <4>3, <6>1, BoundedMeasured, Zenon DEF e, y
        <5> QED
          BY <2>4, <5>1, Zenon
      <4>4. CASE M <= y
        <5>1. Bounded(e, y)
          <6> HIDE DEF M, y
          <6>1. Bounded(dur, M)
            BY <4>1, Zenon DEF M
          <6>2. Bounded(dur, y)
            BY <3>1, <4>2, <4>4, <6>1, BoundedMore, Zenon
          <6> QED
            BY <1>3, <3>1, <6>2, BoundedMeasured, Zenon DEF e, y
        <5> QED
          BY <2>4, <5>1, Zenon
      <4>5. y <= M \/ M <= y
        <5> HIDE DEF M, y
        <5> QED
          BY <3>1, <4>2
      <4> QED
        BY <4>3, <4>4, <4>5, Zenon
    <3> QED
      BY <3>2, <3>3, Zenon
  <2> QED
    BY <2>3, <2>4, <2>5, ZenonT(30)
<1> QED
  BY <1>2, <1>3, Zenon

\* Only timeouts, of which steady tells, change the estimate otherwise.
LEMMA EstimateStep == PacemakerInv /\ EstimateInv /\ [Next]_vars => EstimateInv'
<1> SUFFICES ASSUME PacemakerInv, EstimateInv, [Next]_vars PROVE EstimateInv'
  BY Zenon
<1>1. DurationOK(dur) /\ rotation \in Rotation
  BY Zenon DEF PacemakerInv, TypeOK
<1>2. \A x \in Elapsed[rotation] : x \in Nat
  BY <1>1, PacemakerAssumption, Zenon
<1>3. ASSUME NEW d, DurationOK(d)
      PROVE  /\ Fresh(d) => Fresh(ViewStarted(d)) /\ Fresh(ViewTimeout(d))
             /\ \A M : Bounded(d, M) => Bounded(ViewStarted(d), M)
  <2>1. /\ ViewStarted(d).count = d.count /\ ViewStarted(d).m2 = d.m2
        /\ ViewStarted(d).prevM2 = d.prevM2 /\ ViewStarted(d).inM2 = d.inM2
        /\ ViewStarted(d).inPrev = d.inPrev /\ ViewStarted(d).mean = d.mean
    BY <1>3, Zenon DEF ViewStarted, DurationOK
  <2>2. /\ ViewTimeout(d).count = d.count /\ ViewTimeout(d).m2 = d.m2
        /\ ViewTimeout(d).prevM2 = d.prevM2 /\ ViewTimeout(d).inM2 = d.inM2
        /\ ViewTimeout(d).inPrev = d.inPrev
    BY <1>3, Zenon DEF ViewTimeout, DurationOK
  <2> QED
    BY <2>1, <2>2, ZenonT(30) DEF Fresh, Bounded
<1>4. ASSUME NEW x \in Nat, samples' = Sampled(x), steady' = steady,
             dur' = Succeeded(x) \/ dur' = ViewStarted(Succeeded(x))
      PROVE  EstimateInv'
  <2>1. DurationOK(Succeeded(x))
    BY <1>1, MeasuredOK, Zenon DEF Succeeded
  <2>2. /\ Fresh(Succeeded(x)) => Fresh(dur')
        /\ \A M : Bounded(Succeeded(x), M) => Bounded(dur', M)
    BY <1>3, <1>4, <2>1, ZenonT(30)
  <2> QED
    BY <1>1, <1>4, <2>2, SucceededOK, ZenonT(30) DEF EstimateInv
<1>5. \A voters \in Quorums, x \in Elapsed[rotation] : AdvanceByQC(voters, x) => EstimateInv'
  BY <1>2, <1>4, ZenonT(30) DEF AdvanceByQC
<1>6. AdvanceByTC => EstimateInv'
  <2> SUFFICES ASSUME AdvanceByTC PROVE EstimateInv'
    BY Zenon
  <2>1. dur' = ViewStarted(dur) /\ samples' = samples /\ steady' = steady
    BY Zenon DEF AdvanceByTC
  <2>2. (Fresh(dur) => Fresh(dur')) /\ \A M : Bounded(dur, M) => Bounded(dur', M)
    BY <1>1, <1>3, <2>1, Zenon
  <2> QED
    BY <2>1, <2>2, ZenonT(30) DEF EstimateInv
<1>7. OnLocalTimeout => EstimateInv'
  BY <1>1, <1>3, ZenonT(30) DEF OnLocalTimeout, EstimateInv
<1>8. \A x \in Elapsed[rotation] : OnPropose(x) => EstimateInv'
  BY <1>2, <1>4, ZenonT(30) DEF OnPropose
<1>9. \A voters \in Quorums, x \in Elapsed[rotation] : OnProposeNext(voters, x) => EstimateInv'
  BY <1>2, <1>4, ZenonT(30) DEF OnProposeNext
<1>10. UNCHANGED vars => EstimateInv'
  <2>1. UNCHANGED vars => UNCHANGED <<samples, steady, dur>>
    BY Zenon DEF vars
  <2> QED
    BY <2>1, ZenonT(30) DEF EstimateInv
<1> QED
  BY <1>5, <1>6, <1>7, <1>8, <1>9, <1>10, ZenonT(30) DEF Next

\* For every Limit and every sequence of measurements and timeouts, Duration
\* never takes the square root of a negative number and divides the squares of
\* at least Limit measurements by their number or by one less; and as long as no
\* timeout scales the mean, neither the mean nor the mean square is more than
\* that of the longest measurement.
THEOREM EstimateIsBounded == Spec => []EstimateBounded
<1>1. Init => EstimateInv
  <2> SUFFICES ASSUME Init PROVE EstimateInv
    BY Zenon
  <2>1. samples = <<>> /\ samples \in Seq(Nat)
    BY DEF Init
  <2>2. Fresh(dur)
    BY Zenon DEF Init, NewViewDuration, Fresh
  <2> QED
    BY <2>1, <2>2, Zenon DEF EstimateInv
<1>2. PacemakerInv /\ EstimateInv => EstimateBounded
  <2> SUFFICES ASSUME PacemakerInv, EstimateInv PROVE EstimateBounded
    BY Zenon
  <2>1. DurationOK(dur)
    BY Zenon DEF PacemakerInv
  <2>2. ASSUME steady, samples # <<>>
        PROVE  \E i \in 1..Len(samples) :
                   /\ dur.mean <= samples[i] * Scale
                   /\ SumOfSquares(dur) <=
                        Contributed(dur) * ((samples[i] * Scale) * (samples[i] * Scale))
    <3>1. PICK i \in 1..Len(samples) : Bounded(dur, samples[i] * Scale)
      BY <2>2, Zenon DEF EstimateInv
    <3>2. samples[i] * Scale \in Nat
      BY ScaleAssumption DEF EstimateInv
    <3>3. SumOfSquares(dur) <= Contributed(dur) * ((samples[i] * Scale) * (samples[i] * Scale))
      BY <2>1, <3>1, <3>2, SquaresBounded, Zenon
    <3> QED
      BY <3>1, <3>3, Zenon DEF Bounded
  <2> QED
    BY <2>1, <2>2, DurationSound, ZenonT(30) DEF EstimateBounded
<1> QED
  BY <1>1, <1>2, EstimateStep, PacemakerAlways, PTL DEF Spec

\* The replica that leads a view just entered.
LEMMA EnteredVoter ==
    ASSUME PacemakerInv, chain' \in Seq(Blocks), head' \in 0..Len(chain'),
           NEW r, NEW b, EnterView(chain', head', r, b), leader' # Panicked,
           HighQCView(chain') = view,
           \/ rotation = "carousel" /\ view' > CarouselStartup
           \/ rotation = "repbased" /\ RepStarted(view')
    PROVE  leader' \in Participants(chain', head')
<1> DEFINE c == chain'
           h == head'
           v == view + 1
           P == Participants(c, h)
           drawn == GetLeader(rotation, v, c, h, r)
<1>1. view \in Nat /\ CarouselStartup \in Nat /\ RepStartup \in Nat
  BY PacemakerAssumption, StartupAssumption DEF PacemakerInv, TypeOK
<1>2. view' = v /\ leader' \in drawn
  BY Zenon DEF EnterView, Answers
<1>3. CASE rotation = "carousel" /\ view' > CarouselStartup
  <2>1. drawn = Carousel(v, c, h)
    BY <1>3, Zenon DEF GetLeader
  <2>2. ~ (v <= CarouselStartup) /\ HighQCView(c) = v - 1
    BY <1>1, <1>2, <1>3
  <2>3. P # {} /\ leader' \in CarouselDraw(c, h)
    <3>1. drawn = IF P = {} THEN {Panicked}
                  ELSE CarouselDraw(c, h) \cup (IF MayLackParent THEN {Panicked} ELSE {})
      BY <2>1, <2>2, Zenon DEF Carousel
    <3> HIDE DEF drawn
    <3> QED
      BY <1>2, <3>1, Zenon
  <2>4. CarouselDraw(c, h) \subseteq P
    BY <2>3, CarouselWithin, ZenonT(30)
  <2> QED
    BY <1>2, <2>3, <2>4, ZenonT(40)
<1>4. CASE rotation = "repbased" /\ RepStarted(view')
  <2>1. drawn = RepBased(v, c, h, r)
    BY <1>4, Zenon DEF GetLeader
  <2> QED
    BY <1>2, <1>4, <2>1, ZenonT(30) DEF RepBased
<1> QED
  BY <1>3, <1>4, ZenonT(30)

\* When carousel and repBased are past their start-up and the certificate of
\* the last view is known, the view that a replica enters is led by one of the
\* voters for the parent of the committed block, for every number of replicas.
THEOREM VotersAlwaysLead == Spec => VotersLead
<1> DEFINE Led == view' # view /\ leader' # Panicked /\ HighQCView(chain') = view
                  /\ \/ rotation = "carousel" /\ view' > CarouselStartup
                     \/ rotation = "repbased" /\ RepStarted(view')
                  => leader' \in Participants(chain', head')
<1>1. PacemakerInv /\ PacemakerInv' /\ [Next]_vars => [Led]_vars
  <2> SUFFICES ASSUME PacemakerInv, PacemakerInv', Next, view' # view, leader' # Panicked,
                      HighQCView(chain') = view,
                      \/ rotation = "carousel" /\ view' > CarouselStartup
                      \/ rotation = "repbased" /\ RepStarted(view')
               PROVE  leader' \in Participants(chain', head')
    BY Zenon
  <2>1. chain' \in Seq(Blocks) /\ head' \in 0..Len(chain')
    BY Zenon DEF PacemakerInv, TypeOK
  <2>2. ~ OnLocalTimeout /\ \A x \in Elapsed[rotation] : ~ OnPropose(x)
    BY Zenon DEF OnLocalTimeout, OnPropose
  <2>3. \E r, b : EnterView(chain', head', r, b)
    <3>1. ASSUME NEW voters \in Quorums, NEW x \in Elapsed[rotation], AdvanceByQC(voters, x)
          PROVE  EnterView(chain', head', rep, FALSE)
      BY <3>1, Zenon DEF AdvanceByQC
    <3>2. ASSUME AdvanceByTC PROVE EnterView(chain', head', rep, FALSE)
      BY <3>2, Zenon DEF AdvanceByTC
    <3>3. ASSUME NEW voters \in Quorums, NEW x \in Elapsed[rotation], OnProposeNext(voters, x)
          PROVE  \E answer : \E after \in Asked(answer, view + 1, chain') :
                     EnterView(chain', head', after.rep, TRUE)
      BY <3>3, Zenon DEF OnProposeNext
    <3> QED
      BY <2>2, <3>1, <3>2, <3>3, ZenonT(40) DEF Next
  <2> QED
    BY <2>1, <2>3, EnteredVoter, ZenonT(30)
<1> QED
  BY <1>1, PacemakerAlways, PTL DEF Spec, VotersLead
=============================================================================
