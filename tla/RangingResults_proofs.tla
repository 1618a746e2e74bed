----------------------- MODULE RangingResults_proofs -----------------------
(***************************************************************************)
(* Whatever the exchanges, the clocks and the configuration: the distance  *)
(* of a result lies between those the two clocks stand for, powers that    *)
(* could not be read detect nothing, the angle's gate is closed exactly    *)
(* after a restart and after a jump, and the filter's promises hold inside *)
(* the session.                                                            *)
(***************************************************************************)
EXTENDS RangingResults, RangeConsensusFilter_proofs, TLAPS, WellFoundedInduction

-----------------------------------------------------------------------------
(***************************************************************************)
(* Double-sided ranging: the intervals of an exchange are what its clocks  *)
(* counted, whichever counter wrapped, and the time of flight made of them *)
(* lies between what the two clocks would have counted of it.              *)
(***************************************************************************)
LEMMA Cancel ==
    ASSUME NEW m \in Int, NEW n \in Int, NEW d \in Nat \ {0}
    PROVE  /\ m * d < n * d <=> m < n
           /\ m * d <= n * d <=> m <= n
OBVIOUS

LEMMA Division ==
    ASSUME NEW n \in Int, NEW d \in Nat \ {0}
    PROVE  /\ n \div d \in Int
           /\ n % d \in 0 .. d - 1
           /\ n = d * (n \div d) + (n % d)
OBVIOUS

LEMMA QuotientUnique ==
    ASSUME NEW p \in Int, NEW q \in Int, NEW r, NEW s, NEW d \in Nat \ {0},
           r \in 0 .. d - 1, s \in 0 .. d - 1, d * p + r = d * q + s
    PROVE  p = q /\ r = s
<1>1. d * (p - q) = s - r
  OBVIOUS
<1>2. p - q < 1
  <2>1. CASE p - q >= 1
    <3>1. d * (p - q) >= d
      BY <2>1
    <3> QED BY <1>1, <3>1
  <2> QED BY <2>1
<1>3. q - p < 1
  <2>1. CASE q - p >= 1
    <3>1. d * (q - p) >= d
      BY <2>1
    <3> QED BY <1>1, <3>1
  <2> QED BY <2>1
<1> QED BY <1>2, <1>3

LEMMA RemainderIs ==
    ASSUME NEW n \in Int, NEW q \in Int, NEW r, NEW d \in Nat \ {0},
           r \in 0 .. d - 1, n = d * q + r
    PROVE  n % d = r
BY Division, QuotientUnique

\* One counter's length is a multiple of the other's.
LEMMA CounterMultiple == \E m \in Int : D40 = D32 * m
<1>1. D40 = D32 * (D40 \div D32) + 0 /\ D40 \div D32 \in Int
  BY TickAssumption, Division
<1> QED BY <1>1, TickAssumption

\* The time between two stamps of the longer counter is what the shorter shows
\* of their difference, if it fits there.
LEMMA DifferenceOfStamps ==
    ASSUME NEW from \in Int, NEW to \in Int, 0 <= to - from, to - from < D32
    PROVE  ((to % D40) - (from % D40)) % D32 = to - from
<1>1. PICK m \in Int : D40 = D32 * m
  BY CounterMultiple
<1> DEFINE f == from \div D40
           t == to \div D40
<1>2. f \in Int /\ t \in Int
  BY Division, TickAssumption
<1>3. from = D40 * f + (from % D40) /\ to = D40 * t + (to % D40)
  BY Division, TickAssumption
<1>4. from % D40 \in Int /\ to % D40 \in Int
  BY Division, TickAssumption
<1> HIDE DEF f, t
<1>5. (to % D40) - (from % D40) = D40 * (f - t) + (to - from)
  BY <1>2, <1>3, <1>4, TickAssumption
<1>6. D40 * (f - t) = D32 * (m * (f - t))
  BY <1>1, <1>2, TickAssumption
<1>7. m * (f - t) \in Int /\ (to % D40) - (from % D40) \in Int /\ to - from \in 0 .. D32 - 1
  BY <1>2, <1>4, TickAssumption
<1>8. (to % D40) - (from % D40) = D32 * (m * (f - t)) + (to - from)
  BY <1>5, <1>6
<1> QED BY <1>7, <1>8, RemainderIs, TickAssumption

\* The same of two values of the shorter counter.
LEMMA DifferenceOfReports ==
    ASSUME NEW from \in Int, NEW to \in Int, 0 <= to - from, to - from < D32
    PROVE  ((to % D32) - (from % D32)) % D32 = to - from
<1> DEFINE f == from \div D32
           t == to \div D32
<1>2. f \in Int /\ t \in Int
  BY Division, TickAssumption
<1>3. from = D32 * f + (from % D32) /\ to = D32 * t + (to % D32)
  BY Division, TickAssumption
<1>4. from % D32 \in Int /\ to % D32 \in Int
  BY Division, TickAssumption
<1> HIDE DEF f, t
<1>5. (to % D32) - (from % D32) = D32 * (f - t) + (to - from)
  BY <1>2, <1>3, <1>4, TickAssumption
<1>6. f - t \in Int /\ (to % D32) - (from % D32) \in Int /\ to - from \in 0 .. D32 - 1
  BY <1>2, <1>4, TickAssumption
<1> QED BY <1>5, <1>6, RemainderIs, TickAssumption

LEMMA FitsIsItself ==
    ASSUME NEW n \in Nat, n < D32
    PROVE  n % D32 = n
<1>1. n = D32 * 0 + n /\ n \in 0 .. D32 - 1
  BY TickAssumption
<1> QED BY <1>1, RemainderIs, TickAssumption

-----------------------------------------------------------------------------
\* The four intervals as the clocks counted them.
Counted(x, a, b) ==
    [ round1 |-> a * (2 * x.tof + x.reply1),
      reply1 |-> b * x.reply1,
      round2 |-> b * (2 * x.tof + x.reply2),
      reply2 |-> a * x.reply2 ]

\* The intervals the session makes of an exchange are those its clocks counted,
\* although its stamps and the initiator's report may have wrapped.
THEOREM IntervalsAreCounted ==
    ASSUME NEW x, NEW a, NEW b, Fits(x, a, b)
    PROVE  Intervals(OwnStamps(x, b), PeerReport(x, a)) = Counted(x, a, b)
<1> DEFINE T == x.tof
           P == x.reply1
           Q == x.reply2
           S == x.start
<1>1. /\ T \in Int /\ P \in Nat /\ Q \in Nat /\ S \in Nat
      /\ a \in Nat \ {0} /\ b \in Nat \ {0}
      /\ 2 * T + P >= 0 /\ 2 * T + Q >= 0
      /\ a * (2 * T + P) < D32 /\ b * (2 * T + Q) < D32 /\ b * P < D32 /\ a * Q < D32
  BY DEF Fits
<1>2. OwnStamps(x, b) = [ pollRx  |-> S % D40, respTx |-> (S + b * P) % D40,
                          finalRx |-> (S + b * (P + 2 * T + Q)) % D40 ]
  BY DEF OwnStamps
<1>3. PeerReport(x, a) = [ pollToResponse |-> (a * (2 * T + P)) % D32,
                           pollToFinal    |-> (a * (2 * T + P + Q)) % D32 ]
  BY DEF PeerReport
<1>4. Counted(x, a, b) = [ round1 |-> a * (2 * T + P), reply1 |-> b * P,
                           round2 |-> b * (2 * T + Q), reply2 |-> a * Q ]
  BY DEF Counted
<1> HIDE DEF T, P, Q, S
<1>5. (a * (2 * T + P)) % D32 = a * (2 * T + P)
  <2>1. a * (2 * T + P) \in Nat
    BY <1>1
  <2> QED BY <2>1, <1>1, FitsIsItself
<1>6. (((S + b * P) % D40) - (S % D40)) % D32 = b * P
  <2>1. S \in Int /\ S + b * P \in Int /\ S + b * P - S = b * P /\ 0 <= b * P
    BY <1>1
  <2> QED BY <2>1, <1>1, DifferenceOfStamps
<1>7. (((S + b * (P + 2 * T + Q)) % D40) - ((S + b * P) % D40)) % D32 = b * (2 * T + Q)
  <2>1. /\ S + b * P \in Int /\ S + b * (P + 2 * T + Q) \in Int
        /\ S + b * (P + 2 * T + Q) - (S + b * P) = b * (2 * T + Q)
        /\ 0 <= b * (2 * T + Q)
    BY <1>1
  <2> QED BY <2>1, <1>1, DifferenceOfStamps
<1>8. (((a * (2 * T + P + Q)) % D32) - ((a * (2 * T + P)) % D32)) % D32 = a * Q
  <2>1. /\ a * (2 * T + P) \in Int /\ a * (2 * T + P + Q) \in Int
        /\ a * (2 * T + P + Q) - a * (2 * T + P) = a * Q
        /\ 0 <= a * Q
    BY <1>1
  <2> QED BY <2>1, <1>1, DifferenceOfReports
<1> QED BY <1>2, <1>3, <1>4, <1>5, <1>6, <1>7, <1>8 DEF Intervals

-----------------------------------------------------------------------------
(***************************************************************************)
(* Division that truncates toward zero.                                    *)
(***************************************************************************)
LEMMA TruncatedBounds ==
    ASSUME NEW n \in Int, NEW d \in Nat \ {0}, NEW low \in Int, NEW high \in Int,
           low * d <= n, n <= high * d
    PROVE  Truncated(n, d) \in Int /\ low <= Truncated(n, d) /\ Truncated(n, d) <= high
<1>1. CASE n >= 0
  <2> DEFINE q == n \div d
  <2>1. q \in Int /\ n = d * q + (n % d) /\ n % d \in 0 .. d - 1
    BY Division
  <2>2. Truncated(n, d) = q
    BY <1>1 DEF Truncated
  <2> HIDE DEF q
  <2>3. low * d < (q + 1) * d /\ q * d <= high * d
    BY <2>1
  <2>4. low < q + 1 /\ q <= high
    BY <2>1, <2>3, Cancel
  <2> QED BY <2>1, <2>2, <2>4
<1>2. CASE n < 0
  <2> DEFINE q == (-n) \div d
  <2>1. -n \in Int
    OBVIOUS
  <2>2. q \in Int /\ -n = d * q + ((-n) % d) /\ (-n) % d \in 0 .. d - 1
    BY <2>1, Division
  <2>3. Truncated(n, d) = -q
    BY <1>2 DEF Truncated
  <2> HIDE DEF q
  <2>4. (-high) * d < (q + 1) * d /\ q * d <= (-low) * d
    BY <2>2
  <2>5. -high < q + 1 /\ q <= -low
    BY <2>2, <2>4, Cancel
  <2> QED BY <2>2, <2>3, <2>5
<1> QED BY <1>1, <1>2

LEMMA TruncatedMonotone ==
    ASSUME NEW m \in Int, NEW n \in Int, NEW d \in Nat \ {0}, m <= n
    PROVE  /\ Truncated(m, d) \in Int
           /\ Truncated(n, d) \in Int
           /\ Truncated(m, d) <= Truncated(n, d)
<1> DEFINE p == m \div d
           q == n \div d
           u == (-m) \div d
           v == (-n) \div d
<1>0. -m \in Int /\ -n \in Int
  OBVIOUS
<1>1. /\ p \in Int /\ q \in Int /\ u \in Int /\ v \in Int
      /\ m = d * p + (m % d) /\ m % d \in 0 .. d - 1
      /\ n = d * q + (n % d) /\ n % d \in 0 .. d - 1
      /\ -m = d * u + ((-m) % d) /\ (-m) % d \in 0 .. d - 1
      /\ -n = d * v + ((-n) % d) /\ (-n) % d \in 0 .. d - 1
  BY <1>0, Division
<1>2. /\ Truncated(m, d) = IF m >= 0 THEN p ELSE -u
      /\ Truncated(n, d) = IF n >= 0 THEN q ELSE -v
  BY DEF Truncated
<1> HIDE DEF p, q, u, v
<1>3. Truncated(m, d) \in Int /\ Truncated(n, d) \in Int
  BY <1>1, <1>2
<1>4. CASE m >= 0
  <2>1. p * d < (q + 1) * d
    BY <1>1
  <2>2. p < q + 1
    BY <2>1, <1>1, Cancel
  <2> QED BY <1>1, <1>2, <1>3, <1>4, <2>2
<1>5. CASE n < 0
  <2>1. v * d < (u + 1) * d
    BY <1>1
  <2>2. v < u + 1
    BY <2>1, <1>1, Cancel
  <2> QED BY <1>1, <1>2, <1>3, <1>5, <2>2
<1>6. CASE m < 0 /\ n >= 0
  <2>1. (-1) * d < u * d /\ (-1) * d < q * d
    <3>1. 0 * d <= d * u + ((-m) % d) /\ 0 * d <= d * q + (n % d)
      BY <1>1, <1>6
    <3> QED BY <3>1, <1>1
  <2>2. -1 < u /\ -1 < q
    BY <2>1, <1>1, Cancel
  <2> QED BY <1>1, <1>2, <1>3, <1>6, <2>2
<1> QED BY <1>4, <1>5, <1>6

-----------------------------------------------------------------------------
(***************************************************************************)
(* The estimate: with S = 2 tof + reply1 + reply2 the numerator is         *)
(* 2 a b tof S and the total (a + b) S.                                    *)
(***************************************************************************)
LEMMA Estimate ==
    ASSUME NEW T \in Int, NEW P \in Nat, NEW Q \in Nat, NEW a \in Nat \ {0}, NEW b \in Nat \ {0}
    PROVE  /\ (a * (2 * T + P)) * (b * (2 * T + Q)) - (b * P) * (a * Q)
                 = (2 * a * b * T) * (2 * T + P + Q)
           /\ a * (2 * T + P) + b * (2 * T + Q) + b * P + a * Q = (a + b) * (2 * T + P + Q)
<1>1. (a * (2 * T + P)) * (b * (2 * T + Q)) = (a * b) * ((2 * T + P) * (2 * T + Q))
  OBVIOUS
<1>2. (2 * T + P) * (2 * T + Q) = 2 * T * (2 * T + P + Q) + P * Q
  OBVIOUS
<1> QED BY <1>1, <1>2

\* Between the flight on the slower clock and on the faster.
LEMMA Between ==
    ASSUME NEW T \in Int, NEW S \in Nat \ {0}, NEW low \in Nat \ {0}, NEW high \in Nat \ {0},
           low <= high
    PROVE  /\ T >= 0 => /\ (low * T) * ((low + high) * S) <= (2 * low * high * T) * S
                        /\ (2 * low * high * T) * S <= (high * T) * ((low + high) * S)
           /\ T < 0 => /\ (high * T) * ((low + high) * S) <= (2 * low * high * T) * S
                       /\ (2 * low * high * T) * S <= (low * T) * ((low + high) * S)
<1> DEFINE over  == high * (high - low)
           under == low * (high - low)
<1>1. over \in Nat /\ under \in Nat
  OBVIOUS
<1>2. /\ high * (low + high) = 2 * low * high + over
      /\ low * (low + high) = 2 * low * high - under
  OBVIOUS
<1> HIDE DEF over, under
<1>3. /\ (high * T) * ((low + high) * S) = (high * (low + high)) * (T * S)
      /\ (low * T) * ((low + high) * S) = (low * (low + high)) * (T * S)
      /\ (2 * low * high * T) * S = (2 * low * high) * (T * S)
  OBVIOUS
<1>4. /\ (high * T) * ((low + high) * S) = (2 * low * high * T) * S + over * (T * S)
      /\ (low * T) * ((low + high) * S) = (2 * low * high * T) * S - under * (T * S)
  BY <1>1, <1>2, <1>3
<1>5. /\ over * (T * S) \in Int /\ under * (T * S) \in Int
      /\ T >= 0 => over * (T * S) >= 0 /\ under * (T * S) >= 0
      /\ T < 0 => over * (T * S) <= 0 /\ under * (T * S) <= 0
  <2>1. T * S \in Int /\ (T >= 0 => T * S >= 0) /\ (T < 0 => T * S <= 0)
    OBVIOUS
  <2> QED BY <2>1, <1>1
<1>6. (2 * low * high * T) * S \in Int
  OBVIOUS
<1> QED BY <1>4, <1>5, <1>6

\* The estimate of an exchange's intervals.
LEMMA EstimateOfCounted ==
    ASSUME NEW x, NEW a, NEW b, Fits(x, a, b), TotalInterval(Counted(x, a, b)) # 0
    PROVE  \E S \in Nat \ {0} :
               TofQuotient(Counted(x, a, b)) =
                   Truncated((2 * a * b * x.tof) * S, (a + b) * S)
<1> DEFINE T == x.tof
           P == x.reply1
           Q == x.reply2
           S == 2 * T + P + Q
<1>1. /\ T \in Int /\ P \in Nat /\ Q \in Nat
      /\ a \in Nat \ {0} /\ b \in Nat \ {0}
      /\ 2 * T + P >= 0
  BY DEF Fits
<1>2. /\ TotalInterval(Counted(x, a, b)) =
             a * (2 * T + P) + b * (2 * T + Q) + b * P + a * Q
      /\ TofQuotient(Counted(x, a, b)) =
             Truncated((a * (2 * T + P)) * (b * (2 * T + Q)) - (b * P) * (a * Q),
                       a * (2 * T + P) + b * (2 * T + Q) + b * P + a * Q)
  BY DEF TotalInterval, TofQuotient, Counted
<1> HIDE DEF T, P, Q
<1>3. /\ TotalInterval(Counted(x, a, b)) = (a + b) * S
      /\ TofQuotient(Counted(x, a, b)) =
             Truncated((2 * a * b * T) * S, (a + b) * S)
  BY <1>1, <1>2, Estimate
<1>4. S \in Nat /\ S # 0
  <2>1. S \in Nat
    BY <1>1
  <2>2. S # 0
    <3>1. (a + b) * 0 = 0
      BY <1>1
    <3> QED BY <1>3, <3>1
  <2> QED BY <2>1, <2>2
<1> HIDE DEF S
<1> QED BY <1>3, <1>4 DEF T

\* Before its cast, the estimate lies between the ticks of the two clocks.
LEMMA QuotientBetweenClocks ==
    ASSUME NEW x, NEW a, NEW b, Fits(x, a, b), TotalInterval(Counted(x, a, b)) # 0,
           NEW tof, tof = TofQuotient(Counted(x, a, b))
    PROVE  /\ tof \in Int
           /\ \/ a * x.tof <= tof /\ tof <= b * x.tof
              \/ b * x.tof <= tof /\ tof <= a * x.tof
<1>1. /\ x.tof \in Int /\ a \in Nat \ {0} /\ b \in Nat \ {0}
  BY DEF Fits
<1>2. PICK S \in Nat \ {0} : tof = Truncated((2 * a * b * x.tof) * S, (a + b) * S)
  BY EstimateOfCounted
<1> DEFINE T == x.tof
           n == (2 * a * b * T) * S
           d == (a + b) * S
<1>3. T \in Int /\ n \in Int /\ d \in Nat \ {0} /\ a * T \in Int /\ b * T \in Int
  BY <1>1
<1>2a. tof = Truncated(n, d)
  BY <1>2
<1> DEFINE Bounded == /\ tof \in Int
                      /\ \/ a * T <= tof /\ tof <= b * T
                         \/ b * T <= tof /\ tof <= a * T
<1>4. ASSUME a <= b PROVE Bounded
  <2>1. /\ T >= 0 => (a * T) * d <= n /\ n <= (b * T) * d
        /\ T < 0 => (b * T) * d <= n /\ n <= (a * T) * d
    BY <1>1, <1>4, Between
  <2> HIDE DEF T, n, d
  <2> QED BY <1>3, <1>2a, <2>1, TruncatedBounds
<1>5. ASSUME b <= a PROVE Bounded
  <2>1. /\ T >= 0 => (b * T) * ((b + a) * S) <= (2 * b * a * T) * S
                     /\ (2 * b * a * T) * S <= (a * T) * ((b + a) * S)
        /\ T < 0 => (a * T) * ((b + a) * S) <= (2 * b * a * T) * S
                    /\ (2 * b * a * T) * S <= (b * T) * ((b + a) * S)
    BY <1>1, <1>5, Between
  <2>2. (2 * b * a * T) * S = n /\ (b + a) * S = d
    BY <1>1
  <2>3. /\ T >= 0 => (b * T) * d <= n /\ n <= (a * T) * d
        /\ T < 0 => (a * T) * d <= n /\ n <= (b * T) * d
    BY <2>1, <2>2
  <2> HIDE DEF T, n, d
  <2> QED BY <1>3, <1>2a, <2>3, TruncatedBounds
<1>7. Bounded
  BY <1>1, <1>4, <1>5
<1> QED BY <1>7

\* What has 32 bits is not changed by a cast to 32 bits.
LEMMA Int32Identity ==
    ASSUME NEW n \in Int, IsInt32(n)
    PROVE  Int32(n) = n
<1> DEFINE h == D32 \div 2
           m == n + h
<1>1. D32 \in Nat \ {0}
  BY TickAssumption
<1>2. h \in Int /\ 2 * h <= D32
  BY <1>1
<1>3. -h <= n /\ n < h
  BY DEF IsInt32
<1> HIDE DEF h
<1>4. m \in Int /\ 0 <= m /\ m < D32
  BY <1>1, <1>2, <1>3
<1>5. m % D32 = m
  <2> HIDE DEF m
  <2> QED BY <1>1, <1>4
<1> QED BY <1>2, <1>5 DEF Int32, h

\* The flight on either clock is a number of 32 bits, in ticks and millimetres.
LEMMA FlightFits ==
    ASSUME NEW x, NEW a, NEW b, Fits(x, a, b)
    PROVE  /\ a * x.tof \in Int /\ b * x.tof \in Int
           /\ IsInt32(a * x.tof) /\ IsInt32(b * x.tof)
           /\ IsInt32(Truncated((a * x.tof) * 4692, 1000))
           /\ IsInt32(Truncated((b * x.tof) * 4692, 1000))
<1>1. a * x.tof \in Int /\ b * x.tof \in Int
  BY DEF Fits
<1> DEFINE low == a * x.tof
           high == b * x.tof
<1>2. \A ticks \in {low, high} : IsInt32(ticks) /\ IsInt32(Truncated(ticks * 4692, 1000))
  BY DEF Fits
<1> HIDE DEF low, high
<1>3. /\ IsInt32(low) /\ IsInt32(high)
      /\ IsInt32(Truncated(low * 4692, 1000)) /\ IsInt32(Truncated(high * 4692, 1000))
  BY <1>2
<1> QED BY <1>1, <1>3 DEF low, high

\* What lies between two numbers of 32 bits has 32 bits.
LEMMA Int32Between ==
    ASSUME NEW m \in Int, NEW n \in Int, NEW k \in Int, IsInt32(m), IsInt32(n),
           m <= k /\ k <= n
    PROVE  IsInt32(k)
<1>1. D32 \div 2 \in Int
  BY TickAssumption
<1> QED BY <1>1 DEF IsInt32

\* The time of flight the estimator makes of an exchange lies between the ticks
\* the two clocks count of it, however long the replies were: with clocks of
\* one rate it is exact.
THEOREM FlightBetweenClocks ==
    ASSUME NEW x, NEW a, NEW b, Fits(x, a, b), TotalInterval(Counted(x, a, b)) # 0,
           NEW tof, tof = CalculateSignedTofTicks(Counted(x, a, b))
    PROVE  /\ tof \in Int
           /\ \/ a * x.tof <= tof /\ tof <= b * x.tof
              \/ b * x.tof <= tof /\ tof <= a * x.tof
<1> DEFINE quotient == TofQuotient(Counted(x, a, b))
           low == a * x.tof
           high == b * x.tof
<1>1. /\ quotient \in Int
      /\ \/ low <= quotient /\ quotient <= high
         \/ high <= quotient /\ quotient <= low
  BY QuotientBetweenClocks
<1>2. low \in Int /\ high \in Int /\ IsInt32(low) /\ IsInt32(high)
  BY FlightFits
<1>3. tof = Int32(quotient)
  BY DEF CalculateSignedTofTicks
<1> HIDE DEF quotient, low, high
<1>4. tof = quotient
  BY <1>1, <1>2, <1>3, Int32Between, Int32Identity
<1>5. \/ low <= tof /\ tof <= high
      \/ high <= tof /\ tof <= low
  BY <1>1, <1>4
<1> QED BY <1>1, <1>4, <1>5 DEF low, high

-----------------------------------------------------------------------------
(***************************************************************************)
(* The session's results.                                                  *)
(***************************************************************************)
\* The type of a sample, and its distance.
LEMMA SampleFacts ==
    ASSUME NEW s \in Samples
    PROVE  /\ s.quality \in Qualities
           /\ s.angle \in Int
           /\ s.responders \in Seq(Nat)
           /\ Fits(s.exchange, s.a, s.b)
           /\ Measurable(s) => MeasuredDistance(s) \in Distances
BY ResultsAssumption

-----------------------------------------------------------------------------
(***************************************************************************)
(* The filter inside the session.                                          *)
(***************************************************************************)
LEMMA ResultsStepIsFilterStep == [ResultsNext]_resultsVars => [FilterNext]_filterVars
<1>1. ASSUME NEW s \in Samples, HandleFinalData(s) PROVE FilterNext
  <2>1. /\ MeasuredDistance(s) \in Distances
        /\ (IF s.stsPassed THEN 0 ELSE -1) \in {-1, 0}
        /\ s.quality \in Qualities
    BY <1>1, SampleFacts DEF HandleFinalData
  <2>2. Ingest(MeasuredDistance(s), IF s.stsPassed THEN 0 ELSE -1, s.quality)
    BY <1>1, Zenon DEF HandleFinalData
  <2> HIDE DEF Ingest
  <2> QED BY <2>1, <2>2, Zenon DEF FilterNext
<1>2. Restart \/ ResumeAnchored => FilterNext
  BY DEF Restart, ResumeAnchored, FilterNext
<1>3. StartFails \/ UNCHANGED resultsVars => UNCHANGED filterVars
  BY DEF StartFails, resultsVars
<1> QED BY <1>1, <1>2, <1>3, Zenon DEF ResultsNext

\* The filter the session resets and feeds is a filter: it keeps its types, it
\* trusts exactly on consensus and it counts the passes of the STS.
THEOREM ResultsFilterCorrect ==
    ResultsSpec => [](FilterTypeOK /\ TrustIsConsensus /\ StsStreakCounts)
<1>1. ResultsInit => FilterInv
  BY FilterInvInit DEF ResultsInit
<1>2. FilterInv /\ [ResultsNext]_resultsVars => FilterInv'
  BY FilterInvStep, ResultsStepIsFilterStep
<1> QED BY <1>1, <1>2, FilterInvImplies, PTL DEF ResultsSpec

-----------------------------------------------------------------------------
(***************************************************************************)
(* The gate of the angle.                                                  *)
(***************************************************************************)
Angle == [angle : Int, jump : BOOLEAN]

JumpedIn(past, n) == \E i \in 1 .. Len(past) : i > Len(past) - n /\ past[i].jump

LEMMA JumpedInNone ==
    ASSUME NEW past \in Seq(Angle)
    PROVE  ~ JumpedIn(past, 0)
<1>1. Len(past) \in Nat
  OBVIOUS
<1> QED BY <1>1 DEF JumpedIn

LEMMA JumpedInMore ==
    ASSUME NEW past \in Seq(Angle), NEW e \in Angle, NEW n \in Nat
    PROVE  JumpedIn(Append(past, e), n + 1) <=> e.jump \/ JumpedIn(past, n)
<1> DEFINE more == Append(past, e)
           last == Len(past)
<1>0. Len(past) \in Nat /\ past \in [1 .. Len(past) -> Angle]
  OBVIOUS
<1>1. /\ last \in Nat /\ Len(more) = last + 1 /\ more[last + 1] = e
      /\ \A i \in 1 .. last : more[i] = past[i]
  BY <1>0
<1>2. JumpedIn(more, n + 1) <=> \E i \in 1 .. last + 1 : i > last - n /\ more[i].jump
  BY <1>1 DEF JumpedIn
<1>3. JumpedIn(past, n) <=> \E i \in 1 .. last : i > last - n /\ more[i].jump
  BY <1>1 DEF JumpedIn
<1> HIDE DEF more, last
<1>4. (\E i \in 1 .. last + 1 : i > last - n /\ more[i].jump)
         <=> more[last + 1].jump \/ \E i \in 1 .. last : i > last - n /\ more[i].jump
  BY <1>1
<1> QED BY <1>1, <1>2, <1>3, <1>4 DEF more

\* What is left of the warm-up and of the hold, in terms of the history.
WarmupIsHistory ==
    m_warmup = IF Len(angles) < WarmupBlocks THEN WarmupBlocks - Len(angles) ELSE 0

HoldIsHistory ==
    /\ m_hold <= HoldBlocks
    /\ \A n \in 1 .. HoldBlocks : m_hold >= n <=> JumpedIn(angles, HoldBlocks - n)

AoaInv == AoaTypeOK /\ WarmupIsHistory /\ HoldIsHistory /\ GateIsHistory

LEMMA FreshAoa ==
    ASSUME NEW n \in 0 .. HoldBlocks
    PROVE  ~ JumpedIn(<<>>, n)
BY DEF JumpedIn

LEMMA FreshTypes ==
    /\ 0 \in Int /\ 0 \in 0 .. 255 /\ WarmupBlocks \in 0 .. 255 /\ FALSE \in BOOLEAN
    /\ NoVerdict \in [jump : BOOLEAN, gated : BOOLEAN]
    /\ <<>> \in Seq([angle : Int, jump : BOOLEAN])
<1>1. NoVerdict \in [jump : BOOLEAN, gated : BOOLEAN]
  BY DEF NoVerdict
<1>2. <<>> \in Seq([angle : Int, jump : BOOLEAN])
  OBVIOUS
<1> QED BY <1>1, <1>2, StabilityAssumption

LEMMA AoaInvInit == AoaInit => AoaInv
<1> SUFFICES ASSUME AoaInit PROVE AoaInv
  OBVIOUS
<1> USE StabilityAssumption DEF AoaInit
<1>1. AoaTypeOK
  BY FreshTypes, Zenon DEF AoaTypeOK
<1>2. WarmupIsHistory /\ GateIsHistory
  BY DEF WarmupIsHistory, GateIsHistory
<1>3. HoldIsHistory
  <2>1. ASSUME NEW n \in 1 .. HoldBlocks
        PROVE  ~ (m_hold >= n) /\ ~ JumpedIn(angles, HoldBlocks - n)
    <3>1. HoldBlocks - n \in 0 .. HoldBlocks /\ ~ (0 >= n)
      OBVIOUS
    <3>2. ~ JumpedIn(<<>>, HoldBlocks - n)
      BY <3>1, FreshAoa
    <3> QED BY <3>1, <3>2
  <2>2. m_hold <= HoldBlocks
    OBVIOUS
  <2> QED BY <2>1, <2>2 DEF HoldIsHistory
<1> QED BY <1>1, <1>2, <1>3 DEF AoaInv

LEMMA AoaResetPreserves == AoaReset => AoaInv'
<1> SUFFICES ASSUME AoaReset PROVE AoaInv'
  OBVIOUS
<1> USE StabilityAssumption DEF AoaReset
<1>1. AoaTypeOK'
  BY FreshTypes, Zenon DEF AoaTypeOK
<1>2. WarmupIsHistory' /\ GateIsHistory'
  BY DEF WarmupIsHistory, GateIsHistory
<1>3. HoldIsHistory'
  <2>1. ASSUME NEW n \in 1 .. HoldBlocks
        PROVE  ~ (m_hold' >= n) /\ ~ JumpedIn(angles', HoldBlocks - n)
    <3>1. HoldBlocks - n \in 0 .. HoldBlocks /\ ~ (0 >= n)
      OBVIOUS
    <3>2. ~ JumpedIn(<<>>, HoldBlocks - n)
      BY <3>1, FreshAoa
    <3> QED BY <3>1, <3>2
  <2>2. m_hold' <= HoldBlocks
    OBVIOUS
  <2> QED BY <2>1, <2>2 DEF HoldIsHistory
<1> QED BY <1>1, <1>2, <1>3 DEF AoaInv

LEMMA AoaIngestPreserves ==
    ASSUME AoaInv, NEW angle \in Int, AoaIngest(angle)
    PROVE  AoaInv'
<1> USE StabilityAssumption
<1> DEFINE jump == Jumps(angle)
           held == Held(angle)
           e == [angle |-> angle, jump |-> jump]
<1>1. /\ m_refCentiDeg \in Int /\ m_hold \in 0 .. HoldBlocks /\ m_warmup \in 0 .. 255
      /\ angles \in Seq(Angle)
  BY DEF AoaInv, AoaTypeOK, HoldIsHistory, Angle
<1>2. jump \in BOOLEAN
  BY DEF Jumps, AoaInv, AoaTypeOK
<1>3. e \in Angle
  BY <1>2 DEF Angle
<1>4. held = IF jump THEN HoldBlocks ELSE m_hold
  BY DEF Held
<1>5. held \in 0 .. HoldBlocks
  BY <1>1, <1>4
<1>6. /\ m_refValid' = TRUE
      /\ m_warmup' = IF m_warmup > 0 THEN m_warmup - 1 ELSE 0
      /\ m_hold' = IF held > 0 THEN held - 1 ELSE 0
      /\ aoaVerdict' = [jump |-> jump, gated |-> m_warmup > 0 \/ held > 0]
      /\ angles' = Append(angles, e)
  BY DEF AoaIngest, Count
<1>7. m_refCentiDeg' \in Int
  BY <1>1 DEF AoaIngest, Follow, Half
<1> HIDE DEF jump, held, e
<1>8. /\ Len(angles') = Len(angles) + 1 /\ Len(angles) \in Nat /\ angles' \in Seq(Angle)
      /\ e.jump = jump
  BY <1>1, <1>3, <1>6 DEF e
<1>9. \A n \in Nat : JumpedIn(angles', n + 1) <=> jump \/ JumpedIn(angles, n)
  BY <1>1, <1>3, <1>6, <1>8, JumpedInMore
<1>10. AoaTypeOK'
  <2>1. m_hold' \in 0 .. 255 /\ m_warmup' \in 0 .. 255
    BY <1>1, <1>5, <1>6
  <2>2. aoaVerdict' \in [jump : BOOLEAN, gated : BOOLEAN]
    BY <1>2, <1>6
  <2> QED BY <1>6, <1>7, <1>8, <2>1, <2>2 DEF AoaTypeOK, Angle
<1>11. WarmupIsHistory'
  BY <1>1, <1>6, <1>8 DEF AoaInv, WarmupIsHistory
<1>12. HoldIsHistory'
  <2>1. m_hold' <= HoldBlocks
    BY <1>5, <1>6
  <2>2. ASSUME NEW n \in 1 .. HoldBlocks
        PROVE  m_hold' >= n <=> JumpedIn(angles', HoldBlocks - n)
    <3>1. m_hold' >= n <=> held >= n + 1
      BY <1>5, <1>6
    <3>2. CASE n = HoldBlocks
      BY <3>1, <3>2, <1>5, <1>8, JumpedInNone
    <3>3. CASE n < HoldBlocks
      <4>1. n + 1 \in 1 .. HoldBlocks /\ HoldBlocks - (n + 1) \in Nat
        BY <3>3
      <4>2. m_hold >= n + 1 <=> JumpedIn(angles, HoldBlocks - (n + 1))
        BY <4>1 DEF AoaInv, HoldIsHistory
      <4>3. (HoldBlocks - (n + 1)) + 1 = HoldBlocks - n
        OBVIOUS
      <4>4. JumpedIn(angles', HoldBlocks - n) <=> jump \/ JumpedIn(angles, HoldBlocks - (n + 1))
        BY <4>1, <4>3, <1>9
      <4>5. held >= n + 1 <=> jump \/ m_hold >= n + 1
        BY <4>1, <1>1, <1>4, <1>2
      <4> QED BY <3>1, <4>2, <4>4, <4>5
    <3> QED BY <3>2, <3>3
  <2> QED BY <2>1, <2>2 DEF HoldIsHistory
<1>13. GateIsHistory'
  <2>1. aoaVerdict'.gated <=> m_warmup > 0 \/ held > 0
    BY <1>6
  <2>2. m_warmup > 0 <=> Len(angles') <= WarmupBlocks
    BY <1>1, <1>8 DEF AoaInv, WarmupIsHistory
  <2>3. held > 0 <=> JumpedIn(angles', HoldBlocks)
    <3>1. CASE HoldBlocks = 0
      BY <3>1, <1>5, <1>8, JumpedInNone
    <3>2. CASE HoldBlocks > 0
      <4>1. 1 \in 1 .. HoldBlocks /\ HoldBlocks - 1 \in Nat /\ (HoldBlocks - 1) + 1 = HoldBlocks
        BY <3>2
      <4>2. m_hold >= 1 <=> JumpedIn(angles, HoldBlocks - 1)
        BY <4>1 DEF AoaInv, HoldIsHistory
      <4>3. JumpedIn(angles', HoldBlocks) <=> jump \/ JumpedIn(angles, HoldBlocks - 1)
        BY <4>1, <1>9
      <4>4. held > 0 <=> jump \/ m_hold >= 1
        BY <3>2, <1>1, <1>2, <1>4
      <4> QED BY <4>2, <4>3, <4>4
    <3> QED BY <3>1, <3>2
  <2> QED BY <2>1, <2>2, <2>3 DEF GateIsHistory, JumpedWithin, JumpedIn
<1> QED BY <1>10, <1>11, <1>12, <1>13 DEF AoaInv

LEMMA AoaInvStep == AoaInv /\ [ResultsNext]_resultsVars => AoaInv'
<1> SUFFICES ASSUME AoaInv, [ResultsNext]_resultsVars PROVE AoaInv'
  OBVIOUS
<1>1. ASSUME UNCHANGED aoaVars PROVE AoaInv'
  BY <1>1 DEF aoaVars, AoaInv, AoaTypeOK, WarmupIsHistory, HoldIsHistory, GateIsHistory,
              JumpedWithin, JumpedIn
<1>2. ASSUME NEW s \in Samples, HandleFinalData(s) PROVE AoaInv'
  <2>1. IngestAngle(s)
    BY <1>2, Zenon DEF HandleFinalData
  <2>2. s.angle \in Int
    BY SampleFacts
  <2> QED BY <1>1, <2>1, <2>2, AoaIngestPreserves DEF IngestAngle
<1>3. CASE Restart \/ ResumeAnchored
  BY <1>3, AoaResetPreserves DEF Restart, ResumeAnchored
<1>4. CASE StartFails \/ UNCHANGED resultsVars
  BY <1>4, <1>1 DEF StartFails, resultsVars
<1> QED BY <1>2, <1>3, <1>4 DEF ResultsNext

\* The gate is closed exactly for the first readings and after a jump, for every
\* length of the warm-up and of the hold.
THEOREM GateCorrect == ResultsSpec => []GateIsHistory
<1>1. ResultsInit => AoaInv
  BY AoaInvInit DEF ResultsInit
<1>2. AoaInv => GateIsHistory
  BY DEF AoaInv
<1> QED BY <1>1, <1>2, AoaInvStep, PTL DEF ResultsSpec

-----------------------------------------------------------------------------
(***************************************************************************)
(* A steady angle.  The distance to the reference is halved with every     *)
(* reading; the invariant says how far it can still be after so many equal *)
(* ones, and that none jumps after Settling of them.                       *)
(***************************************************************************)
Within(d, width) == d <= width /\ -d <= width

\* Reading i of these is the n-th of equal ones, at least.
RunIn(past, i, n) == n <= i /\ \A j \in i - n + 1 .. i : past[j].angle = past[i].angle

SteadyInv ==
    /\ angles # <<>> => m_refValid
    /\ m_refValid => \A s \in Samples : Within(s.angle - m_refCentiDeg, Swings[1])
    /\ \A n \in 1 .. Settling :
         n <= Len(angles) /\ RunIn(angles, Len(angles), n) =>
             Within(angles[Len(angles)].angle - m_refCentiDeg, Swings[n + 1])
    /\ \A i \in 1 .. Len(angles) : RunIn(angles, i, Settling + 1) => ~ angles[i].jump

LEMMA HalfLeavesHalf ==
    ASSUME NEW d \in Int, NEW width \in Nat, Within(d, width)
    PROVE  Within(d - Half(d), (width + 1) \div 2)
BY DEF Within, Half

\* Halfway between two numbers that are near a third is near it.
LEMMA HalfwayIsNear ==
    ASSUME NEW r \in Int, NEW a \in Int, NEW b \in Int, NEW width \in Nat,
           Within(b - r, width), Within(b - a, width)
    PROVE  Within(b - (r + Half(a - r)), width)
BY DEF Within, Half

LEMMA SwingTypes ==
    /\ Settling \in Nat
    /\ \A i \in 1 .. Settling + 1 : Swings[i] \in Nat
    /\ \A i \in 1 .. Settling : (Swings[i] + 1) \div 2 <= Swings[i + 1]
    /\ Swings[Settling + 1] <= JumpThreshold
    /\ JumpThreshold \in Nat /\ HoldBlocks \in Nat /\ WarmupBlocks \in Nat
<1>1. Swings \in Seq(Nat) /\ Len(Swings) \in Nat /\ Len(Swings) >= 1
  BY SwingAssumption
<1>2. Settling \in Nat /\ Settling + 1 = Len(Swings)
  BY <1>1 DEF Settling
<1>3. \A i \in 1 .. Settling + 1 : Swings[i] \in Nat
  BY <1>1, <1>2
<1> QED BY <1>2, <1>3, SwingAssumption, StabilityAssumption

LEMMA SteadyIngest ==
    ASSUME AoaTypeOK, SteadyInv, NEW s \in Samples, AoaIngest(s.angle)
    PROVE  SteadyInv'
<1> DEFINE a == s.angle
           last == Len(angles)
           r == m_refCentiDeg
           e == [angle |-> a, jump |-> Jumps(a)]
<1>1. /\ a \in Int /\ r \in Int /\ angles \in Seq(Angle) /\ last \in Nat
      /\ m_refValid \in BOOLEAN
  BY SampleFacts DEF AoaTypeOK, Angle
<1>2. Jumps(a) \in BOOLEAN
  BY <1>1 DEF Jumps
<1>3. e \in Angle
  BY <1>1, <1>2 DEF Angle
<1>4. /\ angles' = Append(angles, e) /\ m_refValid' = TRUE
      /\ m_refCentiDeg' = IF m_refValid THEN r + Half(a - r) ELSE a
  BY DEF AoaIngest, Follow
<1>5. /\ Len(angles') = last + 1 /\ angles'[last + 1].angle = a
      /\ \A i \in 1 .. last : angles'[i] = angles[i] /\ angles[i] \in Angle
      /\ angles' # <<>>
  BY <1>1, <1>3, <1>4
<1>6. angles'[last + 1].jump = Jumps(a)
  BY <1>1, <1>3, <1>4
<1>7. \A t \in Samples : t.angle \in Int /\ Within(t.angle - a, Swings[1])
  BY SampleFacts, SwingAssumption DEF Within
<1>8. ASSUME NEW n \in 1 .. Settling + 1, n > 1, RunIn(angles', last + 1, n)
      PROVE  /\ n - 1 \in 1 .. Settling /\ n - 1 <= last /\ RunIn(angles, last, n - 1)
             /\ angles[last].angle = a /\ m_refValid
  <2>1. /\ n <= last + 1
        /\ \A j \in last + 1 - n + 1 .. last + 1 : angles'[j].angle = a
    BY <1>5, <1>8 DEF RunIn
  <2>2. n - 1 \in 1 .. Settling /\ n - 1 <= last /\ last \in 1 .. last
    BY <1>1, <1>8, <2>1, SwingTypes
  <2>3. \A j \in last - (n - 1) + 1 .. last : angles[j].angle = a
    <3>1. ASSUME NEW j \in last - (n - 1) + 1 .. last PROVE angles[j].angle = a
      <4>1. j \in last + 1 - n + 1 .. last + 1 /\ j \in 1 .. last
        BY <1>1, <2>2, SwingTypes
      <4> QED BY <1>5, <2>1, <4>1
    <3> QED BY <3>1
  <2>4. last \in last - (n - 1) + 1 .. last
    BY <1>1, <2>2, SwingTypes
  <2>5. angles[last].angle = a
    BY <2>3, <2>4
  <2>6. RunIn(angles, last, n - 1)
    BY <2>2, <2>3, <2>5 DEF RunIn
  <2>7. angles # <<>>
    BY <1>1, <2>2
  <2> QED BY <2>2, <2>5, <2>6, <2>7 DEF SteadyInv
<1>9. m_refValid => Within(a - r, Swings[1])
  BY DEF SteadyInv
<1> HIDE DEF a, r, e
<1>10. \A t \in Samples : Within(t.angle - m_refCentiDeg', Swings[1])
  <2> SUFFICES ASSUME NEW t \in Samples PROVE Within(t.angle - m_refCentiDeg', Swings[1])
    OBVIOUS
  <2>1. CASE ~ m_refValid
    BY <1>4, <1>7, <2>1
  <2>2. CASE m_refValid
    <3>1. Within(t.angle - r, Swings[1]) /\ Swings[1] \in Nat
      BY <2>2, SwingTypes DEF SteadyInv, r
    <3>2. t.angle \in Int /\ Within(t.angle - a, Swings[1])
      BY <1>7
    <3> QED BY <1>1, <1>4, <2>2, <3>1, <3>2, HalfwayIsNear
  <2> QED BY <1>1, <2>1, <2>2
<1>11. ASSUME NEW n \in 1 .. Settling, RunIn(angles', last + 1, n)
       PROVE  Within(a - m_refCentiDeg', Swings[n + 1])
  <2>1. Swings[n] \in Nat /\ Swings[n + 1] \in Nat /\ (Swings[n] + 1) \div 2 <= Swings[n + 1]
    BY SwingTypes
  <2>2. CASE ~ m_refValid
    BY <1>1, <1>4, <2>1, <2>2 DEF Within
  <2>3. CASE m_refValid
    <3>1. Within(a - r, Swings[n])
      <4>1. CASE n = 1
        BY <1>9, <2>3, <4>1
      <4>2. CASE n > 1
        <5>1. n \in 1 .. Settling + 1
          BY SwingTypes
        <5>2. /\ n - 1 \in 1 .. Settling /\ n - 1 <= last /\ RunIn(angles, last, n - 1)
              /\ angles[last].angle = a
          BY <1>8, <1>11, <4>2, <5>1
        <5>3. (n - 1) + 1 = n
          OBVIOUS
        <5> QED BY <5>2, <5>3 DEF SteadyInv, r
      <4> QED BY <4>1, <4>2
    <3>2. Within((a - r) - Half(a - r), (Swings[n] + 1) \div 2)
      BY <1>1, <2>1, <3>1, HalfLeavesHalf
    <3>3. a - m_refCentiDeg' = (a - r) - Half(a - r) /\ Half(a - r) \in Int
      BY <1>1, <1>4, <2>3 DEF Half
    <3> QED BY <1>1, <2>1, <3>2, <3>3 DEF Within
  <2> QED BY <1>1, <2>2, <2>3
<1>12. RunIn(angles', last + 1, Settling + 1) => ~ Jumps(a)
  <2> SUFFICES ASSUME RunIn(angles', last + 1, Settling + 1), m_refValid
               PROVE  Within(a - r, JumpThreshold)
    BY <1>1, SwingTypes DEF Jumps, Within, r
  <2>1. Within(a - r, Swings[Settling + 1])
    <3>1. CASE Settling = 0
      BY <1>9, <3>1
    <3>2. CASE Settling > 0
      <4>1. /\ Settling \in 1 .. Settling /\ Settling <= last /\ RunIn(angles, last, Settling)
            /\ angles[last].angle = a
        <5>1. Settling + 1 \in 1 .. Settling + 1 /\ Settling + 1 > 1 /\ (Settling + 1) - 1 = Settling
          BY <3>2, SwingTypes
        <5> QED BY <1>8, <5>1
      <4> QED BY <4>1 DEF SteadyInv, r
    <3> QED BY <3>1, <3>2, SwingTypes
  <2> QED BY <1>1, <2>1, SwingTypes DEF Within
<1>13. ASSUME NEW i \in 1 .. last + 1, RunIn(angles', i, Settling + 1)
       PROVE  ~ angles'[i].jump
  <2>1. CASE i = last + 1
    BY <1>6, <1>12, <1>13, <2>1 DEF a
  <2>2. CASE i <= last
    <3>1. i \in 1 .. last /\ Settling + 1 <= i
      BY <1>13, <2>2 DEF RunIn
    <3>2. \A j \in i - (Settling + 1) + 1 .. i : j \in 1 .. last
      BY <1>1, <3>1, SwingTypes
    <3>3. RunIn(angles, i, Settling + 1)
      BY <1>5, <1>13, <3>1, <3>2 DEF RunIn
    <3> QED BY <1>5, <3>1, <3>3 DEF SteadyInv
  <2> QED BY <1>1, <2>1, <2>2
<1> QED BY <1>4, <1>5, <1>10, <1>11, <1>13 DEF SteadyInv, a

LEMMA SteadyStep == AoaTypeOK /\ SteadyInv /\ [ResultsNext]_resultsVars => SteadyInv'
<1> SUFFICES ASSUME AoaTypeOK, SteadyInv, [ResultsNext]_resultsVars PROVE SteadyInv'
  OBVIOUS
<1>1. ASSUME UNCHANGED aoaVars PROVE SteadyInv'
  BY <1>1 DEF aoaVars, SteadyInv, RunIn
<1>2. ASSUME NEW s \in Samples, HandleFinalData(s) PROVE SteadyInv'
  <2>1. IngestAngle(s)
    BY <1>2, Zenon DEF HandleFinalData
  <2> QED BY <1>1, <2>1, SteadyIngest DEF IngestAngle
<1>3. CASE Restart \/ ResumeAnchored
  BY <1>3, SwingTypes DEF Restart, ResumeAnchored, AoaReset, SteadyInv
<1>4. CASE StartFails \/ UNCHANGED resultsVars
  BY <1>4, <1>1 DEF StartFails, resultsVars
<1> QED BY <1>2, <1>3, <1>4 DEF ResultsNext

\* An angle that does not change any more opens the gate, whatever was read
\* before: the readings that may still jump and the hold after them are over.
THEOREM SteadyCorrect == ResultsSpec => []SteadyAngleOpens
<1>1. ResultsInit => SteadyInv
  BY SwingTypes DEF ResultsInit, AoaInit, SteadyInv
<1>2. AoaInv => AoaTypeOK
  BY DEF AoaInv
<1>3. AoaInv /\ SteadyInv => SteadyAngleOpens
  <2> SUFFICES ASSUME AoaInv, SteadyInv, Len(angles) > WarmupBlocks,
                      SteadyFor(Settling + HoldBlocks), aoaVerdict.gated
               PROVE  FALSE
    BY DEF SteadyAngleOpens
  <2>1. Len(angles) \in Nat /\ angles # <<>>
    BY SwingTypes DEF AoaInv, AoaTypeOK
  <2>2. PICK i \in 1 .. Len(angles) : i > Len(angles) - HoldBlocks /\ angles[i].jump
    BY <2>1, SwingTypes DEF AoaInv, GateIsHistory, JumpedWithin
  <2>3. /\ Settling + HoldBlocks <= Len(angles)
        /\ \A j \in Len(angles) - (Settling + HoldBlocks) + 1 .. Len(angles) :
             angles[j].angle = angles[Len(angles)].angle
    BY DEF SteadyFor
  <2>4. Settling + 1 <= i
    BY <2>1, <2>2, <2>3, SwingTypes
  <2>5. \A j \in i - (Settling + 1) + 1 .. i :
          j \in Len(angles) - (Settling + HoldBlocks) + 1 .. Len(angles)
    BY <2>1, <2>2, SwingTypes
  <2>6. i \in i - (Settling + 1) + 1 .. i
    BY <2>2, SwingTypes
  <2>7. RunIn(angles, i, Settling + 1)
    BY <2>3, <2>4, <2>5, <2>6 DEF RunIn
  <2> QED BY <2>2, <2>7 DEF SteadyInv
<1>4. ResultsInit => AoaInv
  BY AoaInvInit DEF ResultsInit
<1> QED BY <1>1, <1>2, <1>3, <1>4, AoaInvStep, SteadyStep, PTL DEF ResultsSpec

-----------------------------------------------------------------------------
(***************************************************************************)
(* The distance.                                                           *)
(***************************************************************************)

\* A result has a first record of this node to be made of.
LEMMA OwnRecordIsOurs ==
    ASSUME NEW s \in Samples, HasOwnRecord(s)
    PROVE  s.responders[OwnRecord(s)] = ResponderIndex
<1> DEFINE ours == {i \in 1 .. Len(s.responders) : s.responders[i] = ResponderIndex}
<1>0. Len(s.responders) \in Nat
  BY SampleFacts
<1>1. ours \subseteq Nat /\ ours # {}
  BY <1>0 DEF HasOwnRecord
<1>2. PICK i \in ours : \A j \in ours : <<j, i>> \notin OpToRel(<, Nat)
  BY <1>1, WFMin, NatLessThanWellFounded, Zenon
<1>3. \A j \in ours : <<j, i>> \in Nat \X Nat => ~ (j < i)
  BY <1>2 DEF OpToRel
<1>5. i \in 1 .. Len(s.responders) /\ s.responders[i] = ResponderIndex
  BY <1>2
<1>4. \A j \in 1 .. i - 1 : s.responders[j] # ResponderIndex
  <2>1. ASSUME NEW j \in 1 .. i - 1, s.responders[j] = ResponderIndex PROVE FALSE
    <3>1. j \in 1 .. Len(s.responders) /\ i \in Nat /\ j \in Nat /\ j < i
      BY <1>0, <1>5
    <3> QED BY <3>1, <2>1, <1>3
  <2> QED BY <2>1
<1> HIDE DEF ours
<1> QED BY <1>4, <1>5, Zenon DEF OwnRecord

\* The session's intervals are those of the exchange.
LEMMA MeasuredIsCounted ==
    ASSUME NEW s \in Samples, HasOwnRecord(s)
    PROVE  MeasuredIntervals(s) = Counted(s.exchange, s.a, s.b)
<1>1. Fits(s.exchange, s.a, s.b)
  BY SampleFacts
<1>2. RecordOf(s, s.responders[OwnRecord(s)]) = PeerReport(s.exchange, s.a).pollToResponse
  BY OwnRecordIsOurs DEF RecordOf
<1>3. MeasuredIntervals(s) = Intervals(OwnStamps(s.exchange, s.b), PeerReport(s.exchange, s.a))
  BY <1>2 DEF MeasuredIntervals, Intervals
<1> QED BY <1>1, <1>3, IntervalsAreCounted

Bounded(distance, x, a, b) ==
    \/ Millimetres(a * x.tof) <= distance /\ distance <= Millimetres(b * x.tof)
    \/ Millimetres(b * x.tof) <= distance /\ distance <= Millimetres(a * x.tof)

LEMMA MeasuredIsBounded ==
    ASSUME NEW s \in Samples, Measurable(s)
    PROVE  Bounded(MeasuredDistance(s), s.exchange, s.a, s.b)
<1> DEFINE x == s.exchange
           a == s.a
           b == s.b
           counted == Counted(x, a, b)
           tof == CalculateSignedTofTicks(counted)
           T == x.tof
<1>1. Fits(x, a, b) /\ HasOwnRecord(s)
  BY SampleFacts DEF Measurable
<1>2. MeasuredIntervals(s) = counted
  BY <1>1, MeasuredIsCounted
<1>3. TotalInterval(counted) # 0
  BY <1>2 DEF Measurable
<1>4. /\ tof \in Int
      /\ \/ a * T <= tof /\ tof <= b * T
         \/ b * T <= tof /\ tof <= a * T
  <2> HIDE DEF x, a, b
  <2> QED BY <1>1, <1>3, FlightBetweenClocks
<1>5. MeasuredDistance(s) = Int32(Truncated(tof * 4692, 1000)) + AntennaDelayBias
  BY <1>2 DEF MeasuredDistance, CalculateDistance
<1>6. /\ a * T \in Int /\ b * T \in Int /\ AntennaDelayBias \in Int
      /\ IsInt32(Truncated((a * T) * 4692, 1000))
      /\ IsInt32(Truncated((b * T) * 4692, 1000))
  <2>1. /\ a * T \in Int /\ b * T \in Int
        /\ IsInt32(Truncated((a * T) * 4692, 1000))
        /\ IsInt32(Truncated((b * T) * 4692, 1000))
    <3> HIDE DEF x, a, b
    <3> QED BY <1>1, FlightFits
  <2> HIDE DEF T, a, b
  <2> QED BY <2>1, ResultsAssumption
<1> HIDE DEF tof, T, a, b
<1>7. \A m, n \in Int : m <= n =>
         /\ Truncated(m * 4692, 1000) \in Int
         /\ Truncated(n * 4692, 1000) \in Int
         /\ Truncated(m * 4692, 1000) <= Truncated(n * 4692, 1000)
  <2> TAKE m, n \in Int
  <2>1. m * 4692 \in Int /\ n * 4692 \in Int /\ 1000 \in Nat \ {0}
        /\ (m <= n => m * 4692 <= n * 4692)
    OBVIOUS
  <2> QED BY <2>1, TruncatedMonotone
<1> DEFINE mm(ticks) == Truncated(ticks * 4692, 1000)
<1>8. /\ mm(a * T) \in Int /\ mm(b * T) \in Int /\ mm(tof) \in Int
      /\ \/ mm(a * T) <= mm(tof) /\ mm(tof) <= mm(b * T)
         \/ mm(b * T) <= mm(tof) /\ mm(tof) <= mm(a * T)
  BY <1>4, <1>6, <1>7
<1>9. IsInt32(mm(tof))
  <2> HIDE DEF mm
  <2>1. IsInt32(mm(a * T)) /\ IsInt32(mm(b * T))
    BY <1>6 DEF mm
  <2> QED BY <1>8, <2>1, Int32Between
<1>10. Int32(mm(tof)) = mm(tof)
  <2> HIDE DEF mm
  <2> QED BY <1>8, <1>9, Int32Identity
<1>11. MeasuredDistance(s) = Millimetres(tof)
  BY <1>5, <1>10 DEF Millimetres
<1>12. \/ Millimetres(a * T) <= Millimetres(tof) /\ Millimetres(tof) <= Millimetres(b * T)
       \/ Millimetres(b * T) <= Millimetres(tof) /\ Millimetres(tof) <= Millimetres(a * T)
  <2> HIDE DEF mm
  <2>1. /\ Millimetres(a * T) = mm(a * T) + AntennaDelayBias
        /\ Millimetres(b * T) = mm(b * T) + AntennaDelayBias
        /\ Millimetres(tof) = mm(tof) + AntennaDelayBias
    BY DEF Millimetres, mm
  <2> QED BY <1>6, <1>8, <2>1
<1> QED BY <1>11, <1>12, Zenon DEF Bounded, T, a, b, x

\* The distance lies between those the flight has on the two clocks, however
\* long the replies, whichever counter wraps, for every rate of the clocks.
THEOREM DistanceCorrect == ResultsSpec => []DistanceIsTrue
<1> DEFINE Inv == result # NoResult =>
                      Bounded(result.distance, result.sample.exchange, result.sample.a, result.sample.b)
<1>1. ResultsInit => Inv
  BY DEF ResultsInit
<1>2. Inv /\ [ResultsNext]_resultsVars => Inv'
  <2> SUFFICES ASSUME Inv, [ResultsNext]_resultsVars PROVE Inv'
    OBVIOUS
  <2>1. ASSUME NEW s \in Samples, HandleFinalData(s) PROVE Inv'
    <3>1. result'.sample = s /\ result'.distance = MeasuredDistance(s) /\ Measurable(s)
      BY <2>1 DEF HandleFinalData
    <3>2. Bounded(MeasuredDistance(s), s.exchange, s.a, s.b)
      BY <3>1, MeasuredIsBounded
    <3> QED BY <3>1, <3>2
  <2>2. CASE UNCHANGED result
    BY <2>2
  <2>3. Restart \/ ResumeAnchored \/ StartFails \/ UNCHANGED resultsVars => UNCHANGED result
    BY DEF Restart, ResumeAnchored, StartFails, resultsVars
  <2> QED BY <2>1, <2>2, <2>3 DEF ResultsNext
<1>3. Inv => DistanceIsTrue
  BY DEF DistanceIsTrue, Bounded
<1> QED BY <1>1, <1>2, <1>3, PTL DEF ResultsSpec

-----------------------------------------------------------------------------
\* Powers that could not be read, or that are the driver's or the detector's
\* mark of no power, are evidence of nothing.
THEOREM UnreadableCorrect == ResultsSpec => []UnreadableIsNoEvidence
<1>1. ResultsInit => UnreadableIsNoEvidence
  BY DEF ResultsInit, UnreadableIsNoEvidence
<1>2. UnreadableIsNoEvidence /\ [ResultsNext]_resultsVars => UnreadableIsNoEvidence'
  <2> SUFFICES ASSUME UnreadableIsNoEvidence, [ResultsNext]_resultsVars
               PROVE  UnreadableIsNoEvidence'
    OBVIOUS
  <2>1. ASSUME NEW s \in Samples, HandleFinalData(s) PROVE UnreadableIsNoEvidence'
    <3> DEFINE powers == FirstPathDiagnostics(s)
               nlos == EvaluateNlos(powers)
    <3>1. /\ result'.sample = s
          /\ result'.nlosValid = (nlos.valid /\ powers.valid)
          /\ result'.nlosDetected =
                 (nlos.nlos \/ (IF aoaEnabled THEN aoaVerdict' ELSE NoVerdict).gated)
          /\ result'.aoaValid = aoaEnabled
      BY <2>1 DEF HandleFinalData
    <3>2. ASSUME ~ s.powersRead \/ {s.firstPath, s.rssi} \cap {NoPower, 0} # {}
          PROVE  ~ nlos.valid /\ ~ nlos.nlos
      <4>1. Degenerate(powers)
        BY <3>2 DEF FirstPathDiagnostics, Degenerate
      <4> HIDE DEF powers
      <4> QED BY <4>1 DEF EvaluateNlos
    <3> HIDE DEF powers, nlos
    <3>3. ~ aoaEnabled => ~ (IF aoaEnabled THEN aoaVerdict' ELSE NoVerdict).gated
      BY DEF NoVerdict
    <3> QED BY <3>1, <3>2, <3>3 DEF UnreadableIsNoEvidence
  <2>2. CASE UNCHANGED result
    BY <2>2 DEF UnreadableIsNoEvidence
  <2>3. Restart \/ ResumeAnchored \/ StartFails \/ UNCHANGED resultsVars => UNCHANGED result
    BY DEF Restart, ResumeAnchored, StartFails, resultsVars
  <2> QED BY <2>1, <2>2, <2>3 DEF ResultsNext
<1> QED BY <1>1, <1>2, PTL DEF ResultsSpec

=============================================================================
