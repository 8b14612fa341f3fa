-------------------------- MODULE CycleTime_proofs --------------------------
(***************************************************************************)
(* The cycle times and the intervals of the unit checkpoints for every     *)
(* width of suseconds_t, and for iterations and turns that together stay   *)
(* below half its range (36 minutes for 32 bits).                          *)
(***************************************************************************)
EXTENDS CycleTime, TLAPS

RANGE == 2 * HALF

\* How often the microseconds have wrapped at time x.
Turns(x) == (x + HALF) \div RANGE

LEMMA RangeIsPositive == RANGE \in Nat \ {0} /\ HALF \in Nat \ {0} /\ RANGE = HALF + HALF
  BY CycleTimeAssumption DEF RANGE

-----------------------------------------------------------------------------
(* Arithmetic. *)

LEMMA Division ==
  ASSUME NEW a \in Int, NEW d \in Nat \ {0}
  PROVE  a \div d \in Int /\ a % d \in 0 .. d - 1 /\ a % d = a - d * (a \div d)
  OBVIOUS

LEMMA ProductsAreOrdered ==
  ASSUME NEW d \in Nat, NEW p \in Int, NEW q \in Int, p <= q
  PROVE  d * p \in Int /\ d * q \in Int /\ d * p <= d * q
  OBVIOUS

LEMMA QuotientsAreOrdered ==
  ASSUME NEW a \in Int, NEW b \in Int, a <= b, NEW d \in Nat \ {0}
  PROVE  a \div d \in Int /\ b \div d \in Int /\ a \div d <= b \div d
  OBVIOUS

\* Division in C brings a number nearer to zero.
LEMMA QuotientIsBounded ==
  ASSUME NEW a \in Int, NEW m \in Nat, NEW d \in Nat \ {0}, -m <= a, a <= m
  PROVE  /\ Quotient(a, d) \in Int
         /\ -(m \div d) <= Quotient(a, d) /\ Quotient(a, d) <= m \div d
<1>1. m \div d \in Int /\ 0 <= m \div d
  <2>1. 0 \div d = 0
    OBVIOUS
  <2> QED BY <2>1, QuotientsAreOrdered
<1>2. CASE a >= 0
  <2>1. 0 \div d = 0 /\ 0 \div d <= a \div d /\ a \div d <= m \div d /\ a \div d \in Int
    BY <1>2, QuotientsAreOrdered
  <2> QED BY <1>1, <1>2, <2>1 DEF Quotient
<1>3. CASE ~(a >= 0)
  <2>1. 0 \div d = 0 /\ 0 \div d <= (-a) \div d /\ (-a) \div d <= m \div d /\ (-a) \div d \in Int
    BY <1>3, QuotientsAreOrdered
  <2> QED BY <1>1, <1>3, <2>1 DEF Quotient
<1> QED BY <1>2, <1>3

LEMMA NaturalQuotient ==
  ASSUME NEW m \in Nat, NEW d \in Nat \ {0}
  PROVE  m \div d \in Nat /\ m \div d <= m
<1>1. 0 \div d = 0 /\ 0 \div d <= m \div d /\ m \div d \in Int
  BY QuotientsAreOrdered
<1>2. m \div d <= m
  <2> DEFINE q == m \div d
  <2>1. q \in Nat /\ d * q <= m
    BY <1>1, Division
  <2> HIDE DEF q
  <2>2. q <= d * q
    BY <2>1
  <2> QED BY <2>1, <2>2 DEF q
<1> QED BY <1>1, <1>2

-----------------------------------------------------------------------------
(* Integers that wrap. *)

LEMMA WrapCountsTurns ==
  ASSUME NEW x \in Int
  PROVE  Turns(x) \in Int /\ Wrap(x) = x - RANGE * Turns(x) /\ Wrap(x) \in Signed
<1>1. /\ Turns(x) \in Int
      /\ (x + HALF) % RANGE \in 0 .. RANGE - 1
      /\ (x + HALF) % RANGE = (x + HALF) - RANGE * Turns(x)
  <2>1. x + HALF \in Int /\ RANGE \in Nat \ {0}
    BY RangeIsPositive
  <2> QED BY <2>1, Division DEF Turns
<1>2. Wrap(x) = ((x + HALF) % RANGE) - HALF
  BY DEF Wrap, RANGE
<1>3. RANGE * Turns(x) \in Int
  BY <1>1, RangeIsPositive
<1> QED BY <1>1, <1>2, <1>3, RangeIsPositive DEF Signed

\* A number of the range that is x but for whole turns is what x wraps to.
LEMMA WrapIsUnique ==
  ASSUME NEW x \in Int, NEW q \in Int, x - RANGE * q \in Signed
  PROVE  Wrap(x) = x - RANGE * q /\ Turns(x) = q
<1> DEFINE k == Turns(x)
<1>1. k \in Int /\ Wrap(x) = x - RANGE * k /\ x - RANGE * k \in Signed
  BY WrapCountsTurns
<1> HIDE DEF k
<1>2. RANGE * k \in Int /\ RANGE * q \in Int /\ RANGE \in Nat /\ HALF \in Nat /\ RANGE = HALF + HALF
  BY <1>1, RangeIsPositive
<1>3. ~(q + 1 <= k)
  <2> SUFFICES ASSUME q + 1 <= k PROVE FALSE
    OBVIOUS
  <2>1. RANGE * (q + 1) <= RANGE * k /\ RANGE * (q + 1) = RANGE * q + RANGE
    BY <1>1, <1>2, ProductsAreOrdered
  <2> QED BY <1>1, <1>2, <2>1 DEF Signed
<1>4. ~(k + 1 <= q)
  <2> SUFFICES ASSUME k + 1 <= q PROVE FALSE
    OBVIOUS
  <2>1. RANGE * (k + 1) <= RANGE * q /\ RANGE * (k + 1) = RANGE * k + RANGE
    BY <1>1, <1>2, ProductsAreOrdered
  <2> QED BY <1>1, <1>2, <2>1 DEF Signed
<1>5. k = q
  BY <1>1, <1>3, <1>4
<1> QED BY <1>1, <1>5 DEF k

LEMMA SmallNumbersStay == ASSUME NEW x \in Signed PROVE Wrap(x) = x
<1>1. x \in Int /\ x - RANGE * 0 = x
  BY RangeIsPositive DEF Signed
<1> QED BY <1>1, WrapIsUnique

\* The microseconds are those of the time, wrapped: not those of its seconds
\* and its microseconds apart.
LEMMA MicrosWrap == ASSUME NEW t \in Nat PROVE Micros(t) = Wrap(t)
<1> DEFINE whole == SEC * (t \div SEC)
           rest  == t % SEC
<1>1. whole \in Int /\ rest \in Int /\ whole + rest = t
  BY Division, CycleTimeAssumption
<1> HIDE DEF whole, rest
<1>2. /\ Turns(whole) \in Int /\ Wrap(whole) = whole - RANGE * Turns(whole)
      /\ Turns(t) \in Int /\ Wrap(t) = t - RANGE * Turns(t) /\ Wrap(t) \in Signed
  BY <1>1, WrapCountsTurns
<1> DEFINE j == Turns(whole)
           k == Turns(t)
<1>3. /\ RANGE * (k - j) = RANGE * k - RANGE * j
      /\ RANGE * k \in Int /\ RANGE * j \in Int
  BY <1>2, RangeIsPositive
<1>4. (Wrap(whole) + rest) - RANGE * (k - j) = Wrap(t) /\ Wrap(whole) + rest \in Int /\ k - j \in Int
  BY <1>1, <1>2, <1>3
<1>5. Wrap(Wrap(whole) + rest) = Wrap(t)
  BY <1>2, <1>4, WrapIsUnique
<1> QED BY <1>5 DEF Micros, whole, rest

\* Times that are less than the range apart are one turn apart at most.
LEMMA OneTurn ==
  ASSUME NEW s \in Nat, NEW e \in Nat, s <= e, e - s < RANGE
  PROVE  /\ Wraps(s, e) <=> Turns(s) # Turns(e)
         /\ ~Wraps(s, e) => Wrap(e) = Wrap(s) + (e - s)
         /\ Wraps(s, e) => Wrap(e) = Wrap(s) + (e - s) - RANGE
<1>1. Wraps(s, e) <=> Turns(s) # Turns(e)
  BY DEF Wraps, Turns, RANGE
<1> DEFINE j == Turns(s)
           k == Turns(e)
<1>2. /\ j \in Int /\ Wrap(s) = s - RANGE * j /\ Wrap(s) \in Signed
      /\ k \in Int /\ Wrap(e) = e - RANGE * k /\ Wrap(e) \in Signed
  BY WrapCountsTurns
<1> HIDE DEF j, k
<1>3. RANGE * j \in Int /\ RANGE * k \in Int /\ RANGE \in Nat /\ RANGE = HALF + HALF /\ HALF \in Nat
  BY <1>2, RangeIsPositive
<1>4. j <= k
  <2> SUFFICES ASSUME k + 1 <= j PROVE FALSE
    BY <1>2
  <2>1. RANGE * (k + 1) <= RANGE * j /\ RANGE * (k + 1) = RANGE * k + RANGE
    BY <1>2, <1>3, ProductsAreOrdered
  <2> QED BY <1>2, <1>3, <2>1 DEF Signed
<1>5. k <= j + 1
  <2> SUFFICES ASSUME j + 2 <= k PROVE FALSE
    BY <1>2
  <2>1. RANGE * (j + 2) <= RANGE * k /\ RANGE * (j + 2) = RANGE * j + RANGE + RANGE
    BY <1>2, <1>3, ProductsAreOrdered
  <2> QED BY <1>2, <1>3, <2>1 DEF Signed
<1>6. CASE j = k
  BY <1>1, <1>2, <1>3, <1>6 DEF j, k
<1>7. CASE k = j + 1
  <2>1. RANGE * k = RANGE * j + RANGE
    BY <1>2, <1>3, <1>7
  <2>2. Wraps(s, e)
    BY <1>1, <1>2, <1>7 DEF j, k
  <2> QED BY <1>1, <1>2, <1>3, <2>1, <2>2
<1> QED BY <1>2, <1>4, <1>5, <1>6, <1>7

\* The difference of two times: right, or negated across a wrap, or taken from
\* the other end of the range if they are more than half of it apart.
LEMMA Difference ==
  ASSUME NEW s \in Nat, NEW e \in Nat, s <= e, e - s < RANGE
  PROVE  /\ ~Wraps(s, e) /\ e - s < HALF => diffus(s, e) = e - s
         /\ Wraps(s, e) /\ e - s <= HALF => diffus(s, e) = -(e - s)
         /\ Wraps(s, e) /\ e - s > HALF => diffus(s, e) = RANGE - (e - s)
<1> DEFINE d == e - s
           t1 == Wrap(s)
           t2 == Wrap(e)
<1>1. /\ Micros(s) = t1 /\ Micros(e) = t2 /\ t1 \in Int /\ t2 \in Int
  BY MicrosWrap, WrapCountsTurns, RangeIsPositive DEF Signed
<1>2. diffus(s, e) = IF t2 > t1 THEN Wrap(t2 - t1) ELSE Wrap(t1 - t2)
  BY <1>1 DEF diffus
<1>3. /\ ~Wraps(s, e) => t2 = t1 + d
      /\ Wraps(s, e) => t2 = t1 + d - RANGE
  BY OneTurn
<1>4. d \in Nat /\ d < RANGE /\ HALF \in Nat \ {0} /\ RANGE = HALF + HALF
  BY RangeIsPositive
<1> HIDE DEF d, t1, t2
<1>5. ASSUME ~Wraps(s, e), d < HALF PROVE diffus(s, e) = d
  <2>1. d \in Signed /\ 0 \in Signed
    BY <1>4, <1>5 DEF Signed
  <2>2. Wrap(d) = d /\ Wrap(0) = 0
    BY <2>1, SmallNumbersStay
  <2>3. CASE d = 0
    <3>1. ~(t2 > t1) /\ t1 - t2 = 0
      BY <1>1, <1>3, <1>5, <2>3
    <3> QED BY <1>2, <2>2, <2>3, <3>1
  <2>4. CASE d # 0
    <3>1. t2 > t1 /\ t2 - t1 = d
      BY <1>1, <1>3, <1>4, <1>5, <2>4
    <3> QED BY <1>2, <2>2, <3>1
  <2> QED BY <2>3, <2>4
<1>6. ASSUME Wraps(s, e)
      PROVE  /\ d <= HALF => diffus(s, e) = -d
             /\ d > HALF => diffus(s, e) = RANGE - d
  <2>1. ~(t2 > t1) /\ t1 - t2 = RANGE - d
    BY <1>1, <1>3, <1>4, <1>6
  <2>2. diffus(s, e) = Wrap(RANGE - d)
    BY <1>2, <2>1
  <2>3. ASSUME d <= HALF PROVE diffus(s, e) = -d
    <3>1. (RANGE - d) - RANGE * 1 = -d /\ -d \in Signed /\ RANGE - d \in Int
      BY <1>4, <2>3 DEF Signed
    <3> QED BY <2>2, <3>1, WrapIsUnique
  <2>4. ASSUME d > HALF PROVE diffus(s, e) = RANGE - d
    <3>1. RANGE - d \in Signed
      BY <1>4, <2>4 DEF Signed
    <3> QED BY <2>2, <3>1, SmallNumbersStay
  <2> QED BY <2>3, <2>4
<1> QED BY <1>5, <1>6 DEF d

-----------------------------------------------------------------------------
(* The part and the car. *)

\* The interval up to p was short when the car looked, or had crossed a wrap and
\* was not yet seen as positive again.
Looked(p) ==
  \/ ~Wraps(last, p) /\ p - last <= MaxCycle
  \/ Wraps(last, p) /\ p - last <= HALF

\* Iterations and turns are within their bounds, and the car has looked at the
\* interval at tv or, if it is about to, one turn before.
CycleInv ==
  /\ TypeOK /\ AverageInRange
  /\ now - start <= MaxCycle /\ now - tv <= MaxTurn
  /\ at = "updating" => start <= end
  /\ ~testing => Looked(tv)
  /\ testing => \E p \in last .. tv : tv - p <= MaxTurn /\ Looked(p)

LEMMA Bounds ==
  /\ MaxCycle \in Nat /\ MaxTurn \in Nat /\ HALF \in Nat \ {0} /\ RANGE = HALF + HALF
  /\ MaxCycle + 2 * MaxTurn < HALF
  /\ MaxCycle \div 4 \in Nat /\ MaxCycle \div 4 <= MaxCycle
  BY CycleTimeAssumption, NaturalQuotient, RangeIsPositive

\* The time of a part's iteration, a quarter of it, with either sign.
LEMMA SampleIsBounded ==
  ASSUME NEW s \in Nat, NEW e \in Nat, s <= e, e - s <= MaxCycle
  PROVE  LET t == Quotient(diffus(s, e), 4)
         IN  t \in Int /\ -(MaxCycle \div 4) <= t /\ t <= MaxCycle \div 4
<1>1. e - s < HALF /\ e - s < RANGE /\ e - s \in Nat
  BY Bounds
<1>2. diffus(s, e) = e - s \/ diffus(s, e) = -(e - s)
  <2>1. CASE Wraps(s, e)
    BY <1>1, <2>1, Difference, Bounds
  <2>2. CASE ~Wraps(s, e)
    BY <1>1, <2>2, Difference
  <2> QED BY <2>1, <2>2
<1>3. diffus(s, e) \in Int /\ -MaxCycle <= diffus(s, e) /\ diffus(s, e) <= MaxCycle
  BY <1>1, <1>2, Bounds
<1> DEFINE x == diffus(s, e)
<1> HIDE DEF x
<1>4. x \in Int /\ -MaxCycle <= x /\ x <= MaxCycle /\ MaxCycle \in Nat /\ 4 \in Nat \ {0}
  BY <1>3, Bounds DEF x
<1>5. LET t == Quotient(x, 4)
      IN  t \in Int /\ -(MaxCycle \div 4) <= t /\ t <= MaxCycle \div 4
  BY <1>4, QuotientIsBounded
<1> QED BY <1>5 DEF x

LEMMA AverageIsBounded ==
  ASSUME NEW a \in Int, NEW t \in Int,
         -(MaxCycle \div 4) <= a, a <= MaxCycle \div 4,
         -(MaxCycle \div 4) <= t, t <= MaxCycle \div 4
  PROVE  LET next == Quotient(Wrap(a + t), 2)
         IN  next \in Int /\ -(MaxCycle \div 4) <= next /\ next <= MaxCycle \div 4
<1> DEFINE m == MaxCycle \div 4
<1>1. m \in Nat /\ 4 * m <= MaxCycle
  <2>1. MaxCycle % 4 \in 0 .. 3 /\ MaxCycle % 4 = MaxCycle - 4 * m
    BY Bounds, Division
  <2> QED BY <2>1, Bounds
<1> HIDE DEF m
<1>2. a + t \in Signed /\ 2 * m \in Nat /\ -(2 * m) <= a + t /\ a + t <= 2 * m
  BY <1>1, Bounds DEF Signed, m
<1>3. Wrap(a + t) = a + t /\ a + t \in Int
  BY <1>2, SmallNumbersStay DEF Signed
<1>4. (2 * m) \div 2 = m
  BY <1>1
<1> QED BY <1>2, <1>3, <1>4, QuotientIsBounded DEF m

LEMMA IntervalIsShort ==
  ASSUME CycleInv
  PROVE  Quotient(avg, INTERVAL) \in Int /\ Quotient(avg, INTERVAL) <= MaxCycle
<1> DEFINE m == MaxCycle \div 4
<1>1. m \in Nat /\ m <= MaxCycle /\ avg \in Int /\ -m <= avg /\ avg <= m
  BY Bounds DEF CycleInv, AverageInRange, TypeOK, Signed
<1>2. INTERVAL \in Nat \ {0}
  BY CycleTimeAssumption
<1> HIDE DEF m
<1>3. Quotient(avg, INTERVAL) \in Int /\ Quotient(avg, INTERVAL) <= m \div INTERVAL
  BY <1>1, <1>2, QuotientIsBounded
<1>4. m \div INTERVAL \in Nat /\ m \div INTERVAL <= m
  BY <1>1, <1>2, NaturalQuotient
<1> QED BY <1>1, <1>3, <1>4, Bounds

LEMMA WrapsRemain ==
  ASSUME NEW s \in Nat, NEW p \in Nat, NEW e \in Nat, s <= p, p <= e, Wraps(s, p)
  PROVE  Wraps(s, e)
<1>1. RANGE \in Nat \ {0} /\ s + HALF \in Int /\ p + HALF \in Int /\ e + HALF \in Int
  BY RangeIsPositive
<1>2. s + HALF <= p + HALF /\ p + HALF <= e + HALF
  BY RangeIsPositive
<1>3. /\ Turns(s) \in Int /\ Turns(p) \in Int /\ Turns(e) \in Int
      /\ Turns(s) <= Turns(p) /\ Turns(p) <= Turns(e)
  BY <1>1, <1>2, QuotientsAreOrdered DEF Turns
<1>4. Turns(s) # Turns(p)
  BY DEF Wraps, Turns, RANGE
<1>5. Turns(s) # Turns(e)
  BY <1>3, <1>4
<1> QED BY <1>5 DEF Wraps, Turns, RANGE

\* How long the interval is when the car tests it.
LEMMA IntervalAtTest ==
  ASSUME CycleInv, testing
  PROVE  /\ last \in Nat /\ tv \in Nat /\ last <= tv /\ tv - last < RANGE
         /\ tv - last <= HALF + MaxTurn
         /\ ~Wraps(last, tv) => tv - last <= MaxCycle + MaxTurn /\ tv - last < HALF
<1>1. PICK p \in last .. tv : tv - p <= MaxTurn /\ Looked(p)
  BY DEF CycleInv
<1>2. last \in Nat /\ tv \in Nat /\ last <= tv /\ p \in Nat /\ last <= p /\ p <= tv
  BY <1>1 DEF CycleInv, TypeOK
<1>3. p - last <= HALF
  BY <1>1, <1>2, Bounds DEF Looked
<1>4. tv - last <= HALF + MaxTurn /\ tv - last < RANGE
  BY <1>1, <1>2, <1>3, Bounds
<1>5. ASSUME ~Wraps(last, tv) PROVE tv - last <= MaxCycle + MaxTurn /\ tv - last < HALF
  <2>1. ~Wraps(last, p)
    BY <1>2, <1>5, WrapsRemain
  <2>2. p - last <= MaxCycle
    BY <1>1, <2>1 DEF Looked
  <2> QED BY <1>1, <1>2, <2>2, Bounds
<1> QED BY <1>2, <1>4, <1>5

LEMMA JustSaved == ASSUME NEW p \in Nat PROVE ~Wraps(p, p) /\ p - p <= MaxCycle
  BY Bounds DEF Wraps

\* An interval that was not due was short or has crossed a wrap.
LEMMA NotDueIsLooked == ASSUME CycleInv, testing, ~Due PROVE Looked(tv)
<1>1. ASSUME diffus(last, tv) \in Int PROVE diffus(last, tv) <= MaxCycle
  <2> DEFINE q == Quotient(avg, INTERVAL)
  <2>1. q \in Int /\ q <= MaxCycle /\ ~(diffus(last, tv) > q)
    BY IntervalIsShort DEF Due
  <2> HIDE DEF q
  <2> QED BY <1>1, <2>1, Bounds
<1>2. CASE ~Wraps(last, tv)
  <2>1. diffus(last, tv) = tv - last /\ tv - last \in Int
    BY <1>2, IntervalAtTest, Difference
  <2> QED BY <1>1, <1>2, <2>1 DEF Looked
<1>3. CASE Wraps(last, tv)
  <2>1. ~(tv - last > HALF)
    <3> SUFFICES ASSUME tv - last > HALF PROVE FALSE
      OBVIOUS
    <3>1. diffus(last, tv) = RANGE - (tv - last)
      BY <1>3, IntervalAtTest, Difference
    <3> QED BY <1>1, <3>1, IntervalAtTest, Bounds
  <2> QED BY <1>3, <2>1, IntervalAtTest, Bounds DEF Looked
<1> QED BY <1>2, <1>3

LEMMA InitialCycle == Init => CycleInv
<1> SUFFICES ASSUME Init PROVE CycleInv
  OBVIOUS
<1>1. TypeOK /\ AverageInRange
  <2>1. avg \in Signed
    BY Bounds DEF Init, Signed
  <2>2. TypeOK
    <3>1. testing \in BOOLEAN /\ at \in {"computing", "updating"}
      BY DEF Init
    <3>2. /\ now \in 0 .. MaxNow /\ start \in 0 .. now /\ end \in 0 .. now
          /\ tv \in 0 .. now /\ last \in 0 .. tv
      BY CycleTimeAssumption DEF Init
    <3> QED BY <2>1, <3>1, <3>2 DEF TypeOK
  <2>3. AverageInRange
    BY Bounds DEF Init, AverageInRange
  <2> QED BY <2>2, <2>3
<1>2. Looked(tv)
  BY JustSaved DEF Init, Looked
<1> QED BY <1>1, <1>2, Bounds DEF Init, CycleInv

LEMMA CycleStep == CycleInv /\ [Next]_vars => CycleInv'
<1> SUFFICES ASSUME CycleInv, [Next]_vars PROVE CycleInv'
  OBVIOUS
<1> USE DEF CycleInv
<1>1. CASE Tick
  <2>1. TypeOK' /\ AverageInRange'
    BY <1>1, CycleTimeAssumption DEF Tick, TypeOK, AverageInRange
  <2> QED BY <1>1, <2>1, Bounds DEF Tick, TypeOK, Looked
<1>2. CASE EndCycle
  <2>1. TypeOK' /\ AverageInRange'
    BY <1>2 DEF EndCycle, TypeOK, AverageInRange
  <2> QED BY <1>2, <2>1 DEF EndCycle, TypeOK, Looked
<1>3. CASE UpdateAverageCycleTime
  <2> DEFINE t == Quotient(diffus(start, end), 4)
  <2>1. start \in Nat /\ end \in Nat /\ start <= end /\ end - start <= MaxCycle
    BY <1>3, Bounds DEF UpdateAverageCycleTime, TypeOK
  <2>2. t \in Int /\ -(MaxCycle \div 4) <= t /\ t <= MaxCycle \div 4
    BY <2>1, SampleIsBounded
  <2>3. avg' = IF avg = 0 THEN t ELSE Quotient(Wrap(avg + t), 2)
    BY <1>3 DEF UpdateAverageCycleTime
  <2> HIDE DEF t
  <2>4. avg' \in Int /\ -(MaxCycle \div 4) <= avg' /\ avg' <= MaxCycle \div 4
    <3>1. avg \in Int /\ -(MaxCycle \div 4) <= avg /\ avg <= MaxCycle \div 4
      BY Bounds DEF TypeOK, AverageInRange, Signed
    <3>2. CASE avg = 0
      BY <2>2, <2>3, <3>2
    <3>3. CASE avg # 0
      BY <2>2, <2>3, <3>1, <3>3, AverageIsBounded
    <3> QED BY <3>2, <3>3
  <2>5. AverageInRange' /\ avg' \in Signed
    BY <2>4, Bounds DEF AverageInRange, Signed
  <2> QED BY <1>3, <2>5, Bounds DEF UpdateAverageCycleTime, TypeOK, Looked
<1>4. CASE ReadClock
  <2>1. tv' = now /\ testing' = TRUE /\ ~testing /\ UNCHANGED <<now, at, start, end, avg, last>>
    BY <1>4 DEF ReadClock
  <2>2. TypeOK' /\ AverageInRange'
    BY <2>1 DEF TypeOK, AverageInRange
  <2>3. /\ tv \in last .. now /\ now - tv <= MaxTurn /\ Looked(tv)
    BY <2>1 DEF TypeOK
  <2>4. \E p \in last' .. tv' : tv' - p <= MaxTurn /\ Looked(p)'
    BY <2>1, <2>3 DEF Looked
  <2> QED BY <2>1, <2>2, <2>4, Bounds DEF TypeOK
<1>5. CASE CheckUnitCheckpoint
  <2>1. testing /\ testing' = FALSE /\ UNCHANGED <<now, at, start, end, avg, tv>>
    BY <1>5 DEF CheckUnitCheckpoint
  <2>2. last' = IF Due THEN tv ELSE last
    BY <1>5 DEF CheckUnitCheckpoint
  <2>3. TypeOK' /\ AverageInRange'
    <3>1. last' \in 0 .. tv
      BY <2>2 DEF TypeOK
    <3>2. TypeOK'
      BY <2>1, <3>1 DEF TypeOK
    <3> QED BY <2>1, <3>2 DEF AverageInRange
  <2>4. Looked(tv)'
    <3>1. CASE Due
      BY <2>1, <2>2, <3>1, IntervalAtTest, JustSaved DEF Looked
    <3>2. CASE ~Due
      BY <2>1, <2>2, <3>2, NotDueIsLooked DEF Looked
    <3> QED BY <3>1, <3>2
  <2> QED BY <2>1, <2>3, <2>4
<1>6. CASE UNCHANGED vars
  BY <1>6 DEF vars, TypeOK, AverageInRange, Looked
<1> QED BY <1>1, <1>2, <1>3, <1>4, <1>5, <1>6 DEF Next

LEMMA CycleInvariant == Spec => []CycleInv
  BY InitialCycle, CycleStep, PTL DEF Spec

-----------------------------------------------------------------------------
(* The theorems. *)

\* All times are in order.
THEOREM CycleTypeCorrect == Spec => []TypeOK
  BY CycleInvariant, PTL DEF CycleInv

\* The average stays a quarter of an iteration, though a wrap negates samples.
THEOREM AverageStaysInRange == Spec => []AverageInRange
  BY CycleInvariant, PTL DEF CycleInv

\* A part is not left unsaved for longer than half the range.
THEOREM BlindnessEnds == Spec => []BlindForHalfTheRange
<1>1. CycleInv => BlindForHalfTheRange
  <2> SUFFICES ASSUME CycleInv PROVE now - last <= HALF + 2 * MaxTurn
    BY DEF BlindForHalfTheRange
  <2>1. now \in Nat /\ tv \in Nat /\ last \in Nat /\ now - tv <= MaxTurn
    BY DEF CycleInv, TypeOK
  <2>2. tv - last <= HALF + MaxTurn
    <3>1. CASE testing
      BY <3>1, IntervalAtTest
    <3>2. CASE ~testing
      BY <3>2, <2>1, Bounds DEF CycleInv, Looked
    <3> QED BY <3>1, <3>2 DEF CycleInv, TypeOK
  <2> QED BY <2>1, <2>2, Bounds
<1> QED BY <1>1, CycleInvariant, PTL

\* An interval that crosses no wrap is tested as it is.
THEOREM IntervalIsSeen == Spec => IntervalSeen
<1> DEFINE Exact == testing /\ ~testing' /\ ~Wraps(last, tv) /\ tv > last
                      => (last' = tv <=> tv - last > Quotient(avg, INTERVAL))
<1>1. CycleInv /\ [Next]_vars => [Exact]_vars
  <2> SUFFICES ASSUME CycleInv, Next, testing, ~testing', ~Wraps(last, tv), tv > last
               PROVE  last' = tv <=> tv - last > Quotient(avg, INTERVAL)
    OBVIOUS
  <2>1. CheckUnitCheckpoint
    BY DEF Next, Tick, EndCycle, UpdateAverageCycleTime, ReadClock
  <2>2. diffus(last, tv) = tv - last
    BY IntervalAtTest, Difference
  <2>3. Due <=> tv - last > Quotient(avg, INTERVAL)
    BY <2>2 DEF Due
  <2>4. last # tv /\ last' = IF Due THEN tv ELSE last
    BY <2>1, IntervalAtTest DEF CheckUnitCheckpoint
  <2> QED BY <2>3, <2>4
<1> QED BY <1>1, CycleInvariant, PTL DEF Spec, IntervalSeen
=============================================================================
