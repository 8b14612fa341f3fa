--------------------------- MODULE MiniPID_proofs ---------------------------
(***************************************************************************)
(* The PID controller for every set of gains, readings and limits, and for *)
(* any number of changes: its types, the bound of the I term through every *)
(* change of the gain, the absence of windup, and the limits and the ramp  *)
(* of the output, with the output filter.                                  *)
(***************************************************************************)
EXTENDS MiniPID, TLAPS

-----------------------------------------------------------------------------
(* Arithmetic. *)

LEMMA MagnitudeIsNat == ASSUME NEW x \in Int PROVE Magnitude(x) \in Nat
  BY DEF Magnitude

LEMMA Division ==
  ASSUME NEW a \in Nat, NEW d \in Nat \ {0}
  PROVE  a \div d \in Int /\ a % d = a - d * (a \div d)
  OBVIOUS

\* An exact quotient is one.
LEMMA ExactlyDivides ==
  ASSUME NEW a \in Int, NEW b \in Int, Divides(b, a)
  PROVE  Exactly(a, b) \in Int /\ b * Exactly(a, b) = a
<1> DEFINE m == Magnitude(a)
           n == Magnitude(b)
           q == m \div n
<1>1. /\ m \in Nat /\ n \in Nat \ {0} /\ m % n = 0
      /\ a >= 0 => m = a
      /\ a < 0 => m = -a
      /\ b >= 0 => n = b
      /\ b < 0 => n = -b
  BY DEF Divides, Magnitude
<1> HIDE DEF m, n
<1>2. q \in Int /\ m = n * q
  BY <1>1, Division
<1>3. Exactly(a, b) = IF (a < 0) = (b < 0) THEN q ELSE -q
  BY DEF Exactly, m, n
<1> HIDE DEF q
<1>4. CASE a < 0 /\ b < 0
  <2>1. Exactly(a, b) = q /\ b * q = -(n * q)
    BY <1>1, <1>2, <1>3, <1>4
  <2> QED BY <2>1, <1>1, <1>2, <1>4
<1>5. CASE ~(a < 0) /\ ~(b < 0)
  <2>1. Exactly(a, b) = q /\ b * q = n * q
    BY <1>1, <1>2, <1>3, <1>5
  <2> QED BY <2>1, <1>1, <1>2, <1>5
<1>6. CASE a < 0 /\ ~(b < 0)
  <2>1. Exactly(a, b) = -q /\ b * (-q) = -(n * q)
    BY <1>1, <1>2, <1>3, <1>6
  <2> QED BY <2>1, <1>1, <1>2, <1>6
<1>7. CASE ~(a < 0) /\ b < 0
  <2>1. Exactly(a, b) = -q /\ b * (-q) = n * q
    BY <1>1, <1>2, <1>3, <1>7
  <2> QED BY <2>1, <1>1, <1>2, <1>7
<1> QED BY <1>4, <1>5, <1>6, <1>7

LEMMA ClampIsInt ==
  ASSUME NEW x \in Int, NEW lo \in Int, NEW hi \in Int
  PROVE  /\ clamp(x, lo, hi) \in Int
         /\ lo <= hi => lo <= clamp(x, lo, hi) /\ clamp(x, lo, hi) <= hi
         /\ lo <= x /\ x <= hi => clamp(x, lo, hi) = x
  BY DEF clamp

LEMMA DirectedIsInt ==
  ASSUME NEW x \in Int
  PROVE  Directed(x) \in Int /\ (~reversed /\ x >= 0 => Directed(x) = x)
  BY DEF Directed, Magnitude

-----------------------------------------------------------------------------
(* Types. *)

Inv == TypeOK /\ minOutput \in Int /\ maxOutput \in Int

\* The intermediate results of a cycle are numbers.
LEMMA CycleIsTyped ==
  ASSUME Inv, NEW a \in Int, NEW s \in Int
  PROVE  /\ Target(a, s) \in Int /\ Error(a, s) \in Int
         /\ Prior(a, s) \in Int /\ Raw(a, s) \in Int /\ ITerm \in Int
         /\ NextSum(Raw(a, s), Error(a, s), Prior(a, s)) \in Int
         /\ Restricted(Raw(a, s), Prior(a, s)) \in Int
<1> USE DEF Inv, TypeOK
<1>1. a \in Int /\ s \in Int /\ lastActual \in Int
  <2>1. CASE lastActual \in Reading
    BY <2>1, MiniPIDAssumption
  <2>2. CASE lastActual = 0
    BY <2>2
  <2> QED BY <2>1, <2>2
<1>2. Target(a, s) \in Int
  BY <1>1, ClampIsInt DEF Target
<1>3. Error(a, s) \in Int
  BY <1>1, <1>2 DEF Error
<1>4. Prior(a, s) \in Int
  BY <1>2, <1>3 DEF Prior
<1>5. ITerm \in Int
  <2>1. I * errorSum \in Int /\ -maxIOutput \in Int
    OBVIOUS
  <2> QED BY <2>1, ClampIsInt DEF ITerm
<1>6. Raw(a, s) \in Int
  <2>1. F * Target(a, s) \in Int /\ P * Error(a, s) \in Int /\ D * (a - lastActual) \in Int
    BY <1>1, <1>2, <1>3
  <2> QED BY <2>1, <1>5 DEF Raw
<1> DEFINE raw == Raw(a, s)
           error == Error(a, s)
           prior == Prior(a, s)
<1>7. raw \in Int /\ error \in Int /\ prior \in Int
  BY <1>3, <1>4, <1>6
<1> HIDE DEF raw, error, prior
<1>8. NextSum(raw, error, prior) \in Int
  <2>1. clamp(errorSum + error, -maxError, maxError) \in Int /\ errorSum + error \in Int
    BY <1>7, ClampIsInt
  <2> QED BY <1>7, <2>1 DEF NextSum
<1>9. Restricted(raw, prior) \in Int
  <2>1. Ramped(raw, prior) \in Int
    <3>1. prior - outputRampRate \in Int /\ prior + outputRampRate \in Int
      BY <1>7
    <3> QED BY <1>7, <3>1, ClampIsInt DEF Ramped
  <2> QED BY <2>1, ClampIsInt DEF Restricted, Limited
<1> QED BY <1>2, <1>3, <1>4, <1>5, <1>6, <1>8, <1>9 DEF raw, error, prior

LEMMA InitialPid == Init => Inv
<1> SUFFICES ASSUME Init PROVE Inv
  OBVIOUS
<1>1. P \in Int /\ I \in Int /\ D \in Int /\ F \in Int
  BY MiniPIDAssumption DEF Init
<1>2. reversed \in BOOLEAN /\ firstRun \in BOOLEAN
  BY DEF Init
<1>3. outputFilter \in 0 .. WHOLE - 1 /\ changes \in 0 .. MaxChanges
  BY MiniPIDAssumption DEF Init
<1>4. setpoint \in Reading \union {0} /\ lastActual \in Reading \union {0}
  BY DEF Init
<1> QED BY <1>1, <1>2, <1>3, <1>4 DEF Init, Inv, TypeOK

\* The types of all but the number of changes.
Typed ==
  /\ P' \in Int /\ I' \in Int /\ D' \in Int /\ F' \in Int
  /\ maxIOutput' \in Int /\ maxError' \in Int
  /\ minOutput' \in Int /\ maxOutput' \in Int /\ minOutput' <= maxOutput'
  /\ reversed' \in BOOLEAN /\ firstRun' \in BOOLEAN
  /\ outputRampRate' \in Nat /\ setpointRange' \in Nat
  /\ outputFilter' \in 0 .. WHOLE - 1
  /\ errorSum' \in Int /\ lastOutput' \in Int
  /\ setpoint' \in Reading \union {0} /\ lastActual' \in Reading \union {0}

LEMMA GainsAreTyped ==
  ASSUME NEW p \in Int, NEW i \in Int, NEW d \in Int, NEW f \in Int, setGains(p, i, d, f)
  PROVE  P' \in Int /\ I' \in Int /\ D' \in Int /\ F' \in Int
  BY DirectedIsInt DEF setGains

LEMMA BoundIsTyped ==
  ASSUME Inv, NEW m \in Int, BoundITerm(m)
  PROVE  /\ maxIOutput' = m /\ maxError' \in Int
         /\ I # 0 => I * maxError' = m
  BY ExactlyDivides DEF BoundITerm, Inv, TypeOK

LEMMA SetIIsTyped ==
  ASSUME Inv, NEW i \in Int, setI(i)
  PROVE  /\ errorSum' \in Int /\ maxError' \in Int
         /\ I # 0 => i * errorSum' = errorSum * I
         /\ maxIOutput # 0 => i * maxError' = maxIOutput
         /\ I' = Directed(i)
<1>1. errorSum * I \in Int /\ maxIOutput \in Int /\ errorSum \in Int /\ maxError \in Int
  BY DEF Inv, TypeOK
<1>2. CASE I # 0
  BY <1>1, <1>2, ExactlyDivides DEF setI, setGains
<1>3. CASE I = 0
  BY <1>1, <1>3, ExactlyDivides DEF setI, setGains
<1> QED BY <1>2, <1>3

LEMMA ChangeIsTyped == ASSUME Inv, Change PROVE Typed
<1> USE DEF Inv, TypeOK, Typed, limits, tuning, memory, gains
<1>1. ASSUME NEW g \in Gain, setP(g) PROVE Typed
  BY <1>1, GainsAreTyped, MiniPIDAssumption DEF setP
<1>2. ASSUME NEW g \in Gain, setD(g) PROVE Typed
  BY <1>2, GainsAreTyped, MiniPIDAssumption DEF setD
<1>3. ASSUME NEW g \in Gain, setF(g) PROVE Typed
  BY <1>3, GainsAreTyped, MiniPIDAssumption DEF setF
<1>4. ASSUME NEW i \in GainI, setI(i) PROVE Typed
  <2>1. i \in Int
    BY MiniPIDAssumption
  <2>2. errorSum' \in Int /\ maxError' \in Int
    BY <1>4, <2>1, SetIIsTyped
  <2>3. P' \in Int /\ I' \in Int /\ D' \in Int /\ F' \in Int
    BY <1>4, <2>1, GainsAreTyped DEF setI
  <2> QED BY <1>4, <2>2, <2>3 DEF setI
<1>5. ASSUME NEW p \in Gain, NEW d \in Gain, NEW i \in GainI, NEW f \in {F} \union Gain,
             setPID(p, i, d, f)
      PROVE  Typed
  <2>1. p \in Int /\ d \in Int /\ i \in Int /\ f \in Int
    BY MiniPIDAssumption
  <2>2. P' \in Int /\ I' \in Int /\ D' \in Int /\ F' \in Int
    BY <1>5, <2>1, GainsAreTyped DEF setPID
  <2> QED BY <1>5, <2>2 DEF setPID
<1>6. ASSUME NEW m \in Limit, setMaxIOutput(m) PROVE Typed
  <2>1. m \in Int
    BY MiniPIDAssumption
  <2>2. maxIOutput' \in Int /\ maxError' \in Int
    BY <1>6, <2>1, BoundIsTyped DEF setMaxIOutput
  <2> QED BY <1>6, <2>2 DEF setMaxIOutput
<1>7. ASSUME NEW lo \in Limit, NEW hi \in Limit, setOutputLimits(lo, hi) PROVE Typed
  <2>1. lo \in Int /\ hi \in Int /\ hi - lo \in Int /\ lo <= hi
    BY <1>7, MiniPIDAssumption DEF setOutputLimits
  <2>2. maxIOutput' \in Int /\ maxError' \in Int
    BY <1>7, <2>1, BoundIsTyped DEF setOutputLimits
  <2> QED BY <1>7, <2>1, <2>2 DEF setOutputLimits
<1>8. ASSUME NEW r \in BOOLEAN, setDirection(r) PROVE Typed
  BY <1>8 DEF setDirection
<1>9. ASSUME NEW s \in Reading, setSetpoint(s) PROVE Typed
  BY <1>9 DEF setSetpoint
<1>10. ASSUME NEW r \in Rate, setOutputRampRate(r) PROVE Typed
  BY <1>10, MiniPIDAssumption DEF setOutputRampRate
<1>11. ASSUME NEW r \in Rate, setSetpointRange(r) PROVE Typed
  BY <1>11, MiniPIDAssumption DEF setSetpointRange
<1>12. ASSUME NEW k \in Strength, setOutputFilter(k) PROVE Typed
  BY <1>12, MiniPIDAssumption DEF setOutputFilter
<1>13. CASE reset
  BY <1>13 DEF reset
<1> QED BY <1>1, <1>2, <1>3, <1>4, <1>5, <1>6, <1>7, <1>8, <1>9, <1>10, <1>11, <1>12, <1>13
        DEF Change

\* The output of a cycle, mixed with the one before it.
LEMMA MixIsTyped ==
  ASSUME Inv, NEW a \in Int, NEW s \in Int, getOutput(a, s)
  PROVE  LET prior == Prior(a, s)
             out   == Restricted(Raw(a, s), prior)
         IN  /\ lastOutput' \in Int
             /\ WHOLE * lastOutput' = prior * outputFilter + out * (WHOLE - outputFilter)
<1> DEFINE prior == Prior(a, s)
           out   == Restricted(Raw(a, s), prior)
           mix   == prior * outputFilter + out * (WHOLE - outputFilter)
<1>1. Divides(WHOLE, mix) /\ lastOutput' = Exactly(mix, WHOLE)
  BY DEF getOutput
<1>2. prior \in Int /\ out \in Int
  BY CycleIsTyped
<1> HIDE DEF prior, out
<1>3. outputFilter \in Int /\ WHOLE \in Nat \ {0}
  BY MiniPIDAssumption DEF Inv, TypeOK
<1>4. mix \in Int
  BY <1>2, <1>3
<1> HIDE DEF mix
<1>5. Exactly(mix, WHOLE) \in Int /\ WHOLE * Exactly(mix, WHOLE) = mix
  BY <1>1, <1>3, <1>4, ExactlyDivides
<1> QED BY <1>1, <1>5 DEF mix, prior, out

LEMMA OutputIsTyped ==
  ASSUME Inv, NEW a \in Reading, NEW s \in Reading, getOutput(a, s)
  PROVE  Typed
<1> a \in Int /\ s \in Int
  BY MiniPIDAssumption
<1>1. errorSum' \in Int
  BY CycleIsTyped DEF getOutput
<1>2. lastOutput' \in Int
  BY MixIsTyped
<1>3. /\ setpoint' = s /\ lastActual' = a /\ firstRun' = FALSE
      /\ UNCHANGED <<gains, limits, tuning>>
  BY DEF getOutput
<1> QED BY <1>1, <1>2, <1>3 DEF Typed, Inv, TypeOK, gains, limits, tuning

LEMMA PidInvariant == Spec => []Inv
<1>1. Inv /\ [Next]_vars => Inv'
  <2> SUFFICES ASSUME Inv, [Next]_vars PROVE Inv'
    OBVIOUS
  <2>1. CASE changes < MaxChanges /\ changes' = changes + 1 /\ Change
    <3>1. changes' \in 0 .. MaxChanges
      BY <2>1, MiniPIDAssumption DEF Inv, TypeOK
    <3>2. Typed
      BY <2>1, ChangeIsTyped
    <3> QED BY <3>1, <3>2 DEF Typed, Inv, TypeOK
  <2>2. ASSUME UNCHANGED changes, NEW a \in Reading, NEW s \in Reading, getOutput(a, s) PROVE Inv'
    <3>1. Typed
      BY <2>2, OutputIsTyped
    <3> QED BY <2>2, <3>1 DEF Typed, Inv, TypeOK
  <2>3. CASE UNCHANGED vars
    BY <2>3 DEF vars, gains, limits, tuning, memory, Inv, TypeOK
  <2> QED BY <2>1, <2>2, <2>3 DEF Next
<1> QED BY <1>1, InitialPid, PTL DEF Spec

\* The state holds numbers, and the limits are in order.
THEOREM PidTypeCorrect == Spec => []TypeOK
  BY PidInvariant, PTL DEF Inv

-----------------------------------------------------------------------------
(* The I term. *)

\* A change of the gain by setI keeps the I term in the direct direction, and
\* changes no more than its sign in the reversed one.
THEOREM GainIsSmooth ==
  ASSUME GainI \subseteq Nat
  PROVE  Spec => SmoothGain
<1> DEFINE Smooth == I # 0 /\ (\E i \in GainI : setI(i))
                       => IF reversed THEN PositiveBound => ITerm' = -ITerm
                                      ELSE ITerm' = ITerm
<1>1. ASSUME Inv, ~reversed, I # 0, NEW i \in GainI, setI(i) PROVE ITerm' = ITerm
  <2> USE <1>1
  <2>1. i \in Int /\ i >= 0
    OBVIOUS
  <2>2. I' = i /\ i * errorSum' = errorSum * I
    BY <2>1, SetIIsTyped, DirectedIsInt
  <2>3. errorSum' \in Int /\ errorSum \in Int /\ I \in Int
    BY <2>1, SetIIsTyped DEF Inv, TypeOK
  <2>4. I' * errorSum' = I * errorSum
    <3>1. errorSum * I = I * errorSum
      BY <2>3
    <3>2. I' * errorSum' = i * errorSum'
      BY <2>2
    <3> QED BY <2>2, <3>1, <3>2
  <2>5. maxIOutput' = maxIOutput
    BY DEF setI
  <2> QED BY <2>4, <2>5 DEF ITerm, clamp
<1>2. ASSUME Inv, reversed, I # 0, PositiveBound, NEW i \in GainI, setI(i)
      PROVE  ITerm' = -ITerm
  <2> USE <1>2 DEF PositiveBound
  <2>1. i \in Int /\ i >= 0
    OBVIOUS
  <2>2. I' = -i /\ i * errorSum' = errorSum * I
    BY <2>1, SetIIsTyped DEF Directed, Magnitude
  <2>3. errorSum' \in Int /\ errorSum \in Int /\ I \in Int
    BY <2>1, SetIIsTyped DEF Inv, TypeOK
  <2> DEFINE x == I * errorSum
             y == I' * errorSum'
  <2>4. x \in Int /\ y = -x
    <3>1. (-i) * errorSum' = -(i * errorSum')
      BY <2>1, <2>3
    <3>2. errorSum * I = I * errorSum /\ x \in Int
      BY <2>3
    <3>3. I' * errorSum' = (-i) * errorSum'
      BY <2>2
    <3> HIDE DEF x
    <3>4. -(i * errorSum') = -x
      BY <2>2, <3>2 DEF x
    <3> QED BY <3>1, <3>2, <3>3, <3>4
  <2>5. maxIOutput' = maxIOutput
    BY DEF setI
  <2> HIDE DEF x, y
  <2>6. clamp(y, -maxIOutput, maxIOutput) = -clamp(x, -maxIOutput, maxIOutput)
    BY <2>4 DEF clamp
  <2> QED BY <2>4, <2>5, <2>6 DEF ITerm, clamp, x, y
<1>3. Inv => [Smooth]_vars
  BY <1>1, <1>2
<1> QED BY <1>3, PidInvariant, PTL DEF Spec, SmoothGain

\* maxError stays the bound of the I term, whatever is set in whatever order.
THEOREM MaxErrorStaysMatched ==
  ASSUME GainI \subseteq Nat
  PROVE  Spec => MaxErrorKept
<1> DEFINE Kept == ~reversed /\ MaxErrorMatches /\ (I' = I \/ setI(I')) => MaxErrorMatches'
<1>1. ASSUME Inv, Inv', NEW i \in Int, i >= 0, setI(i), ~reversed PROVE MaxErrorMatches'
  <2>1. I' = i /\ (maxIOutput # 0 => i * maxError' = maxIOutput)
    BY <1>1, SetIIsTyped, DirectedIsInt
  <2>2. maxIOutput' = maxIOutput
    BY <1>1 DEF setI
  <2> QED BY <2>1, <2>2 DEF MaxErrorMatches
<1>2. ASSUME Inv, NEW m \in Int, BoundITerm(m), I' = I PROVE MaxErrorMatches'
  BY <1>2, BoundIsTyped DEF MaxErrorMatches
<1>3. ASSUME MaxErrorMatches, I' = I, UNCHANGED limits PROVE MaxErrorMatches'
  BY <1>3 DEF limits, MaxErrorMatches
<1>4. ASSUME Inv, Inv', setI(I'), ~reversed PROVE MaxErrorMatches'
  <2>1. I' \in Int
    BY <1>4 DEF Inv, TypeOK
  <2>2. I' >= 0
    <3>1. I' = Magnitude(I')
      BY <1>4 DEF setI, setGains, Directed
    <3>2. Magnitude(I') \in Nat
      BY <2>1, MagnitudeIsNat
    <3> QED BY <3>1, <3>2
  <2> QED BY <1>1, <1>4, <2>1, <2>2
<1>5. ASSUME Inv, Inv', ~reversed, MaxErrorMatches, I' = I, Change PROVE MaxErrorMatches'
  <2>1. ASSUME NEW i \in GainI, setI(i) PROVE MaxErrorMatches'
    <3>1. i \in Int /\ i >= 0
      OBVIOUS
    <3> QED BY <1>1, <1>5, <2>1, <3>1
  <2>2. ASSUME NEW m \in Limit, setMaxIOutput(m) PROVE MaxErrorMatches'
    <3>1. m \in Int
      BY MiniPIDAssumption
    <3> QED BY <1>2, <1>5, <2>2, <3>1 DEF setMaxIOutput
  <2>3. ASSUME NEW lo \in Limit, NEW hi \in Limit, setOutputLimits(lo, hi) PROVE MaxErrorMatches'
    <3>1. hi - lo \in Int
      BY MiniPIDAssumption
    <3>2. CASE BoundITerm(hi - lo)
      BY <1>2, <1>5, <3>1, <3>2
    <3>3. CASE UNCHANGED <<maxIOutput, maxError>>
      BY <1>5, <3>3 DEF MaxErrorMatches
    <3> QED BY <2>3, <3>2, <3>3 DEF setOutputLimits
  <2>4. \/ \E i \in GainI : setI(i)
        \/ \E m \in Limit : setMaxIOutput(m)
        \/ \E lo, hi \in Limit : setOutputLimits(lo, hi)
        \/ UNCHANGED limits
    BY <1>5 DEF Change, setP, setD, setF, setPID, setDirection, setSetpoint, setOutputRampRate,
                setSetpointRange, setOutputFilter, reset
  <2> QED BY <1>3, <1>5, <2>1, <2>2, <2>3, <2>4
<1>6. Inv /\ Inv' /\ [Next]_vars => [Kept]_vars
  <2> SUFFICES ASSUME Inv, Inv', Next, ~reversed, MaxErrorMatches, I' = I \/ setI(I')
               PROVE  MaxErrorMatches'
    OBVIOUS
  <2>1. CASE setI(I')
    BY <1>4, <2>1
  <2>2. CASE I' = I /\ Change
    BY <1>5, <2>2
  <2>3. ASSUME I' = I, NEW a \in Reading, NEW s \in Reading, getOutput(a, s) PROVE MaxErrorMatches'
    <3>1. UNCHANGED limits
      BY <2>3 DEF getOutput
    <3> QED BY <1>3, <2>3, <3>1
  <2> QED BY <2>1, <2>2, <2>3 DEF Next
<1> QED BY <1>6, PidInvariant, PTL DEF Spec, MaxErrorKept

-----------------------------------------------------------------------------
(* One cycle. *)

LEMMA LastReadings == ASSUME Inv' PROVE lastActual' \in Int /\ setpoint' \in Int
<1>1. \A r \in Reading \union {0} : r \in Int
  BY MiniPIDAssumption
<1> QED BY <1>1 DEF Inv, TypeOK

\* It never is, if no client asks for a negative one.
LEMMA BoundIsNat ==
  ASSUME "setMaxIOutput" \in Calls => Limit \subseteq Nat
  PROVE  Spec => []PositiveBound
<1>1. Init => PositiveBound
  BY DEF Init, PositiveBound
<1>2. Inv /\ PositiveBound /\ [Next]_vars => PositiveBound'
  <2> SUFFICES ASSUME Inv, maxIOutput \in Nat, [Next]_vars PROVE maxIOutput' \in Nat
    BY DEF PositiveBound
  <2>1. ASSUME NEW m \in Limit, "setMaxIOutput" \in Calls, setMaxIOutput(m) PROVE maxIOutput' \in Nat
    BY <2>1 DEF setMaxIOutput, BoundITerm
  <2>2. ASSUME NEW lo \in Limit, NEW hi \in Limit, setOutputLimits(lo, hi) PROVE maxIOutput' \in Nat
    <3>1. hi - lo \in Nat
      BY <2>2, MiniPIDAssumption DEF setOutputLimits
    <3>2. maxIOutput' = hi - lo \/ maxIOutput' = maxIOutput
      BY <2>2 DEF setOutputLimits, BoundITerm
    <3> QED BY <3>1, <3>2
  <2>3. ASSUME Change PROVE maxIOutput' \in Nat
    <3>1. \/ "setMaxIOutput" \in Calls /\ \E m \in Limit : setMaxIOutput(m)
          \/ \E lo, hi \in Limit : setOutputLimits(lo, hi)
          \/ maxIOutput' = maxIOutput
      BY <2>3 DEF Change, limits, setP, setD, setF, setI, setPID, setDirection, setSetpoint,
                  setOutputRampRate, setSetpointRange, setOutputFilter, reset
    <3> QED BY <2>1, <2>2, <3>1
  <2>4. ASSUME NEW a \in Reading, NEW s \in Reading, getOutput(a, s) PROVE maxIOutput' \in Nat
    BY <2>4 DEF getOutput, limits
  <2>5. CASE UNCHANGED vars
    BY <2>5 DEF vars, limits
  <2> QED BY <2>3, <2>4, <2>5 DEF Next
<1> QED BY <1>1, <1>2, PidInvariant, PTL DEF Spec

\* A clamped sum is within its bound, or is the bound, whatever its sign.
LEMMA ClampedSum ==
  ASSUME NEW x \in Int, NEW m \in Int, NEW i \in Int, NEW most \in Nat,
         i # 0 => i * m = most
  PROVE  Magnitude(i * clamp(x, -m, m)) <= most
<1> DEFINE y == clamp(x, -m, m)
<1>1. y \in Int /\ (y = m \/ y = -m \/ (-m <= y /\ y <= m))
  BY DEF clamp
<1> HIDE DEF y
<1>2. ASSUME i = 0 PROVE Magnitude(i * y) <= most
  <2>1. i * y = 0
    BY <1>1, <1>2
  <2> QED BY <2>1 DEF Magnitude
<1>3. ASSUME i # 0 PROVE Magnitude(i * y) <= most
  <2>1. i * m = most /\ i * (-m) = -most
    BY <1>3
  <2>2. -most <= i * y /\ i * y <= most /\ i * y \in Int
    <3>1. CASE y = m \/ y = -m
      BY <1>1, <2>1, <3>1
    <3>2. CASE -m <= y /\ y <= m
      <4>1. CASE i > 0
        <5>1. i * (-m) <= i * y /\ i * y <= i * m
          BY <1>1, <3>2, <4>1
        <5> QED BY <1>1, <2>1, <5>1
      <4>2. CASE i < 0
        <5>1. i * m <= i * y /\ i * y <= i * (-m)
          BY <1>1, <3>2, <4>2
        <5> QED BY <1>1, <2>1, <5>1
      <4> QED BY <1>3, <4>1, <4>2
    <3> QED BY <1>1, <3>1, <3>2
  <2> QED BY <2>2 DEF Magnitude
<1>4. Magnitude(i * y) <= most
  BY <1>2, <1>3
<1> QED BY <1>4 DEF y

\* After a cycle the I term is within its bound or that of one error.
THEOREM NoWindupEver ==
  ASSUME "setMaxIOutput" \in Calls => Limit \subseteq Nat
  PROVE  Spec => NoWindup
<1> DEFINE Bounded == Cycle /\ maxIOutput # 0 /\ MaxErrorMatches
       => \/ Magnitude(I * errorSum') <= maxIOutput
          \/ errorSum' = Error(lastActual', setpoint')
<1>1. Inv /\ Inv' /\ PositiveBound => [Bounded]_vars
  <2> SUFFICES ASSUME Inv, Inv', maxIOutput \in Nat, Cycle, maxIOutput # 0, MaxErrorMatches,
                      errorSum' # Error(lastActual', setpoint')
               PROVE  Magnitude(I * errorSum') <= maxIOutput
    BY DEF PositiveBound
  <2> DEFINE error == Error(lastActual', setpoint')
             prior == Prior(lastActual', setpoint')
             raw   == Raw(lastActual', setpoint')
  <2>1. errorSum' = NextSum(raw, error, prior)
    BY DEF Cycle, getOutput
  <2>2. error \in Int /\ errorSum \in Int /\ maxError \in Int /\ I \in Int
    BY LastReadings, CycleIsTyped DEF Inv, TypeOK
  <2> HIDE DEF error, prior, raw
  <2>3. errorSum' = clamp(errorSum + error, -maxError, maxError)
    BY <2>1 DEF NextSum, error
  <2>4. I # 0 => I * maxError = maxIOutput
    BY DEF MaxErrorMatches
  <2> QED BY <2>2, <2>3, <2>4, ClampedSum
<1> QED BY <1>1, PidInvariant, BoundIsNat, PTL DEF Spec, NoWindup

\* A mixture of two outputs is between them.
LEMMA MixtureIsBetween ==
  ASSUME NEW x \in Int, NEW y \in Int, NEW k \in Nat, NEW w \in Nat \ {0}, k < w,
         NEW z \in Int, w * z = x * k + y * (w - k), NEW lo \in Int, NEW hi \in Int,
         lo <= x \/ k = 0, x <= hi \/ k = 0, lo <= y, y <= hi
  PROVE  lo <= z /\ z <= hi
<1>1. /\ lo * k <= x * k /\ x * k <= hi * k
      /\ lo * (w - k) <= y * (w - k) /\ y * (w - k) <= hi * (w - k)
  <2>1. lo * (w - k) <= y * (w - k) /\ y * (w - k) <= hi * (w - k)
    OBVIOUS
  <2>2. CASE k = 0
    BY <2>1, <2>2
  <2>3. CASE k # 0
    <3>1. lo <= x /\ x <= hi
      BY <2>3
    <3> QED BY <2>1, <3>1
  <2> QED BY <2>2, <2>3
<1>2. lo * k + lo * (w - k) = w * lo /\ hi * k + hi * (w - k) = w * hi
  OBVIOUS
<1>3. w * lo <= w * z /\ w * z <= w * hi
  <2>1. /\ lo * k \in Int /\ x * k \in Int /\ hi * k \in Int
        /\ lo * (w - k) \in Int /\ y * (w - k) \in Int /\ hi * (w - k) \in Int
    OBVIOUS
  <2> QED BY <1>1, <1>2, <2>1
<1>4. ~(z < lo)
  <2> SUFFICES ASSUME z + 1 <= lo PROVE FALSE
    OBVIOUS
  <2>1. w * (z + 1) <= w * lo /\ w * (z + 1) = w * z + w
    OBVIOUS
  <2> QED BY <1>3, <2>1
<1>5. ~(hi < z)
  <2> SUFFICES ASSUME hi + 1 <= z PROVE FALSE
    OBVIOUS
  <2>1. w * (hi + 1) <= w * z /\ w * (hi + 1) = w * hi + w
    OBVIOUS
  <2> QED BY <1>3, <2>1
<1> QED BY <1>4, <1>5

\* The output is within the limits, and near the one before it.
THEOREM OutputsAreRestricted == Spec => OutputRestricted
<1> DEFINE Within == Cycle /\ minOutput # maxOutput =>
       LET inside(x) == minOutput <= x /\ x <= maxOutput
           prior     == Prior(lastActual', setpoint')
       IN  /\ outputFilter = 0 \/ inside(prior) => inside(lastOutput')
           /\ inside(prior) /\ outputRampRate # 0
                => Magnitude(lastOutput' - prior) <= outputRampRate
<1>1. Inv /\ Inv' => [Within]_vars
  <2> DEFINE prior == Prior(lastActual', setpoint')
             raw   == Raw(lastActual', setpoint')
             out   == Restricted(raw, prior)
  <2> SUFFICES ASSUME Inv, Inv', Cycle, minOutput # maxOutput
               PROVE  /\ outputFilter = 0 \/ (minOutput <= prior /\ prior <= maxOutput)
                           => minOutput <= lastOutput' /\ lastOutput' <= maxOutput
                      /\ minOutput <= prior /\ prior <= maxOutput /\ outputRampRate # 0
                           => Magnitude(lastOutput' - prior) <= outputRampRate
    OBVIOUS
  <2>1. /\ prior \in Int /\ raw \in Int /\ out \in Int
        /\ lastOutput' \in Int
        /\ WHOLE * lastOutput' = prior * outputFilter + out * (WHOLE - outputFilter)
    BY LastReadings, CycleIsTyped, MixIsTyped DEF Cycle
  <2>2. /\ minOutput \in Int /\ maxOutput \in Int /\ minOutput <= maxOutput
        /\ outputFilter \in Nat /\ WHOLE \in Nat \ {0} /\ outputFilter < WHOLE
        /\ outputRampRate \in Nat
    BY MiniPIDAssumption DEF Inv, TypeOK
  <2> HIDE DEF prior, raw
  <2>3. Ramped(raw, prior) \in Int
    BY <2>1, <2>2 DEF Ramped, clamp
  <2>4. out = clamp(Ramped(raw, prior), minOutput, maxOutput)
    BY DEF Restricted, Limited
  <2>5. minOutput <= out /\ out <= maxOutput
    BY <2>2, <2>3, <2>4, ClampIsInt
  <2>6. ASSUME minOutput <= prior, prior <= maxOutput, outputRampRate # 0
        PROVE  prior - outputRampRate <= out /\ out <= prior + outputRampRate
    <3>1. Ramped(raw, prior) = clamp(raw, prior - outputRampRate, prior + outputRampRate)
      BY <2>6 DEF Ramped
    <3>2. /\ prior - outputRampRate <= Ramped(raw, prior)
          /\ Ramped(raw, prior) <= prior + outputRampRate
      BY <2>1, <2>2, <3>1 DEF clamp
    <3> QED BY <2>1, <2>2, <2>3, <2>4, <2>6, <3>2 DEF clamp
  <2> DEFINE next == lastOutput'
             k    == outputFilter
  <2> HIDE DEF out, next
  <2>7. ASSUME NEW lo \in Int, NEW hi \in Int, lo <= out, out <= hi,
               k = 0 \/ (lo <= prior /\ prior <= hi)
        PROVE  lo <= next /\ next <= hi
    <3>1. /\ prior \in Int /\ out \in Int /\ next \in Int
          /\ k \in Nat /\ k < WHOLE /\ WHOLE \in Nat \ {0}
          /\ WHOLE * next = prior * k + out * (WHOLE - k)
      BY <2>1, <2>2 DEF next
    <3> HIDE DEF k
    <3> QED BY <2>7, <3>1, MixtureIsBetween
  <2>8. ASSUME outputFilter = 0 \/ (minOutput <= prior /\ prior <= maxOutput)
        PROVE  minOutput <= next /\ next <= maxOutput
    BY <2>2, <2>5, <2>7, <2>8
  <2>9. ASSUME minOutput <= prior, prior <= maxOutput, outputRampRate # 0
        PROVE  Magnitude(next - prior) <= outputRampRate
    <3>1. prior - outputRampRate \in Int /\ prior + outputRampRate \in Int
      BY <2>1, <2>2
    <3>2. prior - outputRampRate <= prior /\ prior <= prior + outputRampRate
      BY <2>1, <2>2
    <3>3. prior - outputRampRate <= next /\ next <= prior + outputRampRate
      BY <2>6, <2>7, <2>9, <3>1, <3>2
    <3>4. next \in Int
      BY <2>1 DEF next
    <3> QED BY <2>1, <2>2, <3>3, <3>4 DEF Magnitude
  <2> QED BY <2>8, <2>9 DEF next
<1> QED BY <1>1, PidInvariant, PTL DEF Spec, OutputRestricted
=============================================================================
