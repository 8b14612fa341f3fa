------------------------- MODULE ThreadedCar_proofs -------------------------
(***************************************************************************)
(* What the runs check of the threaded car, for every sensor and every     *)
(* gain: the speed thread is accurate across the wraps of the angle, what  *)
(* the controllers put out never ends the process, the wheels stay         *)
(* straight, and full throttle does not last.  The liveness of the speeds  *)
(* is left to TLC.                                                         *)
(***************************************************************************)
EXTENDS ThreadedCar, TLAPS

-----------------------------------------------------------------------------
(* The sensor. *)

\* The mask lowers an angle by less than the resolution.
LEMMA MaskLowers ==
  ASSUME NEW a \in Nat
  PROVE  Masked(a) \in Nat /\ a - RES < Masked(a) /\ Masked(a) <= a
<1>1. a % RES \in 0 .. RES - 1
  BY SpeedSensorAssumption
<1>2. a % RES <= a
  BY SpeedSensorAssumption
<1> QED BY <1>1, <1>2, SpeedSensorAssumption DEF Masked

LEMMA AnswersAreNatural == ASSUME NEW r \in Readings PROVE r \in Nat
  BY MaskLowers, SpeedSensorAssumption DEF Readings

\* An angle and the one after a turn: equal up to a whole turn at most.
LEMMA TurnedAngle ==
  ASSUME NEW a \in 0 .. FULL - 1, NEW t \in Turn
  PROVE  /\ (a + t) % FULL \in 0 .. FULL - 1
         /\ \/ (a + t) % FULL = a + t
            \/ t > 0 /\ (a + t) % FULL = a + t - FULL
            \/ t < 0 /\ (a + t) % FULL = a + t + FULL
<1> FULL \in Nat \ {0} /\ t \in Int
  BY SpeedSensorAssumption
<1>1. -FULL < t /\ t < FULL
  BY SpeedSensorAssumption DEF Magnitude
<1> QED BY <1>1

\* Two readings of a sample that are not garbled tell its turn within the
\* resolution, whether the angle has wrapped or not.
LEMMA SampleIsAccurate ==
  ASSUME NEW a \in 0 .. FULL - 1, NEW t \in Turn
  PROVE  LET d == Corrected((Masked((a + t) % FULL) - Masked(a)) * (-1))
         IN  d \in Int /\ -RES <= d + t /\ d + t <= RES
<1> DEFINE b == (a + t) % FULL
           x == (Masked(b) - Masked(a)) * (-1)
<1>1. /\ FULL \in Nat /\ RES \in Nat /\ CORR = FULL - 1 /\ THRESH \in Nat /\ t \in Int
      /\ RES > 0
  BY SpeedSensorAssumption
<1>2. /\ t + RES <= THRESH /\ RES - t <= THRESH
      /\ t + RES + THRESH <= FULL /\ RES - t + THRESH <= FULL
  BY SpeedSensorAssumption DEF Magnitude
<1>3. /\ b \in 0 .. FULL - 1
      /\ \/ b = a + t
         \/ t > 0 /\ b = a + t - FULL
         \/ t < 0 /\ b = a + t + FULL
  BY TurnedAngle
<1>4. /\ Masked(a) \in Nat /\ a - RES < Masked(a) /\ Masked(a) <= a
      /\ Masked(b) \in Nat /\ b - RES < Masked(b) /\ Masked(b) <= b
  BY <1>1, <1>3, MaskLowers
<1>5. x \in Int /\ x = Masked(a) - Masked(b)
  BY <1>4
<1> HIDE DEF b, x
<1>6. Corrected(x) \in Int /\ -RES <= Corrected(x) + t /\ Corrected(x) + t <= RES
  <2>1. CASE b = a + t
    BY <2>1, <1>1, <1>2, <1>4, <1>5 DEF Corrected
  <2>2. CASE t > 0 /\ b = a + t - FULL
    BY <2>2, <1>1, <1>2, <1>4, <1>5 DEF Corrected
  <2>3. CASE t < 0 /\ b = a + t + FULL
    BY <2>3, <1>1, <1>2, <1>4, <1>5 DEF Corrected
  <2> QED BY <2>1, <2>2, <2>3, <1>3
<1> QED BY <1>6 DEF x, b

\* What the speed thread knows: a sample is missing while it takes one, and the
\* first reading of it is the angle of the wheel, unless the error flag is up.
SensorInv ==
  /\ SensorTypeOK
  /\ spc \notin {"store", "rest"} => done < SAMPLES
  /\ spc = "second" /\ ~ef => result1 = Masked(angle)
  /\ Accurate

LEMMA SpeedIsInt == ASSUME NEW x \in Int PROVE SpeedOf(x) \in Int
  BY SpeedSensorAssumption DEF SpeedOf

LEMMA HalvesAreTyped ==
  ASSUME NEW x \in Int
  PROVE  Halves(x) \in [high : Int, low : 0 .. 1] /\ Halves(x) = [high |-> x \div 2, low |-> x % 2]
  BY DEF Halves

LEMMA AnswerOfRead ==
  ASSUME SensorTypeOK, NEW a \in 0 .. FULL - 1, NEW answer, Read(a, answer)
  PROVE  /\ answer \in Readings
         /\ ef' \in BOOLEAN /\ (ef => ef')
         /\ ~ef' => answer = Masked(a)
  BY DEF Read, Readings, SensorTypeOK

\* Every step of the thread keeps what it knows.
LEMMA SpeedRunKeeps == SensorInv /\ SpeedRun => SensorInv'
<1> SUFFICES ASSUME SensorInv, SpeedRun PROVE SensorInv'
  OBVIOUS
<1> USE DEF SensorInv
<1>0. FULL \in Nat \ {0} /\ RES \in Nat /\ SAMPLES \in Nat \ {0}
  BY SpeedSensorAssumption
<1>1. CASE ClearError
  BY <1>1, <1>0 DEF ClearError, SensorTypeOK, Accurate, Magnitude
<1>6. CASE OpenSensor
  BY <1>6 DEF OpenSensor, SensorTypeOK, Accurate
<1>2. CASE FirstRead
  <2>1. angle' \in 0 .. FULL - 1 /\ Read(angle', result1')
    BY <1>2 DEF FirstRead
  <2>2. result1' \in Readings /\ ef' \in BOOLEAN /\ (ef => ef') /\ (~ef' => result1' = Masked(angle'))
    BY <2>1, AnswerOfRead
  <2> QED BY <1>2, <2>1, <2>2 DEF FirstRead, SensorTypeOK, Accurate
<1>3. ASSUME NEW late \in BOOLEAN, SecondRead(late) PROVE SensorInv'
  <2>1. PICK turn \in Turn, answer \in Readings \union {-1} :
          /\ Read((angle + turn) % FULL, answer)
          /\ IF result1 < 0 \/ answer < 0 \/ late THEN Reject ELSE Accept(answer, turn)
    BY <1>3 DEF SecondRead
  <2>2. spc = "second" /\ result1' = 0 /\ angle' = 0 /\ speed' = speed
    BY <1>3 DEF SecondRead
  <2>3. angle \in 0 .. FULL - 1 /\ (angle + turn) % FULL \in 0 .. FULL - 1
    BY TurnedAngle DEF SensorTypeOK
  <2>4. /\ answer \in Readings /\ ef' \in BOOLEAN /\ (ef => ef')
        /\ ~ef' => answer = Masked((angle + turn) % FULL)
    BY <2>1, <2>3, AnswerOfRead
  <2>5. answer \in Nat /\ result1 \in Nat /\ turn \in Int
    BY <2>4, AnswersAreNatural, SpeedSensorAssumption DEF SensorTypeOK
  <2>6. 0 \in Readings /\ 0 \in 0 .. FULL - 1
    <3>1. Masked(0) = 0
      BY <1>0, MaskLowers
    <3> QED BY <3>1, <1>0 DEF Readings
  <2>7. CASE Reject
    BY <2>7, <2>2, <2>4, <2>6 DEF Reject, SensorTypeOK, Accurate
  <2>8. CASE Accept(answer, turn)
    <3> DEFINE d == Corrected((answer - result1) * (-1))
    <3>1. d \in Int
      BY <2>5, SpeedSensorAssumption DEF Corrected
    <3>2. ~ef' => -RES <= d + turn /\ d + turn <= RES
      <4>1. ~ef' => answer = Masked((angle + turn) % FULL) /\ result1 = Masked(angle)
        BY <2>2, <2>4
      <4> QED BY <4>1, <2>3, SampleIsAccurate
    <3> HIDE DEF d
    <3>3. /\ difference_total' = difference_total + d
          /\ turned' = (IF ef' THEN 0 ELSE turned + turn)
          /\ done' = done + 1
          /\ spc' = (IF done' < SAMPLES THEN "first" ELSE "store")
      BY <2>8, <2>5 DEF Accept, d
    <3>4. done < SAMPLES
      BY <2>2
    <3>5. SensorTypeOK'
      BY <3>1, <3>3, <3>4, <2>2, <2>4, <2>5, <2>6, <1>0 DEF SensorTypeOK
    <3>6. Accurate'
      <4> SUFFICES ASSUME ~ef' PROVE Magnitude(difference_total' + turned') <= done' * RES
        BY DEF Accurate
      <4>1. Magnitude(difference_total + turned) <= done * RES
        BY <2>4 DEF Accurate
      <4>2. turned' = turned + turn /\ -RES <= d + turn /\ d + turn <= RES
        BY <3>2, <3>3
      <4>3. (done + 1) * RES = done * RES + RES
        BY <1>0 DEF SensorTypeOK
      <4>4. difference_total \in Int /\ turned \in Int /\ done * RES \in Int
        BY <1>0 DEF SensorTypeOK
      <4> QED BY <4>1, <4>2, <4>3, <4>4, <3>1, <3>3, <2>5, <1>0 DEF Magnitude
    <3> QED BY <3>3, <3>5, <3>6, <2>2, <1>0 DEF SensorTypeOK
  <2> QED BY <2>1, <2>7, <2>8
<1>4. ASSUME NEW half \in {"high", "low"}, StoreHalf(half) PROVE SensorInv'
  <2>1. Halves(SpeedOf(difference_total)) \in [high : Int, low : 0 .. 1]
    BY SpeedIsInt, HalvesAreTyped DEF SensorTypeOK
  <2> QED BY <1>4, <2>1 DEF StoreHalf, SensorTypeOK, Accurate
<1>5. CASE StoreRest
  <2>1. Halves(SpeedOf(difference_total)) \in [high : Int, low : 0 .. 1]
    BY SpeedIsInt, HalvesAreTyped DEF SensorTypeOK
  <2> QED BY <1>5, <2>1, <1>0 DEF StoreRest, SensorTypeOK, Accurate, Magnitude
<1> QED BY <1>1, <1>2, <1>3, <1>4, <1>5, <1>6 DEF SpeedRun

-----------------------------------------------------------------------------
(* The controllers. *)

LEMMA QuotientsAreOrdered ==
  ASSUME NEW a \in Int, NEW b \in Int, a <= b, NEW d \in Nat \ {0}
  PROVE  a \div d <= b \div d
  OBVIOUS

\* Ticks grow with the pulse.
LEMMA TicksAreOrdered ==
  ASSUME NEW a \in Nat, NEW b \in Nat, a <= b
  PROVE  calcTicks(a) \in Nat /\ calcTicks(a) <= calcTicks(b)
<1>1. 200 * LIMIT \in Nat \ {0}
  BY ThreadedCarAssumption
<1>2. 24576 * a \in Nat /\ 24576 * b \in Nat /\ 24576 * a <= 24576 * b
  OBVIOUS
<1>3. calcTicks(a) <= calcTicks(b)
  BY <1>1, <1>2, QuotientsAreOrdered DEF calcTicks
<1>4. 0 \div (200 * LIMIT) = 0
  BY <1>1
<1>5. calcTicks(a) \in Int /\ 0 <= calcTicks(a)
  BY <1>1, <1>2, <1>4, QuotientsAreOrdered DEF calcTicks
<1> QED BY <1>3, <1>5

Width(c) == Limits(c)[2] - Limits(c)[1]

LEMMA LimitsAreOrdered ==
  ASSUME NEW c \in Controller
  PROVE  /\ Limits(c)[1] \in Int /\ Limits(c)[2] = LIMIT /\ Limits(c)[1] <= 0
         /\ Limits(c)[1] # Limits(c)[2] /\ Width(c) \in Nat /\ Width(c) >= LIMIT
         /\ Limits("throttle")[1] = 0
  BY ThreadedCarAssumption DEF Controller, Limits, Width

\* What a controller knows of itself.
PidType == [errorSum : Int, lastActual : Int, firstRun : BOOLEAN, lastOutput : Int]

\* The error and the sum of the errors, each with its gain: the other terms of
\* the general controller are zero.
LEMMA RawIsPlusI ==
  ASSUME NEW c \in Controller, pid[c] \in PidType, NEW a \in Int, NEW t \in Int
  PROVE  /\ Pid(c)!Error(a, t) = t - a
         /\ Pid(c)!ITerm \in Int
         /\ Pid(c)!ITerm <= GainI * pid[c].errorSum \/ Pid(c)!ITerm <= 0
         /\ pid[c].errorSum = 0 => Pid(c)!ITerm = 0
         /\ Pid(c)!Raw(a, t) = GainP * (t - a) + Pid(c)!ITerm
         /\ Pid(c)!Raw(a, t) \in Int
         /\ Pid(c)!Prior(a, t) \in Int
<1>1. Pid(c)!Target(a, t) = t /\ Pid(c)!Error(a, t) = t - a
  BY DEF Pid!Target, Pid!Error
<1>2. GainI * pid[c].errorSum \in Int /\ GainP * (t - a) \in Int
  BY ThreadedCarAssumption DEF PidType
<1>3. GainI * pid[c].errorSum = 0 \/ pid[c].errorSum # 0
  BY ThreadedCarAssumption
<1>4. Pid(c)!ITerm = Pid(c)!clamp(GainI * pid[c].errorSum, -Width(c), Width(c))
  BY LimitsAreOrdered, ThreadedCarAssumption DEF Pid!ITerm, Width
<1>5. /\ Pid(c)!ITerm \in Int
      /\ Pid(c)!ITerm <= GainI * pid[c].errorSum \/ Pid(c)!ITerm <= 0
      /\ pid[c].errorSum = 0 => Pid(c)!ITerm = 0
  <2> DEFINE x == GainI * pid[c].errorSum
  <2>1. x \in Int /\ Width(c) \in Nat /\ (pid[c].errorSum = 0 => x = 0)
    BY <1>2, <1>3, LimitsAreOrdered
  <2> HIDE DEF x
  <2>2. LET y == Pid(c)!clamp(x, -Width(c), Width(c))
        IN  y \in Int /\ (y <= x \/ y <= 0) /\ (x = 0 => y = 0)
    BY <2>1 DEF Pid!clamp
  <2> QED BY <2>1, <2>2, <1>4 DEF x
<1>6. pid[c].lastActual \in Int /\ pid[c].lastOutput \in Int
  BY DEF PidType
<1>7. 0 * t = 0 /\ 0 * (a - pid[c].lastActual) = 0
  BY <1>6
<1>8. Pid(c)!Raw(a, t) = GainP * (t - a) + Pid(c)!ITerm
  BY <1>1, <1>2, <1>5, <1>7 DEF Pid!Raw
<1>9. Pid(c)!Prior(a, t) \in Int
  BY <1>1, <1>2, <1>6, <1>7 DEF Pid!Prior
<1> QED BY <1>1, <1>2, <1>5, <1>8, <1>9

\* The output is the raw one, cut at the limits.
LEMMA OutputIsCut ==
  ASSUME NEW c \in Controller, pid[c] \in PidType, NEW a \in Int, NEW t \in Int
  PROVE  LET raw == Pid(c)!Raw(a, t)
         IN  Output(c, a, t) = IF raw > LIMIT THEN LIMIT
                               ELSE IF raw < Limits(c)[1] THEN Limits(c)[1] ELSE raw
  BY RawIsPlusI, LimitsAreOrdered
  DEF Output, Pid!Restricted, Pid!Limited, Pid!Ramped, Pid!clamp

LEMMA OutputIsInLimits ==
  ASSUME NEW c \in Controller, pid[c] \in PidType, NEW a \in Int, NEW t \in Int
  PROVE  Output(c, a, t) \in Int /\ Limits(c)[1] <= Output(c, a, t) /\ Output(c, a, t) <= LIMIT
  BY OutputIsCut, RawIsPlusI, LimitsAreOrdered, ThreadedCarAssumption

\* The sum starts anew with the last error at a limit, and is clamped short of one.
LEMMA SumIs ==
  ASSUME NEW c \in Controller, pid[c] \in PidType, NEW a \in Int, NEW t \in Int
  PROVE  LET raw == Pid(c)!Raw(a, t)
         IN  Pid(c)!NextSum(raw, Pid(c)!Error(a, t), Pid(c)!Prior(a, t)) =
               IF Limits(c)[1] < raw /\ raw < LIMIT
                 THEN Pid(c)!clamp(pid[c].errorSum + (t - a),
                                   -(Width(c) \div GainI), Width(c) \div GainI)
                 ELSE t - a
<1> DEFINE raw == Pid(c)!Raw(a, t)
           error == Pid(c)!Error(a, t)
           prior == Pid(c)!Prior(a, t)
           most == Width(c) \div GainI
<1>1. error = t - a
  BY RawIsPlusI
<1> HIDE DEF raw, error, prior
<1>2. Pid(c)!NextSum(raw, error, prior) =
        IF Limits(c)[1] < raw /\ raw < LIMIT
          THEN Pid(c)!clamp(pid[c].errorSum + error, -most, most)
          ELSE error
  BY LimitsAreOrdered, ThreadedCarAssumption DEF Pid!NextSum, Pid!bounded, Width
<1> QED BY <1>1, <1>2 DEF raw, error, prior

\* At a limit the error sum becomes the last error; otherwise it stays a number.
LEMMA SumAtLimit ==
  ASSUME NEW c \in Controller, pid[c] \in PidType, NEW a \in Int, NEW t \in Int
  PROVE  LET raw == Pid(c)!Raw(a, t)
             sum == Pid(c)!NextSum(raw, Pid(c)!Error(a, t), Pid(c)!Prior(a, t))
         IN  /\ sum \in Int
             /\ Output(c, a, t) = LIMIT => sum = t - a
             /\ raw = 0 /\ Limits(c)[1] < 0 /\ t = a /\ pid[c].errorSum = 0 => sum = 0
<1> DEFINE raw == Pid(c)!Raw(a, t)
           sum == Pid(c)!NextSum(raw, Pid(c)!Error(a, t), Pid(c)!Prior(a, t))
           most == Width(c) \div GainI
           bounded == Limits(c)[1] < raw /\ raw < LIMIT
<1>1. most \in Int /\ 0 <= most
  <2>1. 0 \div GainI = 0 /\ Width(c) \in Nat
    BY ThreadedCarAssumption, LimitsAreOrdered
  <2> QED BY <2>1, QuotientsAreOrdered, ThreadedCarAssumption
<1>2. raw \in Int /\ Pid(c)!Error(a, t) = t - a /\ pid[c].errorSum \in Int
  BY RawIsPlusI DEF PidType
<1>3. Output(c, a, t) = (IF raw > LIMIT THEN LIMIT
                         ELSE IF raw < Limits(c)[1] THEN Limits(c)[1] ELSE raw)
  BY OutputIsCut
<1>4. sum = IF ~bounded THEN t - a
            ELSE Pid(c)!clamp(pid[c].errorSum + (t - a), -most, most)
  BY SumIs
<1>5. Output(c, a, t) = LIMIT => ~bounded
  <2> HIDE DEF raw
  <2> QED BY <1>2, <1>3, LimitsAreOrdered, ThreadedCarAssumption
<1> HIDE DEF raw, sum, most
<1>6. sum \in Int
  BY <1>1, <1>2, <1>4 DEF Pid!clamp
<1>7. raw = 0 /\ Limits(c)[1] < 0 /\ t = a /\ pid[c].errorSum = 0 => sum = 0
  BY <1>1, <1>2, <1>4, ThreadedCarAssumption DEF Pid!clamp
<1> QED BY <1>4, <1>5, <1>6, <1>7 DEF raw, sum

-----------------------------------------------------------------------------
(* The car. *)

\* What is known of the car.  The steering is at rest: no error and no sum of
\* errors.  After full throttle the sum is the error of that cycle.
CarInv ==
  /\ SensorInv
  /\ started \subseteq Thread
  /\ exited \in BOOLEAN /\ (exited => spc = "exit")
  /\ duty \in [Controller -> calcTicks(2 * LIMIT) .. calcTicks(4 * LIMIT)]
  /\ duty["servo"] = NEUTRAL /\ NEUTRAL <= duty["throttle"]
  /\ direction = 3 * LIMIT
  /\ pid \in [Controller -> PidType]
  /\ pid["servo"].errorSum = 0
  /\ pid["throttle"].lastOutput = LIMIT =>
       pid["throttle"].errorSum = TargetSpeed - pid["throttle"].lastActual

LEMMA Ticks ==
  /\ calcTicks(2 * LIMIT) \in Nat /\ NEUTRAL \in Nat /\ calcTicks(4 * LIMIT) \in Nat
  /\ calcTicks(2 * LIMIT) <= NEUTRAL /\ NEUTRAL <= calcTicks(4 * LIMIT)
  BY TicksAreOrdered, ThreadedCarAssumption DEF NEUTRAL

LEMMA WholeIsInt == ASSUME SensorTypeOK PROVE Whole(speed) \in Int
  BY DEF SensorTypeOK, Whole

LEMMA InitialSensor == SensorInit => SensorInv
  BY SpeedSensorAssumption, HalvesAreTyped, MaskLowers
  DEF SensorInit, SensorInv, SensorTypeOK, Accurate, Magnitude, Readings

LEMMA InitialCar == Init => CarInv
<1> SUFFICES ASSUME Init PROVE CarInv
  OBVIOUS
<1>1. /\ started = {} /\ exited = FALSE /\ direction = 3 * LIMIT
      /\ duty = [c \in Controller |-> NEUTRAL]
      /\ pid = [c \in Controller |-> [errorSum |-> 0, lastActual |-> 0,
                                       firstRun |-> TRUE, lastOutput |-> 0]]
  BY DEF Init, CarInit
<1>2. duty \in [Controller -> calcTicks(2 * LIMIT) .. calcTicks(4 * LIMIT)]
  BY <1>1, Ticks
<1>3. NEUTRAL <= duty["throttle"] /\ duty["servo"] = NEUTRAL
  BY <1>1, Ticks DEF Controller
<1>4. pid \in [Controller -> PidType] /\ pid["servo"].errorSum = 0 /\ pid["throttle"].lastOutput = 0
  BY <1>1 DEF Controller, PidType
<1> QED BY <1>1, <1>2, <1>3, <1>4, InitialSensor, ThreadedCarAssumption DEF Init, CarInv

\* A pulse of an output is one that calcTicks takes.
LEMMA PulseIsAllowed ==
  ASSUME NEW output \in Int, -LIMIT <= output, output <= LIMIT
  PROVE  /\ Allowed(Impulse(output))
         /\ calcTicks(Impulse(output)) \in calcTicks(2 * LIMIT) .. calcTicks(4 * LIMIT)
         /\ 0 <= output => NEUTRAL <= calcTicks(Impulse(output))
         /\ output = 0 => calcTicks(Impulse(output)) = NEUTRAL
<1> DEFINE impulse == Impulse(output)
<1>1. /\ impulse \in Nat /\ 2 * LIMIT <= impulse /\ impulse <= 4 * LIMIT
      /\ 0 <= output => 3 * LIMIT <= impulse
      /\ output = 0 => impulse = 3 * LIMIT
      /\ 2 * LIMIT \in Nat /\ 3 * LIMIT \in Nat /\ 4 * LIMIT \in Nat
  BY ThreadedCarAssumption DEF Impulse
<1> HIDE DEF impulse
<1>2. calcTicks(impulse) \in Nat /\ calcTicks(2 * LIMIT) <= calcTicks(impulse)
  BY <1>1, TicksAreOrdered
<1>3. calcTicks(impulse) <= calcTicks(4 * LIMIT)
  BY <1>1, TicksAreOrdered
<1>4. 0 <= output => NEUTRAL <= calcTicks(impulse)
  BY <1>1, TicksAreOrdered DEF NEUTRAL
<1> QED BY <1>1, <1>2, <1>3, <1>4, Ticks DEF impulse, Allowed, NEUTRAL

LEMMA RememberIsTyped ==
  ASSUME NEW c \in Controller, pid[c] \in PidType, NEW a \in Int, NEW t \in Int
  PROVE  /\ Remember(c, a, t) \in PidType
         /\ Remember(c, a, t).lastOutput = Output(c, a, t)
         /\ Remember(c, a, t).lastActual = a
         /\ Remember(c, a, t).lastOutput = LIMIT => Remember(c, a, t).errorSum = t - a
<1> DEFINE sum == Pid(c)!NextSum(Pid(c)!Raw(a, t), Pid(c)!Error(a, t), Pid(c)!Prior(a, t))
<1>1. sum \in Int /\ (Output(c, a, t) = LIMIT => sum = t - a)
  BY SumAtLimit
<1>2. Remember(c, a, t) = [errorSum |-> sum, lastActual |-> a, firstRun |-> FALSE,
                           lastOutput |-> Output(c, a, t)]
  BY DEF Remember
<1> HIDE DEF sum
<1> QED BY <1>1, <1>2, OutputIsInLimits DEF PidType

\* The cycles keep what is known.
LEMMA ThrottleKeeps == CarInv /\ ThrottlePID => CarInv'
<1> SUFFICES ASSUME CarInv, ThrottlePID PROVE CarInv'
  OBVIOUS
<1> DEFINE a == Whole(speed)
           output == Output("throttle", a, TargetSpeed)
           next == Remember("throttle", a, TargetSpeed)
<1>1. "throttle" \in Controller /\ pid["throttle"] \in PidType /\ a \in Int /\ TargetSpeed \in Int
  BY WholeIsInt, ThreadedCarAssumption DEF CarInv, SensorInv, Controller
<1>2. output \in Int /\ 0 <= output /\ output <= LIMIT
  BY <1>1, OutputIsInLimits, LimitsAreOrdered
<1>3. next \in PidType /\ next.lastActual = a /\ (next.lastOutput = LIMIT => next.errorSum = TargetSpeed - a)
  BY <1>1, RememberIsTyped
<1>4. pid' = [pid EXCEPT !["throttle"] = next] /\ SetPulse("throttle", Impulse(output))
  BY DEF ThrottlePID
<1>5. UNCHANGED <<sensorVars, started, direction>>
  BY DEF ThrottlePID
<1> HIDE DEF a, output, next
<1>6. -LIMIT <= output
  BY <1>2, ThreadedCarAssumption
<1>7. /\ duty' = [duty EXCEPT !["throttle"] = calcTicks(Impulse(output))] /\ exited' = exited
      /\ calcTicks(Impulse(output)) \in calcTicks(2 * LIMIT) .. calcTicks(4 * LIMIT)
      /\ NEUTRAL <= calcTicks(Impulse(output))
  BY <1>2, <1>4, <1>6, PulseIsAllowed DEF SetPulse
<1>8. SensorInv'
  BY <1>5 DEF CarInv, SensorInv, SensorTypeOK, Accurate, sensorVars
<1>9. ~exited
  BY DEF ThrottlePID, Running
<1> QED BY <1>3, <1>4, <1>5, <1>7, <1>8, <1>9 DEF CarInv, Controller

LEMMA ServoKeeps == CarInv /\ ServoPID => CarInv'
<1> SUFFICES ASSUME CarInv, ServoPID PROVE CarInv'
  OBVIOUS
<1> DEFINE t == 3 * LIMIT
           output == Output("servo", t, t)
           next == Remember("servo", t, t)
<1>1. "servo" \in Controller /\ pid["servo"] \in PidType /\ t \in Int /\ pid["servo"].errorSum = 0
  BY ThreadedCarAssumption DEF CarInv, Controller
<1>2. Limits("servo")[1] = -LIMIT /\ -LIMIT < 0 /\ LIMIT > 0
  BY ThreadedCarAssumption DEF Limits
<1>3. Pid("servo")!Raw(t, t) = 0
  <2>1. Pid("servo")!Raw(t, t) = GainP * (t - t) + Pid("servo")!ITerm /\ Pid("servo")!ITerm = 0
    BY <1>1, RawIsPlusI
  <2> QED BY <2>1, <1>1, ThreadedCarAssumption
<1>4. output = 0
  BY <1>1, <1>2, <1>3, OutputIsCut, ThreadedCarAssumption
<1>5. next \in PidType
  BY <1>1, RememberIsTyped
<1>6. next.errorSum = 0
  BY <1>1, <1>2, <1>3, SumAtLimit DEF Remember
<1>7. /\ pid' = [pid EXCEPT !["servo"] = next] /\ SetPulse("servo", Impulse(output))
      /\ direction' = IF exited' THEN direction ELSE Impulse(output)
      /\ UNCHANGED <<sensorVars, started>>
  BY DEF ServoPID, CarInv
<1> HIDE DEF output, next
<1>8. /\ duty' = [duty EXCEPT !["servo"] = calcTicks(Impulse(output))] /\ exited' = exited
      /\ calcTicks(Impulse(output)) = NEUTRAL
  <2>1. output \in Int /\ -LIMIT <= output /\ output <= LIMIT
    BY <1>2, <1>4, ThreadedCarAssumption
  <2> QED BY <2>1, <1>4, <1>7, PulseIsAllowed DEF SetPulse
<1>9. ~exited
  BY DEF ServoPID, Running
<1>10. direction' = 3 * LIMIT
  BY <1>4, <1>7, <1>8, <1>9, ThreadedCarAssumption DEF CarInv, Impulse
<1>11. SensorInv'
  BY <1>7 DEF CarInv, SensorInv, SensorTypeOK, Accurate, sensorVars
<1> QED BY <1>5, <1>6, <1>7, <1>8, <1>9, <1>10, <1>11, Ticks DEF CarInv, Controller

LEMMA CarInvariant == Spec => []CarInv
<1>1. CarInv /\ [Next]_allVars => CarInv'
  <2> SUFFICES ASSUME CarInv, [Next]_allVars PROVE CarInv'
    OBVIOUS
  <2>1. ASSUME NEW t \in Thread, StartThread(t) PROVE CarInv'
    BY <2>1 DEF StartThread, CarInv, SensorInv, SensorTypeOK, Accurate, sensorVars
  <2>2. CASE SpeedThread
    <3>1. SensorInv'
      BY <2>2, SpeedRunKeeps DEF SpeedThread, CarInv
    <3> QED BY <3>1, <2>2 DEF SpeedThread, CarInv
  <2>3. CASE UNCHANGED allVars
    BY <2>3 DEF allVars, carVars, sensorVars, CarInv, SensorInv, SensorTypeOK, Accurate
  <2> QED BY <2>1, <2>2, <2>3, ThrottleKeeps, ServoKeeps DEF Next
<1> QED BY <1>1, InitialCar, PTL DEF Spec

-----------------------------------------------------------------------------
(* The theorems. *)

\* Every variable of the sensor and of the car keeps its type.
THEOREM ThreadedCarTypeCorrect == Spec => []TypeOK
<1>1. CarInv => TypeOK
  <2> SUFFICES ASSUME CarInv PROVE TypeOK
    OBVIOUS
  <2>1. duty \in [Controller -> Nat]
    BY Ticks DEF CarInv
  <2> QED BY <2>1, ThreadedCarAssumption DEF CarInv, SensorInv, TypeOK, PidType
<1> QED BY <1>1, CarInvariant, PTL

\* The speed thread sums up the rotation of the wheel, across the wraps.
THEOREM SpeedIsAccurate == Spec => []Accurate
<1>1. CarInv => Accurate
  BY DEF CarInv, SensorInv
<1> QED BY <1>1, CarInvariant, PTL

\* No output of a controller ends the process, whatever speed it is given.
THEOREM OutputsNeverExit == Spec => []NeverExits
<1>1. CarInv => NeverExits
  BY Ticks DEF CarInv, NeverExits, Controller
<1> QED BY <1>1, CarInvariant, PTL

\* The steering is never moved from straight on.
THEOREM WheelsStayStraight == Spec => []Straight
<1>1. CarInv => Straight
  BY DEF CarInv, Straight
<1> QED BY <1>1, CarInvariant, PTL

\* The sensor's error flag, once up in the loop, is never lowered.
THEOREM SensorErrorStays == Spec => ErrorStays
<1>1. CarInv /\ [Next]_allVars => [ef /\ spc \notin {"open", "clear"} => ef' /\ spc' # "clear"]_sensorVars
  <2> SUFFICES ASSUME CarInv, [Next]_allVars, ef, spc \notin {"open", "clear"}
               PROVE  (ef' /\ spc' # "clear") \/ UNCHANGED sensorVars
    OBVIOUS
  <2>1. ASSUME SpeedRun PROVE ef' /\ spc' # "clear"
    <3>1. SensorTypeOK
      BY DEF CarInv, SensorInv
    <3>2. CASE FirstRead
      BY <3>2 DEF FirstRead, Read
    <3>3. ASSUME NEW late \in BOOLEAN, SecondRead(late) PROVE ef' /\ spc' # "clear"
      <4>1. PICK turn \in Turn, answer \in Readings \union {-1} :
              /\ Read((angle + turn) % FULL, answer)
              /\ IF result1 < 0 \/ answer < 0 \/ late THEN Reject ELSE Accept(answer, turn)
        BY <3>3 DEF SecondRead
      <4>2. ef'
        BY <4>1 DEF Read
      <4>3. result1 \in Nat
        BY <3>1, AnswersAreNatural DEF SensorTypeOK
      <4>4. CASE Reject
        BY <4>2, <4>4 DEF Reject
      <4>5. CASE Accept(answer, turn) /\ ~(answer < 0)
        BY <4>2, <4>3, <4>5 DEF Accept
      <4> QED BY <4>1, <4>4, <4>5
    <3>4. ASSUME NEW half \in {"high", "low"}, StoreHalf(half) PROVE ef' /\ spc' # "clear"
      BY <3>4 DEF StoreHalf
    <3>5. CASE StoreRest
      BY <3>5 DEF StoreRest
    <3>6. ~ClearError /\ ~OpenSensor
      BY DEF ClearError, OpenSensor
    <3> QED BY <2>1, <3>2, <3>3, <3>4, <3>5, <3>6 DEF SpeedRun
  <2>2. ASSUME NEW t \in Thread, StartThread(t) PROVE UNCHANGED sensorVars
    BY <2>2 DEF StartThread
  <2>3. CASE ThrottlePID
    BY <2>3 DEF ThrottlePID
  <2>4. CASE ServoPID
    BY <2>4 DEF ServoPID
  <2>5. CASE SpeedThread
    BY <2>1, <2>5 DEF SpeedThread
  <2>6. CASE UNCHANGED allVars
    BY <2>6 DEF allVars
  <2> QED BY <2>2, <2>3, <2>4, <2>5, <2>6 DEF Next
<1> QED BY <1>1, CarInvariant, PTL DEF Spec, ErrorStays

\* Full throttle lasts one cycle, while the speeds are not negative.
THEOREM ThrottleIsGivenUp == Spec => ThrottleFallsBack
<1> DEFINE Falls ==
      /\ pid["throttle"].lastOutput = LIMIT /\ pid["throttle"].lastActual >= 0
      /\ pid' # pid /\ pid'["throttle"].lastActual >= 0 /\ pid'["servo"] = pid["servo"]
      => pid'["throttle"].lastOutput < LIMIT
<1>1. CarInv /\ [Next]_allVars => [Falls]_allVars
  <2> SUFFICES ASSUME CarInv, [Next]_allVars, ~UNCHANGED allVars,
                      pid["throttle"].lastOutput = LIMIT, pid["throttle"].lastActual >= 0,
                      pid' # pid, pid'["throttle"].lastActual >= 0,
                      pid'["servo"] = pid["servo"]
               PROVE  pid'["throttle"].lastOutput < LIMIT
    OBVIOUS
  <2>1. "throttle" \in Controller /\ "servo" \in Controller /\ pid \in [Controller -> PidType]
    BY DEF Controller, CarInv
  <2>2. CASE ThrottlePID
    <3> DEFINE a == Whole(speed)
               sum == pid["throttle"].errorSum
    <3>1. pid["throttle"] \in PidType /\ a \in Int /\ TargetSpeed \in Int
      BY <2>1, WholeIsInt, ThreadedCarAssumption DEF CarInv, SensorInv
    <3>2. pid' = [pid EXCEPT !["throttle"] = Remember("throttle", a, TargetSpeed)]
      BY <2>2 DEF ThrottlePID
    <3>3. /\ pid'["throttle"].lastActual = a
          /\ pid'["throttle"].lastOutput = Output("throttle", a, TargetSpeed)
      BY <2>1, <3>1, <3>2, RememberIsTyped
    <3> HIDE DEF a
    <3>4. a >= 0 /\ sum \in Int /\ sum <= TargetSpeed
      BY <3>1, <3>3 DEF CarInv, PidType
    <3>5. /\ GainP * (TargetSpeed - a) <= GainP * TargetSpeed
          /\ GainI * sum <= GainI * TargetSpeed
          /\ GainP * (TargetSpeed - a) \in Int /\ GainP * TargetSpeed \in Nat
          /\ GainI * sum \in Int /\ GainI * TargetSpeed \in Nat
          /\ (GainP + GainI) * TargetSpeed = GainP * TargetSpeed + GainI * TargetSpeed
      BY <3>1, <3>4, ThreadedCarAssumption
    <3>6. Pid("throttle")!Raw(a, TargetSpeed) \in Int /\ Pid("throttle")!Raw(a, TargetSpeed) < LIMIT
      <4>1. /\ Pid("throttle")!ITerm \in Int
            /\ Pid("throttle")!ITerm <= GainI * sum \/ Pid("throttle")!ITerm <= 0
            /\ Pid("throttle")!Raw(a, TargetSpeed) =
                 GainP * (TargetSpeed - a) + Pid("throttle")!ITerm
        BY <2>1, <3>1, RawIsPlusI
      <4> QED BY <4>1, <3>5, ThreadedCarAssumption
    <3>7. Output("throttle", a, TargetSpeed) < LIMIT
      BY <2>1, <3>1, <3>6, OutputIsCut, LimitsAreOrdered, ThreadedCarAssumption
    <3> QED BY <3>3, <3>7
  <2>3. CASE ServoPID
    <3>1. pid' = [pid EXCEPT !["servo"] = pid'["servo"]]
      BY <2>1, <2>3 DEF ServoPID
    <3> QED BY <2>1, <3>1
  <2>4. ASSUME NEW t \in Thread, StartThread(t) PROVE pid' = pid
    BY <2>4 DEF StartThread
  <2>5. CASE SpeedThread
    BY <2>5 DEF SpeedThread
  <2> QED BY <2>2, <2>3, <2>4, <2>5 DEF Next
<1> QED BY <1>1, CarInvariant, PTL DEF Spec, ThrottleFallsBack

-----------------------------------------------------------------------------
(* Between the parts: duties for the board, speeds for the controllers.      *)

\* A quotient is known by the multiples around the dividend.
LEMMA QuotientIs ==
  ASSUME NEW n \in Nat, NEW d \in Nat \ {0}, NEW q \in Nat,
         q * d <= n, n < (q + 1) * d
  PROVE  n \div d = q
OBVIOUS

\* What the channels of the motor and of the servo can be asked for: at 60 Hertz
\* a pulse of 1 to 2 ms is 245 to 491 of the 4096 ticks, in any unit of pulses.
DutiesArePulses ==
  \A c \in Controller : duty[c] \in 245 .. 491

\* No duty is off or full-on, the two that PwmBoard's channels treat apart: this is
\* what lets the car take a call of the driver for one step of the board.
THEOREM DutiesAreInPulseRange == Spec => []DutiesArePulses
<1>1. calcTicks(2 * LIMIT) = 245 /\ calcTicks(4 * LIMIT) = 491
  <2>1. /\ LIMIT \in Nat \ {0} /\ 200 * LIMIT \in Nat \ {0}
        /\ 24576 * (2 * LIMIT) = 49152 * LIMIT
        /\ 24576 * (4 * LIMIT) = 98304 * LIMIT
        /\ 49152 * LIMIT \in Nat /\ 98304 * LIMIT \in Nat
    BY ThreadedCarAssumption
  <2>2. /\ 245 * (200 * LIMIT) <= 49152 * LIMIT
        /\ 49152 * LIMIT < (245 + 1) * (200 * LIMIT)
        /\ 491 * (200 * LIMIT) <= 98304 * LIMIT
        /\ 98304 * LIMIT < (491 + 1) * (200 * LIMIT)
    BY <2>1
  <2>3. (49152 * LIMIT) \div (200 * LIMIT) = 245
    BY <2>1, <2>2, QuotientIs
  <2>4. (98304 * LIMIT) \div (200 * LIMIT) = 491
    BY <2>1, <2>2, QuotientIs
  <2> QED BY <2>1, <2>3, <2>4 DEF calcTicks
<1>2. CarInv => DutiesArePulses
  BY <1>1 DEF CarInv, DutiesArePulses
<1> QED BY <1>2, CarInvariant, PTL

\* A speed that is stored whole, without an error, is the mean rotation of the
\* wheel over SAMPLES samples to less than one more than the resolution, whatever
\* number of wraps and repeated samples there were.
PublishedSpeedIsTrue ==
  [][StoreRest /\ ~ef
     => Magnitude(SAMPLES * Whole(speed') + turned) < SAMPLES * (RES + 1)]_allVars

\* The quotient towards zero is off by less than one.
LEMMA SpeedOfIsMean ==
  ASSUME NEW x \in Int
  PROVE  /\ SpeedOf(x) \in Int
         /\ -SAMPLES < SAMPLES * SpeedOf(x) - x
         /\ SAMPLES * SpeedOf(x) - x < SAMPLES
<1> DEFINE m == Magnitude(x)
           q == m \div SAMPLES
<1>1. SAMPLES \in Nat \ {0} /\ m \in Nat
  BY SpeedSensorAssumption DEF Magnitude
<1>2. q \in Int /\ m = SAMPLES * q + (m % SAMPLES) /\ m % SAMPLES \in 0 .. SAMPLES - 1
  <2> HIDE DEF m
  <2> QED BY <1>1
<1>3. SpeedOf(x) = (IF x < 0 THEN -q ELSE q)
  BY DEF SpeedOf, Magnitude
<1>4. m = IF x < 0 THEN -x ELSE x
  BY DEF Magnitude
<1> HIDE DEF m, q
<1>5. SAMPLES * (-q) = -(SAMPLES * q) /\ SAMPLES * q \in Int
  BY <1>1, <1>2
<1> QED BY <1>1, <1>2, <1>3, <1>4, <1>5

\* The halves of a number make it up.
LEMMA WholeOfHalves == ASSUME NEW x \in Int PROVE Whole(Halves(x)) = x
  BY DEF Whole, Halves

\* The sum of the differences tells the rotation, at the moment it is published.
THEOREM PublishedSpeeds == Spec => PublishedSpeedIsTrue
<1> DEFINE True == StoreRest /\ ~ef
             => Magnitude(SAMPLES * Whole(speed') + turned) < SAMPLES * (RES + 1)
<1>1. CarInv => True
  <2> SUFFICES ASSUME CarInv, StoreRest, ~ef
               PROVE  Magnitude(SAMPLES * Whole(speed') + turned) < SAMPLES * (RES + 1)
    OBVIOUS
  <2> DEFINE v == SpeedOf(difference_total)
             sv == SAMPLES * v
             sr == SAMPLES * RES
  <2>1. difference_total \in Int /\ turned \in Int /\ done \in 0 .. SAMPLES
    BY DEF CarInv, SensorInv, SensorTypeOK
  <2>2. SAMPLES \in Nat \ {0} /\ RES \in Nat \ {0}
    BY SpeedSensorAssumption
  <2>3. Whole(speed') = v
    BY <2>1, SpeedOfIsMean, WholeOfHalves DEF StoreRest
  <2>4. sv \in Int /\ -SAMPLES < sv - difference_total /\ sv - difference_total < SAMPLES
    BY <2>1, <2>2, SpeedOfIsMean
  <2>5. Magnitude(difference_total + turned) <= sr /\ sr \in Nat
    <3>1. Magnitude(difference_total + turned) <= done * RES
      BY DEF CarInv, SensorInv, Accurate
    <3>2. done * RES <= sr /\ sr \in Nat /\ done * RES \in Nat
      BY <2>1, <2>2
    <3> QED BY <2>1, <3>1, <3>2 DEF Magnitude
  <2>6. SAMPLES * (RES + 1) = sr + SAMPLES
    BY <2>2
  <2> HIDE DEF v, sv, sr
  <2>7. Magnitude(sv + turned) < sr + SAMPLES
    BY <2>1, <2>2, <2>4, <2>5 DEF Magnitude
  <2> QED BY <2>3, <2>6, <2>7 DEF sv
<1> QED BY <1>1, CarInvariant, PTL DEF PublishedSpeedIsTrue

\* What the liveness of the speeds rests on: an accepted sample counts until the
\* speed it belongs to is published, however many are repeated in between, and the
\* loop is left for publishing with all SAMPLES of them and no other way: answers
\* are masked, so none is the -1 that would start the measurement anew.
SamplesAreKept ==
  /\ [](spc \in {"store", "rest"} <=> done = SAMPLES)
  /\ [][spc \notin {"open", "clear"} => spc' # "clear"]_allVars
  /\ [][~StoreRest => done' >= done]_allVars

\* The steps that do not belong to the speed thread leave its variables alone.
LEMMA OthersLeaveTheSensor ==
  ASSUME [Next]_allVars PROVE SpeedRun \/ UNCHANGED sensorVars
<1>1. ASSUME NEW t \in Thread, StartThread(t) PROVE UNCHANGED sensorVars
  BY <1>1 DEF StartThread
<1>2. CASE ThrottlePID
  BY <1>2 DEF ThrottlePID
<1>3. CASE ServoPID
  BY <1>3 DEF ServoPID
<1>4. CASE SpeedThread
  BY <1>4 DEF SpeedThread
<1>5. CASE UNCHANGED allVars
  BY <1>5 DEF allVars
<1> QED BY <1>1, <1>2, <1>3, <1>4, <1>5 DEF Next

\* A sample that is not taken costs nothing but its time.
LEMMA SampleSteps ==
  ASSUME CarInv, SpeedRun
  PROVE  \/ spc = "open" /\ spc' \in {"clear", "exit"} /\ done' = done
         \/ ClearError /\ spc = "clear" /\ spc' = "first" /\ done' = 0
         \/ FirstRead /\ spc = "first" /\ spc' = "second" /\ done' = done
         \/ /\ spc = "second"
            /\ \/ spc' = "first" /\ done' \in {done, done + 1} /\ done' < SAMPLES
               \/ spc' = "store" /\ done' = done + 1 /\ done' = SAMPLES
         \/ spc = "store" /\ spc' = "rest" /\ done' = done
         \/ StoreRest /\ spc = "rest" /\ spc' = "first" /\ done' = 0
<1>0. /\ SensorTypeOK /\ SAMPLES \in Nat \ {0} /\ done \in 0 .. SAMPLES
      /\ spc \notin {"store", "rest"} => done < SAMPLES
  BY SpeedSensorAssumption DEF CarInv, SensorInv, SensorTypeOK
<1>1. ASSUME NEW late \in BOOLEAN, SecondRead(late)
      PROVE  /\ spc = "second"
             /\ \/ spc' = "first" /\ done' \in {done, done + 1} /\ done' < SAMPLES
                \/ spc' = "store" /\ done' = done + 1 /\ done' = SAMPLES
  <2>1. PICK turn \in Turn, answer \in Readings \union {-1} :
          IF result1 < 0 \/ answer < 0 \/ late THEN Reject ELSE Accept(answer, turn)
    BY <1>1 DEF SecondRead
  <2>2. spc = "second"
    BY <1>1 DEF SecondRead
  <2>3. CASE Reject
    BY <2>2, <2>3, <1>0 DEF Reject
  <2>4. CASE Accept(answer, turn) /\ ~(result1 < 0) /\ ~(answer < 0)
    BY <2>2, <2>4, <1>0 DEF Accept
  <2> QED BY <2>1, <2>3, <2>4
<1>2. ASSUME NEW half \in {"high", "low"}, StoreHalf(half)
      PROVE  spc = "store" /\ spc' = "rest" /\ done' = done
  BY <1>2 DEF StoreHalf
<1> QED BY <1>1, <1>2 DEF SpeedRun, OpenSensor, ClearError, FirstRead, StoreRest

\* Samples are neither lost nor counted twice, and the sum is never thrown away.
THEOREM NoSampleIsLost == Spec => SamplesAreKept
<1> DEFINE Full == /\ spc \in {"store", "rest"} <=> done = SAMPLES
                   /\ spc \in {"open", "clear", "exit"} => done = 0
           On   == spc \notin {"open", "clear"} => spc' # "clear"
           Up   == ~StoreRest => done' >= done
<1>0. SAMPLES \in Nat \ {0}
  BY SpeedSensorAssumption
<1>1. Init => Full
  BY <1>0 DEF Init, SensorInit
<1>2. CarInv /\ Full /\ [Next]_allVars => Full'
  <2> SUFFICES ASSUME CarInv, Full, [Next]_allVars PROVE Full'
    OBVIOUS
  <2>1. done \in 0 .. SAMPLES
    BY DEF CarInv, SensorInv, SensorTypeOK
  <2>2. CASE SpeedRun
    BY <1>0, <2>1, <2>2, SampleSteps DEF CarInv, SensorInv
  <2>3. CASE UNCHANGED sensorVars
    BY <2>3 DEF sensorVars
  <2> QED BY <2>2, <2>3, OthersLeaveTheSensor
<1>3. CarInv /\ Full /\ [Next]_allVars => [On]_allVars /\ [Up]_allVars
  <2> SUFFICES ASSUME CarInv, Full, [Next]_allVars PROVE On /\ Up
    OBVIOUS
  <2>1. done \in 0 .. SAMPLES
    BY DEF CarInv, SensorInv, SensorTypeOK
  <2>2. CASE SpeedRun
    BY <1>0, <2>1, <2>2, SampleSteps
  <2>3. CASE UNCHANGED sensorVars
    BY <2>1, <2>3 DEF sensorVars
  <2> QED BY <2>2, <2>3, OthersLeaveTheSensor
<1> QED BY <1>1, <1>2, <1>3, CarInvariant, PTL DEF Spec, SamplesAreKept

-----------------------------------------------------------------------------
(* The controllers in the car. *)

\* The set points: the throttle's is a constant, the steering's is never written.
SetPoint(c) == IF c = "throttle" THEN TargetSpeed ELSE 3 * LIMIT

\* No windup, in the car: however long the car is held, the I term of a
\* controller is no more than the width of its limits or stands for one error.
SumsAreBounded ==
  \A c \in Controller :
    \/ GainI * Magnitude(pid[c].errorSum) <= Width(c)
    \/ pid[c].errorSum = SetPoint(c) - pid[c].lastActual

\* A cycle that does not start the sum anew bounds it.
LEMMA CycleBoundsSum ==
  ASSUME NEW c \in Controller, pid[c] \in PidType, NEW a \in Int, NEW t \in Int
  PROVE  LET next == Remember(c, a, t)
         IN  \/ GainI * Magnitude(next.errorSum) <= Width(c)
             \/ next.errorSum = t - next.lastActual
<1> DEFINE sum == Pid(c)!NextSum(Pid(c)!Raw(a, t), Pid(c)!Error(a, t), Pid(c)!Prior(a, t))
           most == Width(c) \div GainI
           old == pid[c].errorSum + (t - a)
<1>1. Remember(c, a, t).errorSum = sum /\ Remember(c, a, t).lastActual = a
  BY DEF Remember
<1>2. sum = t - a \/ sum = Pid(c)!clamp(old, -most, most)
  BY SumIs
<1>3. old \in Int /\ GainI \in Nat \ {0} /\ Width(c) \in Nat
  BY LimitsAreOrdered, ThreadedCarAssumption DEF PidType
<1>4. most \in Nat /\ GainI * most <= Width(c)
  <2> DEFINE w == Width(c)
  <2> HIDE DEF w
  <2>1. ASSUME w \in Nat PROVE w \div GainI \in Nat /\ GainI * (w \div GainI) <= w
    BY <1>3, <2>1
  <2> QED BY <1>3, <2>1 DEF w
<1> HIDE DEF sum, most, old
<1>5. ASSUME sum = Pid(c)!clamp(old, -most, most)
      PROVE  Magnitude(sum) \in Nat /\ Magnitude(sum) <= most
  BY <1>3, <1>4, <1>5 DEF Pid!clamp, Magnitude
<1>6. ASSUME NEW m \in Nat, m <= most PROVE GainI * m <= Width(c)
  <2>1. GainI * m <= GainI * most /\ GainI * m \in Int /\ GainI * most \in Int
    BY <1>3, <1>4, <1>6
  <2> QED BY <2>1, <1>3, <1>4
<1> QED BY <1>1, <1>2, <1>5, <1>6

\* The error sums do not wind up, whatever the speed does and however long.
THEOREM CarDoesNotWindUp == Spec => []SumsAreBounded
<1>1. Init => SumsAreBounded
  <2> SUFFICES ASSUME Init, NEW c \in Controller
               PROVE  GainI * Magnitude(pid[c].errorSum) <= Width(c)
    BY DEF SumsAreBounded
  <2>1. pid[c].errorSum = 0
    BY DEF Init, CarInit
  <2> QED BY <2>1, LimitsAreOrdered, ThreadedCarAssumption DEF Magnitude
<1>2. CarInv /\ SumsAreBounded /\ [Next]_allVars => SumsAreBounded'
  <2> SUFFICES ASSUME CarInv, SumsAreBounded, [Next]_allVars
               PROVE  SumsAreBounded'
    OBVIOUS
  <2>1. /\ "throttle" \in Controller /\ "servo" \in Controller
        /\ pid \in [Controller -> PidType] /\ direction = 3 * LIMIT
        /\ Whole(speed) \in Int /\ TargetSpeed \in Int /\ 3 * LIMIT \in Int
    BY WholeIsInt, ThreadedCarAssumption DEF Controller, CarInv, SensorInv
  <2>2. CASE ThrottlePID
    <3>1. pid' = [pid EXCEPT !["throttle"] =
                    Remember("throttle", Whole(speed), TargetSpeed)]
      BY <2>2 DEF ThrottlePID
    <3> QED BY <2>1, <3>1, CycleBoundsSum DEF SumsAreBounded, SetPoint, Width, Limits
  <2>3. CASE ServoPID
    <3>1. pid' = [pid EXCEPT !["servo"] = Remember("servo", 3 * LIMIT, 3 * LIMIT)]
      BY <2>1, <2>3 DEF ServoPID
    <3> QED BY <2>1, <3>1, CycleBoundsSum DEF SumsAreBounded, SetPoint, Width, Limits
  <2>4. ASSUME pid' = pid PROVE SumsAreBounded'
    BY <2>4 DEF SumsAreBounded, SetPoint, Width, Limits
  <2>5. ASSUME NEW t \in Thread, StartThread(t) PROVE pid' = pid
    BY <2>5 DEF StartThread
  <2>6. SpeedThread \/ UNCHANGED allVars => pid' = pid
    BY DEF SpeedThread, allVars, carVars
  <2> QED BY <2>2, <2>3, <2>4, <2>5, <2>6 DEF Next
<1> QED BY <1>1, <1>2, CarInvariant, PTL DEF Spec

\* A controller of the car as a controller of MiniPID: set up by its
\* constructor, with any readings and without further calls of setters.
Ctl(c) == INSTANCE MiniPID WITH
  P <- GainP, I <- GainI, D <- 0, F <- 0,
  minOutput <- Limits(c)[1], maxOutput <- Limits(c)[2],
  maxIOutput <- Limits(c)[2] - Limits(c)[1],
  maxError <- (Limits(c)[2] - Limits(c)[1]) \div GainI,
  reversed <- FALSE, outputRampRate <- 0, outputFilter <- 0, setpointRange <- 0,
  errorSum <- pid[c].errorSum, setpoint <- SetPoint(c),
  lastActual <- pid[c].lastActual, firstRun <- pid[c].firstRun,
  lastOutput <- pid[c].lastOutput, changes <- 0,
  Calls <- {}, Gain <- Int, GainI <- Int, Reading <- Int, Limit <- Int,
  Rate <- Nat, Strength <- {0}, WHOLE <- 1, SumBound <- 0, MaxChanges <- 0

\* What MiniPID computes of such a controller is what the car's model computes.
LEMMA SameController ==
  ASSUME NEW c \in Controller, NEW a, NEW t
  PROVE  /\ Ctl(c)!Prior(a, t) = Pid(c)!Prior(a, t)
         /\ Ctl(c)!Error(a, t) = Pid(c)!Error(a, t)
         /\ Ctl(c)!Raw(a, t) = Pid(c)!Raw(a, t)
         /\ \A raw, error, prior : Ctl(c)!NextSum(raw, error, prior)
                                   = Pid(c)!NextSum(raw, error, prior)
         /\ \A raw, prior : Ctl(c)!Restricted(raw, prior) = Pid(c)!Restricted(raw, prior)
<1>1. /\ Ctl(c)!Prior(a, t) = Pid(c)!Prior(a, t)
      /\ Ctl(c)!Error(a, t) = Pid(c)!Error(a, t)
      /\ Ctl(c)!Raw(a, t) = Pid(c)!Raw(a, t)
  BY DEF Ctl!Prior, Pid!Prior, Ctl!Error, Pid!Error, Ctl!Raw, Pid!Raw, Ctl!Target,
         Pid!Target, Ctl!ITerm, Pid!ITerm, Ctl!clamp, Pid!clamp
<1>2. ASSUME NEW raw, NEW error, NEW prior
      PROVE  Ctl(c)!NextSum(raw, error, prior) = Pid(c)!NextSum(raw, error, prior)
  BY DEF Ctl!NextSum, Pid!NextSum, Ctl!bounded, Pid!bounded, Ctl!clamp, Pid!clamp
<1>3. ASSUME NEW raw, NEW prior
      PROVE  Ctl(c)!Restricted(raw, prior) = Pid(c)!Restricted(raw, prior)
  BY DEF Ctl!Restricted, Pid!Restricted, Ctl!Limited, Pid!Limited, Ctl!Ramped,
         Pid!Ramped, Ctl!clamp, Pid!clamp
<1> QED BY <1>1, <1>2, <1>3

\* A quotient by one is exact.
LEMMA ExactByOne ==
  ASSUME NEW c, NEW x \in Int
  PROVE  Ctl(c)!Divides(1, x) /\ Ctl(c)!Exactly(x, 1) = x
  BY DEF Ctl!Divides, Ctl!Exactly, Ctl!Magnitude

\* A cycle of the car is a call of getOutput.
LEMMA CycleIsGetOutput ==
  ASSUME NEW c \in Controller, pid \in [Controller -> PidType], NEW a \in Int,
         pid' = [pid EXCEPT ![c] = Remember(c, a, SetPoint(c))]
  PROVE  Ctl(c)!getOutput(a, SetPoint(c))
<1> DEFINE t == SetPoint(c)
           prior == Ctl(c)!Prior(a, t)
           raw == Ctl(c)!Raw(a, t)
           sum == Ctl(c)!NextSum(raw, Ctl(c)!Error(a, t), prior)
           out == Ctl(c)!Restricted(raw, prior)
           mix == prior * 0 + out * (1 - 0)
<1>1. t \in Int /\ pid[c] \in PidType
  BY ThreadedCarAssumption DEF SetPoint
<1>2. prior \in Int
  BY <1>1, SameController, RawIsPlusI
<1>3. out = Output(c, a, t) /\ out \in Int
  BY <1>1, SameController, OutputIsInLimits DEF Output
<1>4. sum = Pid(c)!NextSum(Pid(c)!Raw(a, t), Pid(c)!Error(a, t), Pid(c)!Prior(a, t))
  BY SameController
<1>5. pid'[c] = [errorSum |-> sum, lastActual |-> a, firstRun |-> FALSE, lastOutput |-> out]
  BY <1>3, <1>4 DEF Remember
<1> HIDE DEF prior, raw, sum, out
<1>6. mix = out /\ mix \in Int
  BY <1>2, <1>3
<1>7. Ctl(c)!Divides(1, mix) /\ Ctl(c)!Exactly(mix, 1) = out
  BY <1>6, ExactByOne
<1>8. Limits(c)[2] - Limits(c)[1] # 0
  BY LimitsAreOrdered, ThreadedCarAssumption DEF Width
<1>9. /\ pid'[c].errorSum = sum /\ pid'[c].lastActual = a
      /\ pid'[c].firstRun = FALSE /\ pid'[c].lastOutput = out
  BY <1>5
<1> HIDE DEF mix
<1>10. /\ (Limits(c)[2] - Limits(c)[1] = 0 => Ctl(c)!Magnitude(sum) <= 0)
       /\ Ctl(c)!Divides(1, mix)
       /\ pid'[c].errorSum = sum
       /\ pid'[c].lastOutput = Ctl(c)!Exactly(mix, 1)
       /\ SetPoint(c)' = t /\ pid'[c].lastActual = a /\ pid'[c].firstRun = FALSE
       /\ Limits(c)' = Limits(c)
  BY <1>7, <1>8, <1>9 DEF SetPoint, Limits
<1> QED BY <1>10 DEF prior, raw, sum, out, mix, Ctl!getOutput, Ctl!gains, Ctl!limits, Ctl!tuning

\* The controllers of the car take no step that MiniPID does not.
THEOREM ControllersRunMiniPID ==
  ASSUME NEW c \in Controller
  PROVE  Spec => [][Ctl(c)!Next]_(Ctl(c)!vars)
<1>1. CarInv /\ [Next]_allVars => [Ctl(c)!Next]_(Ctl(c)!vars)
  <2> SUFFICES ASSUME CarInv, [Next]_allVars PROVE [Ctl(c)!Next]_(Ctl(c)!vars)
    OBVIOUS
  <2>1. /\ pid \in [Controller -> PidType] /\ direction = 3 * LIMIT
        /\ Whole(speed) \in Int /\ 3 * LIMIT \in Int
    BY WholeIsInt, ThreadedCarAssumption DEF CarInv, SensorInv
  <2>2. ASSUME NEW a \in Int, Ctl(c)!getOutput(a, SetPoint(c)) PROVE Ctl(c)!Next
    <3>1. SetPoint(c) \in Int
      BY ThreadedCarAssumption DEF SetPoint
    <3> QED BY <2>2, <3>1 DEF Ctl!Next
  <2>3. ASSUME pid'[c] = pid[c] PROVE UNCHANGED Ctl(c)!vars
    BY <2>3 DEF Ctl!vars, Ctl!gains, Ctl!limits, Ctl!tuning, Ctl!memory, SetPoint, Limits
  <2>4. CASE ThrottlePID
    <3>1. pid' = [pid EXCEPT !["throttle"] =
                    Remember("throttle", Whole(speed), SetPoint("throttle"))]
      BY <2>4 DEF ThrottlePID, SetPoint
    <3>2. CASE c = "throttle"
      BY <2>1, <2>2, <3>1, <3>2, CycleIsGetOutput
    <3>3. CASE c # "throttle"
      BY <2>1, <2>3, <3>1, <3>3
    <3> QED BY <3>2, <3>3
  <2>5. CASE ServoPID
    <3>1. pid' = [pid EXCEPT !["servo"] = Remember("servo", 3 * LIMIT, SetPoint("servo"))]
      BY <2>1, <2>5 DEF ServoPID, SetPoint
    <3>2. CASE c = "servo"
      BY <2>1, <2>2, <3>1, <3>2, CycleIsGetOutput
    <3>3. CASE c # "servo"
      BY <2>1, <2>3, <3>1, <3>3
    <3> QED BY <3>2, <3>3
  <2>6. ASSUME NEW t \in Thread, StartThread(t) PROVE pid' = pid
    BY <2>6 DEF StartThread
  <2>7. SpeedThread \/ UNCHANGED allVars => pid' = pid
    BY DEF SpeedThread, allVars, carVars
  <2> QED BY <2>3, <2>4, <2>5, <2>6, <2>7 DEF Next
<1> QED BY <1>1, CarInvariant, PTL DEF Spec
=============================================================================
