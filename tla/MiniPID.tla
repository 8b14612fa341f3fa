------------------------------ MODULE MiniPID ------------------------------
(***************************************************************************)
(* The PID controller of the steering and of the throttle.  Its client     *)
(* sets it up, changes its gains while it runs, and calls getOutput once   *)
(* per cycle.                                                              *)
(*                                                                         *)
(* The doubles are integers here, in units the inputs are multiples of,    *)
(* and a step that divides is taken only where the quotient is exact: each *)
(* behaviour is one of the program, with arguments chosen to be round.  A  *)
(* division by zero, after which the state holds no numbers, is not taken. *)
(***************************************************************************)
EXTENDS Integers

CONSTANTS
  Calls,     \* the methods the client calls
  Gain,      \* the gains P, D and F it passes, to constructor and setters
  GainI,     \* the gains I
  Reading,   \* actual values and set points
  Limit,     \* output limits and bounds of the I term
  Rate,      \* ramp rates and set-point ranges; 0 switches them off
  Strength,  \* output filters, in parts of WHOLE
  WHOLE,
  SumBound,  \* bound on the error sum, where the code has none
  MaxChanges \* bound on the calls of setters and of reset

ASSUME MiniPIDAssumption ==
  /\ Gain \subseteq Int /\ GainI \subseteq Int
  /\ Reading \subseteq Int /\ Limit \subseteq Int
  /\ Rate \subseteq Nat
  /\ WHOLE \in Nat \ {0} /\ Strength \subseteq 0 .. WHOLE - 1
  /\ SumBound \in Nat /\ MaxChanges \in Nat

VARIABLES
  P, I, D, F,
  maxIOutput, maxError, maxOutput, minOutput,
  reversed, outputRampRate, outputFilter, setpointRange,
  errorSum, setpoint, lastActual, firstRun, lastOutput,
  changes    \* calls of setters and of reset so far

gains  == <<P, I, D, F>>
limits == <<maxIOutput, maxError, maxOutput, minOutput>>
tuning == <<reversed, outputRampRate, outputFilter, setpointRange>>
memory == <<setpoint, lastActual, firstRun, lastOutput>>
vars   == <<gains, limits, tuning, memory, errorSum, changes>>

-----------------------------------------------------------------------------
clamp(value, min, max) ==
  IF value > max THEN max ELSE IF value < min THEN min ELSE value

\* Strict at both ends, whatever its comment says.
bounded(value, min, max) == min < value /\ value < max

Magnitude(x) == IF x < 0 THEN -x ELSE x

Divides(b, a) == b # 0 /\ Magnitude(a) % Magnitude(b) = 0
Exactly(a, b) == IF (a < 0) = (b < 0) THEN Magnitude(a) \div Magnitude(b)
                                      ELSE -(Magnitude(a) \div Magnitude(b))

\* What checkSigns makes of a gain.
Directed(x) == IF reversed THEN -Magnitude(x) ELSE Magnitude(x)

\* The constructors do not call checkSigns.
Init ==
  /\ P \in Gain /\ I \in GainI /\ D \in Gain /\ F \in {0} \union Gain
  /\ maxIOutput = 0 /\ maxError = 0 /\ maxOutput = 0 /\ minOutput = 0
  /\ reversed = FALSE
  /\ outputRampRate = 0 /\ outputFilter = 0 /\ setpointRange = 0
  /\ errorSum = 0 /\ setpoint = 0 /\ lastActual = 0
  /\ firstRun = TRUE /\ lastOutput = 0
  /\ changes = 0

-----------------------------------------------------------------------------
(* Configuration. *)

setGains(p, i, d, f) ==
  P' = Directed(p) /\ I' = Directed(i) /\ D' = Directed(d) /\ F' = Directed(f)

setP(p) ==
  setGains(p, I, D, F) /\ UNCHANGED <<limits, tuning, memory, errorSum>>

setD(d) ==
  setGains(P, I, d, F) /\ UNCHANGED <<limits, tuning, memory, errorSum>>

setF(f) ==
  setGains(P, I, D, f) /\ UNCHANGED <<limits, tuning, memory, errorSum>>

\* Mutant: the accumulated error is not scaled.
setIUnscaled(i) ==
  /\ I # 0 => Divides(i, errorSum * I)
  /\ maxIOutput # 0 => Divides(i, maxIOutput)
  /\ maxError' = IF maxIOutput # 0 THEN Exactly(maxIOutput, i) ELSE maxError
  /\ setGains(P, i, D, F)
  /\ UNCHANGED <<maxIOutput, maxOutput, minOutput, tuning, memory, errorSum>>

\* The accumulated error is scaled so that the I term stays as it is.
setI(i) ==
  /\ I # 0 => Divides(i, errorSum * I)
  /\ maxIOutput # 0 => Divides(i, maxIOutput)
  /\ errorSum' = IF I # 0 THEN Exactly(errorSum * I, i) ELSE errorSum
  /\ maxError' = IF maxIOutput # 0 THEN Exactly(maxIOutput, i) ELSE maxError
  /\ setGains(P, i, D, F)
  /\ UNCHANGED <<maxIOutput, maxOutput, minOutput, tuning, memory>>

\* Both overloads of setPID: neither scales errorSum nor renews maxError.
setPID(p, i, d, f) ==
  setGains(p, i, d, f) /\ UNCHANGED <<limits, tuning, memory, errorSum>>

BoundITerm(maximum) ==
  /\ maxIOutput' = maximum
  /\ I # 0 => Divides(I, maximum)
  /\ maxError' = IF I # 0 THEN Exactly(maximum, I) ELSE maxError

setMaxIOutput(maximum) ==
  /\ BoundITerm(maximum)
  /\ UNCHANGED <<gains, maxOutput, minOutput, tuning, memory, errorSum>>

\* Mutant: limits in the wrong order are taken.
setOutputLimitsUnordered(minimum, maximum) ==
  /\ maxOutput' = maximum /\ minOutput' = minimum
  /\ IF maxIOutput = 0 \/ maxIOutput > maximum - minimum
       THEN BoundITerm(maximum - minimum)
       ELSE UNCHANGED <<maxIOutput, maxError>>
  /\ UNCHANGED <<gains, tuning, memory, errorSum>>

\* Mutant: the bound of the I term is stored and maxError forgotten.
setOutputLimitsAlone(minimum, maximum) ==
  /\ minimum <= maximum
  /\ maxOutput' = maximum /\ minOutput' = minimum
  /\ maxIOutput' = IF maxIOutput = 0 \/ maxIOutput > maximum - minimum
                     THEN maximum - minimum ELSE maxIOutput
  /\ UNCHANGED <<gains, maxError, tuning, memory, errorSum>>

\* Limits in the wrong order are ignored.
setOutputLimits(minimum, maximum) ==
  /\ minimum <= maximum
  /\ maxOutput' = maximum /\ minOutput' = minimum
  /\ IF maxIOutput = 0 \/ maxIOutput > maximum - minimum
       THEN BoundITerm(maximum - minimum)
       ELSE UNCHANGED <<maxIOutput, maxError>>
  /\ UNCHANGED <<gains, tuning, memory, errorSum>>

\* The signs of the gains are left as they are until the next setter.
setDirection(r) ==
  /\ reversed' = r
  /\ UNCHANGED <<gains, limits, outputRampRate, outputFilter, setpointRange,
                 memory, errorSum>>

setSetpoint(s) ==
  /\ setpoint' = s
  /\ UNCHANGED <<gains, limits, tuning, lastActual, firstRun, lastOutput,
                 errorSum>>

setOutputRampRate(rate) ==
  /\ outputRampRate' = rate
  /\ UNCHANGED <<gains, limits, reversed, outputFilter, setpointRange, memory,
                 errorSum>>

setSetpointRange(range) ==
  /\ setpointRange' = range
  /\ UNCHANGED <<gains, limits, reversed, outputRampRate, outputFilter, memory,
                 errorSum>>

setOutputFilter(strength) ==
  /\ outputFilter' = strength
  /\ UNCHANGED <<gains, limits, reversed, outputRampRate, setpointRange, memory,
                 errorSum>>

reset ==
  /\ firstRun' = TRUE /\ errorSum' = 0
  /\ UNCHANGED <<gains, limits, tuning, setpoint, lastActual, lastOutput>>

-----------------------------------------------------------------------------
(* One cycle. *)

\* The set point the calculation uses: no further from actual than the range.
Target(actual, s) ==
  IF setpointRange # 0
    THEN clamp(s, actual - setpointRange, actual + setpointRange) ELSE s

Error(actual, s) == Target(actual, s) - actual

\* The output before this one; on the first run it is made up, unrestricted.
Prior(actual, s) ==
  IF firstRun THEN P * Error(actual, s) + F * Target(actual, s) ELSE lastOutput

ITerm == IF maxIOutput # 0 THEN clamp(I * errorSum, -maxIOutput, maxIOutput)
                           ELSE I * errorSum

Raw(actual, s) ==
  F * Target(actual, s) + P * Error(actual, s) + ITerm
    - (IF firstRun THEN 0 ELSE D * (actual - lastActual))

\* Mutant: the sum is bounded through the I term alone.
SumUnclamped(raw, error, prior) ==
  CASE minOutput # maxOutput /\ ~bounded(raw, minOutput, maxOutput) -> error
    [] OTHER -> errorSum + error

\* The error sum starts anew at a limit or at the end of the ramp, is kept
\* within maxError if the I term is bounded, and is free otherwise.
NextSum(raw, error, prior) ==
  CASE minOutput # maxOutput /\ ~bounded(raw, minOutput, maxOutput) -> error
    [] /\ minOutput # maxOutput => bounded(raw, minOutput, maxOutput)
       /\ outputRampRate # 0
       /\ ~bounded(raw, prior - outputRampRate, prior + outputRampRate) -> error
    [] OTHER -> IF maxIOutput # 0
                  THEN clamp(errorSum + error, -maxError, maxError)
                  ELSE errorSum + error

Ramped(out, prior) ==
  IF outputRampRate # 0
    THEN clamp(out, prior - outputRampRate, prior + outputRampRate) ELSE out

Limited(out) ==
  IF minOutput # maxOutput THEN clamp(out, minOutput, maxOutput) ELSE out

\* Mutant: the limits are applied before the ramp.
LimitedThenRamped(raw, prior) == Ramped(Limited(raw), prior)

Restricted(raw, prior) == Limited(Ramped(raw, prior))

\* getOutput(actual, s); the shorter forms pass lastActual and setpoint.
getOutput(actual, s) ==
  LET prior == Prior(actual, s)
      raw   == Raw(actual, s)
      sum   == NextSum(raw, Error(actual, s), prior)
      mix   == prior * outputFilter + Restricted(raw, prior) * (WHOLE - outputFilter)
  IN  /\ maxIOutput = 0 => Magnitude(sum) <= SumBound
      /\ Divides(WHOLE, mix)
      /\ errorSum' = sum
      /\ lastOutput' = Exactly(mix, WHOLE)
      /\ setpoint' = s /\ lastActual' = actual /\ firstRun' = FALSE
      /\ UNCHANGED <<gains, limits, tuning>>

Change ==
  \/ \E g \in Gain : \/ "setP" \in Calls /\ setP(g)
                     \/ "setD" \in Calls /\ setD(g)
                     \/ "setF" \in Calls /\ setF(g)
  \/ "setI" \in Calls /\ \E i \in GainI : setI(i)
  \/ /\ "setPID" \in Calls
     /\ \E p, d \in Gain, i \in GainI, f \in {F} \union Gain : setPID(p, i, d, f)
  \/ "setMaxIOutput" \in Calls /\ \E m \in Limit : setMaxIOutput(m)
  \/ "setOutputLimits" \in Calls /\ \E lo, hi \in Limit : setOutputLimits(lo, hi)
  \/ "setDirection" \in Calls /\ \E r \in BOOLEAN : setDirection(r)
  \/ "setSetpoint" \in Calls /\ \E s \in Reading : setSetpoint(s)
  \/ "setOutputRampRate" \in Calls /\ \E r \in Rate : setOutputRampRate(r)
  \/ "setSetpointRange" \in Calls /\ \E r \in Rate : setSetpointRange(r)
  \/ "setOutputFilter" \in Calls /\ \E k \in Strength : setOutputFilter(k)
  \/ "reset" \in Calls /\ reset

Next ==
  \/ changes < MaxChanges /\ changes' = changes + 1 /\ Change
  \/ UNCHANGED changes /\ \E a, s \in Reading : getOutput(a, s)

Spec == Init /\ [][Next]_vars

-----------------------------------------------------------------------------
(* Properties. *)

\* A step that is a call of getOutput.
Cycle == getOutput(lastActual', setpoint')

\* The state holds numbers, and the switches are Booleans.
TypeOK ==
  /\ P \in Int /\ I \in Int /\ D \in Int /\ F \in Int
  /\ maxIOutput \in Int /\ maxError \in Int
  /\ minOutput <= maxOutput
  /\ reversed \in BOOLEAN /\ firstRun \in BOOLEAN
  /\ outputRampRate \in Nat /\ setpointRange \in Nat
  /\ outputFilter \in 0 .. WHOLE - 1
  /\ errorSum \in Int /\ lastOutput \in Int
  /\ setpoint \in Reading \union {0} /\ lastActual \in Reading \union {0}
  /\ changes \in 0 .. MaxChanges

\* maxError is the bound of the I term in units of the error ...
MaxErrorMatches == I # 0 /\ maxIOutput # 0 => I * maxError = maxIOutput

\* ... and stays so, whichever of the gain, the bound and the output limits is
\* set first or last, as long as I is changed by setI.  Not so in the reversed
\* direction, where setI divides by the gain before checkSigns turns its sign.
MaxErrorKept ==
  [][~reversed /\ MaxErrorMatches /\ (I' = I \/ setI(I')) => MaxErrorMatches']_vars

\* The bound of the I term is not negative.
PositiveBound == maxIOutput \in Nat

\* A change of I through setI does not jump the output: the I term is kept, its
\* bound and the checking of the signs included.  Not so in the reversed
\* direction, whatever the comment on setI says: there the I term changes its
\* sign, as setI scales the sum by the gain as it is given.
SmoothGain ==
  [][I # 0 /\ (\E i \in GainI : setI(i))
       => IF reversed THEN PositiveBound => ITerm' = -ITerm
                      ELSE ITerm' = ITerm]_vars

\* No windup: while maxError matches, the I term after a cycle is within its
\* bound, or stands for the error of that cycle alone.
NoWindup ==
  [][Cycle /\ maxIOutput # 0 /\ MaxErrorMatches
       => \/ Magnitude(I * errorSum') <= maxIOutput
          \/ errorSum' = Error(lastActual', setpoint')]_vars

\* Without a filter an output is within the limits; with one it is if the one
\* before it was, and then the ramp is respected too, limits or not.
OutputRestricted ==
  [][Cycle /\ minOutput # maxOutput =>
       LET inside(x) == minOutput <= x /\ x <= maxOutput
           prior     == Prior(lastActual', setpoint')
       IN  /\ outputFilter = 0 \/ inside(prior) => inside(lastOutput')
           /\ inside(prior) /\ outputRampRate # 0
                => Magnitude(lastOutput' - prior) <= outputRampRate]_vars

-----------------------------------------------------------------------------
(* What a comment says and this code does not do. *)

\* setI, "output+=previous_errors*Igain ;previous_errors+=current_error", short
\* of the limits and of the bound of the I term.
ErrorsAccumulate ==
  [][LET raw   == Raw(lastActual', setpoint')
         error == Error(lastActual', setpoint')
     IN  /\ Cycle /\ outputRampRate = 0 /\ I # 0
         /\ minOutput # maxOutput => bounded(raw, minOutput, maxOutput)
         /\ Magnitude(I * (errorSum + error)) <= maxIOutput
         => errorSum' = errorSum + error]_vars
=============================================================================
