---------------------------- MODULE SpeedSensor ----------------------------
(***************************************************************************)
(* The speed thread and the angle sensor it reads over SPI.  A sample is   *)
(* two readings of the angle; a speed is published after SAMPLES of them.  *)
(* The wheel turns freely between samples, and by one of Turn between the  *)
(* readings of one.  A frame may be garbled: its data are wrong, and the   *)
(* sensor's error flag is raised until somebody clears it.                 *)
(*                                                                         *)
(* The unit of speed is one step of the angle per sample.  An accepted     *)
(* sample takes between 1.1 and 2.5 ms, here the same time as any other.   *)
(***************************************************************************)
EXTENDS Integers

CONSTANTS
  FULL,     \* angles of a turn: 16384
  RES,      \* angles that the mask of Read does not tell apart: 32
  CORR,     \* what the code takes a turn for: 16383
  THRESH,   \* differences beyond it are taken for a wrap: 10467
  SAMPLES,  \* samples per speed: 8
  Turn,     \* by how much the wheel turns within a sample
  Garbled   \* what garbled frames read as, before the mask

Magnitude(x) == IF x < 0 THEN -x ELSE x

\* A sample turns the wheel by less than 0.36 of a turn, which leaves the two
\* sides of the threshold apart.
ASSUME SpeedSensorAssumption ==
  /\ FULL \in Nat \ {0} /\ RES \in Nat \ {0} /\ FULL % RES = 0
  /\ CORR = FULL - 1 /\ THRESH \in Nat /\ SAMPLES \in Nat \ {0}
  /\ Turn \subseteq Int /\ Garbled \subseteq Nat
  /\ \A t \in Turn : /\ Magnitude(t) + RES <= THRESH
                     /\ Magnitude(t) + RES + THRESH <= FULL

VARIABLES
  spc,               \* control point of the thread
  result1,           \* the first reading of a sample
  difference_total,
  done,              \* samples accepted so far
  speed,             \* Car::speed, a double that is stored in two halves
  angle,             \* of the wheel at the first reading
  turned,            \* history: by how much the wheel turned in the samples accepted,
                     \* while the error flag is down
  ef                 \* the sensor's error flag

sensorVars == <<spc, result1, difference_total, done, speed, angle, turned, ef>>

Masked(a) == a - (a % RES)
Readings  == {Masked(a) : a \in 0 .. FULL - 1} \union {Masked(g) : g \in Garbled}

\* difference_total / CORR / time_total, cut to an integer towards zero.
SpeedOf(total) == IF total < 0 THEN -((-total) \div SAMPLES) ELSE total \div SAMPLES

Halves(v) == [high |-> v \div 2, low |-> v % 2]
Whole(d)  == 2 * d.high + d.low

SensorInit ==
  /\ spc = "open"
  /\ result1 = 0 /\ difference_total = 0 /\ done = 0
  /\ speed = Halves(0)
  /\ angle = 0 /\ turned = 0
  /\ ef \in BOOLEAN

\* Mutant: an error is an answer of its own, as the callers have it.
ReadTellsErrors(a, answer) ==
  \/ answer = Masked(a) /\ UNCHANGED ef
  \/ answer = -1 /\ ef' = TRUE

\* Two frames, a command and one that fetches the answer; As5048a::Read masks
\* the error flag and the low bits.
Read(a, answer) ==
  \/ answer = Masked(a) /\ UNCHANGED ef
  \/ answer \in {Masked(g) : g \in Garbled} /\ ef' = TRUE

\* The constructor of As5048a: without the SPI bus it ends the whole process.
OpenSensor ==
  /\ spc = "open" /\ spc' \in {"clear", "exit"}
  /\ UNCHANGED <<result1, difference_total, done, speed, angle, turned, ef>>

\* Before the loop, and instead of publishing if an answer of the last sample
\* was -1.
ClearError ==
  /\ spc = "clear" /\ spc' = "first"
  /\ ef' \in BOOLEAN
  /\ difference_total' = 0 /\ done' = 0 /\ turned' = 0
  /\ UNCHANGED <<result1, speed, angle>>

FirstRead ==
  /\ spc = "first" /\ spc' = "second"
  /\ angle' \in 0 .. FULL - 1
  /\ \E answer \in Readings \union {-1} : Read(angle', answer) /\ result1' = answer
  /\ UNCHANGED <<difference_total, done, speed, turned>>

\* Mutant: the other direction of a wrap is forgotten.
CorrectedOneWay(difference) ==
  IF difference < -THRESH THEN difference + CORR ELSE difference

Corrected(difference) ==
  IF difference < -THRESH THEN difference + CORR
  ELSE IF difference > THRESH THEN difference - CORR
  ELSE difference

\* Mutant: a rejected sample starts the measurement anew.
RejectAndRestart ==
  /\ spc' = "first" /\ done' = 0 /\ difference_total' = 0 /\ turned' = 0

Reject == spc' = "first" /\ UNCHANGED <<done, difference_total, turned>>

Accept(result2, turn) ==
  /\ difference_total' = difference_total + Corrected((result2 - result1) * (-1))
  /\ turned' = IF ef' THEN 0 ELSE turned + turn
  /\ done' = done + 1
  /\ spc' = IF done' < SAMPLES THEN "first"
            ELSE IF result1 = -1 \/ result2 = -1 THEN "clear" ELSE "store"

\* A sample is repeated if it took more than 2.5 ms or an answer is negative.
\* What was read is not used again.
SecondRead(late) ==
  /\ spc = "second"
  /\ \E turn \in Turn, answer \in Readings \union {-1} :
       /\ Read((angle + turn) % FULL, answer)
       /\ IF result1 < 0 \/ answer < 0 \/ late THEN Reject ELSE Accept(answer, turn)
  /\ result1' = 0 /\ angle' = 0
  /\ UNCHANGED speed

\* The two halves of the double are stored in some order, each readable by then.
StoreHalf(half) ==
  /\ spc = "store" /\ spc' = "rest"
  /\ speed' = [speed EXCEPT ![half] = Halves(SpeedOf(difference_total))[half]]
  /\ UNCHANGED <<result1, difference_total, done, angle, turned, ef>>

\* Mutant: the error is cleared after every speed.
StoreRestAndClear ==
  /\ spc = "rest" /\ spc' = "clear"
  /\ speed' = Halves(SpeedOf(difference_total))
  /\ UNCHANGED <<result1, difference_total, done, angle, turned, ef>>

StoreRest ==
  /\ spc = "rest" /\ spc' = "first"
  /\ speed' = Halves(SpeedOf(difference_total))
  /\ difference_total' = 0 /\ done' = 0 /\ turned' = 0
  /\ UNCHANGED <<result1, angle, ef>>

SpeedRun ==
  \/ OpenSensor \/ ClearError \/ FirstRead
  \/ \E late \in BOOLEAN : SecondRead(late)
  \/ \E half \in {"high", "low"} : StoreHalf(half)
  \/ StoreRest

SensorSpec == SensorInit /\ [][SpeedRun]_sensorVars

-----------------------------------------------------------------------------
(* Properties. *)

\* Answers are masked, counts within the loop's bound.
SensorTypeOK ==
  /\ spc \in {"open", "clear", "first", "second", "store", "rest", "exit"}
  /\ result1 \in Readings /\ angle \in 0 .. FULL - 1
  /\ difference_total \in Int /\ turned \in Int
  /\ done \in 0 .. SAMPLES
  /\ speed \in [high : Int, low : 0 .. 1]
  /\ ef \in BOOLEAN

\* What is summed up is the rotation of the wheel, across the wraps, within the
\* resolution of one reading per sample, unless the error flag is up.
Accurate ==
  ~ef => Magnitude(difference_total + turned) <= done * RES

\* Once the loop runs nobody lowers the error flag: the thread goes on
\* publishing speeds computed from data that may be wrong.
ErrorStays ==
  [][ef /\ spc \notin {"open", "clear"} => ef' /\ spc' # "clear"]_sensorVars
=============================================================================
