---------------------------- MODULE ThreadedCar ----------------------------
(***************************************************************************)
(* The threaded car: the speed thread, the throttle and the steering, each *)
(* with its controller, and the board they drive through Pca.  The camera  *)
(* thread shares nothing with them.                                        *)
(*                                                                         *)
(* The outputs of the controllers, 0..1 and -1..1, are integers in units   *)
(* of 1/LIMIT, pulses in units of 1/(2*LIMIT) ms.  The D gain is less than *)
(* a unit.  A call of the driver is one step: Pca9685 keeps the promise of *)
(* PwmBoard, and no duty here is off or full-on.                           *)
(***************************************************************************)
EXTENDS SpeedSensor

CONSTANTS
  LIMIT,
  GainP, GainI,   \* of both controllers, per unit of speed
  TargetSpeed

\* The P and the I term of the error of a car at rest are not full throttle.
ASSUME ThreadedCarAssumption ==
  /\ LIMIT \in Nat \ {0}
  /\ GainP \in Nat /\ GainI \in Nat \ {0} /\ TargetSpeed \in Nat
  /\ (GainP + GainI) * TargetSpeed < LIMIT

VARIABLES
  started,        \* the threads that Car::StartThread has started
  duty,           \* ticks of the two channels
  pid,            \* the memory of the controllers
  direction,      \* Car::direction
  exited          \* calcTicks or the sensor's constructor has ended the process

carVars == <<started, duty, pid, direction, exited>>
allVars == <<sensorVars, carVars>>

Controller == {"throttle", "servo"}
Thread     == Controller \union {"speed"}

\* Mutant: the limits of the throttle, taken for a pulse.
LimitsOfPulse(c) == IF c = "throttle" THEN <<-LIMIT, 2 * LIMIT>> ELSE <<-LIMIT, LIMIT>>

\* setOutputLimits of the constructors.
Limits(c) == IF c = "throttle" THEN <<0, LIMIT>> ELSE <<-LIMIT, LIMIT>>

Pid(c) == INSTANCE MiniPID WITH
  P <- GainP, I <- GainI, D <- 0, F <- 0,
  minOutput <- Limits(c)[1], maxOutput <- Limits(c)[2],
  maxIOutput <- Limits(c)[2] - Limits(c)[1],
  maxError <- (Limits(c)[2] - Limits(c)[1]) \div GainI,
  reversed <- FALSE, outputRampRate <- 0, outputFilter <- 0, setpointRange <- 0,
  errorSum <- pid[c].errorSum, setpoint <- 0,
  lastActual <- pid[c].lastActual, firstRun <- pid[c].firstRun,
  lastOutput <- pid[c].lastOutput, changes <- 0,
  Calls <- {}, Gain <- {}, GainI <- {}, Reading <- {}, Limit <- {}, Rate <- {}, Strength <- {},
  WHOLE <- 1, SumBound <- 0, MaxChanges <- 0

\* pid.getOutput(actual, target), without filter and ramp.
Output(c, actual, target) ==
  Pid(c)!Restricted(Pid(c)!Raw(actual, target), Pid(c)!Prior(actual, target))

\* Mutant: the sum goes on growing at the limit.
RememberWindsUp(c, actual, target) ==
  [errorSum |-> Pid(c)!clamp(pid[c].errorSum + target - actual, -Limits(c)[2], Limits(c)[2]),
   lastActual |-> actual, firstRun |-> FALSE, lastOutput |-> Output(c, actual, target)]

Remember(c, actual, target) ==
  [errorSum |-> Pid(c)!NextSum(Pid(c)!Raw(actual, target), Pid(c)!Error(actual, target),
                               Pid(c)!Prior(actual, target)),
   lastActual |-> actual, firstRun |-> FALSE, lastOutput |-> Output(c, actual, target)]

\* output/2 + 1.5
Impulse(output) == output + 3 * LIMIT

Allowed(impulse) == 2 * LIMIT <= impulse /\ impulse <= 4 * LIMIT

\* 4096 ticks in a cycle of 1/60 s: 245.76 in a millisecond.
calcTicks(impulse) == (24576 * impulse) \div (200 * LIMIT)

NEUTRAL == calcTicks(3 * LIMIT)

\* Pca::setSpeed and Pca::setDirect: calcTicks ends the process instead of
\* setting the channel.
SetPulse(c, impulse) ==
  IF Allowed(impulse)
    THEN duty' = [duty EXCEPT ![c] = calcTicks(impulse)] /\ UNCHANGED exited
    ELSE exited' = TRUE /\ UNCHANGED duty

-----------------------------------------------------------------------------
\* After Car::Init, which has made the parts and, in Pca::Pca, set both channels.
CarInit ==
  /\ started = {}
  /\ duty = [c \in Controller |-> NEUTRAL]
  /\ pid = [c \in Controller |-> [errorSum |-> 0, lastActual |-> 0,
                                  firstRun |-> TRUE, lastOutput |-> 0]]
  /\ direction = 3 * LIMIT
  /\ exited = FALSE

Init == SensorInit /\ CarInit

\* The parts are in an unordered map.  The main thread then prints the speed for
\* ever: Car::Car does not return, and main starts no thread a second time.
StartThread(t) ==
  /\ ~exited
  /\ t \notin started /\ started' = started \union {t}
  /\ UNCHANGED <<sensorVars, duty, pid, direction, exited>>

Running(t) == t \in started /\ ~exited

SpeedThread ==
  /\ Running("speed") /\ SpeedRun
  /\ exited' = (spc' = "exit")
  /\ UNCHANGED <<started, duty, pid, direction>>

\* One cycle.  The load of the speed may meet one half of a new value.
ThrottlePID ==
  /\ Running("throttle")
  /\ pid' = [pid EXCEPT !["throttle"] = Remember("throttle", Whole(speed), TargetSpeed)]
  /\ SetPulse("throttle", Impulse(Output("throttle", Whole(speed), TargetSpeed)))
  /\ UNCHANGED <<sensorVars, started, direction>>

\* Mutant: the output is fed back as it is.
ServoFeedsOutput ==
  /\ Running("servo")
  /\ LET output == Output("servo", direction, 3 * LIMIT)
     IN  /\ pid' = [pid EXCEPT !["servo"] = Remember("servo", direction, 3 * LIMIT)]
         /\ SetPulse("servo", Impulse(output))
         /\ direction' = output
  /\ UNCHANGED <<sensorVars, started>>

\* What was put out is taken for the direction of the next cycle; nobody writes
\* target_direction, which is 1.5.
ServoPID ==
  /\ Running("servo")
  /\ LET output == Output("servo", direction, 3 * LIMIT)
     IN  /\ pid' = [pid EXCEPT !["servo"] = Remember("servo", direction, 3 * LIMIT)]
         /\ SetPulse("servo", Impulse(output))
         /\ direction' = IF exited' THEN direction ELSE Impulse(output)
  /\ UNCHANGED <<sensorVars, started>>

Next ==
  \/ \E t \in Thread : StartThread(t)
  \/ SpeedThread \/ ThrottlePID \/ ServoPID

\* Every thread is scheduled, and the speed thread does not miss the 2.5 ms
\* between its readings for ever.
Fairness ==
  /\ WF_allVars(StartThread("speed"))
  /\ WF_allVars(SpeedThread)
  /\ SF_allVars(SpeedThread /\ SecondRead(FALSE))

Spec == Init /\ [][Next]_allVars /\ Fairness

-----------------------------------------------------------------------------
(* Properties. *)

\* The sensor's types, and numbers in the controllers.
TypeOK ==
  /\ SensorTypeOK
  /\ started \subseteq Thread /\ exited \in BOOLEAN
  /\ duty \in [Controller -> Nat] /\ direction \in Int
  /\ pid \in [Controller -> [errorSum : Int, lastActual : Int,
                             firstRun : BOOLEAN, lastOutput : Int]]

\* Whatever the speed thread publishes, and whatever mixture of two values is
\* read, no pulse ends the process, only a sensor that cannot be opened does,
\* perhaps while the motor is driven: all pulses are between 1 and 2 ms, the
\* throttle never reverses, and no duty is full-on or off.
NeverExits ==
  /\ exited => spc = "exit"
  /\ \A c \in Controller : calcTicks(2 * LIMIT) <= duty[c] /\ duty[c] <= calcTicks(4 * LIMIT)
  /\ NEUTRAL <= duty["throttle"]

\* The wheels stay straight: the direction that is fed back is always the target.
Straight == duty["servo"] = NEUTRAL /\ direction = 3 * LIMIT

\* Full throttle is given up after one cycle, though the car be at rest: at the
\* limit the error sum becomes the last error, which two gains do not make full.
ThrottleFallsBack ==
  [][/\ pid["throttle"].lastOutput = LIMIT /\ pid["throttle"].lastActual >= 0
     /\ pid' # pid /\ pid'["throttle"].lastActual >= 0 /\ pid'["servo"] = pid["servo"]
     => pid'["throttle"].lastOutput < LIMIT]_allVars

\* Speeds keep coming, however many samples are repeated, unless there is no
\* sensor to open and the process ends.
SpeedKeepsComing == []<>(spc \in {"rest", "exit"})
=============================================================================
