# vehicle-c: a verification project

`vehicle-c` drives a model car with a Raspberry Pi: a camera looks for lane
lines, an AS5048A angle sensor measures speed, PID controllers steer and set the
throttle through a PCA9685 PWM board.  The repository holds three generations of
the program:

| directory | what it is |
|---|---|
| `src/` | the threaded car: one thread per part, one shared `Car` object |
| `src/recovery/` | the car as processes: one process per part, a POSIX shared memory object, a remote control over TCP |
| `src/recoverybase/` | a simulation of recovery: the parts only burn time, the car checkpoints them with CRIU, kills them once and restores them |

The last one carries the project's own distributed logic (flags, hand-over,
checkpoints, a fault, retries, restarts), so it is modelled first.

## Inventory

**Checkpoint manager and parts** (`recoverybase/src/car.cpp`, `part.cpp`,
`camera.cpp`, `speed.cpp`, `servoPID.cpp`, `share.h`).  State: the shared
`State` (`times`, `is_new_data[]`, `stage[]`, `need_compulsive_checkpoint[]`,
average cycle times, times of the last unit checkpoints), the car's pid table
and `faluted` flag, the parts' private state, the CRIU images in
`./checkpoint/<pid>`.  Operations: the car forks the parts, resets the flags and
loops over unit checkpoints, compulsive checkpoints and the fault test; a fault
kills all parts, clears the data flags and restores each part with up to eleven
attempts.  A part runs three slots per iteration; in one of them it waits for
its source's data flag and raises its own; after every slot it asks for a
checkpoint and busy-waits for the answer.  Interaction: plain loads and stores
of shared memory, signals, and CRIU.  Hard: every flag is tested and cleared in
two steps by two processes; the reset runs after the fork; forks, dumps and
restores fail; the manager may leave while parts wait.  Correct when: a request
means a part that stands still, a saved image is the state the part is released
in, no part runs twice on one publication, the cycle counter neither loses
counts nor runs away, every request is answered, and the run ends.

**Shared State object** (`share.cpp` of both process programs, `build/run.sh`).
State: the name, the object and its size, each process's mapping.  Operations:
unlink, create, size, map by the car; open, stat, map by the parts; the next run
after a `kill -9` of what is left over.  Correct when no access falls outside
the object and no part works on the State of another run.

**Cycle times** (`UpdateAverageCycleTime`, `diffus`, `CheckUnitCheckpoint`).
State: an average and a time stamp per part.  Hard: `suseconds_t` is 32 bits
wide on the target, and `1000000 * tv_sec` overflows it; recovery's version
subtracts `tv_usec` fields alone.  Correct when the average stays within the
range of its samples and an elapsed interval is seen as elapsed.

**Recovery car** (`recovery/src/car.cpp`, `part.cpp`, parts).  As above, but the
manager only sleeps: nobody answers the parts' requests.  The remote gains are
applied when a data flag is raised that nobody raises.  None of this is reached
in the committed program, whose parts die when they first touch the `State`.

**Remote control** (`recovery/src/remote.cpp`).  State: listening and client
sockets, a 1024-byte buffer, the time of the next report.  Hard: stream framing,
end of file, pacing against a clock.  Correct when each command sent is applied
once and in order, and reports are paced.

**Threaded car** (`car.cpp`, `part.cpp`, `servoPID.cpp`, `throttlePID.cpp`,
`camera.cpp`, `speed.cpp`).  State: the doubles of `Car`, each controller.
Four threads run, three of them share the doubles without synchronisation: the
speed is a double that the processor of the target may store in two halves.
Correct when every pulse sent to the board is inside what `Pca::calcTicks`
accepts, since it ends the process otherwise, and leaves the board driving.

**PCA9685 driver** (`pca9685.c`, `pca.cpp`).  State: the chip's registers, MODE1
among them, which outlive the program.  Two threads write two channels in two
transactions each, and the full-on and full-off bits are read, changed and
written back.  Hard: what a channel shows between two transactions; the board of
a program that has crashed, asleep or awake, in any mode.  Correct when a channel
shows what was last asked for it, on the way there nothing that is more, and when
the board runs at its frequency after every setup.

**MiniPID** (`MiniPID.cpp`).  State: gains, limits, error sum, last output.
Correct when the output stays in its limits, the error sum stays within what
the limits imply, and a change of gains does not jump the output.

**Speed measurement** (`speed.cpp`, `as5048a.cpp`).  State: the readings and
differences of eight samples, the sensor's error flag.  Hard: differences across
the wrap of the angle, answers whose flag bits are masked, a loop that repeats a
sample without a bound.  Correct when the sum of the differences is the rotation
of the wheel, when an error is noticed, and when speeds keep coming.

**Camera** (`camera.cpp`, `image.cpp`).  Lane search by sliding windows over a
binary image, then curve fitting in floating point.  State: the bases of the two
lanes, those of the next frame, sums that begin at -1.  Hard: the windows index
the image without a test, and each frame depends on the one before.  Correct when
no window leaves the rows of the image and the lanes keep their order.

**External or vendored**: `bcm2835`, `raspicam`, OpenCV, CRIU, `PARTS_TEST`,
`TEST_CODES`, `opencv example`.

`PROJECT.json` lists these components with their sources and status, and the
hazards of the code at the lines where they bite.

## Plan

In order of importance, each with the modules it composes.  A run of this project
is one question and takes minutes, so composed modules are run composed, not part
by part.

1. `CheckpointHandshake`: what the request flags promise, abstractly.
2. `CarCheckpoint`: the manager and the parts; implements 1.  Proofs in
   `CarCheckpoint_proofs`.
3. `SharedState`: the life of the shared memory object in both process programs.
   Proofs in `SharedState_proofs`.
4. `CycleTime`: `diffus`, the running average and the interval test with integers
   that wrap.  Proofs in `CycleTime_proofs`.
5. `MiniPID`: the controller on round integers.  Proofs in `MiniPID_proofs`.
6. `PwmBoard`: what the board's driver promises, abstractly; `Pca9685`: the driver
   on the registers, transaction by transaction, which implements it.  Proofs in
   `Pca9685_proofs`.
7. `SpeedSensor`, and `ThreadedCar`, which composes it with two instances of
   `MiniPID` and the pulses of the board.  Proofs in `ThreadedCar_proofs`.
8. `LaneWindows`: the columns of the sliding windows.  Proofs in
   `LaneWindows_proofs`.

All of these exist.  Two modules that were planned for `recovery/`, its parts and
its remote control, are not written: run `shared_recovery` shows that no part
lives to execute the code they would model (see Not modelled).

## The modules

### CarCheckpoint

One action is one access to the shared `State` by one process, since the
processes share nothing else and the build is not optimised.  `times += 1` is
therefore `Run` (the load, into `part[p].reg`) and `StoreTimes`; the test and
the clear of a data flag are `WaitNeededNewData` and `ClearNewData`; asking and
being released are `SetCompulsiveCheckpoint` and `WaitCompulsiveCheckpoint`.  A
failed test of a busy-wait changes nothing and is not a step.

| state | code |
|---|---|
| `times`, `isNew`, `stage`, `need` | `State::times`, `is_new_data`, `stage`, `need_compulsive_checkpoint` |
| `mpc`, `cur`, `todo`, `tries`, `faulted` | the car's control point, its loop index, the rest of its range-for, `count` of `RestoreState`, `faluted` |
| `status`, `part` | each process and its private state: slot, control point, register |
| `image` | `./checkpoint/<pid>`: a part's private state when it was dumped, or `NoImage` |
| `fresh` | a history variable, not in the code: has the source published since the part last consumed? |

The parts are numbered as in `PartType`; part `i` runs its synchronised slot as
its `i+1`st, consumes the flag of part `i-1` and raises its own.  `RunALL`'s
switch is thus one definition, `SyncSlot`, and the rest follows the code's
order.

`stage` is an array of `bool` in the code, so `AdvanceStage` stores through
`ToBool`: `(1 + 1) % 3` becomes 1.  That is what the program does, and it decides
which images are ever written.

An image holds private state only: the `State` is a file-backed shared mapping,
which CRIU does not dump.  A dump of a process that has exited or was never
forked fails; one of a running process may fail if `DumpMayFail`.  A failed dump
leaves the old image or an unusable one.  A restore fails without an image and
may fail with one.  `SimulateFault` with a part that was never forked is
`kill(-1, SIGINT)` and takes down every running part.

Two abstractions.  Whether the interval of a unit checkpoint has elapsed is a
free choice at each test (`CycleTime` will compute it).  The shared doubles are
left out: the parts of this program do not use them.

### CheckpointHandshake

The promise behind the flags: a part asks and stands still until the manager
answers; it leaves on its own only between requests; a signal takes down any set
of parts; the manager may leave.  `CarCheckpoint` implements it with the mapping
`Phase`: "requested" is a running part in its busy-wait with its flag up,
"granted" the same with the flag down.  The reset of the flags after the fork is
then a grant, and the kill is `Kill`.

### SharedState

One process per run and part; objects are named by the run that created them, so
that an unlinked object that is still mapped keeps its identity.  `full` holds
the objects that have their size.  `Program` chooses between the two programs:
in `recovery/` the parts open the object with `O_TRUNC`, the car does not touch
it after `InitState`, and there is no `run.sh`.  A crash is an access outside the
mapping or beyond the end of the object.  Exits by a fault are not told apart
from those of the parts' own loop.

`shm_open`, `ftruncate` and `fork` may fail, and only `fork` is looked at: its part
is `unforked`.  A process whose `shm_open` has failed opens `NoObject`, whose size is
never right, and dies of the mapping; `failed`, a history variable, holds the runs
whose car has met a failure.  `NoBusError` therefore says who may die: a car only in
a run in `failed`, a part only with `NoObject`.  `mmap` of an object that has a size
is taken to succeed.

### CycleTime

One part and the car against a true clock `now`.  `Micros` is
`1000000 * tv_sec + tv_usec` in the width of `suseconds_t`, `diffus` the absolute
difference computed from two of them, `Quotient` C's division, which truncates.
`EndCycle` and `UpdateAverageCycleTime` are the end of an iteration of `RunALL`,
`ReadClock` and `CheckUnitCheckpoint` the function of that name, which reads the
clock once before it saves anybody.  The parts are independent here, so one
stands for each.  Signed overflow is undefined in C++; the build does not
optimise, and the value wraps.

### MiniPID

One action per method; `getOutput` is one action built of an operator per stage:
`Target`, `Error`, `Prior` (the output before, made up on the first run), `ITerm`,
`Raw`, `NextSum`, `Restricted`, and the filter.  Doubles are integers in round
units, and a step that divides is taken only when the quotient is exact, so each
behaviour of the model is one of the program; rounding and `setI(0)`, after which
the sums are infinite or NaN, are left out.  `Calls` names the methods a client
uses.  `setI` divides by the gain it is given before `checkSigns` turns its sign, so
that in the reversed direction the I term changes sign where the comment
(`MiniPID.cpp:83-86`) wants it constant.  `SmoothGain` states both directions,
`MaxErrorKept` the direct one.  No program here reverses a controller.

### PwmBoard and Pca9685

`PwmBoard` is the board as a client sees it: a channel has a duty, a call asks for
another one, the board changes to it in one step, and a program that starts
switches everything off.  `Pca9685` has the registers: `on` and `off` of each
channel as `[lo, hi, full]`, the bits of `MODE1`, and the prescaler.  Every action
is one I2C transaction of the function it is named after; `ppc` is the control
point of the set-up, `call` each thread's call with the register it has read.  The
bus serialises transactions, so a channel shows something after each of them:
`Duty`, from the chip's manual (full-off before full-on).  What the chip does is
external: `Write16` without auto-increment puts both bytes into one register,
`WriteMode1` sets the restart bit when the chip goes to sleep.

The mapping takes `Duty` for `duty`, the off ticks for `kept` and the argument of a
call under way for `asked`.  It needs one detour in the abstract board: a channel
that leaves full-on shows the off ticks of earlier times between its two
transactions.  `SetupFails` is the -1 that nobody looks at; the program runs "blind"
and the board stays as it is.  `CrashAndRestart` is the `exit(1)` of `calcTicks` or
any other end, with the board kept.

### SpeedSensor and ThreadedCar

`SpeedSensor` has one action per reading of the sensor.  Before the first,
`OpenSensor` is the constructor of `As5048a`, which the speed thread runs: it goes on
or calls `exit`, and `SpeedThread` then ends the whole car, in whatever state the
other threads have brought the board.  The wheel turns by any
angle between samples and by a member of `Turn` within one; a frame may be garbled
and then raises the error flag.  `Read` is the masked answer.  A sample that is
late is a free choice of `SecondRead`.  The speed is a double in two halves:
`StoreHalf` and `StoreRest`, with a reader in between.  Times of samples are all
taken for the same, so the speed is the mean of the differences.

`ThreadedCar` adds the other threads.  Each controller is an instance of `MiniPID`
with its memory in `pid`, and one cycle of a thread is one action, built of
`MiniPID`'s `Raw`, `Restricted` and `NextSum`: the thread reads one shared variable
at its start and writes one at its end.  The D gain, which is less than a tenth of the others,
is less than a unit and left out.  The board is two duties here: `Pca9685` keeps
the promise of `PwmBoard`, and a pulse between 1 and 2 ms is neither off nor
full-on.  `calcTicks` is the code's product of floats, cut to an integer.  A pulse
that it does not take sets `exited` as well; `NeverExits` is that this never happens.

### LaneWindows

Images are not kept: the search meets white pixels, and `Outcome` has every base
that pixels of the window may lead to.  `Found` is the search for the peaks in the
picture of the histogram, whose line is two pixels thick, and `Mean` the mean column,
one too low where the sum begins at -1: a single pixel in column 0 makes the base -1,
from where the next frame is astray.  `expected` is a history
variable: the images so far have been black where a picture of two lanes is.  When
a window leaves the image the model stops in "astray": the code goes on, with
pixels of another row or outside of the image.  `Collinear` and `det` are the
integer arithmetic before the curvature.

## The runs

| run | configuration | question |
|---|---|---|
| `car_fault` | METHOD 2, a fault after the first cycle, MAX_TIMES 2; forks, dumps and restores may fail | does the fault end the run, do the data stay fresh, and do the flags implement the handshake when everything fails; is a request ever passed over? |
| `car_both` | METHOD 3, no fault, MAX_TIMES 3 | what do a request and an image mean, how far does the counter go? |
| `car_live` | METHOD 2, no fault, MAX_TIMES 1, fair | is every request answered, does the run end? |
| `car_waitends` | METHOD 2, no fault, MAX_TIMES 0, fair | a violation, see the findings |
| `shared_base` | two parts, three runs; `shm_open`, `ftruncate` and `fork` may fail | are all accesses inside the State of the own run, and whom does a failed call harm? |
| `shared_recovery` | five parts, `recovery/` | a violation, see the findings |
| `cycle_time` | a range of 50 microseconds, a second of 3, iterations up to 12 | what is left of averages and intervals when the microseconds wrap? |
| `pid` | every method, three calls of setters between any cycles | does the I term stay bounded and change smoothly, are limits and ramp respected? |
| `pid_gains` | output limits and `setPID` only | a violation, see the findings |
| `pca9685` | two channels, six values around the limits, two crashes | does a channel show what was asked for, never more on the way, after any crash? |
| `threaded_car` | angles of 8, resolution 2, two samples per speed, LIMIT 4 | are speeds the wheel's, what can end the process, do speeds keep coming? |
| `lane_windows` | 24 columns, windows of 4, 4 per frame, 3 black columns at the ends | which images keep the windows in the image and the lanes in order? |

**Bounds.**  The programs have three parts, and so have the runs of
`CarCheckpoint`; `recovery/` starts five.  `MAX_TIMES` of 1 to 3 stands for 30: a
part runs three slots per iteration, so 3 gives two iterations of each part, with
the exit test between them, and reaches `MAX_TIMES + 2` (the overshoot depends on
`MAX_TIMES` modulo 3).  `FAULT_STEP` 1 puts the fault in the middle of an
iteration with publications under way.  Nothing else is bounded: `times` is
bounded by the program, and the proofs below cover every value.  The committed
`METHOD` is 1; with 1 `car_fault` passes as well and takes four times as long; 2 is
the one where answers save images.  `MaxRuns` 3 stands for the ten of `run.sh`: a
part left over can meet the next run and the one after, or one whose car has failed
in between; `shared_base` has two parts, which differ in nothing but how far they
have come, since every further one multiplies the histories of the runs before.  In `cycle_time` the true time runs
to 60, beyond a wrap at 25 and the end of the blind interval after it; iterations of 12 give averages of both signs; the second
does not divide the range, as in the code.  In the controller's
runs gains, limits and readings of two or three values reach both sides of every
clamp; `SumBound` only cuts sums that the code leaves unbounded, and `MaxChanges` 3
lets any three settings interact, before and between cycles whose number is not
bounded (`changes`, which counts them, is not in the code).  In `pca9685` a low
register has two bits and a high one a bit and the full flag: `Value` has both sides
of 0 and of full-on and values in both bytes; the second crash may hit the set-up
that follows the first.  `threaded_car` wraps the angle in both directions with a turn of 1 and
the coarsest mask that the threshold allows; `GainP`, `GainI` and `TargetSpeed` of 1
reach the limits of the throttle from both sides.  In `lane_windows` four windows
and any number of frames let each base drift through the image; 3 is the
smallest `BLANK` for windows of half width 2: with 2 the assumption fails, and so does
`InRow`.

**Deadlock** is not checked where the program really stops: the car leaves, the
parts exit or spin; the bound on crashes leaves a blind program idle; a search that
is astray is not followed; the threaded car may end for want of a sensor.
`Finishes` is the check that it does not stop before.

**Fairness.**  `FairSpec` has weak fairness of the car and of each part: the
kernel schedules a process that can run again and again, and all waits are
busy-waits on a flag that, once it has the awaited value, keeps it until the
waiting part moves.  Nothing is assumed of forks, dumps or restores, which only
have outcomes.  `Spec` of `ThreadedCar` has weak fairness of the start of the speed
thread and of the thread, and strong fairness of a sample that is in time: 2.5 ms
are more than twice what the reading between the two clocks sleeps, so a thread that gets the processor again
and again is in time again and again, but not continuously.  In the abstract handshake the fairness of `Grant` and `Resume` is
what `car_live` shows the code to provide.

## What is proved

`CarCheckpoint_proofs` proves, for every `METHOD`, `FAULTED`, `MAX_TIMES`,
`FAULT_STEP` and every luck with forks and dumps, from `ConfigAssumption` alone
(the ranges of the constants of `share.h`, and that "no image" is not an image):

| theorem | property |
|---|---|
| `TypeCorrect` | `TypeOK` |
| `OnlySpeedIsSaved` | `OnlySpeedSaved` |
| `RequestsAreWaitedFor` | `NeedMeansWaiting` |
| `NoLostCount` | `TimesMonotone` |
| `FaultEndsTheRun` | `FaultIsFatal` |
| `CompulsiveImageIsExact` | `CompulsiveImage` |
| `DataIsFresh` | `RunsOnFreshData` |
| `CounterOvershoot` | `TimesBounded` |
| `DefaultConfigurationNeverFinishes` | `DefaultNeverFinishes` |
| `HandshakeImplemented` | `ImplementsHandshake` |
| `RequestsComeNearer` | `ComesNearer` |
| `NobodyLeavesEarly` | (`CyclesAreDone`, in the proof module) |
| `AbortLeavesNobody` | (`NobodyIsLeftOver`, in the proof module) |

The argument.  `Base`, what is known of every state, is built in layers:

* `TypeOK`;
* `OnlySpeedSaved` with `AtStart`: the stages never change, so the only image is
  the speed part's, and the fault path starts at the camera;
* `Waiting`: a raised flag finds its part in its busy-wait; a car about to answer
  has a request before it; only the servo holds
  a count in its register, and it equals `times`.

From `Base`, `FaultIsFatal` follows because restoring the camera without an image
can only run out of attempts, and `CompulsiveImage` because a held part does
nothing between the dump and the answer.  `RunsOnFreshData` needs
`FlagsAreFresh`: a raised data flag was published since its consumer last
consumed.  The bound on the counter is the least obvious one: `TimesBounded` is
far from inductive.  `Credit` is what the servo may still add before the car
has to answer it again: 0 once it has counted and until it is answered, else 1.
Counting spends the credit and only an answer gives it back, at most once in a
turn of the car's loop, so `times + Credit` is bounded by what the car has read
in its last test (`CountedAhead`).  The same invariant shows that the fault test
sees `times > FAULT_STEP` before the loop test can see `times > MAX_TIMES`.  The
refinement needs `Unforked` as well: a part becomes running only by its fork.

`RequestsComeNearer` is what remains of the liveness of an answer without fairness: a
rank, `Ahead`, counts the positions of the loop between the car and its answer to a
part; it is never above 15, and by `ComesNearer` no step of a part raises it, and
each step of a serving car lowers it or gives the answer.  Nothing the other parts ask for can hold the answer up, so with
fairness of the car's own steps, which TLC assumes, it comes or the car leaves.
Two theorems state what no run has as a property:
`NobodyLeavesEarly` says when a run may end, and `AbortLeavesNobody` that a run
ended by the fault leaves no process for `run.sh` to kill, unlike one that finishes
(`car_waitends`); it needs to know during the signals that the parts already
signalled are gone.

`SharedState_proofs` proves, for every set of parts and every number of runs,
`SharedTypeCorrect` (`TypeOK`), `PartsUseTheirOwnState` (`OwnState`, in both
programs) and `NoAccessCrashes` (`NoBusError`, in `recoverybase/`), whichever calls
fail.  `OwnState` needs `NamesTheRun`: once the object of a run has its size the name
stands for it, and only parts of the current run are alive, because `run.sh` has
killed the others before the next unlink.  `NoBusError` needs `Sized` on top of
it: a car that gets to the first fork has sized its object, and nobody cuts it again.
`RecoveryPartsAreDoomed` makes of the finding of `shared_recovery` a statement about
every interleaving of any number of parts: whoever has mapped the State in
`recovery/` dies at its next access.  Its invariant, `Truncated`, is that what a part
has opened is empty and stays so, because the car sizes it once, before the first
fork.

The other five proof modules hold:

| module | theorem | property |
|---|---|---|
| `CycleTime_proofs` | `CycleTypeCorrect` | `TypeOK` |
| | `AverageStaysInRange` | `AverageInRange` |
| | `BlindnessEnds` | `BlindForHalfTheRange` |
| | `IntervalIsSeen` | `IntervalSeen` |
| `MiniPID_proofs` | `PidTypeCorrect` | `TypeOK` |
| | `MaxErrorStaysMatched` | `MaxErrorKept` |
| | `GainIsSmooth` | `SmoothGain` |
| | `NoWindupEver` | `NoWindup` |
| | `OutputsAreRestricted` | `OutputRestricted` |
| `Pca9685_proofs` | `BoardTypeCorrect` | `TypeOK` |
| | `BoardRunsAfterSetup` | `BoardRuns` |
| | `ChannelsSettle` | `Settled` |
| | `DutiesNeverSurge` | `NoSurge` |
| | `DriverImplementsBoard` | `ImplementsBoard` |
| `ThreadedCar_proofs` | `ThreadedCarTypeCorrect` | `TypeOK` |
| | `SpeedIsAccurate` | `Accurate` |
| | `OutputsNeverExit` | `NeverExits` |
| | `WheelsStayStraight` | `Straight` |
| | `SensorErrorStays` | `ErrorStays` |
| | `ThrottleIsGivenUp` | `ThrottleFallsBack` |
| | `DutiesAreInPulseRange` | (`DutiesArePulses`, in the proof module) |
| | `PublishedSpeeds` | (`PublishedSpeedIsTrue`, in the proof module) |
| | `NoSampleIsLost` | (safety core of `SpeedKeepsComing`) |
| | `CarDoesNotWindUp` | (`SumsAreBounded`, in the proof module) |
| | `ControllersRunMiniPID` | (the car's controllers refine `MiniPID`) |
| `LaneWindows_proofs` | `LaneTypeCorrect` | `TypeOK` |
| | `WindowsStayInImage` | `InRow` |
| | `LanesStayApart` | `LanesApart` |
| | `LanesLeanLittle` | (`LeanBounded`, in the proof module) |
| | `CurvatureIsDefined` | (no run: pure arithmetic) |

* `CycleTime`: for every width and every length of a second, iterations and two
  turns of the car's loop together below half the range (`CycleTimeAssumption`).
  The heart is `Difference`: for times less than half the range apart `diffus` is
  their distance, negated if a wrap is between them.  The step that needs an
  invariant is blindness: `CycleInv` says of every look at the clock since the last
  checkpoint that the interval was not due, so that a wrap is between them.
* `MiniPID`: for every set of gains, readings and limits and any number of changes.
  `MaxErrorStaysMatched` and `GainIsSmooth` assume that the gains I passed are not
  negative, `NoWindupEver` that no client asks for a negative bound of the I term;
  the assumptions stand in the theorems.  `OutputsAreRestricted` rests on
  `MixtureIsBetween`: a filtered output is between the two it is mixed of.
  The second half of `GainIsSmooth` needs that the bound of the I term is not negative,
  and `SmoothGain` says so: only then is the bounded term turned as a whole.
* `Pca9685`: for any channels, values, widths and number of crashes.  `ModeInv` gives
  the bits of `MODE1` at each control point of the set-up, whatever was there before;
  `ChannelInv` what each register pair holds at each control point of a call.  Both
  are needed because the properties speak of the moments between transactions.  The
  refinement then has one lemma that says what a step does to one channel alone.
* `ThreadedCar`: for every resolution and number of samples, all `Turn` below the
  threshold (`SpeedSensorAssumption`), and gains whose two terms for a car at rest
  are less than full throttle (`ThreadedCarAssumption`; with the committed gains
  and the target of 50 they make a quarter of it).  `SampleIsAccurate` is the
  arithmetic of a wrap corrected by one less than a turn; `CarInv` adds that an
  output at the limit leaves the sum at one error.
  `ControllersRunMiniPID` joins two modules: `ThreadedCar` writes a cycle of a
  controller as one function, and the theorem shows that each such step, with
  whatever torn speed it reads, is a `getOutput` of `MiniPID` with the car's gains
  and limits.  `DutiesAreInPulseRange` joins two others: off and full-on are the
  duties the board treats apart, and since the car asks for neither, no detour of
  `PwmBoard` is taken on its behalf and a call may count as one step in `ThreadedCar`.
  `PublishedSpeeds` carries `Accurate` through the division and the two halves of the
  store.  Its first attempt failed because `SpeedOf` rounded a negative total down,
  where C cuts it to zero; the model was wrong and has been corrected.
* `LaneWindows`: for every width, window and number of windows.  `TypeOK` has a base be
  a column, -1, or the 10000 of a lane that was not found.  `Tracks` says that
  each base, and the one kept for the next frame, is on its lane or one beside it:
  beside it while the first sum is one too low or the peak one off, which is
  why one more black column than half a window is enough.  `LanesLeanLittle` needs
  none of this and holds of every image.

**Only model-checked**: `SpeedKeepsComing` and liveness of the manager (`Finishes`,
`ImplementsFairHandshake`): they need fairness and ENABLED, which the prover does not
handle.  `NoSampleIsLost` proves what the first rests on, `RequestsComeNearer` what
the answers in the last do.
`CheckpointHandshake` itself has no theorem: its safety is the shape of its
actions, and what it promises is liveness.

## Findings

* `car_both`, `OnlySpeedSaved`: `stage` is an array of `bool`, so the condition of a
  checkpoint holds of the speed part alone; the README of `recoverybase/` says
  every part saves one.  Proved as well.
* `car_fault`, `FaultIsFatal`: after the fault the car fails to restore the camera,
  which has no image, and exits; the README says "make fault each 3 times and
  restore".  Proved as well.
* `car_waitends`: a part that asks when the car has left its loop spins for
  ever; `run.sh` has to kill it.
* `shared_recovery`: the parts of `recovery/` truncate the object the car has
  sized, and die at their first access.  Proved as well, for any parts and order.
* `pid_gains`: a controller built with I = 0 never integrates after `setPID` has
  given it an I gain, because `maxError` stays 0.
* `threaded_car`, `ErrorStays`: the filter for negative answers of the sensor never
  sees one, because `Read` masks the sign and the error flag away; after the start
  no error is noticed or cleared.  Proved as well.
* `threaded_car`, `ThrottleFallsBack`: full throttle lasts one cycle.  At the limit
  the error sum becomes one error; what the comment calls a smooth transition is a
  fall to a quarter of the throttle for a car at rest.  Proved as well.

Three observations about `MiniPID` without a run of their own: with an output
filter the first output may leave the limits, since it is mixed after the
clamping with an unrestricted one (`MiniPID.cpp:213,266`, against the comment at
259), which is why `OutputRestricted` speaks of the output before; the
constructors take gains of mixed signs, and the car's controllers are built with
a negative D (`servoPID.h:10`, `throttlePID.h:10`), against the comment at 357;
and the reversed direction, above.

Observations about the threaded car: the wheels never steer, since nobody writes
`target_direction` and the output is fed back as the direction (`Straight`);
`StartAll` in `main` is never reached, because `Car::Car` does not return; when
`calcTicks`, the sensor's constructor or a crash ends the process, the channels keep their last pulse until the next program
starts; with `pca9685Setup` failing the program runs on without a board.

What `cycle_time` shows besides: an interval that crosses a wrap comes out
negative, so the part is not saved; after half the range (36 minutes with 32
bits) the difference is positive again and the checkpoints resume.  A run is
shorter than that, unless it starts just before a wrap.

## Not modelled

* The parts of `recovery/` beyond their first access of the `State`, and its remote
  control: every part dies at that access (`RecoveryPartsAreDoomed`), so that the waits
  nobody answers, the gains nobody applies and the averages across a second are code that does
  not run.  A model of it would describe another program.
* The image processing and curve fitting: floating-point OpenCV.
* The calls of `pca9685.c` that read, `Pca::setRGB` and `Pca::resetRGB`: no callers.
* The parity bit of the sensor's commands and the SPI transfers below `Read`.
* The scaling of the total run time in `recoverybase/`, which is only printed, and
  `throttlePID` there, which is compiled out.
* `bcm2835`, `raspicam` and the copies of both, and the bench programs: vendored or
  third-party code, by far the largest part of the repository's lines.
