----------------------------- MODULE CycleTime -----------------------------
(***************************************************************************)
(* The clock behind the unit checkpoints of recoverybase/: each part keeps *)
(* a running average of a quarter of its iteration time, and the car takes *)
(* a checkpoint when more than average / INTERVAL has gone by since the    *)
(* last one.  All differences go through diffus, whose microseconds are of *)
(* the width of suseconds_t and wrap (32 bits on the target's system).     *)
(*                                                                         *)
(* One part stands for each: the car treats them independently.            *)
(***************************************************************************)
EXTENDS Integers

CONSTANTS
  HALF,      \* half the range of suseconds_t: 2^31 for 32 bits
  SEC,       \* microseconds in a second, the literal 1000000
  INTERVAL,  \* share.h
  MaxCycle,  \* bound: the longest iteration of a part
  MaxTurn,   \* bound: the longest turn of the car's loop, dumps included
  MaxNow     \* bound: the clock stops there

ASSUME CycleTimeAssumption ==
  /\ HALF \in Nat \ {0} /\ SEC \in Nat \ {0} /\ INTERVAL \in Nat \ {0}
  /\ MaxCycle \in Nat
  /\ MaxTurn \in Nat /\ MaxCycle + 2 * MaxTurn < HALF
  /\ MaxNow \in Nat

VARIABLES
  now,      \* the true time, in microseconds
  at,       \* the part: computing, or about to update its average
  start,    \* tv_start of the part's iteration
  end,      \* tv_end of it
  avg,      \* average_time_per_cycle
  testing,  \* is the car between gettimeofday and the test?
  tv,       \* the car's tv
  last      \* last_unit_checkpoint

vars == <<now, at, start, end, avg, testing, tv, last>>

-----------------------------------------------------------------------------
(* Arithmetic of a signed integer of fixed width, and C's division.         *)

Signed == -HALF .. HALF - 1
Wrap(x) == ((x + HALF) % (2 * HALF)) - HALF

Quotient(a, b) == IF a >= 0 THEN a \div b ELSE -((-a) \div b)

\* Mutant: the seconds are forgotten (as recovery/'s part.cpp does).
MicrosOfTheSecond(t) == t % SEC

\* 1000000 * tv_sec + tv_usec of the timeval of time t.
Micros(t) == Wrap(Wrap(SEC * (t \div SEC)) + (t % SEC))

diffus(t_start, t_end) ==
  LET t1 == Micros(t_start)
      t2 == Micros(t_end)
  IN  IF t2 > t1 THEN Wrap(t2 - t1) ELSE Wrap(t1 - t2)

\* Do the microseconds wrap between two times?
Wraps(t_start, t_end) ==
  (t_start + HALF) \div (2 * HALF) # (t_end + HALF) \div (2 * HALF)

-----------------------------------------------------------------------------
Init ==
  /\ now = 0
  /\ at = "computing" /\ start = 0 /\ end = 0 /\ avg = 0
  /\ testing = FALSE /\ tv = 0 /\ last = 0

\* Time passes, as far as the bounds on an iteration and a turn allow.
Tick ==
  /\ now < MaxNow
  /\ now - start < MaxCycle
  /\ now - tv < MaxTurn
  /\ now' = now + 1
  /\ UNCHANGED <<at, start, end, avg, testing, tv, last>>

\* The end of an iteration of RunALL: tv_end.
EndCycle ==
  /\ at = "computing"
  /\ end' = now /\ at' = "updating"
  /\ UNCHANGED <<now, start, avg, testing, tv, last>>

\* Mutant: the new sample is added and the sum never halved.
SumTimes ==
  /\ at = "updating"
  /\ avg' = Wrap(avg + Quotient(diffus(start, end), 4))
  /\ start' = now /\ at' = "computing"
  /\ UNCHANGED <<now, end, testing, tv, last>>

\* UpdateAverageCycleTime, and tv_start of the next iteration.
UpdateAverageCycleTime ==
  /\ at = "updating"
  /\ LET t == Quotient(diffus(start, end), 4)
     IN  avg' = IF avg = 0 THEN t ELSE Quotient(Wrap(avg + t), 2)
  /\ start' = now /\ at' = "computing"
  /\ UNCHANGED <<now, end, testing, tv, last>>

\* CheckUnitCheckpoint reads the clock once for all parts ...
ReadClock ==
  /\ ~testing
  /\ tv' = now /\ testing' = TRUE
  /\ UNCHANGED <<now, at, start, end, avg, last>>

Due == diffus(last, tv) > Quotient(avg, INTERVAL)

\* Mutant: the time of the checkpoint is not kept.
TestAndForget ==
  /\ testing
  /\ testing' = FALSE
  /\ UNCHANGED <<now, at, start, end, avg, tv, last>>

\* Mutant: the time kept is that after the dump.
StampAfterDump ==
  /\ testing
  /\ last' = IF Due THEN now ELSE last
  /\ testing' = FALSE
  /\ UNCHANGED <<now, at, start, end, avg, tv>>

\* ... and, before or after the dumps of other parts, tests this one.
CheckUnitCheckpoint ==
  /\ testing
  /\ last' = IF Due THEN tv ELSE last
  /\ testing' = FALSE
  /\ UNCHANGED <<now, at, start, end, avg, tv>>

Next ==
  \/ Tick \/ EndCycle \/ UpdateAverageCycleTime
  \/ ReadClock \/ CheckUnitCheckpoint

Spec == Init /\ [][Next]_vars

-----------------------------------------------------------------------------
(* Properties. *)

\* All times are in order, and the average is of its type.
TypeOK ==
  /\ now \in 0 .. MaxNow
  /\ at \in {"computing", "updating"} /\ testing \in BOOLEAN
  /\ start \in 0 .. now /\ end \in 0 .. now
  /\ tv \in 0 .. now /\ last \in 0 .. tv
  /\ avg \in Signed

\* The average never leaves the range of a quarter of an iteration, although
\* an iteration across a wrap enters it with the wrong sign.
AverageInRange ==
  -(MaxCycle \div 4) <= avg /\ avg <= MaxCycle \div 4

\* A checkpoint whose interval does not cross a wrap is taken exactly when the
\* interval has really gone by.
IntervalSeen ==
  [][testing /\ ~testing' /\ ~Wraps(last, tv) /\ tv > last
       => (last' = tv <=> tv - last > Quotient(avg, INTERVAL))]_vars

\* Across a wrap diffus is negative and the part is not saved, but for no
\* longer than half the range: then the difference is seen as positive again.
BlindForHalfTheRange ==
  now - last <= HALF + 2 * MaxTurn
=============================================================================
