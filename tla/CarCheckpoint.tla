--------------------------- MODULE CarCheckpoint ---------------------------
(***************************************************************************)
(* The checkpoint manager of recoverybase/: the car process forks one      *)
(* process per part, the parts compute in a three-slot cycle and exchange  *)
(* "new data" flags through the shared State, and the car dumps them with  *)
(* CRIU, injects one fault (SIGINT to every part) and restores them.       *)
(*                                                                         *)
(* The car and the parts are separate processes that share only the mmap'd *)
(* State object; one action is one access to it.  The build has no         *)
(* optimisation level, so every access is one load or store of a byte or   *)
(* an int, and `times += 1' is a load followed by a store.                 *)
(***************************************************************************)
EXTENDS Integers

CONSTANTS
  METHOD,       \* share.h: 1 only unit, 2 only compulsive, 3 both
  FAULTED,      \* share.h: TRUE injects no fault, FALSE injects one
  MAX_TIMES,    \* share.h: the run ends when times exceeds it
  FAULT_STEP,   \* share.h: the fault is injected when times exceeds it
  ForkMayFail,  \* environment: may fork() return -1?
  DumpMayFail,  \* environment: may criu_dump() fail on a running process?
  NoImage       \* no usable CRIU image in ./checkpoint/<pid>

\* enum class PartType; throttlePID is compiled out of this program.
camera   == 0
speed    == 1
servoPID == 2
Part     == camera .. servoPID

Slot  == 1 .. 3   \* each iteration of RunALL calls Run() three times
Label == {"wait", "clear", "run", "store", "publish", "set", "spin",
          "stage", "check"}

\* The private state of a part process: what a CRIU image holds.
Private == [slot : Slot, at : Label, reg : Nat]

RETRIES == 10     \* the literal 10 in RestoreState

ASSUME ConfigAssumption ==
  /\ METHOD \in 1 .. 3
  /\ FAULTED \in BOOLEAN
  /\ MAX_TIMES \in Nat
  /\ FAULT_STEP \in Nat
  /\ ForkMayFail \in BOOLEAN
  /\ DumpMayFail \in BOOLEAN
  /\ NoImage \notin Private

VARIABLES
  mpc,       \* where the car process is
  cur,       \* its loop index over the parts
  todo,      \* parts its range-for over the unordered_map has not visited
  tries,     \* RestoreState's local count
  faulted,   \* Run's local flag, initially FAULTED
  times,     \* State.times
  isNew,     \* State.is_new_data
  stage,     \* State.stage, an array of bool
  need,      \* State.need_compulsive_checkpoint
  status,    \* each part: "none" (pid still -1), "running", "exited", "dead"
  part,      \* each part's private state
  image,     \* the CRIU image of each part
  fresh      \* history: has the source of p published since p last consumed?

car    == <<mpc, cur, todo, tries, faulted>>
shared == <<times, isNew, stage, need>>
procs  == <<status, part, image>>
vars   == <<mpc, cur, todo, tries, faulted, times, isNew, stage, need,
            status, part, image, fresh>>

-----------------------------------------------------------------------------
(* The three-slot cycle of RunALL.  In one slot, SyncSlot, a part consumes  *)
(* its input flag before Run() and raises its output flag after it.         *)

SyncSlot(p) == p + 1

\* The part whose flag p waits for; the camera waits for nothing.
Source(p)    == p - 1
Consumer(p)  == p + 1

EntryLabel(p, s) == IF s = SyncSlot(p) /\ p # camera THEN "wait" ELSE "run"
AfterRun(p, s)   == IF s = SyncSlot(p) THEN "publish" ELSE "set"

Start(p) == [slot |-> 1, at |-> EntryLabel(p, 1), reg |-> 0]

\* Mutant: `stage' declared as an array of int, as its arithmetic expects.
StageIsInt(v) == v

\* An int stored in a bool: every value but 0 becomes 1.
ToBool(v) == IF v = 0 THEN 0 ELSE 1

Init ==
  /\ mpc = "fork" /\ cur = 0 /\ todo = Part /\ tries = 0
  /\ faulted = FAULTED
  /\ times = 0
  /\ isNew  = [p \in Part |-> FALSE]
  /\ stage  = [p \in Part |-> 1]
  /\ need   = [p \in Part |-> FALSE]
  /\ status = [p \in Part |-> "none"]
  /\ part   = [p \in Part |-> Start(p)]
  /\ image  = [p \in Part |-> NoImage]
  /\ fresh  = [p \in Part |-> FALSE]

-----------------------------------------------------------------------------
(* The part processes. *)

At(p, label) == status[p] = "running" /\ part[p].at = label
Goto(p, label) == part' = [part EXCEPT ![p].at = label]

\* WaitNeededNewData, the loop: leave it when the flag is seen raised.
WaitNeededNewData(p) ==
  /\ At(p, "wait")
  /\ isNew[Source(p)]
  /\ Goto(p, "clear")
  /\ UNCHANGED <<car, shared, status, image, fresh>>

\* Mutant: the flag is tested and never cleared.
NeverClearNewData(p) ==
  /\ At(p, "clear")
  /\ fresh' = [fresh EXCEPT ![p] = FALSE]
  /\ Goto(p, "run")
  /\ UNCHANGED <<car, shared, status, image>>

\* WaitNeededNewData, the store after the loop.
ClearNewData(p) ==
  /\ At(p, "clear")
  /\ isNew' = [isNew EXCEPT ![Source(p)] = FALSE]
  /\ fresh' = [fresh EXCEPT ![p] = FALSE]
  /\ Goto(p, "run")
  /\ UNCHANGED <<car, times, stage, need, status, image>>

\* Mutant: the camera counts its cycles too (the line in Camera::Run that is
\* commented out), so that two processes do `times += 1'.
CameraCountsToo(p) ==
  /\ At(p, "run")
  /\ IF p # speed
       THEN part' = [part EXCEPT ![p].at = "store", ![p].reg = times]
       ELSE Goto(p, AfterRun(p, part[p].slot))
  /\ UNCHANGED <<car, shared, status, image, fresh>>

\* Run(): only the servo's touches the State, with the load of times += 1.
Run(p) ==
  /\ At(p, "run")
  /\ IF p = servoPID
       THEN part' = [part EXCEPT ![p].at = "store", ![p].reg = times]
       ELSE Goto(p, AfterRun(p, part[p].slot))
  /\ UNCHANGED <<car, shared, status, image, fresh>>

\* ServoPID::Run, the store of times += 1.
StoreTimes(p) ==
  /\ At(p, "store")
  /\ times' = part[p].reg + 1
  /\ part' = [part EXCEPT ![p].at = AfterRun(p, part[p].slot), ![p].reg = 0]
  /\ UNCHANGED <<car, isNew, stage, need, status, image, fresh>>

UpdateIsNewData(p) ==
  /\ At(p, "publish")
  /\ isNew' = [isNew EXCEPT ![p] = TRUE]
  /\ fresh' = IF p = servoPID THEN fresh
                              ELSE [fresh EXCEPT ![Consumer(p)] = TRUE]
  /\ Goto(p, "set")
  /\ UNCHANGED <<car, times, stage, need, status, image>>

\* Mutant: the call of WaitCompulsiveCheckpoint is left out.
SetWithoutWait(p) ==
  /\ At(p, "set")
  /\ need' = [need EXCEPT ![p] = TRUE]
  /\ Goto(p, "stage")
  /\ UNCHANGED <<car, times, isNew, stage, status, image, fresh>>

SetCompulsiveCheckpoint(p) ==
  /\ At(p, "set")
  /\ need' = [need EXCEPT ![p] = TRUE]
  /\ Goto(p, "spin")
  /\ UNCHANGED <<car, times, isNew, stage, status, image, fresh>>

\* Mutant: the busy-wait may give up before the flag is cleared.
WaitGivesUp(p) ==
  /\ At(p, "spin")
  /\ LET s == part[p].slot IN
       IF s < 3
         THEN part' = [part EXCEPT ![p].slot = s + 1,
                                   ![p].at = EntryLabel(p, s + 1)]
         ELSE Goto(p, "stage")
  /\ UNCHANGED <<car, shared, status, image, fresh>>

\* Leave the busy-wait, for the next slot or the end of the iteration.
WaitCompulsiveCheckpoint(p) ==
  /\ At(p, "spin")
  /\ ~need[p]
  /\ LET s == part[p].slot IN
       IF s < 3
         THEN part' = [part EXCEPT ![p].slot = s + 1,
                                   ![p].at = EntryLabel(p, s + 1)]
         ELSE Goto(p, "stage")
  /\ UNCHANGED <<car, shared, status, image, fresh>>

AdvanceStage(p) ==
  /\ At(p, "stage")
  /\ stage' = [stage EXCEPT ![p] = ToBool((@ + 1) % 3)]
  /\ Goto(p, "check")
  /\ UNCHANGED <<car, times, isNew, need, status, image, fresh>>

\* The end of an iteration: exit(0) or start over.
ExitOrLoop(p) ==
  /\ At(p, "check")
  /\ IF times > MAX_TIMES
       THEN status' = [status EXCEPT ![p] = "exited"] /\ UNCHANGED part
       ELSE part' = [part EXCEPT ![p] = Start(p)] /\ UNCHANGED status
  /\ UNCHANGED <<car, shared, image, fresh>>

PartStep(p) ==
  \/ WaitNeededNewData(p)
  \/ ClearNewData(p)
  \/ Run(p)
  \/ StoreTimes(p)
  \/ UpdateIsNewData(p)
  \/ SetCompulsiveCheckpoint(p)
  \/ WaitCompulsiveCheckpoint(p)
  \/ AdvanceStage(p)
  \/ ExitOrLoop(p)

-----------------------------------------------------------------------------
(* The car process. *)

\* Mutant: the loops run to PART_NUMBER - 1 and miss the servo.
MissLastPart(again, after) ==
  IF cur < speed THEN mpc' = again /\ cur' = cur + 1
                 ELSE mpc' = after /\ cur' = 0

\* One turn of a `for (i = 0; i < PART_NUMBER; ++i)' loop.
NextIndex(again, after) ==
  IF cur < servoPID THEN mpc' = again /\ cur' = cur + 1
                    ELSE mpc' = after /\ cur' = 0

\* SaveState: the dump freezes the process, so the image is its private
\* state at one instant; the file-backed State is not part of it.  A failed
\* dump is only logged and leaves the old image or an unusable one.
SaveState(p) ==
  \E ok \in BOOLEAN :
    IF ok
      THEN status[p] = "running" /\ image' = [image EXCEPT ![p] = part[p]]
      ELSE /\ DumpMayFail \/ status[p] # "running"
           /\ \E left \in {image[p], NoImage} :
                image' = [image EXCEPT ![p] = left]

\* ForkPart: the children run as soon as they are forked.
ForkPart ==
  /\ mpc = "fork"
  /\ \E p \in todo, forked \in {TRUE} \union {~ForkMayFail} :
       /\ todo' = todo \ {p}
       /\ status' = [status EXCEPT ![p] = IF forked THEN "running" ELSE "none"]
       /\ mpc' = IF todo = {p} THEN "resetNew" ELSE "fork"
  /\ UNCHANGED <<cur, tries, faulted, shared, part, image, fresh>>

\* Run clears the flags of the parts after it has started them.
ResetNewData ==
  /\ mpc = "resetNew"
  /\ isNew' = [isNew EXCEPT ![cur] = FALSE]
  /\ mpc' = "resetNeed"
  /\ UNCHANGED <<cur, todo, tries, faulted, times, stage, need, procs, fresh>>

ResetNeed ==
  /\ mpc = "resetNeed"
  /\ need' = [need EXCEPT ![cur] = FALSE]
  /\ NextIndex("resetNew", "while")
  /\ UNCHANGED <<todo, tries, faulted, times, isNew, stage, procs, fresh>>

\* Mutant: the loop test is < and no longer <=.
WhileTestStrict ==
  /\ mpc = "while"
  /\ mpc' = IF times < MAX_TIMES THEN "unit" ELSE "done"
  /\ UNCHANGED <<cur, todo, tries, faulted, shared, procs, fresh>>

\* Mutant: the loop makes one turn more than the parts' exit test expects.
WhileTestLate ==
  /\ mpc = "while"
  /\ mpc' = IF times <= MAX_TIMES + 1 THEN "unit" ELSE "done"
  /\ UNCHANGED <<cur, todo, tries, faulted, shared, procs, fresh>>

WhileTest ==
  /\ mpc = "while"
  /\ mpc' = IF times <= MAX_TIMES THEN "unit" ELSE "done"
  /\ UNCHANGED <<cur, todo, tries, faulted, shared, procs, fresh>>

\* Whether the interval of part cur has elapsed depends on the clock alone.
CheckUnitCheckpoint ==
  /\ mpc = "unit"
  /\ \E due \in BOOLEAN :
       IF due /\ METHOD \in {1, 3} /\ stage[cur] = cur
         THEN SaveState(cur)
         ELSE UNCHANGED image
  /\ NextIndex("unit", "compulsive")
  /\ UNCHANGED <<todo, tries, faulted, shared, status, part, fresh>>

\* Mutant: the switch has no case for METHOD 3.
NoCaseForBoth ==
  /\ mpc = "compulsive"
  /\ IF need[cur]
       THEN /\ IF METHOD = 2 /\ stage[cur] = cur
                 THEN SaveState(cur)
                 ELSE UNCHANGED image
            /\ mpc' = "grant" /\ UNCHANGED cur
       ELSE NextIndex("compulsive", "faultTest") /\ UNCHANGED image
  /\ UNCHANGED <<todo, tries, faulted, shared, status, part, fresh>>

CheckCompulsiveCheckpoint ==
  /\ mpc = "compulsive"
  /\ IF need[cur]
       THEN /\ IF METHOD \in {2, 3} /\ stage[cur] = cur
                 THEN SaveState(cur)
                 ELSE UNCHANGED image
            /\ mpc' = "grant" /\ UNCHANGED cur
       ELSE NextIndex("compulsive", "faultTest") /\ UNCHANGED image
  /\ UNCHANGED <<todo, tries, faulted, shared, status, part, fresh>>

\* Mutant: the flag is cleared only if a checkpoint is taken.
GrantOnlyIfSaved ==
  /\ mpc = "grant"
  /\ need' = [need EXCEPT ![cur] = stage[cur] # cur]
  /\ NextIndex("compulsive", "faultTest")
  /\ UNCHANGED <<todo, tries, faulted, times, isNew, stage, procs, fresh>>

\* Mutant: the loop is left after the first request it serves.
OneAnswerPerTurn ==
  /\ mpc = "grant"
  /\ need' = [need EXCEPT ![cur] = FALSE]
  /\ mpc' = "faultTest" /\ cur' = 0
  /\ UNCHANGED <<todo, tries, faulted, times, isNew, stage, procs, fresh>>

\* CheckCompulsiveCheckpoint, the store that lets the part go on.
GrantCompulsive ==
  /\ mpc = "grant"
  /\ need' = [need EXCEPT ![cur] = FALSE]
  /\ NextIndex("compulsive", "faultTest")
  /\ UNCHANGED <<todo, tries, faulted, times, isNew, stage, procs, fresh>>

FaultTest ==
  /\ mpc = "faultTest"
  /\ IF times > FAULT_STEP /\ ~faulted
       THEN mpc' = "kill" /\ faulted' = TRUE /\ todo' = Part
       ELSE mpc' = "while" /\ UNCHANGED <<faulted, todo>>
  /\ UNCHANGED <<cur, tries, shared, procs, fresh>>

\* kill(pid, SIGINT) and waitpid; a part that was never forked has pid -1,
\* and kill(-1) signals every process.
SimulateFault ==
  /\ mpc = "kill"
  /\ \E p \in todo :
       /\ todo' = todo \ {p}
       /\ status' = [q \in Part |->
            IF status[q] = "running" /\ (p = q \/ status[p] = "none")
            THEN "dead" ELSE status[q]]
       /\ mpc' = IF todo = {p} THEN "clearNew" ELSE "kill"
  /\ UNCHANGED <<cur, tries, faulted, shared, part, image, fresh>>

ClearAfterFault ==
  /\ mpc = "clearNew"
  /\ isNew' = [p \in Part |-> FALSE]
  /\ mpc' = "restore"
  /\ UNCHANGED <<cur, todo, tries, faulted, times, stage, need, procs, fresh>>

\* Mutant: the retry loop tests the result alone.
RestoreForever ==
  /\ mpc = "restore"
  /\ \E ok \in {FALSE} \union {image[cur] # NoImage} :
       /\ status' = IF ok THEN [status EXCEPT ![cur] = "running"] ELSE status
       /\ part' = IF ok THEN [part EXCEPT ![cur] = image[cur]] ELSE part
       /\ tries' = IF ok THEN 0 ELSE tries + 1
       /\ IF ok THEN NextIndex("restore", "while") ELSE UNCHANGED <<mpc, cur>>
  /\ UNCHANGED <<todo, faulted, shared, image, fresh>>

\* Mutant: a part that cannot be restored is given up, the car goes on.
RestoreWithoutExit ==
  /\ mpc = "restore"
  /\ \E ok \in {FALSE} \union {image[cur] # NoImage} :
       /\ status' = IF ok THEN [status EXCEPT ![cur] = "running"] ELSE status
       /\ part' = IF ok THEN [part EXCEPT ![cur] = image[cur]] ELSE part
       /\ tries' = IF ok \/ tries = RETRIES THEN 0 ELSE tries + 1
       /\ IF ok \/ tries = RETRIES THEN NextIndex("restore", "while")
                                   ELSE UNCHANGED <<mpc, cur>>
  /\ UNCHANGED <<todo, faulted, shared, image, fresh>>

\* One criu_restore() of part cur and the test of its loop.  A success on
\* the last permitted attempt is taken for a failure and ends the car.
RestoreState ==
  /\ mpc = "restore"
  /\ \E ok \in {FALSE} \union {image[cur] # NoImage} :
       /\ status' = IF ok THEN [status EXCEPT ![cur] = "running"] ELSE status
       /\ part' = IF ok THEN [part EXCEPT ![cur] = image[cur]] ELSE part
       /\ tries' = IF ok \/ tries = RETRIES THEN 0 ELSE tries + 1
       /\ IF tries = RETRIES THEN mpc' = "aborted" /\ UNCHANGED cur
          ELSE IF ok         THEN NextIndex("restore", "while")
                             ELSE UNCHANGED <<mpc, cur>>
  /\ UNCHANGED <<todo, faulted, shared, image, fresh>>

CarStep ==
  \/ ForkPart
  \/ ResetNewData
  \/ ResetNeed
  \/ WhileTest
  \/ CheckUnitCheckpoint
  \/ CheckCompulsiveCheckpoint
  \/ GrantCompulsive
  \/ FaultTest
  \/ SimulateFault
  \/ ClearAfterFault
  \/ RestoreState

Next == CarStep \/ \E p \in Part : PartStep(p)

Spec == Init /\ [][Next]_vars

\* The kernel schedules every runnable process again and again.
FairSpec == Spec /\ WF_vars(CarStep) /\ \A p \in Part : WF_vars(PartStep(p))

-----------------------------------------------------------------------------
(* Properties. *)

Status == {"none", "running", "exited", "dead"}
CarLabel == {"fork", "resetNew", "resetNeed", "while", "unit", "compulsive",
             "grant", "faultTest", "kill", "clearNew", "restore",
             "done", "aborted"}

\* Every variable keeps the type its C++ counterpart gives it.
TypeOK ==
  /\ mpc \in CarLabel /\ cur \in Part /\ todo \subseteq Part
  /\ tries \in 0 .. RETRIES /\ faulted \in BOOLEAN
  /\ times \in Nat
  /\ isNew \in [Part -> BOOLEAN]
  /\ stage \in [Part -> {0, 1}]
  /\ need \in [Part -> BOOLEAN]
  /\ status \in [Part -> Status]
  /\ part \in [Part -> Private]
  /\ image \in [Part -> Private \union {NoImage}]
  /\ fresh \in [Part -> BOOLEAN]

\* A raised need_compulsive_checkpoint of a live part means that the part
\* is held in its busy-wait: the flag never runs ahead of its process.
NeedMeansWaiting ==
  \A p \in Part : need[p] /\ status[p] = "running" => part[p].at = "spin"

\* What a granted compulsive checkpoint is worth: when the car is about to
\* release the speed part, the image on disk is the very state it is held in.
CompulsiveImage ==
  mpc = "grant" /\ METHOD # 1 /\ stage[cur] = cur /\ need[cur]
    /\ status[cur] = "running" /\ ~DumpMayFail
    => image[cur] = part[cur]

\* The README says every part saves a compulsive checkpoint after its cycle.
\* But `stage' is an array of bool: (1 + 1) % 3 is stored as 1, the stage never
\* advances, stage[i] == i holds of the speed part alone, and no image of
\* the camera or of the servo part is ever written.
OnlySpeedSaved ==
  /\ \A p \in Part : stage[p] = 1
  /\ image[camera] = NoImage /\ image[servoPID] = NoImage

\* The README says the run makes a fault "and restore"; but once the fault is
\* injected, the car never supervises again: restoring the
\* camera, which was never saved, fails until the car gives up.
FaultIsFatal ==
  ~FAULTED /\ faulted => mpc \in {"kill", "clearNew", "restore", "aborted"}

\* With a fault to inject before the last cycle (the committed 5 < 30), the
\* main loop is never left through its own test: no total run time is
\* printed.  The fault test cannot be overtaken by the servo's counter,
\* since the servo gets one grant per turn of the loop.
DefaultNeverFinishes ==
  ~FAULTED /\ FAULT_STEP < MAX_TIMES /\ FAULT_STEP >= 1 => mpc # "done"

\* The counter the run time is scaled by overshoots MAX_TIMES by two at most,
\* although the servo goes on while the car looks at the other parts: each
\* turn of the loop grants the servo one more slot, and the slot before may
\* still be running when the loop test reads the counter.
TimesBounded == times <= MAX_TIMES + 2

\* A part runs its synchronised slot on data its source has published since
\* it last consumed some: the car's clearing of the flags and the two-step
\* test and clear may lose a publication but never invent one.
RunsOnFreshData ==
  \A p \in Part \ {camera} : part[p].at = "clear" => fresh[p]

\* No step loses a count: times is never stored below its value.
TimesMonotone == [][times' \in {times, times + 1}]_vars

\* Without faults and with every part forked, the run ends.
Finishes == <>(mpc = "done")

-----------------------------------------------------------------------------
(* How long a part waits for its answer. *)

Serving == mpc \in {"resetNew", "resetNeed", "while", "unit", "compulsive",
                    "grant", "faultTest"}

\* Where a serving car stands in its turn of the loop, 0 to 10, or in the two
\* resets before the first turn, -6 to -1.
Position ==
  CASE mpc = "resetNew"   -> 2 * cur - 6
    [] mpc = "resetNeed"  -> 2 * cur - 5
    [] mpc = "while"      -> 0
    [] mpc = "unit"       -> 1 + cur
    [] mpc = "compulsive" -> 4 + 2 * cur
    [] mpc = "grant"      -> 5 + 2 * cur
    [] mpc = "faultTest"  -> 10

\* How many positions the car still has to pass to be at the store that
\* answers p, in this turn of the loop or in the next.
Ahead(p) ==
  IF Position <= 5 + 2 * p THEN (5 + 2 * p) - Position
                           ELSE (16 + 2 * p) - Position

\* A part that waits is not passed over: as long as the car serves, each of its
\* steps brings it nearer to the part (which is 15 positions away at most) or
\* answers it, no step of a part takes it away, and no other request, dump or
\* failed fork makes it turn back.  Between two answers to one part every
\* other part that waits is answered.
ComesNearer ==
  [][\A p \in Part : Serving /\ Serving' /\ need[p] /\ need'[p] =>
       /\ Ahead(p)' <= Ahead(p)
       /\ CarStep => Ahead(p)' < Ahead(p)]_vars

-----------------------------------------------------------------------------
(* What a comment of recoverybase/ says and this code does not do. *)

\* WaitCompulsiveCheckpoint: the part waits until the manager has set the
\* flag to false, which it therefore always does.
EveryWaitEnds == \A p \in Part : need[p] ~> ~need[p]

-----------------------------------------------------------------------------
(* The handshake that the flags and the parts' control points implement. *)

Phase(p) ==
  CASE status[p] # "running"                       -> "off"
    [] status[p] = "running" /\ part[p].at # "spin" -> "run"
    [] At(p, "spin") /\ need[p]                     -> "requested"
    [] At(p, "spin") /\ ~need[p]                    -> "granted"

Handshake == INSTANCE CheckpointHandshake
               WITH phase <- [p \in Part |-> Phase(p)],
                    managed <- mpc \notin {"done", "aborted"}

\* The flags implement the handshake, the clearing of the flags at the start
\* and the killing of the parts included.
ImplementsHandshake == Handshake!Spec

\* Under the kernel's fairness they implement its liveness too.
ImplementsFairHandshake == Handshake!FairSpec
=============================================================================
