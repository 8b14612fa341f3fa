----------------------- MODULE CarCheckpoint_proofs -----------------------
(***************************************************************************)
(* Proofs about CarCheckpoint, for every METHOD, MAX_TIMES and FAULT_STEP  *)
(* and whatever fork, dump and restore may do.  Each invariant is proved   *)
(* inductive relative to the ones before it.                               *)
(***************************************************************************)
EXTENDS CarCheckpoint, TLAPS

\* Moving the control point of one part keeps the private states well typed.
LEMMA GotoType ==
  ASSUME part \in [Part -> Private], NEW p \in Part, NEW label \in Label,
         Goto(p, label)
  PROVE  part' \in [Part -> Private]
<1>1. [part[p] EXCEPT !.at = label] \in Private
  BY DEF Private
<1> QED BY <1>1 DEF Goto

\* The entry and exit points of a slot are control points.
LEMMA SlotLabels ==
  ASSUME NEW p \in Part, NEW s \in Slot
  PROVE  /\ EntryLabel(p, s) \in Label
         /\ AfterRun(p, s) \in Label
         /\ Start(p) \in Private
BY DEF EntryLabel, AfterRun, Start, Private, Label, Slot

\* The loop index of the car stays a part and its control point a label.
LEMMA NextIndexType ==
  ASSUME cur \in Part, NEW again \in CarLabel, NEW after \in CarLabel,
         NextIndex(again, after)
  PROVE  cur' \in Part /\ mpc' \in CarLabel
BY DEF NextIndex, Part, camera, speed, servoPID

\* A dump writes one image, of the part's private state or an unusable one.
LEMMA SaveStateType ==
  ASSUME TypeOK, NEW p \in Part, SaveState(p)
  PROVE  /\ image' \in [Part -> Private \union {NoImage}]
         /\ \A q \in Part \ {p} : image'[q] = image[q]
BY DEF TypeOK, SaveState

\* A step of a part preserves the types.
LEMMA PartStepType ==
  ASSUME TypeOK, NEW p \in Part, PartStep(p)
  PROVE  TypeOK'
<1>1. CASE WaitNeededNewData(p)
  <2>1. part' \in [Part -> Private]
    BY <1>1, GotoType DEF WaitNeededNewData, TypeOK, Label
  <2> QED BY <1>1, <2>1 DEF WaitNeededNewData, TypeOK, car, shared
<1>2. CASE ClearNewData(p)
  <2>1. part' \in [Part -> Private]
    BY <1>2, GotoType DEF ClearNewData, TypeOK, Label
  <2> QED BY <1>2, <2>1 DEF ClearNewData, TypeOK, car
<1>3. CASE Run(p)
  <2>1. part[p].slot \in Slot
    BY DEF TypeOK, Private
  <2>2. part' \in [Part -> Private]
    <3>1. CASE p = servoPID
      <4>1. [part[p] EXCEPT !.at = "store", !.reg = times] \in Private
        BY DEF TypeOK, Private, Label
      <4> QED BY <1>3, <3>1, <4>1 DEF Run, TypeOK
    <3>2. CASE p # servoPID
      BY <1>3, <3>2, <2>1, GotoType, SlotLabels DEF Run, TypeOK
    <3> QED BY <3>1, <3>2
  <2> QED BY <1>3, <2>2 DEF Run, TypeOK, car, shared
<1>4. CASE StoreTimes(p)
  <2>1. part[p].slot \in Slot /\ part[p].reg \in Nat
    BY DEF TypeOK, Private
  <2>2. [part[p] EXCEPT !.at = AfterRun(p, part[p].slot), !.reg = 0] \in Private
    BY <2>1, SlotLabels DEF TypeOK, Private
  <2> QED BY <1>4, <2>1, <2>2 DEF StoreTimes, TypeOK, car
<1>5. CASE UpdateIsNewData(p)
  <2>1. part' \in [Part -> Private]
    BY <1>5, GotoType DEF UpdateIsNewData, TypeOK, Label
  <2> QED BY <1>5, <2>1 DEF UpdateIsNewData, TypeOK, car
<1>6. CASE SetCompulsiveCheckpoint(p)
  <2>1. part' \in [Part -> Private]
    BY <1>6, GotoType DEF SetCompulsiveCheckpoint, TypeOK, Label
  <2> QED BY <1>6, <2>1 DEF SetCompulsiveCheckpoint, TypeOK, car
<1>7. CASE WaitCompulsiveCheckpoint(p)
  <2>1. part' \in [Part -> Private]
    <3> DEFINE s == part[p].slot
    <3>1. s \in Slot
      BY DEF TypeOK, Private
    <3>2. CASE s < 3
      <4>1. s + 1 \in Slot
        BY <3>1, <3>2 DEF Slot
      <4>2. [part[p] EXCEPT !.slot = s + 1, !.at = EntryLabel(p, s + 1)] \in Private
        BY <4>1, SlotLabels DEF TypeOK, Private
      <4> QED BY <1>7, <3>2, <4>2 DEF WaitCompulsiveCheckpoint, TypeOK
    <3>3. CASE ~(s < 3)
      BY <1>7, <3>3, GotoType DEF WaitCompulsiveCheckpoint, TypeOK, Label
    <3> QED BY <3>2, <3>3
  <2> QED BY <1>7, <2>1 DEF WaitCompulsiveCheckpoint, TypeOK, car, shared
<1>8. CASE AdvanceStage(p)
  <2>1. part' \in [Part -> Private]
    BY <1>8, GotoType DEF AdvanceStage, TypeOK, Label
  <2>2. stage' \in [Part -> {0, 1}]
    BY <1>8 DEF AdvanceStage, TypeOK, ToBool
  <2> QED BY <1>8, <2>1, <2>2 DEF AdvanceStage, TypeOK, car
<1>9. CASE ExitOrLoop(p)
  <2>1. Start(p) \in Private
    BY SlotLabels DEF Slot
  <2> QED BY <1>9, <2>1 DEF ExitOrLoop, TypeOK, Status, car, shared
<1> QED BY <1>1, <1>2, <1>3, <1>4, <1>5, <1>6, <1>7, <1>8, <1>9 DEF PartStep

\* A step of the car preserves the types.
LEMMA CarStepType ==
  ASSUME TypeOK, CarStep
  PROVE  TypeOK'
<1>1. CASE ForkPart
  BY <1>1 DEF ForkPart, TypeOK, CarLabel, Status, shared
<1>2. CASE ResetNewData
  BY <1>2 DEF ResetNewData, TypeOK, CarLabel, procs
<1>3. CASE ResetNeed
  <2>1. cur' \in Part /\ mpc' \in CarLabel
    BY <1>3, NextIndexType DEF ResetNeed, TypeOK, CarLabel
  <2> QED BY <1>3, <2>1 DEF ResetNeed, TypeOK, procs
<1>4. CASE WhileTest
  BY <1>4 DEF WhileTest, TypeOK, CarLabel, procs, shared
<1>5. CASE CheckUnitCheckpoint
  <2>1. cur' \in Part /\ mpc' \in CarLabel
    BY <1>5, NextIndexType DEF CheckUnitCheckpoint, TypeOK, CarLabel
  <2>2. image' \in [Part -> Private \union {NoImage}]
    BY <1>5, SaveStateType DEF CheckUnitCheckpoint, TypeOK
  <2> QED BY <1>5, <2>1, <2>2 DEF CheckUnitCheckpoint, TypeOK, shared
<1>6. CASE CheckCompulsiveCheckpoint
  <2>1. cur' \in Part /\ mpc' \in CarLabel
    BY <1>6, NextIndexType DEF CheckCompulsiveCheckpoint, TypeOK, CarLabel
  <2>2. image' \in [Part -> Private \union {NoImage}]
    BY <1>6, SaveStateType DEF CheckCompulsiveCheckpoint, TypeOK
  <2> QED BY <1>6, <2>1, <2>2 DEF CheckCompulsiveCheckpoint, TypeOK, shared
<1>7. CASE GrantCompulsive
  <2>1. cur' \in Part /\ mpc' \in CarLabel
    BY <1>7, NextIndexType DEF GrantCompulsive, TypeOK, CarLabel
  <2> QED BY <1>7, <2>1 DEF GrantCompulsive, TypeOK, procs
<1>8. CASE FaultTest
  BY <1>8 DEF FaultTest, TypeOK, CarLabel, procs, shared
<1>9. CASE SimulateFault
  BY <1>9 DEF SimulateFault, TypeOK, CarLabel, Status, shared
<1>10. CASE ClearAfterFault
  BY <1>10 DEF ClearAfterFault, TypeOK, CarLabel, procs
<1>11. CASE RestoreState
  <2>1. PICK ok \in {FALSE} \union {image[cur] # NoImage} :
          /\ status' = IF ok THEN [status EXCEPT ![cur] = "running"] ELSE status
          /\ part' = IF ok THEN [part EXCEPT ![cur] = image[cur]] ELSE part
          /\ tries' = IF ok \/ tries = RETRIES THEN 0 ELSE tries + 1
          /\ IF tries = RETRIES THEN mpc' = "aborted" /\ UNCHANGED cur
             ELSE IF ok         THEN NextIndex("restore", "while")
                                ELSE UNCHANGED <<mpc, cur>>
    BY <1>11 DEF RestoreState
  <2>2. cur' \in Part /\ mpc' \in CarLabel
    BY <2>1, NextIndexType DEF TypeOK, CarLabel
  <2>3. part' \in [Part -> Private]
    BY <2>1 DEF TypeOK
  <2>4. tries' \in 0 .. RETRIES
    BY <2>1 DEF TypeOK, RETRIES
  <2>5. status' \in [Part -> Status]
    BY <2>1 DEF TypeOK, Status
  <2> QED BY <1>11, <2>2, <2>3, <2>4, <2>5 DEF RestoreState, TypeOK, shared
<1> QED BY <1>1, <1>2, <1>3, <1>4, <1>5, <1>6, <1>7, <1>8, <1>9, <1>10, <1>11
        DEF CarStep

\* Every variable keeps its type, for all configurations.
THEOREM TypeCorrect == Spec => []TypeOK
<1>1. Init => TypeOK
  <2> SUFFICES ASSUME Init PROVE TypeOK
    OBVIOUS
  <2>1. \A p \in Part : Start(p) \in Private
    BY SlotLabels DEF Slot
  <2> QED BY <2>1, ConfigAssumption
          DEF Init, TypeOK, CarLabel, Part, camera, speed, servoPID, Status, RETRIES
<1>2. TypeOK /\ [Next]_vars => TypeOK'
  <2> SUFFICES ASSUME TypeOK, [Next]_vars PROVE TypeOK'
    OBVIOUS
  <2>1. CASE UNCHANGED vars
    BY <2>1 DEF vars, TypeOK
  <2> QED BY <2>1, PartStepType, CarStepType DEF Next
<1> QED BY <1>1, <1>2, PTL DEF Spec

-----------------------------------------------------------------------------
(* What one step of a part does to the control points and the flags.        *)

\* Moving one part's control point leaves its counter register and the other
\* parts alone.
LEMMA GotoEffect ==
  ASSUME part \in [Part -> Private], NEW p \in Part, NEW label, Goto(p, label)
  PROVE  /\ part'[p].at = label /\ part'[p].reg = part[p].reg
         /\ \A q \in Part \ {p} : part'[q] = part[q]
BY DEF Goto, Private

\* The entry and exit of a slot are never inside `times += 1' or the wait's
\* store, and a part enters a slot by neither publishing nor asking.
LEMMA SlotLabelsAreOutside ==
  ASSUME NEW p, NEW s
  PROVE  /\ EntryLabel(p, s) \in {"wait", "run"}
         /\ AfterRun(p, s) \in {"publish", "set"}
         /\ Start(p).at \in {"wait", "run"}
BY DEF EntryLabel, AfterRun, Start

\* Leaving the busy-wait, a part starts a slot or ends its iteration.
LEMMA WaitEffect ==
  ASSUME TypeOK, NEW p \in Part, WaitCompulsiveCheckpoint(p)
  PROVE  /\ part'[p].at \in {"wait", "run", "stage"}
         /\ \A q \in Part \ {p} : part'[q] = part[q]
<1> DEFINE s == part[p].slot
<1>1. CASE s < 3
  <2>1. part' = [part EXCEPT ![p].slot = s + 1, ![p].at = EntryLabel(p, s + 1)]
    BY <1>1 DEF WaitCompulsiveCheckpoint
  <2>2. part'[p].at = EntryLabel(p, s + 1)
    BY <2>1 DEF TypeOK, Private
  <2> QED BY <2>1, <2>2, SlotLabelsAreOutside DEF TypeOK
<1>2. CASE ~(s < 3)
  BY <1>2, GotoEffect DEF WaitCompulsiveCheckpoint, TypeOK
<1> QED BY <1>1, <1>2

-----------------------------------------------------------------------------
(* Nothing but the speed part is ever saved, so nothing is ever restored.   *)

\* The fault is handled with the loop index at the camera.
AtStart == mpc \in {"faultTest", "kill", "clearNew", "restore"} => cur = camera

\* Without an image of the camera RestoreState can only fail.
LEMMA RestoreFails ==
  ASSUME TypeOK, OnlySpeedSaved, AtStart, RestoreState
  PROVE  UNCHANGED <<status, part, cur>> /\ mpc' \in {"restore", "aborted"}
<1>1. image[cur] = NoImage
  BY DEF OnlySpeedSaved, AtStart, RestoreState
<1> QED BY <1>1 DEF RestoreState

\* A car that has an index left goes on with it, and else starts anew at the
\* camera.
LEMMA NextIndexEffect ==
  ASSUME cur \in Part, NEW again, NEW after, NextIndex(again, after)
  PROVE  \/ cur # servoPID /\ mpc' = again
         \/ cur = servoPID /\ mpc' = after /\ cur' = camera
BY DEF NextIndex, Part, camera, speed, servoPID

\* OnlySpeedSaved is inductive together with AtStart.
LEMMA OnlySpeedSavedStep ==
  ASSUME TypeOK, OnlySpeedSaved, AtStart, Next
  PROVE  OnlySpeedSaved' /\ AtStart'
<1> USE DEF OnlySpeedSaved, AtStart
<1>1. ASSUME NEW p \in Part, PartStep(p)
      PROVE  OnlySpeedSaved' /\ AtStart'
  <2>1. UNCHANGED <<mpc, cur, image>>
    BY <1>1 DEF PartStep, WaitNeededNewData, ClearNewData, Run, StoreTimes,
                UpdateIsNewData, SetCompulsiveCheckpoint,
                WaitCompulsiveCheckpoint, AdvanceStage, ExitOrLoop, car
  <2>2. CASE AdvanceStage(p)
    <3>1. stage' = [stage EXCEPT ![p] = ToBool((stage[p] + 1) % 3)]
      BY <2>2 DEF AdvanceStage
    <3>2. ToBool((1 + 1) % 3) = 1
      BY DEF ToBool
    <3>3. \A q \in Part : stage'[q] = 1
      BY <3>1, <3>2 DEF TypeOK
    <3> QED BY <2>1, <3>3
  <2>3. CASE ~AdvanceStage(p)
    <3>1. UNCHANGED stage
      BY <1>1, <2>3 DEF PartStep, WaitNeededNewData, ClearNewData, Run, StoreTimes,
                UpdateIsNewData, SetCompulsiveCheckpoint,
                WaitCompulsiveCheckpoint, ExitOrLoop, shared
    <3> QED BY <2>1, <3>1
  <2> QED BY <2>2, <2>3
<1>2. ASSUME CarStep PROVE OnlySpeedSaved' /\ AtStart'
  <2>0. cur \in Part
    BY DEF TypeOK
  <2>1. CASE ForkPart
    BY <2>1 DEF ForkPart, shared
  <2>2. CASE ResetNewData
    BY <2>2 DEF ResetNewData, procs
  <2>3. CASE ResetNeed
    BY <2>0, <2>3, NextIndexEffect DEF ResetNeed, procs
  <2>4. CASE WhileTest
    BY <2>4 DEF WhileTest, procs, shared
  <2>5. CASE CheckUnitCheckpoint
    <3>1. mpc' \in {"unit", "compulsive"} /\ UNCHANGED stage
      BY <2>0, <2>5, NextIndexEffect DEF CheckUnitCheckpoint, shared
    <3>2. CASE SaveState(cur) /\ stage[cur] = cur
      <4>1. cur = speed
        BY <2>0, <3>2 DEF Part, camera, speed, servoPID
      <4>2. \A q \in Part \ {speed} : image'[q] = image[q]
        BY <2>0, <3>2, <4>1, SaveStateType
      <4> QED BY <3>1, <4>2 DEF Part, camera, speed, servoPID
    <3>3. CASE UNCHANGED image
      BY <3>1, <3>3
    <3> QED BY <2>5, <3>2, <3>3 DEF CheckUnitCheckpoint
  <2>6. CASE CheckCompulsiveCheckpoint
    <3>1. mpc' \in {"compulsive", "grant"} \/ (mpc' = "faultTest" /\ cur' = camera)
      BY <2>0, <2>6, NextIndexEffect DEF CheckCompulsiveCheckpoint
    <3>2. UNCHANGED stage
      BY <2>6 DEF CheckCompulsiveCheckpoint, shared
    <3>3. CASE SaveState(cur) /\ stage[cur] = cur
      <4>1. cur = speed
        BY <2>0, <3>3 DEF Part, camera, speed, servoPID
      <4>2. \A q \in Part \ {speed} : image'[q] = image[q]
        BY <2>0, <3>3, <4>1, SaveStateType
      <4> QED BY <3>1, <3>2, <4>2 DEF Part, camera, speed, servoPID
    <3>4. CASE UNCHANGED image
      BY <3>1, <3>2, <3>4
    <3> QED BY <2>6, <3>3, <3>4 DEF CheckCompulsiveCheckpoint
  <2>7. CASE GrantCompulsive
    BY <2>0, <2>7, NextIndexEffect DEF GrantCompulsive, procs
  <2>8. CASE FaultTest
    BY <2>8 DEF FaultTest, procs, shared
  <2>9. CASE SimulateFault
    BY <2>9 DEF SimulateFault, shared
  <2>10. CASE ClearAfterFault
    BY <2>10 DEF ClearAfterFault, procs
  <2>11. CASE RestoreState
    BY <2>11, RestoreFails DEF RestoreState, shared
  <2> QED BY <1>2, <2>1, <2>2, <2>3, <2>4, <2>5, <2>6, <2>7, <2>8, <2>9, <2>10, <2>11
          DEF CarStep
<1> QED BY <1>1, <1>2 DEF Next

\* Whatever the environment does, no image of the camera or of the servo part
\* is ever written: their stage never equals their number.
THEOREM OnlySpeedIsSaved == Spec => [](OnlySpeedSaved /\ AtStart)
<1>1. Init => OnlySpeedSaved /\ AtStart
  BY DEF Init, OnlySpeedSaved, AtStart, Part, camera, speed, servoPID
<1>2. TypeOK /\ OnlySpeedSaved /\ AtStart /\ [Next]_vars
        => (OnlySpeedSaved /\ AtStart)'
  <2>1. ASSUME OnlySpeedSaved, AtStart, UNCHANGED vars
        PROVE  OnlySpeedSaved' /\ AtStart'
    BY <2>1 DEF vars, OnlySpeedSaved, AtStart
  <2> QED BY <2>1, OnlySpeedSavedStep
<1> QED BY <1>1, <1>2, TypeCorrect, PTL DEF Spec

-----------------------------------------------------------------------------
(* The request flag and the control point of the part that raised it.       *)

\* A part touches its own control point, request flag and life only.
LEMMA PartFrame ==
  ASSUME TypeOK, NEW p \in Part, PartStep(p)
  PROVE  /\ UNCHANGED <<car, image>>
         /\ \A q \in Part \ {p} : /\ part'[q] = part[q]
                                   /\ need'[q] = need[q]
                                   /\ status'[q] = status[q]
<1> USE DEF TypeOK
<1>1. CASE WaitNeededNewData(p)
  BY <1>1 DEF WaitNeededNewData, Goto, shared
<1>2. CASE ClearNewData(p)
  BY <1>2 DEF ClearNewData, Goto
<1>3. CASE Run(p)
  BY <1>3 DEF Run, Goto, shared
<1>4. CASE StoreTimes(p)
  BY <1>4 DEF StoreTimes
<1>5. CASE UpdateIsNewData(p)
  BY <1>5 DEF UpdateIsNewData, Goto
<1>6. CASE SetCompulsiveCheckpoint(p)
  BY <1>6 DEF SetCompulsiveCheckpoint, Goto
<1>7. CASE WaitCompulsiveCheckpoint(p)
  BY <1>7, WaitEffect DEF WaitCompulsiveCheckpoint, shared
<1>8. CASE AdvanceStage(p)
  BY <1>8 DEF AdvanceStage, Goto
<1>9. CASE ExitOrLoop(p)
  BY <1>9 DEF ExitOrLoop, shared
<1> QED BY <1>1, <1>2, <1>3, <1>4, <1>5, <1>6, <1>7, <1>8, <1>9 DEF PartStep

\* The car moves no control point and counts nothing; it raises no request,
\* and it starts to answer one only for a part that has asked.
LEMMA CarFrame ==
  ASSUME TypeOK, OnlySpeedSaved, AtStart, CarStep
  PROVE  /\ UNCHANGED <<part, times>>
         /\ \A p \in Part : need'[p] => need[p]
         /\ mpc' = "grant" =>
              mpc = "compulsive" /\ need[cur] /\ cur' = cur /\ need' = need
<1>0. cur \in Part /\ need \in [Part -> BOOLEAN]
  BY DEF TypeOK
<1>1. CASE ForkPart
  BY <1>1 DEF ForkPart, shared
<1>2. CASE ResetNewData
  BY <1>2 DEF ResetNewData, procs
<1>3. CASE ResetNeed
  BY <1>0, <1>3, NextIndexEffect DEF ResetNeed, procs
<1>4. CASE WhileTest
  BY <1>4 DEF WhileTest, procs, shared
<1>5. CASE CheckUnitCheckpoint
  BY <1>0, <1>5, NextIndexEffect DEF CheckUnitCheckpoint, shared
<1>6. CASE CheckCompulsiveCheckpoint
  BY <1>0, <1>6, NextIndexEffect DEF CheckCompulsiveCheckpoint, shared
<1>7. CASE GrantCompulsive
  BY <1>0, <1>7, NextIndexEffect DEF GrantCompulsive, procs
<1>8. CASE FaultTest
  BY <1>8 DEF FaultTest, procs, shared
<1>9. CASE SimulateFault
  BY <1>9 DEF SimulateFault, shared
<1>10. CASE ClearAfterFault
  BY <1>10 DEF ClearAfterFault, procs
<1>11. CASE RestoreState
  BY <1>11, RestoreFails DEF RestoreState, shared
<1> QED BY <1>1, <1>2, <1>3, <1>4, <1>5, <1>6, <1>7, <1>8, <1>9, <1>10, <1>11
        DEF CarStep

\* A raised request holds its part, dead or alive, in the busy-wait; the car
\* answers standing requests only; and the load in a register of `times += 1'
\* is never stale, since the servo alone counts.
NeedAtSpin == \A p \in Part : need[p] => part[p].at = "spin"
GrantIsDue == mpc = "grant" => need[cur]
OneCounter ==
  \A p \in Part : part[p].at = "store" => p = servoPID /\ part[p].reg = times

Waiting == NeedAtSpin /\ GrantIsDue /\ OneCounter

\* A step of a part preserves Waiting, and never loses a count.
LEMMA WaitingPartStep ==
  ASSUME TypeOK, Waiting, NEW p \in Part, PartStep(p)
  PROVE  /\ Waiting'
         /\ times' \in {times, times + 1}
<1> USE DEF Waiting, NeedAtSpin, GrantIsDue, OneCounter
<1>a. /\ cur \in Part /\ need \in [Part -> BOOLEAN] /\ part \in [Part -> Private]
      /\ times \in Nat
  BY DEF TypeOK
<1>b. /\ UNCHANGED <<mpc, cur>>
      /\ \A q \in Part \ {p} : part'[q] = part[q] /\ need'[q] = need[q]
  BY PartFrame DEF car
<1>1. CASE WaitNeededNewData(p)
  BY <1>a, <1>b, <1>1, GotoEffect DEF WaitNeededNewData, shared, At
<1>2. CASE ClearNewData(p)
  BY <1>a, <1>b, <1>2, GotoEffect DEF ClearNewData, At
<1>3. CASE Run(p)
  <2>1. CASE p = servoPID
    <3>1. part'[p].at = "store" /\ part'[p].reg = times /\ ~need[p]
      BY <1>a, <1>3, <2>1 DEF Run, At, Private
    <3> QED BY <1>a, <1>b, <1>3, <2>1, <3>1 DEF Run, shared
  <2>2. CASE p # servoPID
    <3>1. part'[p].at \in {"publish", "set"} /\ ~need[p]
      BY <1>a, <1>3, <2>2, GotoEffect, SlotLabelsAreOutside DEF Run, At
    <3> QED BY <1>a, <1>b, <1>3, <2>2, <3>1 DEF Run, shared
  <2> QED BY <2>1, <2>2
<1>4. CASE StoreTimes(p)
  <2>1. p = servoPID /\ part[p].reg = times /\ ~need[p]
    BY <1>4 DEF StoreTimes, At
  <2>2. part'[p].at \in {"publish", "set"}
    BY <1>a, <1>4, SlotLabelsAreOutside DEF StoreTimes, Private
  <2>3. times' = times + 1 /\ UNCHANGED need
    BY <1>4, <2>1 DEF StoreTimes
  <2> QED BY <1>a, <1>b, <2>1, <2>2, <2>3
<1>5. CASE UpdateIsNewData(p)
  BY <1>a, <1>b, <1>5, GotoEffect DEF UpdateIsNewData, At
<1>6. CASE SetCompulsiveCheckpoint(p)
  BY <1>a, <1>b, <1>6, GotoEffect DEF SetCompulsiveCheckpoint, At
<1>7. CASE WaitCompulsiveCheckpoint(p)
  BY <1>a, <1>b, <1>7, WaitEffect DEF WaitCompulsiveCheckpoint, shared
<1>8. CASE AdvanceStage(p)
  BY <1>a, <1>b, <1>8, GotoEffect DEF AdvanceStage, At
<1>9. CASE ExitOrLoop(p)
  <2>1. ~need[p]
    BY <1>9 DEF ExitOrLoop, At
  <2>2. part'[p].at # "store"
    BY <1>a, <1>9, SlotLabelsAreOutside DEF ExitOrLoop, At
  <2> QED BY <1>a, <1>b, <1>9, <2>1, <2>2 DEF ExitOrLoop, shared
<1> QED BY <1>1, <1>2, <1>3, <1>4, <1>5, <1>6, <1>7, <1>8, <1>9 DEF PartStep

\* What is known of every reachable state at this point.
Base == TypeOK /\ OnlySpeedSaved /\ AtStart /\ Waiting

\* All of it holds of every reachable state, for every configuration.
THEOREM BaseHolds == Spec => []Base
<1>1. Init => Waiting
  BY SlotLabelsAreOutside DEF Init, Waiting, NeedAtSpin, GrantIsDue, OneCounter
<1>2. TypeOK /\ OnlySpeedSaved /\ AtStart /\ Waiting /\ [Next]_vars => Waiting'
  <2> SUFFICES ASSUME TypeOK, OnlySpeedSaved, AtStart, Waiting, [Next]_vars
               PROVE  Waiting'
    OBVIOUS
  <2>1. CASE UNCHANGED vars
    BY <2>1 DEF vars, Waiting, NeedAtSpin, GrantIsDue, OneCounter
  <2>2. CASE CarStep
    BY <2>2, CarFrame DEF Waiting, NeedAtSpin, GrantIsDue, OneCounter
  <2> QED BY <2>1, <2>2, WaitingPartStep DEF Next
<1> QED BY <1>1, <1>2, TypeCorrect, OnlySpeedIsSaved, PTL DEF Spec, Base

\* A raised request of a live part finds it in its busy-wait.
THEOREM RequestsAreWaitedFor == Spec => []NeedMeansWaiting
<1>1. Base => NeedMeansWaiting
  BY DEF Base, Waiting, NeedAtSpin, NeedMeansWaiting
<1> QED BY <1>1, BaseHolds, PTL

\* The servo's counter only ever goes up, by one.
THEOREM NoLostCount == Spec => TimesMonotone
<1>1. Base /\ [Next]_vars => [times' \in {times, times + 1}]_vars
  <2>1. ASSUME Base, Next PROVE times' \in {times, times + 1}
    BY <2>1, WaitingPartStep, CarFrame DEF Base, Next
  <2> QED BY <2>1
<1> QED BY <1>1, BaseHolds, PTL DEF Spec, TimesMonotone

-----------------------------------------------------------------------------
(* The fault. *)

\* FaultIsFatal is preserved: the car only restores after a fault, and cannot.
LEMMA FaultIsFatalStep ==
  ASSUME Base, FaultIsFatal, CarStep
  PROVE  FaultIsFatal'
<1> USE DEF FaultIsFatal, Base
<1>0. cur \in Part
  BY DEF TypeOK
<1>1. CASE ForkPart
  BY <1>1 DEF ForkPart
<1>2. CASE ResetNewData
  BY <1>2 DEF ResetNewData
<1>3. CASE ResetNeed
  BY <1>3 DEF ResetNeed
<1>4. CASE WhileTest
  BY <1>4 DEF WhileTest
<1>5. CASE CheckUnitCheckpoint
  BY <1>5 DEF CheckUnitCheckpoint
<1>6. CASE CheckCompulsiveCheckpoint
  BY <1>6 DEF CheckCompulsiveCheckpoint
<1>7. CASE GrantCompulsive
  BY <1>7 DEF GrantCompulsive
<1>8. CASE FaultTest
  BY <1>8 DEF FaultTest
<1>9. CASE SimulateFault
  BY <1>9 DEF SimulateFault
<1>10. CASE ClearAfterFault
  BY <1>10 DEF ClearAfterFault
<1>11. CASE RestoreState
  BY <1>11, RestoreFails DEF RestoreState
<1> QED BY <1>1, <1>2, <1>3, <1>4, <1>5, <1>6, <1>7, <1>8, <1>9, <1>10, <1>11
        DEF CarStep

\* After the injected fault the car never supervises again, whatever the
\* method, the number of cycles and the luck with dumps and restores.
THEOREM FaultEndsTheRun == Spec => []FaultIsFatal
<1>1. Init => FaultIsFatal
  BY ConfigAssumption DEF Init, FaultIsFatal
<1>2. Base /\ FaultIsFatal /\ [Next]_vars => FaultIsFatal'
  <2> SUFFICES ASSUME Base, FaultIsFatal, [Next]_vars PROVE FaultIsFatal'
    OBVIOUS
  <2>1. CASE UNCHANGED vars
    BY <2>1 DEF vars, FaultIsFatal
  <2>2. ASSUME NEW p \in Part, PartStep(p) PROVE FaultIsFatal'
    BY <2>2, PartFrame DEF Base, FaultIsFatal, car
  <2> QED BY <2>1, <2>2, FaultIsFatalStep DEF Next
<1> QED BY <1>1, <1>2, BaseHolds, PTL DEF Spec

-----------------------------------------------------------------------------
(* The image of a compulsive checkpoint. *)

\* A part that has asked does nothing until it is answered.
LEMMA AskedPartIsHeld ==
  ASSUME Base, NEW p \in Part, NEW q \in Part, need[q], PartStep(p)
  PROVE  part'[q] = part[q] /\ status'[q] = status[q]
<1>1. CASE p # q
  BY <1>1, PartFrame DEF Base
<1>2. CASE p = q
  BY <1>2 DEF Base, Waiting, NeedAtSpin, PartStep, WaitNeededNewData,
       ClearNewData, Run, StoreTimes, UpdateIsNewData,
       SetCompulsiveCheckpoint, WaitCompulsiveCheckpoint, AdvanceStage,
       ExitOrLoop, At
<1> QED BY <1>1, <1>2

\* Between the dump and the answer, the image of a held part is its state.
THEOREM CompulsiveImageIsExact == Spec => []CompulsiveImage
<1>1. Init => CompulsiveImage
  BY DEF Init, CompulsiveImage
<1>2. Base /\ CompulsiveImage /\ [Next]_vars => CompulsiveImage'
  <2> SUFFICES ASSUME Base, CompulsiveImage, [Next]_vars PROVE CompulsiveImage'
    OBVIOUS
  <2> USE DEF CompulsiveImage
  <2>0. cur \in Part /\ image \in [Part -> Private \union {NoImage}]
    BY DEF Base, TypeOK
  <2>1. CASE UNCHANGED vars
    BY <2>1 DEF vars
  <2>2. ASSUME NEW p \in Part, PartStep(p) PROVE CompulsiveImage'
    <3>1. UNCHANGED <<mpc, cur, image>>
      BY <2>2, PartFrame DEF Base, car
    <3>2. SUFFICES ASSUME mpc = "grant" PROVE CompulsiveImage'
      BY <3>1
    <3>3. need[cur]
      BY <3>2 DEF Base, Waiting, GrantIsDue
    <3>4. part'[cur] = part[cur] /\ status'[cur] = status[cur]
      BY <2>0, <2>2, <3>3, AskedPartIsHeld
    <3>5. stage' = stage
      <4>1. OnlySpeedSaved' /\ OnlySpeedSaved
        BY <2>2, OnlySpeedSavedStep DEF Base, Next
      <4>2. TypeOK'
        BY <2>2, PartStepType DEF Base
      <4> QED BY <4>1, <4>2 DEF OnlySpeedSaved, TypeOK, Base
    <3> QED BY <3>1, <3>3, <3>4, <3>5
  <2>3. ASSUME CarStep, mpc' = "grant" PROVE CompulsiveImage'
    <3>1. mpc = "compulsive" /\ need[cur] /\ cur' = cur
      BY <2>3, CarFrame DEF Base
    <3>2. CheckCompulsiveCheckpoint
      BY <2>3, <3>1 DEF CarStep, ForkPart, ResetNewData, ResetNeed, WhileTest,
         CheckUnitCheckpoint, GrantCompulsive, FaultTest, SimulateFault,
         ClearAfterFault, RestoreState
    <3>3. METHOD # 1 /\ stage[cur] = cur => SaveState(cur)
      BY <3>1, <3>2, ConfigAssumption DEF CheckCompulsiveCheckpoint
    <3>4. UNCHANGED <<stage, status, part>>
      BY <3>2 DEF CheckCompulsiveCheckpoint, shared
    <3> QED BY <2>0, <3>1, <3>3, <3>4 DEF SaveState
  <2> QED BY <2>1, <2>2, <2>3 DEF Next
<1> QED BY <1>1, <1>2, BaseHolds, PTL DEF Spec

-----------------------------------------------------------------------------
(* The data flags. *)

\* A raised data flag, and a part about to lower it, mean data published
\* since the consumer last lowered it.
FlagsAreFresh ==
  \A p \in Part \ {camera} :
    isNew[Source(p)] \/ part[p].at = "clear" => fresh[p]

\* A step of a part preserves FlagsAreFresh.
LEMMA FreshPartStep ==
  ASSUME Base, FlagsAreFresh, NEW p \in Part, PartStep(p)
  PROVE  FlagsAreFresh'
<1> USE DEF FlagsAreFresh
<1>a. /\ isNew \in [Part -> BOOLEAN] /\ fresh \in [Part -> BOOLEAN]
      /\ part \in [Part -> Private]
  BY DEF Base, TypeOK
<1>b. \A q \in Part \ {p} : part'[q] = part[q]
  BY PartFrame DEF Base
<1>c. \A q, r \in Part : Source(q) = Source(r) => q = r
  BY DEF Source, Part, camera, speed, servoPID
<1>1. CASE WaitNeededNewData(p)
  BY <1>a, <1>b, <1>1 DEF WaitNeededNewData, shared
<1>2. CASE ClearNewData(p)
  <2>1. part'[p].at = "run"
    BY <1>a, <1>2, GotoEffect DEF ClearNewData
  <2>2. isNew' = [isNew EXCEPT ![Source(p)] = FALSE]
        /\ fresh' = [fresh EXCEPT ![p] = FALSE]
    BY <1>2 DEF ClearNewData
  <2>3. \A q \in Part \ {camera} : Source(q) \in Part
    BY DEF Source, Part, camera, speed, servoPID
  <2> QED BY <1>a, <1>b, <1>c, <2>1, <2>2, <2>3
<1>3. CASE Run(p)
  <2>1. part'[p].at # "clear"
    BY <1>a, <1>3, GotoEffect, SlotLabelsAreOutside DEF Run, Private
  <2> QED BY <1>a, <1>b, <1>3, <2>1 DEF Run, shared
<1>4. CASE StoreTimes(p)
  <2>1. part'[p].at # "clear"
    BY <1>a, <1>4, SlotLabelsAreOutside DEF StoreTimes, Private
  <2> QED BY <1>a, <1>b, <1>4, <2>1 DEF StoreTimes
<1>5. CASE UpdateIsNewData(p)
  <2>1. part'[p].at = "set"
    BY <1>a, <1>5, GotoEffect DEF UpdateIsNewData
  <2>2. CASE p = servoPID
    <3>1. \A q \in Part \ {camera} : Source(q) # servoPID
      BY DEF Source, Part, camera, speed, servoPID
    <3> QED BY <1>a, <1>b, <1>5, <2>1, <2>2, <3>1 DEF UpdateIsNewData
  <2>3. CASE p # servoPID
    <3>1. /\ isNew' = [isNew EXCEPT ![p] = TRUE]
          /\ fresh' = [fresh EXCEPT ![Consumer(p)] = TRUE]
      BY <1>5, <2>3 DEF UpdateIsNewData
    <3>2. \A q \in Part : Source(q) = p => q = Consumer(p)
      BY DEF Source, Consumer, Part, camera, speed, servoPID
    <3> QED BY <1>a, <1>b, <2>1, <3>1, <3>2
  <2> QED BY <2>2, <2>3
<1>6. CASE SetCompulsiveCheckpoint(p)
  BY <1>a, <1>b, <1>6, GotoEffect DEF SetCompulsiveCheckpoint
<1>7. CASE WaitCompulsiveCheckpoint(p)
  BY <1>a, <1>b, <1>7, WaitEffect DEF WaitCompulsiveCheckpoint, shared, Base
<1>8. CASE AdvanceStage(p)
  BY <1>a, <1>b, <1>8, GotoEffect DEF AdvanceStage
<1>9. CASE ExitOrLoop(p)
  <2>1. part'[p].at # "clear"
    BY <1>a, <1>9, SlotLabelsAreOutside DEF ExitOrLoop, At
  <2> QED BY <1>a, <1>b, <1>9, <2>1 DEF ExitOrLoop, shared
<1> QED BY <1>1, <1>2, <1>3, <1>4, <1>5, <1>6, <1>7, <1>8, <1>9 DEF PartStep

\* The car only lowers data flags.
LEMMA CarRaisesNoFlag ==
  ASSUME Base, CarStep
  PROVE  UNCHANGED fresh /\ \A p \in Part : isNew'[p] => isNew[p]
BY DEF Base, TypeOK, CarStep, ForkPart, ResetNewData, ResetNeed, WhileTest,
       CheckUnitCheckpoint, CheckCompulsiveCheckpoint, GrantCompulsive,
       FaultTest, SimulateFault, ClearAfterFault, RestoreState, shared

\* A synchronised slot always runs on newly published data.
THEOREM DataIsFresh == Spec => []RunsOnFreshData
<1>1. Init => FlagsAreFresh
  BY SlotLabelsAreOutside
     DEF Init, FlagsAreFresh, Source, Part, camera, speed, servoPID
<1>2. Base /\ FlagsAreFresh /\ [Next]_vars => FlagsAreFresh'
  <2> SUFFICES ASSUME Base, FlagsAreFresh, [Next]_vars PROVE FlagsAreFresh'
    OBVIOUS
  <2>1. CASE UNCHANGED vars
    BY <2>1 DEF vars, FlagsAreFresh
  <2>2. CASE CarStep
    <3>1. UNCHANGED part
      BY <2>2, CarFrame DEF Base
    <3>2. \A q \in Part \ {camera} : Source(q) \in Part
      BY DEF Source, Part, camera, speed, servoPID
    <3> QED BY <2>2, <3>1, <3>2, CarRaisesNoFlag DEF FlagsAreFresh
  <2> QED BY <2>1, <2>2, FreshPartStep DEF Next
<1>3. FlagsAreFresh => RunsOnFreshData
  BY DEF FlagsAreFresh, RunsOnFreshData
<1> QED BY <1>1, <1>2, <1>3, BaseHolds, PTL DEF Spec

-----------------------------------------------------------------------------
(* The counter that ends the run and triggers the fault. *)

\* How often the servo may still count without a further answer of the car.
Credit ==
  IF part[servoPID].at \in {"publish", "set"} \/ need[servoPID] THEN 0 ELSE 1

\* The counter and the servo's credit, at each control point of the car.
CountedAhead ==
  /\ times + Credit <= MAX_TIMES + 2
  /\ mpc \in {"fork", "resetNew", "resetNeed"} => times + Credit <= 1
  /\ mpc \in {"unit", "compulsive", "grant"} => times + Credit <= MAX_TIMES + 1
  /\ mpc = "while" /\ ~FAULTED /\ FAULT_STEP >= 1
       => times + Credit <= FAULT_STEP + 1

\* The servo spends its credit by counting: the sum stays the same.
LEMMA PartsSpendCredit ==
  ASSUME Base, NEW p \in Part, PartStep(p)
  PROVE  times' + Credit' = times + Credit
<1> USE DEF Credit
<1>a. /\ need \in [Part -> BOOLEAN] /\ part \in [Part -> Private]
      /\ times \in Nat /\ servoPID \in Part
      /\ \A q \in Part : part[q].at = "store" => q = servoPID /\ part[q].reg = times
      /\ \A q \in Part : need[q] => part[q].at = "spin"
  BY DEF Base, TypeOK, Waiting, OneCounter, NeedAtSpin, Part, camera, speed, servoPID
<1>b. \A q \in Part \ {p} : part'[q] = part[q] /\ need'[q] = need[q]
  BY PartFrame DEF Base
<1>1. CASE WaitNeededNewData(p)
  BY <1>a, <1>b, <1>1, GotoEffect DEF WaitNeededNewData, shared, At
<1>2. CASE ClearNewData(p)
  BY <1>a, <1>b, <1>2, GotoEffect DEF ClearNewData, At
<1>3. CASE Run(p)
  <2>1. CASE p = servoPID
    <3>1. part'[p].at = "store"
      BY <1>a, <1>3, <2>1 DEF Run, Private
    <3> QED BY <1>a, <1>3, <2>1, <3>1 DEF Run, At, shared
  <2>2. CASE p # servoPID
    BY <1>a, <1>b, <1>3, <2>2 DEF Run, shared
  <2> QED BY <2>1, <2>2
<1>4. CASE StoreTimes(p)
  <2>1. p = servoPID /\ times' = times + 1 /\ need' = need /\ ~need[p]
        /\ part[p].at = "store"
    BY <1>a, <1>4 DEF StoreTimes, At
  <2>2. part'[p].at \in {"publish", "set"}
    BY <1>a, <1>4, SlotLabelsAreOutside DEF StoreTimes, Private
  <2> QED BY <1>a, <2>1, <2>2
<1>5. CASE UpdateIsNewData(p)
  BY <1>a, <1>b, <1>5, GotoEffect DEF UpdateIsNewData, At
<1>6. CASE SetCompulsiveCheckpoint(p)
  BY <1>a, <1>b, <1>6, GotoEffect DEF SetCompulsiveCheckpoint, At
<1>7. CASE WaitCompulsiveCheckpoint(p)
  BY <1>a, <1>b, <1>7, WaitEffect DEF WaitCompulsiveCheckpoint, shared, At, Base
<1>8. CASE AdvanceStage(p)
  BY <1>a, <1>b, <1>8, GotoEffect DEF AdvanceStage, At
<1>9. CASE ExitOrLoop(p)
  <2>1. part'[p].at \in {"check", "wait", "run"} /\ part[p].at = "check"
    BY <1>a, <1>9, SlotLabelsAreOutside DEF ExitOrLoop, At
  <2> QED BY <1>a, <1>b, <1>9, <2>1 DEF ExitOrLoop, shared
<1> QED BY <1>1, <1>2, <1>3, <1>4, <1>5, <1>6, <1>7, <1>8, <1>9 DEF PartStep

\* The car gives credit only by clearing the servo's request: once before its
\* loop, and at most once in each turn of it.
LEMMA CarGivesCredit ==
  ASSUME Base, CarStep
  PROVE  /\ times' = times
         /\ \/ Credit' = Credit
            \/ /\ Credit = 0 /\ Credit' = 1
               /\ \/ mpc = "resetNeed" /\ mpc' = "while"
                  \/ mpc = "grant" /\ mpc' = "faultTest"
<1>1. UNCHANGED <<part, times>> /\ \A p \in Part : need'[p] => need[p]
  BY CarFrame DEF Base
<1>2. cur \in Part /\ need \in [Part -> BOOLEAN] /\ servoPID \in Part
  BY DEF Base, TypeOK, Part, camera, speed, servoPID
<1>3. CASE need'[servoPID] = need[servoPID]
  BY <1>1, <1>3 DEF Credit
<1>4. CASE need'[servoPID] # need[servoPID]
  <2>1. ResetNeed \/ GrantCompulsive
    BY <1>4 DEF CarStep, ForkPart, ResetNewData, WhileTest, CheckUnitCheckpoint,
       CheckCompulsiveCheckpoint, FaultTest, SimulateFault, ClearAfterFault,
       RestoreState, shared
  <2>2. cur = servoPID
    BY <1>2, <1>4, <2>1 DEF ResetNeed, GrantCompulsive
  <2>3. \/ mpc = "resetNeed" /\ mpc' = "while"
        \/ mpc = "grant" /\ mpc' = "faultTest"
    BY <1>2, <2>1, <2>2, NextIndexEffect DEF ResetNeed, GrantCompulsive
  <2>4. need[servoPID] /\ ~need'[servoPID] /\ part[servoPID].at = "spin"
    BY <1>1, <1>2, <1>4, <2>1 DEF Base, Waiting, NeedAtSpin, ResetNeed, GrantCompulsive
  <2> QED BY <1>1, <2>3, <2>4 DEF Credit
<1> QED BY <1>3, <1>4

\* Where the car may go in one step, and what it has then seen of times.
LEMMA CarPath ==
  ASSUME Base, FaultIsFatal, CarStep
  PROVE  \/ mpc = "fork" /\ mpc' \in {"fork", "resetNew"}
         \/ mpc = "resetNew" /\ mpc' = "resetNeed"
         \/ mpc = "resetNeed" /\ mpc' \in {"resetNew", "while"}
         \/ mpc = "while" /\ mpc' = "unit" /\ times <= MAX_TIMES
         \/ mpc = "while" /\ mpc' = "done" /\ ~(times <= MAX_TIMES)
         \/ mpc = "unit" /\ mpc' \in {"unit", "compulsive"}
         \/ mpc = "compulsive" /\ mpc' \in {"compulsive", "grant", "faultTest"}
         \/ mpc = "grant" /\ mpc' \in {"compulsive", "faultTest"}
         \/ /\ mpc = "faultTest" /\ mpc' = "while"
            /\ FAULTED \/ ~(times > FAULT_STEP)
         \/ /\ mpc \in {"faultTest", "kill", "clearNew", "restore"}
            /\ mpc' \in {"kill", "clearNew", "restore", "aborted"}
<1>0. cur \in Part
  BY DEF Base, TypeOK
<1>1. CASE ForkPart
  BY <1>1 DEF ForkPart
<1>2. CASE ResetNewData
  BY <1>2 DEF ResetNewData
<1>3. CASE ResetNeed
  BY <1>0, <1>3, NextIndexEffect DEF ResetNeed
<1>4. CASE WhileTest
  BY <1>4 DEF WhileTest
<1>5. CASE CheckUnitCheckpoint
  BY <1>0, <1>5, NextIndexEffect DEF CheckUnitCheckpoint
<1>6. CASE CheckCompulsiveCheckpoint
  BY <1>0, <1>6, NextIndexEffect DEF CheckCompulsiveCheckpoint
<1>7. CASE GrantCompulsive
  BY <1>0, <1>7, NextIndexEffect DEF GrantCompulsive
<1>8. CASE FaultTest
  BY <1>8, ConfigAssumption DEF FaultTest, FaultIsFatal
<1>9. CASE SimulateFault
  BY <1>9 DEF SimulateFault
<1>10. CASE ClearAfterFault
  BY <1>10 DEF ClearAfterFault
<1>11. CASE RestoreState
  BY <1>11, RestoreFails DEF Base, RestoreState
<1> QED BY <1>1, <1>2, <1>3, <1>4, <1>5, <1>6, <1>7, <1>8, <1>9, <1>10, <1>11
        DEF CarStep

\* CountedAhead is an invariant.
LEMMA CountedAheadHolds == Spec => [](Base /\ FaultIsFatal /\ CountedAhead)
<1>1. Init => CountedAhead
  BY ConfigAssumption DEF Init, CountedAhead, Credit
<1>2. Base /\ FaultIsFatal /\ CountedAhead /\ [Next]_vars => CountedAhead'
  <2> SUFFICES ASSUME Base, FaultIsFatal, CountedAhead, [Next]_vars
               PROVE  CountedAhead'
    OBVIOUS
  <2>0. times \in Nat /\ Credit \in {0, 1}
    BY DEF Base, TypeOK, Credit
  <2>1. CASE UNCHANGED vars
    BY <2>1 DEF vars, CountedAhead, Credit
  <2>2. ASSUME NEW p \in Part, PartStep(p) PROVE CountedAhead'
    <3>1. mpc' = mpc /\ times' + Credit' = times + Credit
      BY <2>2, PartFrame, PartsSpendCredit DEF Base, car
    <3> QED BY <3>1 DEF CountedAhead
  <2>3. CASE CarStep
    BY <2>0, <2>3, CarPath, CarGivesCredit, ConfigAssumption DEF CountedAhead
  <2> QED BY <2>1, <2>2, <2>3 DEF Next
<1> QED BY <1>1, <1>2, BaseHolds, FaultEndsTheRun, PTL DEF Spec

\* The final counter exceeds MAX_TIMES by two at most.
THEOREM CounterOvershoot == Spec => []TimesBounded
<1>1. Base /\ CountedAhead => TimesBounded
  BY ConfigAssumption DEF Base, TypeOK, CountedAhead, Credit, TimesBounded
<1> QED BY <1>1, CountedAheadHolds, PTL

\* A fault due before the last cycle cannot be overtaken: the main loop is
\* never left through its test.
THEOREM DefaultConfigurationNeverFinishes == Spec => []DefaultNeverFinishes
<1>1. Init => DefaultNeverFinishes
  BY DEF Init, DefaultNeverFinishes
<1>2. Base /\ FaultIsFatal /\ CountedAhead /\ DefaultNeverFinishes /\ [Next]_vars
        => DefaultNeverFinishes'
  <2> SUFFICES ASSUME Base, FaultIsFatal, CountedAhead, DefaultNeverFinishes,
                      [Next]_vars
               PROVE  DefaultNeverFinishes'
    OBVIOUS
  <2> USE DEF DefaultNeverFinishes
  <2>0. times \in Nat /\ Credit \in {0, 1}
    BY DEF Base, TypeOK, Credit
  <2>1. CASE UNCHANGED vars
    BY <2>1 DEF vars
  <2>2. ASSUME NEW p \in Part, PartStep(p) PROVE DefaultNeverFinishes'
    BY <2>2, PartFrame DEF Base, car
  <2>3. CASE CarStep
    BY <2>0, <2>3, CarPath, ConfigAssumption DEF CountedAhead
  <2> QED BY <2>1, <2>2, <2>3 DEF Next
<1> QED BY <1>1, <1>2, CountedAheadHolds, PTL DEF Spec

-----------------------------------------------------------------------------
(* The flags implement the abstract handshake. *)

\* A part that has not been forked is at its first instruction, and the car
\* forks each part once.
Unforked ==
  /\ \A p \in Part : status[p] = "none" => part[p].at # "spin"
  /\ mpc = "fork" => \A p \in todo : status[p] = "none"

\* The car cannot bring a part back, and only the fork brings one up.
LEMMA UnforkedHolds == Spec => [](Base /\ Unforked)
<1>1. Init => Unforked
  BY SlotLabelsAreOutside DEF Init, Unforked
<1>2. Base /\ Unforked /\ [Next]_vars => Unforked'
  <2> SUFFICES ASSUME Base, Unforked, [Next]_vars PROVE Unforked'
    OBVIOUS
  <2> USE DEF Unforked
  <2>0. status \in [Part -> Status] /\ todo \subseteq Part /\ cur \in Part
    BY DEF Base, TypeOK
  <2>1. CASE UNCHANGED vars
    BY <2>1 DEF vars
  <2>2. ASSUME NEW p \in Part, PartStep(p) PROVE Unforked'
    <3>1. /\ status[p] = "running" /\ status'[p] \in {"running", "exited"}
          /\ UNCHANGED <<mpc, todo>>
      BY <2>0, <2>2 DEF PartStep, WaitNeededNewData, ClearNewData, Run, StoreTimes,
           UpdateIsNewData, SetCompulsiveCheckpoint,
           WaitCompulsiveCheckpoint, AdvanceStage, ExitOrLoop, At, car
    <3>2. \A q \in Part \ {p} : part'[q] = part[q] /\ status'[q] = status[q]
      BY <2>2, PartFrame DEF Base
    <3> QED BY <2>0, <3>1, <3>2
  <2>3. CASE CarStep
    <3>1. part' = part
      BY <2>3, CarFrame DEF Base
    <3>2. CASE ForkPart
      BY <2>0, <3>1, <3>2 DEF ForkPart
    <3>3. CASE SimulateFault
      BY <2>0, <3>1, <3>3 DEF SimulateFault
    <3>4. CASE RestoreState
      BY <3>1, <3>4, RestoreFails DEF Base, RestoreState
    <3>5. CASE ~ForkPart /\ ~SimulateFault /\ ~RestoreState
      <4>1. UNCHANGED status
        BY <2>3, <3>5 DEF CarStep, ResetNewData, ResetNeed, WhileTest,
           CheckUnitCheckpoint, CheckCompulsiveCheckpoint, GrantCompulsive,
           FaultTest, ClearAfterFault, procs
      <4>2. mpc' # "fork"
        BY <2>0, <2>3, <3>5, NextIndexEffect
           DEF CarStep, ResetNewData, ResetNeed, WhileTest,
           CheckUnitCheckpoint, CheckCompulsiveCheckpoint, GrantCompulsive,
           FaultTest, ClearAfterFault
      <4> QED BY <3>1, <4>1, <4>2
    <3> QED BY <3>2, <3>3, <3>4, <3>5
  <2> QED BY <2>1, <2>2, <2>3 DEF Next
<1> QED BY <1>1, <1>2, BaseHolds, PTL DEF Spec

\* The variables of the handshake, as the implementation shows them.
Phases  == [p \in Part |-> Phase(p)]
Managed == mpc \notin {"done", "aborted"}

\* The four phases by their conditions.
LEMMA PhaseCases ==
  ASSUME NEW p \in Part
  PROVE  /\ status[p] # "running" => Phase(p) = "off"
         /\ status[p] = "running" =>
              /\ part[p].at # "spin" => Phase(p) = "run"
              /\ part[p].at = "spin" /\ need[p] => Phase(p) = "requested"
              /\ part[p].at = "spin" /\ ~need[p] => Phase(p) = "granted"
BY DEF Phase, At

\* The same of the state after a step.
LEMMA PhaseCasesNext ==
  ASSUME NEW p \in Part
  PROVE  /\ status'[p] # "running" => Phase(p)' = "off"
         /\ status'[p] = "running" =>
              /\ part'[p].at # "spin" => Phase(p)' = "run"
              /\ part'[p].at = "spin" /\ need'[p] => Phase(p)' = "requested"
              /\ part'[p].at = "spin" /\ ~need'[p] => Phase(p)' = "granted"
BY DEF Phase, At

\* A step that moves one part between two phases, or keeps it in its phase.
LEMMA OnePhaseMoves ==
  ASSUME NEW p \in Part, NEW to, Phase(p)' = to,
         \A q \in Part \ {p} : Phase(q)' = Phase(q)
  PROVE  Phases' = [Phases EXCEPT ![p] = to]
BY DEF Phases

\* A step of a part is a request, a resumption, an exit or nothing to the
\* handshake.
LEMMA PartImplements ==
  ASSUME Base, NEW p \in Part, PartStep(p)
  PROVE  /\ Managed' = Managed
         /\ \/ Phases' = Phases
            \/ /\ Phases[p] = "run" /\ Phases' = [Phases EXCEPT ![p] = "requested"]
            \/ /\ Phases[p] = "granted" /\ Phases' = [Phases EXCEPT ![p] = "run"]
            \/ /\ Phases[p] = "run" /\ Phases' = [Phases EXCEPT ![p] = "off"]
<1>a. /\ need \in [Part -> BOOLEAN] /\ part \in [Part -> Private]
      /\ status \in [Part -> Status]
  BY DEF Base, TypeOK
<1>b. \A q \in Part \ {p} : Phase(q)' = Phase(q)
  BY PartFrame DEF Base, Phase, At
<1>c. Phases[p] = Phase(p)
  BY DEF Phases
<1>d. Managed' = Managed
  BY PartFrame DEF Base, Managed, car
<1>e. ASSUME Phase(p)' = Phase(p) PROVE Phases' = Phases
  BY <1>b, <1>e DEF Phases
<1>1. CASE SetCompulsiveCheckpoint(p)
  <2>1. status' = status /\ status[p] = "running" /\ part[p].at = "set"
        /\ part'[p].at = "spin" /\ need'[p]
    BY <1>a, <1>1, GotoEffect DEF SetCompulsiveCheckpoint, At
  <2>2. Phase(p) = "run" /\ Phase(p)' = "requested"
    BY <2>1, PhaseCases, PhaseCasesNext
  <2> QED BY <1>b, <1>c, <1>d, <2>2, OnePhaseMoves
<1>2. CASE WaitCompulsiveCheckpoint(p)
  <2>1. status' = status /\ status[p] = "running" /\ part[p].at = "spin" /\ ~need[p]
        /\ part'[p].at # "spin"
    BY <1>2, WaitEffect DEF Base, WaitCompulsiveCheckpoint, At
  <2>2. Phase(p) = "granted" /\ Phase(p)' = "run"
    BY <2>1, PhaseCases, PhaseCasesNext
  <2> QED BY <1>b, <1>c, <1>d, <2>2, OnePhaseMoves
<1>3. CASE ExitOrLoop(p)
  <2>1. Phase(p) = "run"
    BY <1>3, PhaseCases DEF ExitOrLoop, At
  <2>2. status'[p] # "running" \/ (status'[p] = "running" /\ part'[p].at # "spin")
    BY <1>a, <1>3, SlotLabelsAreOutside DEF ExitOrLoop, At
  <2>3. Phase(p)' \in {"off", "run"}
    BY <2>2, PhaseCasesNext
  <2> QED BY <1>b, <1>c, <1>d, <1>e, <2>1, <2>3, OnePhaseMoves
<1>4. CASE WaitNeededNewData(p) \/ ClearNewData(p) \/ Run(p) \/ StoreTimes(p)
           \/ UpdateIsNewData(p) \/ AdvanceStage(p)
  <2>1. status' = status /\ status[p] = "running" /\ part[p].at # "spin"
    BY <1>4 DEF WaitNeededNewData, ClearNewData, Run, StoreTimes,
                UpdateIsNewData, AdvanceStage, At
  <2>2. part'[p].at # "spin"
    <3>1. CASE WaitNeededNewData(p)
      BY <1>a, <3>1, GotoEffect DEF WaitNeededNewData
    <3>2. CASE ClearNewData(p)
      BY <1>a, <3>2, GotoEffect DEF ClearNewData
    <3>3. CASE Run(p)
      BY <1>a, <3>3, GotoEffect, SlotLabelsAreOutside DEF Run, Private
    <3>4. CASE StoreTimes(p)
      BY <1>a, <3>4, SlotLabelsAreOutside DEF StoreTimes, Private
    <3>5. CASE UpdateIsNewData(p)
      BY <1>a, <3>5, GotoEffect DEF UpdateIsNewData
    <3>6. CASE AdvanceStage(p)
      BY <1>a, <3>6, GotoEffect DEF AdvanceStage
    <3> QED BY <1>4, <3>1, <3>2, <3>3, <3>4, <3>5, <3>6
  <2>3. Phase(p)' = Phase(p)
    BY <2>1, <2>2, PhaseCases, PhaseCasesNext
  <2> QED BY <1>d, <1>e, <2>3
<1> QED BY <1>1, <1>2, <1>3, <1>4 DEF PartStep

\* A step of the car is a launch, a grant, a kill, the manager's leaving or
\* nothing to the handshake.
LEMMA CarImplements ==
  ASSUME Base, Unforked, CarStep
  PROVE  /\ Managed
         /\ \/ Phases' = Phases
            \/ /\ Managed' = Managed
               /\ \E p \in Part :
                    \/ Phases[p] = "off" /\ Phases' = [Phases EXCEPT ![p] = "run"]
                    \/ /\ Phases[p] = "requested"
                       /\ Phases' = [Phases EXCEPT ![p] = "granted"]
            \/ /\ Managed' = Managed
               /\ \E killed \in SUBSET Part :
                    Phases' = [p \in Part |-> IF p \in killed THEN "off" ELSE Phases[p]]
<1>a. /\ need \in [Part -> BOOLEAN] /\ status \in [Part -> Status]
      /\ todo \subseteq Part /\ cur \in Part
  BY DEF Base, TypeOK
<1>b. part' = part
  BY CarFrame DEF Base
<1>c. Managed
  BY DEF Managed, CarStep, ForkPart, ResetNewData, ResetNeed, WhileTest,
       CheckUnitCheckpoint, CheckCompulsiveCheckpoint, GrantCompulsive,
       FaultTest, SimulateFault, ClearAfterFault, RestoreState
<1>1. CASE ForkPart
  <2>0. Managed' = Managed
    BY <1>1, <1>c DEF ForkPart, Managed
  <2>1. PICK p \in todo, forked \in {TRUE} \union {~ForkMayFail} :
          status' = [status EXCEPT ![p] = IF forked THEN "running" ELSE "none"]
    BY <1>1 DEF ForkPart
  <2>2. p \in Part /\ status[p] = "none" /\ part[p].at # "spin" /\ need' = need
    BY <1>a, <1>1 DEF ForkPart, Unforked, shared
  <2>3. \A q \in Part \ {p} : Phase(q)' = Phase(q)
    BY <1>a, <1>b, <2>1, <2>2 DEF Phase, At
  <2>4. CASE forked
    <3>1. Phase(p) = "off" /\ Phase(p)' = "run"
      BY <1>a, <1>b, <2>1, <2>2, <2>4, PhaseCases, PhaseCasesNext
    <3>2. Phases' = [Phases EXCEPT ![p] = "run"] /\ Phases[p] = "off"
      BY <2>2, <2>3, <3>1, OnePhaseMoves DEF Phases
    <3> QED BY <1>c, <2>0, <2>2, <3>2
  <2>5. CASE ~forked
    <3>1. Phase(p)' = Phase(p)
      BY <1>a, <1>b, <2>1, <2>2, <2>5, PhaseCases, PhaseCasesNext
    <3> QED BY <1>c, <2>3, <3>1 DEF Phases
  <2> QED BY <2>4, <2>5
<1>2. CASE ResetNeed \/ GrantCompulsive
  <2>0. Managed' = Managed
    BY <1>2, <1>a, <1>c, NextIndexEffect DEF ResetNeed, GrantCompulsive, Managed
  <2> PICK c \in Part : c = cur
    BY <1>a
  <2>1. need' = [need EXCEPT ![c] = FALSE] /\ status' = status
    BY <1>2 DEF ResetNeed, GrantCompulsive, procs
  <2>2. \A q \in Part \ {c} : Phase(q)' = Phase(q)
    BY <1>a, <1>b, <2>1 DEF Phase, At
  <2>3. CASE Phase(c) = "requested"
    <3>1. Phase(c)' = "granted"
      BY <1>a, <1>b, <2>1, <2>3, PhaseCases, PhaseCasesNext
    <3>2. Phases' = [Phases EXCEPT ![c] = "granted"] /\ Phases[c] = "requested"
      BY <1>a, <2>2, <2>3, <3>1, OnePhaseMoves DEF Phases
    <3> QED BY <1>a, <1>c, <2>0, <3>2
  <2>4. CASE Phase(c) # "requested"
    <3>1. Phase(c)' = Phase(c)
      BY <1>a, <1>b, <2>1, <2>4, PhaseCases, PhaseCasesNext
    <3> QED BY <1>c, <2>2, <3>1 DEF Phases
  <2> QED BY <2>3, <2>4
<1>3. CASE SimulateFault
  <2>0. Managed' = Managed
    BY <1>3, <1>c DEF SimulateFault, Managed
  <2>1. need' = need /\ \A q \in Part : status'[q] \in {status[q], "dead"}
    BY <1>a, <1>3 DEF SimulateFault, shared
  <2> DEFINE killed == {q \in Part : status'[q] # status[q]}
  <2>2. \A q \in killed : Phase(q)' = "off"
    BY <2>1, PhaseCasesNext
  <2>3. \A q \in Part \ killed : Phase(q)' = Phase(q)
    BY <1>b, <2>1 DEF Phase, At
  <2>4. Phases' = [q \in Part |-> IF q \in killed THEN "off" ELSE Phases[q]]
    BY <2>2, <2>3 DEF Phases
  <2> QED BY <1>c, <2>0, <2>4
<1>4. CASE ~ForkPart /\ ~ResetNeed /\ ~GrantCompulsive /\ ~SimulateFault
  <2>1. need' = need /\ status' = status
    <3>1. CASE RestoreState
      BY <3>1, RestoreFails DEF Base, RestoreState, shared
    <3>2. CASE ~RestoreState
      BY <1>4, <3>2 DEF CarStep, ResetNewData, WhileTest, CheckUnitCheckpoint,
         CheckCompulsiveCheckpoint, FaultTest, ClearAfterFault, shared, procs
    <3> QED BY <3>1, <3>2
  <2> QED BY <1>b, <1>c, <2>1 DEF Phases, Phase, At
<1> QED BY <1>1, <1>2, <1>3, <1>4 DEF CarStep

\* For every configuration and environment, the parts and the car implement
\* the handshake.
THEOREM HandshakeImplemented == Spec => ImplementsHandshake
<1>1. Init => Handshake!Init
  <2> SUFFICES ASSUME Init PROVE Handshake!Init
    OBVIOUS
  <2>1. \A p \in Part : Phase(p) = "off"
    BY PhaseCases DEF Init
  <2>2. mpc \notin {"done", "aborted"}
    BY DEF Init
  <2> QED BY <2>1, <2>2 DEF Handshake!Init
<1>2. Base /\ Unforked /\ [Next]_vars => [Handshake!Next]_(Handshake!vars)
  <2> SUFFICES ASSUME Base, Unforked, [Next]_vars
               PROVE  [Handshake!Next]_(Handshake!vars)
    OBVIOUS
  <2> USE DEF Handshake!vars
  <2>1. CASE UNCHANGED vars
    BY <2>1 DEF vars, Phase, At
  <2>2. ASSUME NEW p \in Part, PartStep(p)
        PROVE  [Handshake!Next]_(Handshake!vars)
    BY <2>2, PartImplements DEF Phases, Managed, Handshake!Next,
       Handshake!Request, Handshake!Resume, Handshake!Exit, Handshake!Move
  <2>3. CASE CarStep
    BY <2>3, CarImplements DEF Phases, Managed, Handshake!Next,
       Handshake!Launch, Handshake!Grant, Handshake!Kill, Handshake!Leave,
       Handshake!Move
  <2> QED BY <2>1, <2>2, <2>3 DEF Next
<1> QED BY <1>1, <1>2, UnforkedHolds, PTL
        DEF Spec, ImplementsHandshake, Handshake!Spec

-----------------------------------------------------------------------------
(* What the liveness of the requests rests on: in its turns the car comes   *)
(* to every part that waits.                                                 *)

\* A serving car stands at one of the positions.
LEMMA PositionRange ==
  ASSUME TypeOK, Serving
  PROVE  /\ Position \in -6 .. 10
         /\ \A p \in Part : Ahead(p) \in 0 .. 15
BY DEF TypeOK, Serving, Position, Ahead, Part, camera, speed, servoPID

\* One step of a serving car forward: to the next position, past the answer of a
\* part that has not asked, or to the next turn.
LEMMA CarMovesOn ==
  ASSUME Base, CarStep, Serving, Serving'
  PROVE  \/ Position' = Position + 1
         \/ Position = 0 /\ Position' \in 1 .. 3
         \/ Position = 10 /\ Position' = 0
         \/ \E q \in Part : /\ ~need[q] /\ Position = 4 + 2 * q
                            /\ Position' = Position + 2
<1> USE DEF Position, Part, camera, speed, servoPID
<1>0. cur \in Part
  BY DEF Base, TypeOK
<1>1. CASE ResetNewData
  BY <1>0, <1>1 DEF ResetNewData
<1>2. CASE ResetNeed
  BY <1>0, <1>2 DEF ResetNeed, NextIndex
<1>3. CASE WhileTest
  BY <1>0, <1>3 DEF WhileTest, Serving
<1>4. CASE CheckUnitCheckpoint
  BY <1>0, <1>4 DEF CheckUnitCheckpoint, NextIndex
<1>5. CASE CheckCompulsiveCheckpoint
  <2>1. CASE need[cur]
    BY <1>0, <1>5, <2>1 DEF CheckCompulsiveCheckpoint
  <2>2. CASE ~need[cur]
    BY <1>0, <1>5, <2>2 DEF CheckCompulsiveCheckpoint, NextIndex
  <2> QED BY <2>1, <2>2
<1>6. CASE GrantCompulsive
  BY <1>0, <1>6 DEF GrantCompulsive, NextIndex
<1>7. CASE FaultTest
  BY <1>7 DEF FaultTest, Serving
<1> QED BY <1>1, <1>2, <1>3, <1>4, <1>5, <1>6, <1>7
        DEF CarStep, Serving, ForkPart, SimulateFault, ClearAfterFault, RestoreState

\* At the store that answers p, the car answers p.
LEMMA AnswersWhenThere ==
  ASSUME Base, CarStep, Serving, NEW p \in Part, Position = 5 + 2 * p
  PROVE  ~need'[p]
<1>1. cur \in Part /\ need \in [Part -> BOOLEAN]
  BY DEF Base, TypeOK
<1>2. mpc = "grant" /\ cur = p
  BY <1>1 DEF Serving, Position, Part, camera, speed, servoPID
<1>3. GrantCompulsive
  BY <1>2 DEF CarStep, ForkPart, ResetNewData, ResetNeed, WhileTest,
     CheckUnitCheckpoint, CheckCompulsiveCheckpoint, FaultTest,
     SimulateFault, ClearAfterFault, RestoreState
<1> QED BY <1>1, <1>2, <1>3 DEF GrantCompulsive

\* A request is answered within one turn of the loop, unless the car leaves the
\* loop first: no other part's requests can keep the car from it.
THEOREM RequestsComeNearer == Spec => ComesNearer
<1> DEFINE Nearer == \A p \in Part : Serving /\ Serving' /\ need[p] /\ need'[p] =>
                       /\ Ahead(p)' <= Ahead(p)
                       /\ CarStep => Ahead(p)' < Ahead(p)
<1>1. Base /\ Base' /\ [Next]_vars => [Nearer]_vars
  <2> SUFFICES ASSUME Base, Base', Next,
                      NEW p \in Part, Serving, Serving', need[p], need'[p]
               PROVE  /\ Ahead(p)' <= Ahead(p)
                      /\ CarStep => Ahead(p)' < Ahead(p)
    OBVIOUS
  <2>1. Position \in -6 .. 10 /\ Ahead(p) \in 0 .. 15
    BY PositionRange DEF Base
  <2>0. Ahead(p)' \in Int
    BY DEF Base, TypeOK, Serving, Position, Ahead, Part, camera, speed, servoPID
  <2>2. ASSUME CarStep PROVE Ahead(p)' < Ahead(p)
    <3>1. Position # 5 + 2 * p
      BY <2>2, AnswersWhenThere
    <3>2. \/ Position' = Position + 1
          \/ Position = 0 /\ Position' \in 1 .. 3
          \/ Position = 10 /\ Position' = 0
          \/ \E q \in Part \ {p} : /\ Position = 4 + 2 * q
                                   /\ Position' = Position + 2
      BY <2>2, CarMovesOn
    <3> HIDE DEF Position
    <3> QED BY <2>1, <3>1, <3>2 DEF Ahead, Part, camera, speed, servoPID
  <2>3. ASSUME NEW q \in Part, PartStep(q) PROVE Ahead(p)' = Ahead(p)
    <3>1. UNCHANGED <<mpc, cur>>
      BY <2>3, PartFrame DEF Base, car
    <3> QED BY <3>1 DEF Ahead, Position
  <2> QED BY <2>0, <2>1, <2>2, <2>3 DEF Next
<1> QED BY <1>1, BaseHolds, PTL DEF Spec, ComesNearer

-----------------------------------------------------------------------------
(* How the processes end. *)

\* What a step may do to the life of a part: the fork starts it, its own exit
\* test ends it when times exceeds MAX_TIMES, a signal of the fault kills it.
LEMMA LifeSteps ==
  ASSUME Base, Next, NEW p \in Part, status'[p] # status[p]
  PROVE  \/ mpc = "fork" /\ status'[p] \in {"running", "none"}
         \/ status'[p] = "exited" /\ times > MAX_TIMES
         \/ mpc = "kill" /\ status'[p] = "dead"
<1>0. status \in [Part -> Status] /\ part \in [Part -> Private]
  BY DEF Base, TypeOK
<1>1. ASSUME NEW q \in Part, PartStep(q)
      PROVE  status'[p] = "exited" /\ times > MAX_TIMES
  <2>1. ExitOrLoop(q)
    BY <1>1 DEF PartStep, WaitNeededNewData, ClearNewData, Run, StoreTimes,
       UpdateIsNewData, SetCompulsiveCheckpoint, WaitCompulsiveCheckpoint,
       AdvanceStage
  <2> QED BY <1>0, <2>1 DEF ExitOrLoop
<1>2. ASSUME CarStep
      PROVE  \/ mpc = "fork" /\ status'[p] \in {"running", "none"}
             \/ mpc = "kill" /\ status'[p] = "dead"
  <2>1. CASE ForkPart
    BY <1>0, <2>1 DEF ForkPart
  <2>2. CASE SimulateFault
    BY <1>0, <2>2 DEF SimulateFault
  <2>3. CASE ~ForkPart /\ ~SimulateFault
    BY <1>2, <2>3, RestoreFails DEF Base, CarStep, ResetNewData, ResetNeed,
       WhileTest, CheckUnitCheckpoint, CheckCompulsiveCheckpoint,
       GrantCompulsive, FaultTest, ClearAfterFault, procs
  <2> QED BY <2>1, <2>2, <2>3
<1> QED BY <1>1, <1>2 DEF Next

\* Nobody leaves early: a car that leaves its loop through the test has seen one
\* or two cycles more than MAX_TIMES, and a part that has exited has seen more
\* than MAX_TIMES.
CyclesAreDone ==
  /\ mpc = "done" => times \in MAX_TIMES + 1 .. MAX_TIMES + 2
  /\ \A p \in Part : status[p] = "exited" => times > MAX_TIMES

\* Neither the car nor a part ends before the cycles are done, and the run is
\* never more than two cycles too long.
THEOREM NobodyLeavesEarly == Spec => []CyclesAreDone
<1> DEFINE Done == /\ mpc = "done" => times > MAX_TIMES
                   /\ \A p \in Part : status[p] = "exited" => times > MAX_TIMES
<1>1. Init => Done
  BY DEF Init
<1>2. Base /\ FaultIsFatal /\ Done /\ [Next]_vars => Done'
  <2> SUFFICES ASSUME Base, FaultIsFatal, Done, [Next]_vars PROVE Done'
    OBVIOUS
  <2>1. CASE UNCHANGED vars
    BY <2>1 DEF vars
  <2>2. CASE Next
    <3>1. times \in Nat /\ times' \in {times, times + 1}
      BY <2>2, WaitingPartStep, CarFrame DEF Base, TypeOK, Next
    <3>2. mpc' = "done" => mpc = "done" \/ times > MAX_TIMES
      <4>1. CASE CarStep
        BY <3>1, <4>1, CarPath, ConfigAssumption
      <4>2. ASSUME NEW q \in Part, PartStep(q) PROVE mpc' = mpc
        BY <4>2, PartFrame DEF Base, car
      <4> QED BY <2>2, <4>1, <4>2 DEF Next
    <3>3. \A p \in Part : status'[p] = "exited"
                            => status[p] = "exited" \/ times > MAX_TIMES
      BY <2>2, LifeSteps
    <3> QED BY <3>1, <3>2, <3>3, ConfigAssumption
  <2> QED BY <2>1, <2>2
<1>3. Base /\ Done /\ TimesBounded => CyclesAreDone
  BY ConfigAssumption DEF Base, TypeOK, TimesBounded, CyclesAreDone
<1> QED BY <1>1, <1>2, <1>3, CountedAheadHolds, CounterOvershoot, PTL DEF Spec

\* Once the signals of the fault have been sent, and so when the car gives up, no
\* process of a part is left: unlike a run that ends through the loop test, an
\* aborted one leaves nothing for run.sh to kill.
NobodyIsLeftOver ==
  mpc \in {"clearNew", "restore", "aborted"}
    => \A p \in Part : status[p] # "running"

\* The car waits for each part it has signalled, and brings none back.
THEOREM AbortLeavesNobody == Spec => []NobodyIsLeftOver
<1> DEFINE Killed ==
      /\ NobodyIsLeftOver
      /\ mpc = "kill" => \A p \in Part \ todo : status[p] # "running"
<1>1. Init => Killed
  BY DEF Init, NobodyIsLeftOver
<1>2. Base /\ Killed /\ [Next]_vars => Killed'
  <2> SUFFICES ASSUME Base, Killed, [Next]_vars PROVE Killed'
    OBVIOUS
  <2> USE DEF NobodyIsLeftOver
  <2>0. status \in [Part -> Status] /\ cur \in Part
    BY DEF Base, TypeOK
  <2>1. CASE UNCHANGED vars
    BY <2>1 DEF vars
  <2>2. ASSUME NEW q \in Part, PartStep(q) PROVE Killed'
    <3>1. UNCHANGED <<mpc, todo>>
      BY <2>2, PartFrame DEF Base, car
    <3>2. ASSUME NEW p \in Part, status'[p] # status[p]
          PROVE  status'[p] # "running"
      BY <2>0, <2>2, <3>2 DEF PartStep, WaitNeededNewData, ClearNewData, Run,
         StoreTimes, UpdateIsNewData, SetCompulsiveCheckpoint,
         WaitCompulsiveCheckpoint, AdvanceStage, ExitOrLoop
    <3> QED BY <3>1, <3>2
  <2>3. CASE FaultTest
    BY <2>3 DEF FaultTest
  <2>4. CASE SimulateFault
    BY <2>0, <2>4 DEF SimulateFault
  <2>5. CASE ClearAfterFault
    BY <2>5 DEF ClearAfterFault, procs
  <2>6. CASE RestoreState
    BY <2>6, RestoreFails DEF Base, RestoreState
  <2>7. CASE ForkPart \/ ResetNewData \/ ResetNeed \/ WhileTest
             \/ CheckUnitCheckpoint \/ CheckCompulsiveCheckpoint
             \/ GrantCompulsive
    <3>1. mpc' \notin {"kill", "clearNew", "restore", "aborted"}
      BY <2>0, <2>7, NextIndexEffect DEF ForkPart, ResetNewData, ResetNeed,
         WhileTest, CheckUnitCheckpoint, CheckCompulsiveCheckpoint,
         GrantCompulsive
    <3> QED BY <3>1
  <2> QED BY <2>1, <2>2, <2>3, <2>4, <2>5, <2>6, <2>7 DEF Next, CarStep
<1>3. Killed => NobodyIsLeftOver
  OBVIOUS
<1> QED BY <1>1, <1>2, <1>3, BaseHolds, PTL DEF Spec
=============================================================================
