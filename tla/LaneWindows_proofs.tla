------------------------ MODULE LaneWindows_proofs ------------------------
(***************************************************************************)
(* The lane search for every size of image and window, and the radius of   *)
(* the curve for every three points.                                       *)
(***************************************************************************)
EXTENDS LaneWindows, TLAPS

Point == [x : Int, y : Int]

\* Curvature never divides by zero: three points at three heights that pass for
\* not collinear have a determinant other than zero.
THEOREM CurvatureIsDefined ==
  ASSUME NEW p1 \in Point, NEW p2 \in Point, NEW p3 \in Point,
         p1.y # p2.y, p2.y # p3.y,
         ~Collinear(p1, p2, p3)
  PROVE  det(p1, p2, p3) # 0
<1> DEFINE kx1 == p2.x - p1.x
           kx2 == p2.x - p3.x
           ky1 == p2.y - p1.y
           ky2 == p2.y - p3.y
<1>1. kx1 \in Int /\ kx2 \in Int /\ ky1 \in Int /\ ky2 \in Int
  BY DEF Point
<1>2. ky1 # 0 /\ ky2 # 0
  BY DEF Point
<1>3. det(p1, p2, p3) = ky2 * kx1 - ky1 * kx2
  <2>1. /\ p1.y - p2.y = -ky1 /\ p1.x - p3.x = kx2 - kx1
        /\ p1.x - p2.x = -kx1 /\ p1.y - p3.y = ky2 - ky1
    BY DEF Point
  <2>2. det(p1, p2, p3) = (-ky1) * (kx2 - kx1) - (-kx1) * (ky2 - ky1)
    BY <2>1 DEF det
  <2> HIDE DEF kx1, kx2, ky1, ky2
  <2> QED BY <1>1, <2>2
<1>4. ~(p1.x = p2.x /\ p2.x = p3.x)
  BY DEF Collinear
<1>5. ~(kx1 = 0 /\ kx2 = 0)
  BY <1>4 DEF Point
<1>6. p1.x # p2.x /\ p2.x # p3.x => ky1 * kx2 # ky2 * kx1
  BY Zenon DEF Collinear
<1>7. kx1 # 0 /\ kx2 # 0 => p1.x # p2.x /\ p2.x # p3.x
  BY DEF Point
<1>8. CASE kx1 = 0
  <2>1. kx2 # 0
    BY <1>8, <1>5
  <2>2. ky2 * kx1 = 0
    BY <1>1, <1>8
  <2> HIDE DEF kx1, kx2, ky1, ky2
  <2>3. ky1 * kx2 # 0
    BY <1>1, <1>2, <2>1
  <2> QED BY <1>1, <1>3, <2>2, <2>3
<1>9. CASE kx2 = 0
  <2>1. kx1 # 0
    BY <1>9, <1>5
  <2>2. ky1 * kx2 = 0
    BY <1>1, <1>9
  <2> HIDE DEF kx1, kx2, ky1, ky2
  <2>3. ky2 * kx1 # 0
    BY <1>1, <1>2, <2>1
  <2> QED BY <1>1, <1>3, <2>2, <2>3
<1>10. CASE kx1 # 0 /\ kx2 # 0
  <2>1. ky1 * kx2 # ky2 * kx1
    BY <1>10, <1>6, <1>7
  <2> QED BY <1>1, <1>3, <2>1
<1> QED BY <1>8, <1>9, <1>10

-----------------------------------------------------------------------------
(* The search. *)

\* What is known of a search, whatever the images: it ends with the last window,
\* and its windows are in the image.
Base ==
  /\ TypeOK
  /\ pc = "slide" => i < WINDOWS /\ \A s \in Side : InImage(base[s])

\* One column off its lane at most.
OnLane(s, b) ==
  IF s = "left" THEN b \in BLANK - 1 .. Mid - BLANK
                ELSE b \in Mid + BLANK - 1 .. WIDTH - BLANK

\* Where the search is while the images are as expected; temp is set when the
\* first window has been left.
Tracks ==
  expected =>
    /\ pc # "astray"
    /\ pc \in {"slide", "done"} => \A s \in Side : OnLane(s, base[s])
    /\ pc = "done" \/ (pc = "slide" /\ i > 0) => \A s \in Side : OnLane(s, temp[s])

LEMMA MidIsHalf == Mid \in Nat /\ WIDTH = 2 * Mid /\ Mid > 2 * BLANK
  BY LaneWindowsAssumption DEF Mid

\* A base on its lane is a column, and the window around it is in the image.
LEMMA LanesInImage ==
  ASSUME NEW s \in Side, NEW b, OnLane(s, b)
  PROVE  b \in 0 .. WIDTH - 1 /\ InImage(b)
  BY LaneWindowsAssumption, MidIsHalf DEF OnLane, InImage, Side

\* The result of a window in the image is a column of it, or the one before it.
LEMMA HitIsColumn ==
  ASSUME NEW s \in Side, Base, pc = "slide", NEW o \in Outcome(s)
  PROVE  /\ o.base \in -1 .. WIDTH - 1
         /\ o.bias \in BOOLEAN /\ o.expected \in BOOLEAN
<1>1. base[s] \in Int /\ HALF <= base[s] /\ base[s] + HALF <= WIDTH
  BY LaneWindowsAssumption DEF Base, TypeOK, InImage
<1>2. CASE o = [base |-> base[s], bias |-> bias[s], expected |-> TRUE]
  BY <1>1, <1>2, LaneWindowsAssumption DEF Base, TypeOK
<1>3. ASSUME NEW lo \in Window(base[s]), NEW hi \in Window(base[s]), lo <= hi,
             NEW m \in Mean(lo, hi, bias[s]),
             o = [base |-> m, bias |-> FALSE,
                  expected |-> {lo, hi} \subseteq Lane("left") \union Lane("right")]
      PROVE  /\ o.base \in -1 .. WIDTH - 1
             /\ o.bias \in BOOLEAN /\ o.expected \in BOOLEAN
  <2>1. lo \in 0 .. WIDTH - 1 /\ hi \in 0 .. WIDTH - 1
    BY <1>1, <1>3, LaneWindowsAssumption DEF Window
  <2>2. m \in -1 .. WIDTH - 1
    BY <1>3, <2>1, LaneWindowsAssumption DEF Mean
  <2> QED BY <1>3, <2>2
<1> QED BY <1>2, <1>3 DEF Outcome, Hit

\* A window on its lane that meets pixels of an expected image leads to its lane:
\* the other lane is out of its reach.
LEMMA HitIsOnLane ==
  ASSUME NEW s \in Side, Base, OnLane(s, base[s]), NEW o \in Outcome(s), o.expected
  PROVE  OnLane(s, o.base)
<1>1. CASE o = [base |-> base[s], bias |-> bias[s], expected |-> TRUE]
  BY <1>1
<1>2. ASSUME NEW lo \in Window(base[s]), NEW hi \in Window(base[s]), lo <= hi,
             NEW m \in Mean(lo, hi, bias[s]),
             o = [base |-> m, bias |-> FALSE,
                  expected |-> {lo, hi} \subseteq Lane("left") \union Lane("right")]
      PROVE  OnLane(s, o.base)
  <2>1. lo \in Lane("left") \union Lane("right") /\ hi \in Lane("left") \union Lane("right")
    BY <1>2
  <2>2. CASE s = "left"
    <3>1. lo \in BLANK .. Mid - BLANK - 1 /\ hi \in BLANK .. Mid - BLANK - 1
      BY <2>1, <2>2, <1>2, LaneWindowsAssumption, MidIsHalf DEF Window, Lane, OnLane
    <3>2. m \in BLANK - 1 .. Mid - BLANK
      BY <3>1, <1>2, LaneWindowsAssumption, MidIsHalf DEF Mean
    <3> QED BY <3>2, <2>2, <1>2 DEF OnLane
  <2>3. CASE s = "right"
    <3>1. lo \in Mid + BLANK .. WIDTH - BLANK - 1 /\ hi \in Mid + BLANK .. WIDTH - BLANK - 1
      BY <2>1, <2>3, <1>2, LaneWindowsAssumption, MidIsHalf DEF Window, Lane, OnLane
    <3>2. m \in Mid + BLANK - 1 .. WIDTH - BLANK
      BY <3>1, <1>2, LaneWindowsAssumption, MidIsHalf DEF Mean
    <3> QED BY <3>2, <2>3, <1>2 DEF OnLane
  <2> QED BY <2>2, <2>3 DEF Side
<1> QED BY <1>1, <1>2 DEF Outcome, Hit

\* A peak in an expected first frame is found on its lane, and any peak is found
\* in the image or nowhere.
LEMMA PeakIsFound ==
  ASSUME NEW s \in Side, NEW peak,
         \A t \in Side : peak[t] \in Half(t) \union {NOWHERE},
         NEW b \in Found(s, peak)
  PROVE  /\ b \in 0 .. WIDTH - 1 \union {NOWHERE}
         /\ peak[s] \in Lane(s) => OnLane(s, b)
<1>1. peak[s] \in Half(s) \union {NOWHERE}
  OBVIOUS
<1>2. b \in 0 .. WIDTH - 1 \union {NOWHERE}
  BY LaneWindowsAssumption, MidIsHalf DEF Found, Half, Side
<1>3. ASSUME peak[s] \in Lane(s) PROVE OnLane(s, b)
  <2>1. peak[s] # NOWHERE
    BY <1>3, LaneWindowsAssumption, MidIsHalf DEF Lane, Side
  <2>2. b \in Half(s) /\ b \in peak[s] - 1 .. peak[s] + 1
    BY <2>1 DEF Found
  <2> QED BY <1>3, <2>2, LaneWindowsAssumption, MidIsHalf DEF Lane, Half, OnLane, Side
<1> QED BY <1>2, <1>3

\* The search knows what Base and Tracks say.
LEMMA SearchInvariant == Spec => [](Base /\ Tracks)
<1>1. Init => Base /\ Tracks
  BY LaneWindowsAssumption DEF Init, Base, TypeOK, Tracks, Side
<1>2. Base /\ Tracks /\ [Next]_vars => (Base /\ Tracks)'
  <2> SUFFICES ASSUME Base, Tracks, [Next]_vars PROVE (Base /\ Tracks)'
    OBVIOUS
  <2>1. CASE UNCHANGED vars
    BY <2>1 DEF vars, Base, TypeOK, Tracks, InImage
  <2>2. CASE FirstFrame
    <3>1. PICK l \in Half("left") \union {NOWHERE}, r \in Half("right") \union {NOWHERE} :
            LET peak == [s \in Side |-> IF s = "left" THEN l ELSE r]
            IN  /\ \E bl \in Found("left", peak), br \in Found("right", peak) :
                     Begin([s \in Side |-> IF s = "left" THEN bl ELSE br])
                /\ expected' = \A s \in Side : peak[s] \in Lane(s)
      BY <2>2 DEF FirstFrame
    <3> DEFINE peak == [s \in Side |-> IF s = "left" THEN l ELSE r]
    <3>2. PICK bl \in Found("left", peak), br \in Found("right", peak) :
            Begin([s \in Side |-> IF s = "left" THEN bl ELSE br])
      BY <3>1
    <3>3. \A t \in Side : peak[t] \in Half(t) \union {NOWHERE}
      BY DEF Side
    <3>4. base' = [s \in Side |-> IF s = "left" THEN bl ELSE br] /\ i' = 0
      BY <3>2 DEF Begin
    <3>5. pc' = IF \A s \in Side : InImage(base'[s]) THEN "slide" ELSE "astray"
      BY <3>2, <3>4 DEF Begin
    <3>6. expected' = \A s \in Side : peak[s] \in Lane(s)
      BY <3>1
    <3>7. \A s \in Side : /\ base'[s] \in 0 .. WIDTH - 1 \union {NOWHERE}
                          /\ peak[s] \in Lane(s) => OnLane(s, base'[s])
      <4> HIDE DEF peak
      <4>1. \A s \in Side : base'[s] \in Found(s, peak)
        BY <3>2, <3>4 DEF Side
      <4> QED BY <3>3, <4>1, PeakIsFound
    <3> HIDE DEF peak
    <3>8. expected' => \A s \in Side : OnLane(s, base'[s]) /\ InImage(base'[s])
      BY <3>6, <3>7, LanesInImage
    <3>9. Base'
      <4>1. base' \in [Side -> -1 .. WIDTH - 1 \union {NOWHERE}]
        BY <3>4, <3>7
      <4>2. expected' \in BOOLEAN
        BY <3>6
      <4>3. i' \in 0 .. WINDOWS
        BY <3>4, LaneWindowsAssumption
      <4>4. i' < WINDOWS
        BY <3>4, LaneWindowsAssumption
      <4> QED BY <4>1, <4>2, <4>3, <4>4, <3>5, <2>2 DEF Base, TypeOK, FirstFrame, InImage
    <3> QED BY <3>4, <3>5, <3>8, <3>9 DEF Tracks
  <2>3. CASE Slide
    <3>1. PICK l \in Outcome("left"), r \in Outcome("right") :
            LET outcome == [s \in Side |-> IF s = "left" THEN l ELSE r]
            IN  /\ base' = [s \in Side |-> outcome[s].base]
                /\ bias' = [s \in Side |-> outcome[s].bias]
                /\ expected' = (expected /\ \A s \in Side : outcome[s].expected)
      BY <2>3 DEF Slide
    <3> DEFINE outcome == [s \in Side |-> IF s = "left" THEN l ELSE r]
    <3>2. \A s \in Side : outcome[s] \in Outcome(s)
      BY DEF Side
    <3>3. /\ base' = [s \in Side |-> outcome[s].base]
          /\ bias' = [s \in Side |-> outcome[s].bias]
          /\ expected' = (expected /\ \A s \in Side : outcome[s].expected)
      BY <3>1
    <3> HIDE DEF outcome
    <3>4. pc = "slide" /\ i' = i + 1 /\ temp' = (IF i = 0 THEN base' ELSE temp)
      BY <2>3 DEF Slide
    <3>5. pc' = IF i' = WINDOWS THEN "done"
                ELSE IF \A s \in Side : InImage(base'[s]) THEN "slide" ELSE "astray"
      BY <2>3 DEF Slide
    <3>6. \A s \in Side : base'[s] \in -1 .. WIDTH - 1 /\ bias'[s] \in BOOLEAN
      BY <3>2, <3>3, <3>4, HitIsColumn
    <3>7. expected' => \A s \in Side : OnLane(s, base'[s])
      <4>1. expected' => expected /\ \A s \in Side : outcome[s].expected
        BY <3>3
      <4>2. expected => \A s \in Side : OnLane(s, base[s])
        BY <3>4 DEF Tracks
      <4> QED BY <3>2, <3>3, <4>1, <4>2, HitIsOnLane
    <3>8. expected' => \A s \in Side : InImage(base'[s])
      BY <3>7, LanesInImage
    <3>9. Base'
      <4>1. /\ base' \in [Side -> -1 .. WIDTH - 1 \union {NOWHERE}]
            /\ base' \in [Side -> -1 .. WIDTH - 1]
        BY <3>3, <3>6
      <4>2. bias' \in [Side -> BOOLEAN]
        BY <3>3, <3>6
      <4>3. expected' \in BOOLEAN
        BY <3>3
      <4>4. temp' \in [Side -> -1 .. WIDTH - 1]
        BY <3>4, <4>1 DEF Base, TypeOK
      <4>5. i' \in 0 .. WINDOWS
        BY <3>4, LaneWindowsAssumption DEF Base, TypeOK
      <4>6. pc' = "slide" => i' < WINDOWS
        BY <4>5, <3>5, LaneWindowsAssumption
      <4> QED BY <4>1, <4>2, <4>3, <4>4, <4>5, <4>6, <3>5 DEF Base, TypeOK, InImage
    <3>10. ASSUME expected' PROVE \A s \in Side : OnLane(s, temp'[s])
      <4>1. CASE i = 0
        BY <4>1, <3>4, <3>7, <3>10
      <4>2. CASE i # 0
        <5>1. i > 0
          BY <4>2 DEF Base, TypeOK
        <5> QED BY <4>2, <5>1, <3>3, <3>4, <3>10 DEF Tracks
      <4> QED BY <4>1, <4>2
    <3> QED BY <3>5, <3>7, <3>8, <3>9, <3>10 DEF Tracks
  <2>4. CASE NextFrame
    <3>1. /\ pc = "done" /\ base' = temp /\ i' = 0
          /\ UNCHANGED <<temp, bias, expected>>
          /\ pc' = IF \A s \in Side : InImage(temp[s]) THEN "slide" ELSE "astray"
      BY <2>4 DEF NextFrame, Begin
    <3>2. Base'
      BY <3>1, LaneWindowsAssumption DEF Base, TypeOK, InImage
    <3>3. expected => \A s \in Side : OnLane(s, temp[s]) /\ InImage(temp[s])
      BY <3>1, LanesInImage DEF Tracks
    <3> QED BY <3>1, <3>2, <3>3 DEF Tracks
  <2> QED BY <2>1, <2>2, <2>3, <2>4 DEF Next
<1> QED BY <1>1, <1>2, PTL DEF Spec

\* The search is well-typed: a base is a column, or the one before the first, or
\* it is where there was no peak.
THEOREM LaneTypeCorrect == Spec => []TypeOK
  BY SearchInvariant, PTL DEF Base

\* No window leaves the image while the images are as expected.
THEOREM WindowsStayInImage == Spec => []InRow
<1>1. Base /\ Tracks => InRow
  BY DEF Tracks, InRow
<1> QED BY <1>1, SearchInvariant, PTL

\* The two lanes stay apart, so that the distance from the centre is defined.
THEOREM LanesStayApart == Spec => []LanesApart
<1>1. Base /\ Tracks => LanesApart
  <2> SUFFICES ASSUME Base, Tracks, expected, pc \in {"slide", "done"}
               PROVE  base["left"] < base["right"]
    BY DEF LanesApart
  <2>1. OnLane("left", base["left"]) /\ OnLane("right", base["right"])
    BY DEF Tracks, Side
  <2> QED BY <2>1, LaneWindowsAssumption, MidIsHalf DEF OnLane
<1> QED BY <1>1, SearchInvariant, PTL

-----------------------------------------------------------------------------
(* How far a lane can lean. *)

\* A window's mean is a column of it, or one to its left while the first sum is
\* biased: the next window is less than a window's width away.
LEMMA WindowsMoveLittle ==
  ASSUME NEW s \in Side, Base, pc = "slide", NEW o \in Outcome(s)
  PROVE  o.base - base[s] <= HALF + 1 /\ base[s] - o.base <= HALF + 1
<1>1. base[s] \in Int /\ HALF <= base[s] /\ HALF \in Nat
  BY LaneWindowsAssumption DEF Base, TypeOK, InImage
<1>2. CASE o = [base |-> base[s], bias |-> bias[s], expected |-> TRUE]
  BY <1>1, <1>2
<1>3. ASSUME NEW lo \in Window(base[s]), NEW hi \in Window(base[s]), lo <= hi,
             NEW m \in Mean(lo, hi, bias[s]),
             o = [base |-> m, bias |-> FALSE,
                  expected |-> {lo, hi} \subseteq Lane("left") \union Lane("right")]
      PROVE  o.base - base[s] <= HALF + 1 /\ base[s] - o.base <= HALF + 1
  BY <1>1, <1>3 DEF Window, Mean
<1> QED BY <1>2, <1>3 DEF Outcome, Hit

\* Within a frame a lane leans by at most HALF + 1 columns for each window above
\* the first, whatever the image shows: a search does not jump from one line to a
\* far one, and what it takes for a lane is no steeper than that.
LeanBounded ==
  pc \in {"slide", "done"} /\ i > 0
    => \A s \in Side : /\ base[s] - temp[s] <= (i - 1) * (HALF + 1)
                       /\ temp[s] - base[s] <= (i - 1) * (HALF + 1)

\* The lean of a lane is bounded in every frame, images that are not as expected
\* included.
THEOREM LanesLeanLittle == Spec => []LeanBounded
<1>1. Init => LeanBounded
  BY DEF Init, LeanBounded
<1>2. Base /\ Base' /\ LeanBounded /\ [Next]_vars => LeanBounded'
  <2> SUFFICES ASSUME Base, Base', LeanBounded, [Next]_vars PROVE LeanBounded'
    OBVIOUS
  <2>1. CASE UNCHANGED vars
    BY <2>1 DEF vars, LeanBounded
  <2>2. CASE FirstFrame \/ NextFrame
    <3>1. i' = 0
      BY <2>2 DEF FirstFrame, NextFrame, Begin
    <3> QED BY <3>1 DEF LeanBounded
  <2>3. CASE Slide
    <3>1. pc = "slide" /\ i' = i + 1 /\ temp' = (IF i = 0 THEN base' ELSE temp)
      BY <2>3 DEF Slide
    <3>2. \A s \in Side : /\ base'[s] - base[s] <= HALF + 1
                          /\ base[s] - base'[s] <= HALF + 1
      <4>1. PICK l \in Outcome("left"), r \in Outcome("right") :
              LET outcome == [s \in Side |-> IF s = "left" THEN l ELSE r]
              IN  base' = [s \in Side |-> outcome[s].base]
        BY <2>3 DEF Slide
      <4>2. base' = [s \in Side |-> IF s = "left" THEN l.base ELSE r.base]
        BY <4>1
      <4>3. ASSUME NEW s \in Side PROVE \E o \in Outcome(s) : base'[s] = o.base
        BY <4>2, <4>3 DEF Side
      <4> QED BY <3>1, <4>3, WindowsMoveLittle
    <3>3. /\ i \in Nat /\ HALF \in Nat
          /\ \A s \in Side : base[s] \in Int /\ base'[s] \in Int /\ temp[s] \in Int
      BY LaneWindowsAssumption DEF Base, TypeOK
    <3>4. CASE i = 0
      BY <3>1, <3>3, <3>4 DEF LeanBounded
    <3>5. CASE i > 0
      <4> DEFINE lean == (i - 1) * (HALF + 1)
      <4>1. (i' - 1) * (HALF + 1) = lean + (HALF + 1) /\ lean \in Int
        BY <3>1, <3>3, <3>5
      <4>2. \A s \in Side : base[s] - temp[s] <= lean /\ temp[s] - base[s] <= lean
        BY <3>1, <3>5 DEF LeanBounded
      <4> HIDE DEF lean
      <4>3. temp' = temp
        BY <3>1, <3>3, <3>5
      <4>4. \A s \in Side : /\ base'[s] - temp[s] <= lean + (HALF + 1)
                            /\ temp[s] - base'[s] <= lean + (HALF + 1)
        BY <3>2, <3>3, <4>1, <4>2
      <4> QED BY <4>1, <4>3, <4>4 DEF LeanBounded
    <3> QED BY <3>3, <3>4, <3>5
  <2> QED BY <2>1, <2>2, <2>3 DEF Next
<1> QED BY <1>1, <1>2, SearchInvariant, PTL DEF Spec
=============================================================================
