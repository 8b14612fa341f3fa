---------------------------- MODULE LaneWindows ----------------------------
(***************************************************************************)
(* The lane search of the camera thread.  In the first frame the left and  *)
(* the right lane start at the peaks of a histogram; from there windows    *)
(* slide up the image, each centred on the mean column of the white pixels *)
(* in the one before.  The next frame starts where the first window of     *)
(* this one has led.                                                       *)
(*                                                                         *)
(* An image is its white pixels, chosen as the search meets them.  A mean  *)
(* of pixels in several rows may be any column between the outermost ones. *)
(* Once a window leaves the rows of the image the model stops: the code    *)
(* reads its pixels from the neighbouring rows, or outside of the image.   *)
(***************************************************************************)
EXTENDS Integers

CONSTANTS
  WIDTH,     \* columns of the image: 1280
  HALF,      \* half the width of a window: 75
  WINDOWS,   \* windows per frame: 12
  BLANK,     \* columns at either end, and on either side of the middle,
             \* that an image may be expected to leave black
  NOWHERE    \* the bases before the first frame: 10000

ASSUME LaneWindowsAssumption ==
  /\ HALF \in Nat \ {0} /\ WINDOWS \in Nat \ {0}
  /\ BLANK \in Nat /\ BLANK >= HALF + 1
  /\ WIDTH \in Nat /\ WIDTH % 2 = 0 /\ WIDTH > 4 * BLANK
  /\ NOWHERE \in Nat /\ NOWHERE >= WIDTH

Side == {"left", "right"}
Mid  == WIDTH \div 2

VARIABLES
  pc,        \* "first", "slide", "done" with a frame, or "astray"
  i,         \* the window
  base,      \* LeftBase, RightBase
  temp,      \* LeftBaseTemp, RightBaseTemp
  bias,      \* lxPositon and rxPositon are -1 and not yet 0
  expected   \* history: the images so far have been black where expected, with
             \* a line in each half of the first one

vars == <<pc, i, base, temp, bias, expected>>

\* Where the white pixels of an expected image are.
Lane(s) == IF s = "left" THEN BLANK .. Mid - BLANK - 1
                         ELSE Mid + BLANK .. WIDTH - BLANK - 1

Init ==
  /\ pc = "first" /\ i = 0
  /\ base = [s \in Side |-> NOWHERE]
  /\ temp = [s \in Side |-> 0]
  /\ bias = [s \in Side |-> TRUE]
  /\ expected = TRUE

\* The columns of a window.
Window(b) == b - HALF .. b + HALF - 1
InImage(b) == HALF <= b /\ b + HALF <= WIDTH

\* A frame starts if both of its first windows are in the image.
Begin(b) ==
  /\ base' = b /\ i' = 0
  /\ pc' = IF \A s \in Side : InImage(b[s]) THEN "slide" ELSE "astray"

Half(s) == IF s = "left" THEN 0 .. Mid - 1 ELSE Mid .. WIDTH - 1

\* Mutant: both peaks are looked for in the whole image.
FoundAnywhere(s, peak) ==
  {b \in 0 .. WIDTH - 1 : \E t \in Side : b \in peak[t] - 1 .. peak[t] + 1}

\* Mutant: Thresh is not reset, and the lower of the peaks not found.
FoundIfHigher(s, peak) ==
  {b \in Half(s) : b \in peak[s] - 1 .. peak[s] + 1} \union
  (IF s = "right" THEN {NOWHERE} ELSE {})

\* Where the search finds the peak of a half.  It is drawn with lines two pixels
\* thick.  A black half has its peak at the lowest row, if the line is drawn
\* there, and none otherwise.
Found(s, peak) ==
  IF peak[s] = NOWHERE
    THEN {NOWHERE, IF s = "left" THEN 0 ELSE Mid}
    ELSE {b \in Half(s) : b \in peak[s] - 1 .. peak[s] + 1}

\* The highest column of each half.  A frame is not what is expected either if
\* the element behind Array, which the histogram reads, is higher than all.
FirstFrame ==
  /\ pc = "first"
  /\ \E l \in Half("left") \union {NOWHERE}, r \in Half("right") \union {NOWHERE} :
       LET peak == [s \in Side |-> IF s = "left" THEN l ELSE r]
       IN  /\ \E bl \in Found("left", peak), br \in Found("right", peak) :
                Begin([s \in Side |-> IF s = "left" THEN bl ELSE br])
           /\ expected' = \A s \in Side : peak[s] \in Lane(s)
  /\ UNCHANGED <<temp, bias>>

\* Mutant: the sum of one window goes into the next.
MeanKeepsSum(lo, hi, b) == lo .. 2 * hi

\* The quotient of the sum and the number of columns of pixels from lo to hi, cut
\* to an integer towards zero.  The first sum is one less than it should be, so
\* that a single pixel leads to the column before its own, -1 for column 0; two
\* pixels of column 0 make -1/2, which is 0.
Mean(lo, hi, b) ==
  IF lo < hi THEN lo .. hi - 1
  ELSE IF ~b THEN {lo}
  ELSE IF lo = 0 THEN {-1, 0} ELSE {lo - 1}

\* What white pixels from column lo to column hi make of side s.
Hit(s, lo, hi) ==
  {[base |-> m, bias |-> FALSE,
    expected |-> {lo, hi} \subseteq Lane("left") \union Lane("right")] :
     m \in Mean(lo, hi, bias[s])}

\* Without a pixel in the window nothing changes.
Outcome(s) ==
  {[base |-> base[s], bias |-> bias[s], expected |-> TRUE]} \union
  UNION {UNION {Hit(s, lo, hi) : hi \in {h \in Window(base[s]) : lo <= h}} :
         lo \in Window(base[s])}

Slide ==
  /\ pc = "slide"
  /\ \E l \in Outcome("left"), r \in Outcome("right") :
       LET outcome == [s \in Side |-> IF s = "left" THEN l ELSE r]
       IN  /\ base' = [s \in Side |-> outcome[s].base]
           /\ bias' = [s \in Side |-> outcome[s].bias]
           /\ expected' = (expected /\ \A s \in Side : outcome[s].expected)
  /\ i' = i + 1
  /\ temp' = IF i = 0 THEN base' ELSE temp
  /\ pc' = IF i' = WINDOWS THEN "done"
           ELSE IF \A s \in Side : InImage(base'[s]) THEN "slide" ELSE "astray"

NextFrame ==
  pc = "done" /\ Begin(temp) /\ UNCHANGED <<temp, bias, expected>>

Next == FirstFrame \/ Slide \/ NextFrame

Spec == Init /\ [][Next]_vars

-----------------------------------------------------------------------------
(* The radius of the curve through three points of the middle of the lane.  *)

\* Slopes of doubles: a division by zero is infinite, and two quotients of
\* integers this small are the same double only if they are equal.
Collinear(p1, p2, p3) ==
  \/ p1.x = p2.x /\ p2.x = p3.x
  \/ /\ p1.x # p2.x /\ p2.x # p3.x
     /\ (p2.y - p1.y) * (p2.x - p3.x) = (p2.y - p3.y) * (p2.x - p1.x)

\* What Curvature divides by, if the points are not collinear.
det(p1, p2, p3) == (p1.y - p2.y) * (p1.x - p3.x) - (p1.x - p2.x) * (p1.y - p3.y)

-----------------------------------------------------------------------------
(* Properties. *)

\* A base is a column, or far from all before there is one, or the one to the
\* left of column 0, where the first pixel a lane is found by can lead it.
TypeOK ==
  /\ pc \in {"first", "slide", "done", "astray"}
  /\ i \in 0 .. WINDOWS
  /\ base \in [Side -> (-1 .. WIDTH - 1) \union {NOWHERE}]
  /\ temp \in [Side -> -1 .. WIDTH - 1]
  /\ bias \in [Side -> BOOLEAN]
  /\ expected \in BOOLEAN

\* The windows never leave the rows of the image, as long as the images are
\* black for HALF + 1 columns at either end and show both lanes at first: one
\* more than half a window, for the histogram's line and the first sum are each
\* one off, but not both.
InRow == expected => pc # "astray"

\* The two searches stay on their lanes, and so in order: the width of the lane,
\* by which the distance from the centre is divided, is positive.
LanesApart == expected /\ pc \in {"slide", "done"} => base["left"] < base["right"]
=============================================================================
