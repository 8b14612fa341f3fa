------------------------------ MODULE PwmBoard ------------------------------
(***************************************************************************)
(* What the driver of the PWM board promises.  A client asks for a duty of *)
(* its channel; the board changes to it in one step, and no channel is     *)
(* disturbed by the calls for another.  One detour is allowed: a channel   *)
(* on its way down from full-on may show the last duty that was neither    *)
(* full-on nor off.  A crash abandons the calls under way and leaves the   *)
(* board as it is; a program that starts switches all channels off.        *)
(***************************************************************************)
EXTENDS Integers

CONSTANTS Channel,
          FULL       \* ticks of a cycle: the duty that is always on

VARIABLES duty,      \* ticks a channel is on
          kept,      \* the last duty strictly between off and full-on
          asked      \* the duty of the call under way, or None

None == -1

Init ==
  /\ duty = [c \in Channel |-> 0]
  /\ kept = [c \in Channel |-> 0]
  /\ asked = [c \in Channel |-> None]

Ask(c, d) ==
  /\ asked[c] = None
  /\ asked' = [asked EXCEPT ![c] = d]
  /\ UNCHANGED <<duty, kept>>

Show(c) ==
  /\ asked[c] # None
  /\ duty' = [duty EXCEPT ![c] = asked[c]]
  /\ kept' = [kept EXCEPT ![c] = IF asked[c] \in 1 .. FULL - 1 THEN asked[c] ELSE @]
  /\ asked' \in {asked, [asked EXCEPT ![c] = None]}

Detour(c) ==
  /\ asked[c] \in 1 .. FULL - 1 /\ duty[c] = FULL
  /\ duty' = [duty EXCEPT ![c] = kept[c]]
  /\ UNCHANGED <<kept, asked>>

Return(c) ==
  /\ asked[c] # None /\ duty[c] = asked[c]
  /\ asked' = [asked EXCEPT ![c] = None]
  /\ UNCHANGED <<duty, kept>>

Crash ==
  /\ asked' = [c \in Channel |-> None]
  /\ UNCHANGED <<duty, kept>>

\* The start of a program, which no call is under way in: the first step takes
\* the channels off full-on.
Quieten ==
  /\ \A c \in Channel : asked[c] = None
  /\ \/ /\ duty' = [c \in Channel |-> IF duty[c] = FULL THEN kept[c] ELSE duty[c]]
        /\ kept' = kept
     \/ /\ duty' = [c \in Channel |-> 0]
        /\ kept' = [c \in Channel |-> 0]
  /\ UNCHANGED asked

Next ==
  \/ \E c \in Channel : \/ \E d \in 0 .. FULL : Ask(c, d)
                        \/ Show(c) \/ Detour(c) \/ Return(c)
  \/ Crash \/ Quieten

Spec == Init /\ [][Next]_<<duty, kept, asked>>
=============================================================================
