--------------------------- MODULE MCLaneWindows ---------------------------
(* Windows of 4 columns in an image of 24.*)
EXTENDS LaneWindows
=============================================================================
