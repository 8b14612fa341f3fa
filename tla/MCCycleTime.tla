---------------------------- MODULE MCCycleTime ----------------------------
(* A range of 50 microseconds and a second of 3 of them. *)
EXTENDS CycleTime
=============================================================================
