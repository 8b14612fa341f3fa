--------------------------- MODULE MCThreadedCar ---------------------------
(* A turn of 8 angles, read with a resolution of 2.  At rest the error is the *)
(* target of 1: its P and its I, one unit each, are together half of the limit *)
(* of 4, as 0.00229 * 50 and 0.00277 * 50 are less than the limit of 1.        *)
EXTENDS ThreadedCar

MCTurn == {-1, 1}
=============================================================================
