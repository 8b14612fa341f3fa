----------------------------- MODULE MCPca9685 -----------------------------
(* Two threads; values below, at, within and above what a cycle has.*)
EXTENDS Pca9685

MCValue == {-1, 0, 1, 6, FULL, FULL + 1}
=============================================================================
