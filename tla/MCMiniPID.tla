----------------------------- MODULE MCMiniPID -----------------------------
(* Values for the configurations: limits around zero.*)
EXTENDS MiniPID

MCLimit == {-4, 0, 4}
=============================================================================
