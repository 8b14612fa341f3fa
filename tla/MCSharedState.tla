--------------------------- MODULE MCSharedState ---------------------------
(* The parts are interchangeable for the shared memory object. *)
EXTENDS SharedState, TLC
Symmetry == Permutations(Part)
=============================================================================
