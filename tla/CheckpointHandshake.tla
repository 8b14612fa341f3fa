------------------------ MODULE CheckpointHandshake ------------------------
(***************************************************************************)
(* What the need_compulsive_checkpoint flags are for: a part that has      *)
(* finished a unit of work asks the manager for a checkpoint and stands    *)
(* still until the manager, having saved it or decided not to, lets it go. *)
(* Parts appear when they are forked and vanish when they exit or are      *)
(* killed; the manager may leave, and then nobody is let go any more.      *)
(***************************************************************************)
CONSTANT Part

VARIABLES
  phase,    \* "off", "run", "requested" or "granted", for each part
  managed   \* is the manager still there?

vars == <<phase, managed>>

\* Every part is in one of the four phases.
TypeOK ==
  /\ phase \in [Part -> {"off", "run", "requested", "granted"}]
  /\ managed \in BOOLEAN

Init == phase = [p \in Part |-> "off"] /\ managed = TRUE

Move(p, from, to) ==
  phase[p] = from /\ phase' = [phase EXCEPT ![p] = to] /\ UNCHANGED managed

Launch(p)  == managed /\ Move(p, "off", "run")
Request(p) == Move(p, "run", "requested")
Grant(p)   == managed /\ Move(p, "requested", "granted")
Resume(p)  == Move(p, "granted", "run")

\* A part leaves on its own only between two requests.
Exit(p) == Move(p, "run", "off")

\* A signal takes down any set of parts at once.
Kill(killed) ==
  /\ managed
  /\ phase' = [p \in Part |-> IF p \in killed THEN "off" ELSE phase[p]]
  /\ UNCHANGED managed

Leave == managed /\ managed' = FALSE /\ UNCHANGED phase

Next ==
  \/ \E p \in Part : \/ Launch(p) \/ Request(p) \/ Grant(p)
                     \/ Resume(p) \/ Exit(p)
  \/ \E killed \in SUBSET Part : Kill(killed)
  \/ Leave

Spec == Init /\ [][Next]_vars

\* The manager keeps serving requests and a released part goes on.
FairSpec ==
  Spec /\ \A p \in Part : WF_vars(Grant(p)) /\ WF_vars(Resume(p))
=============================================================================
