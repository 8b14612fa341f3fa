---------------------------- MODULE SharedState ----------------------------
(***************************************************************************)
(* The life of the shared State object: each run of the car unlinks the    *)
(* old POSIX shared memory object, creates a new one, sizes it and maps    *)
(* it; the parts it forks open the object by its name, ask its size and    *)
(* map that much.  run.sh starts the next run when the car has left, and   *)
(* kills the parts that are left over.                                     *)
(*                                                                         *)
(* recovery/ and recoverybase/ differ in the flags of the parts' shm_open, *)
(* in what the car does once the parts are up, and in having a run.sh.     *)
(*                                                                         *)
(* shm_open, ftruncate and fork may fail.  No result but that of fork is   *)
(* looked at: what follows an shm_open that has failed, fails as well, and *)
(* the process is left with a mapping it dies of.  mmap of an object that  *)
(* has a size is taken to succeed.                                         *)
(***************************************************************************)
EXTENDS Naturals

CONSTANTS
  Part,             \* the parts, e.g. camera, speed, servoPID
  Program,          \* "recovery" or "recoverybase"
  MaxRuns           \* bound: how often run.sh starts the car

ASSUME SharedStateAssumption ==
  /\ MaxRuns \in Nat \ {0}
  /\ Program \in {"recovery", "recoverybase"}
  /\ Program = "recovery" => MaxRuns = 1

\* The parts of recovery/ open the object with O_CREAT | O_TRUNC.
AttachTruncates == Program = "recovery"

Run == 1 .. MaxRuns

\* Objects are named by the run that creates them; 0 is "no object".
NoObject == 0
Object   == Run

Proc == Run \X Part

VARIABLES
  run,      \* the current run
  cpc,      \* where its car is
  name,     \* the object the shared name stands for
  full,     \* the objects whose size is sizeof(State); the others are empty
  ppc,      \* where each part process is
  fd,       \* the object each part process has opened
  whole,    \* has it mapped sizeof(State) bytes (or none)?
  failed    \* history: the runs whose car's shm_open or ftruncate has failed

vars == <<run, cpc, name, full, ppc, fd, whole, failed>>

\* The types of the variables; run.sh never exceeds its count of runs.
TypeOK ==
  /\ run \in Run
  /\ cpc \in {"unlink", "create", "size", "init", "fork", "up", "gone",
              "crashed"}
  /\ name \in {NoObject} \union Object
  /\ full \subseteq Object
  /\ ppc \in [Proc -> {"none", "unforked", "open", "map", "use", "exited",
                     "crashed", "killed"}]
  /\ fd \in [Proc -> {NoObject} \union Object]
  /\ whole \in [Proc -> BOOLEAN]
  /\ failed \subseteq Run

Init ==
  /\ run = 1 /\ cpc = "unlink"
  /\ name = NoObject /\ full = {}
  /\ ppc = [c \in Proc |-> "none"]
  /\ fd = [c \in Proc |-> NoObject]
  /\ whole = [c \in Proc |-> FALSE]
  /\ failed = {}

-----------------------------------------------------------------------------
(* The car: ShareMemoryInitCar, then ForkPart. *)

Unlink ==
  /\ cpc = "unlink"
  /\ name' = NoObject /\ cpc' = "create"
  /\ UNCHANGED <<run, full, ppc, fd, whole, failed>>

\* shm_open with O_CREAT | O_TRUNC: a new, empty object, or none.
Create ==
  /\ cpc = "create" /\ cpc' = "size"
  /\ \/ name' = run /\ UNCHANGED failed
     \/ failed' = failed \union {run} /\ UNCHANGED name
  /\ UNCHANGED <<run, full, ppc, fd, whole>>

\* Mutant: no ftruncate before the mapping.
CreateUnsized ==
  /\ cpc = "size"
  /\ cpc' = "init"
  /\ UNCHANGED <<run, name, full, ppc, fd, whole, failed>>

\* ftruncate to sizeof(State), if there is an object, and mmap.
SizeAndMap ==
  /\ cpc = "size" /\ cpc' = "init"
  /\ \/ name = run /\ full' = full \union {run} /\ UNCHANGED failed
     \/ failed' = failed \union {run} /\ UNCHANGED full
  /\ UNCHANGED <<run, name, ppc, fd, whole>>

\* InitState: the first stores into the State, if there are bytes to store into.
InitState ==
  /\ cpc = "init"
  /\ cpc' = IF run \in full THEN "fork" ELSE "crashed"
  /\ UNCHANGED <<run, name, full, ppc, fd, whole, failed>>

\* One round of the loop; a fork that fails is only reported.
ForkPart ==
  /\ cpc = "fork"
  /\ \E p \in Part :
       /\ ppc[<<run, p>>] = "none"
       /\ \E next \in {"open", "unforked"} : ppc' = [ppc EXCEPT ![<<run, p>>] = next]
       /\ cpc' = IF \A q \in Part \ {p} : ppc[<<run, q>>] # "none" THEN "up" ELSE "fork"
  /\ UNCHANGED <<run, name, full, fd, whole, failed>>

\* The car's accesses to the State while the parts are up, until it returns
\* from main or calls exit; its parts live on.  The car of recovery/ only
\* sleeps, its accesses are commented out.
CarAccess ==
  /\ Program = "recoverybase"
  /\ cpc = "up"
  /\ IF run \in full THEN cpc' \in {"up", "gone"} ELSE cpc' = "crashed"
  /\ UNCHANGED <<run, name, full, ppc, fd, whole, failed>>

-----------------------------------------------------------------------------
(* A part process: ShareMemoryInit in the constructor, then RunALL. *)

\* shm_open of the name, which may fail.
Open(c) ==
  /\ ppc[c] = "open"
  /\ \E object \in {name, NoObject} :
       /\ fd' = [fd EXCEPT ![c] = object]
       /\ full' = IF AttachTruncates THEN full \ {object} ELSE full
  /\ ppc' = [ppc EXCEPT ![c] = "map"]
  /\ UNCHANGED <<run, cpc, name, whole, failed>>

\* fstat and mmap of st_size bytes; mmap of no bytes fails, unchecked.
StatAndMap(c) ==
  /\ ppc[c] = "map"
  /\ whole' = [whole EXCEPT ![c] = fd[c] \in full]
  /\ ppc' = [ppc EXCEPT ![c] = "use"]
  /\ UNCHANGED <<run, cpc, name, full, fd, failed>>

\* An access through state_: outside the mapping or beyond the object's end
\* the process is killed by a signal.  A part of recoverybase/ may find that
\* it has done its cycles, and exits.
Access(c) ==
  /\ ppc[c] = "use"
  /\ \E next \in IF whole[c] /\ fd[c] \in full
                  THEN IF Program = "recoverybase" THEN {"use", "exited"}
                                                   ELSE {"use"}
                  ELSE {"crashed"} :
       ppc' = [ppc EXCEPT ![c] = next]
  /\ UNCHANGED <<run, cpc, name, full, fd, whole, failed>>

-----------------------------------------------------------------------------
(* run.sh: kill what is left over, start the next run. *)

\* Mutant: the loop of run.sh tests i <= 11.
OneRunTooMany ==
  /\ cpc \in {"gone", "crashed"} /\ run <= MaxRuns
  /\ ppc' = [c \in Proc |-> IF ppc[c] \in {"open", "map", "use"} THEN "killed"
                                                                  ELSE ppc[c]]
  /\ run' = run + 1 /\ cpc' = "unlink"
  /\ UNCHANGED <<name, full, fd, whole, failed>>

\* Mutant: run.sh does not kill the parts left over.
NextRunBesideLeftovers ==
  /\ cpc \in {"gone", "crashed"} /\ run < MaxRuns
  /\ run' = run + 1 /\ cpc' = "unlink"
  /\ UNCHANGED <<name, full, ppc, fd, whole, failed>>

NextRun ==
  /\ cpc \in {"gone", "crashed"} /\ run < MaxRuns
  /\ ppc' = [c \in Proc |-> IF ppc[c] \in {"open", "map", "use"} THEN "killed"
                                                                  ELSE ppc[c]]
  /\ run' = run + 1 /\ cpc' = "unlink"
  /\ UNCHANGED <<name, full, fd, whole, failed>>

Next ==
  \/ Unlink \/ Create \/ SizeAndMap \/ InitState \/ ForkPart
  \/ CarAccess \/ NextRun
  \/ \E c \in Proc : Open(c) \/ StatAndMap(c) \/ Access(c)

Spec == Init /\ [][Next]_vars

-----------------------------------------------------------------------------
(* Properties. *)

\* share.cpp, "without -> bus error": with the sizing done before the first
\* use, no access falls outside the object, however the parts' opening and
\* mapping and the next run interleave.  A car dies of its State only if a call
\* has failed in its own run, a part only if its own shm_open has failed: the
\* unchecked failures of one process kill no other.
NoBusError ==
  /\ cpc = "crashed" => run \in failed
  /\ \A c \in Proc : ppc[c] = "crashed" => fd[c] = NoObject

\* run.sh and ShareMemoryInitCar together: a part works on the State its own car
\* has created or on none at all, never on that of another run, even if one of
\* the cars between has failed to create its own.
OwnState ==
  \A c \in Proc : ppc[c] = "use" => fd[c] \in {NoObject, c[1]}
=============================================================================
