------------------------ MODULE SharedState_proofs ------------------------
(***************************************************************************)
(* The shared State object for every set of parts and every number of runs *)
(* of run.sh: a part works on the State of its own run, and in the program *)
(* whose parts do not truncate the object no access is a bus error, but in *)
(* a process one of whose own calls has failed.                            *)
(***************************************************************************)
EXTENDS SharedState, TLAPS

\* Every variable keeps its type, and run.sh its count.
THEOREM SharedTypeCorrect == Spec => []TypeOK
<1>1. Init => TypeOK
  BY SharedStateAssumption DEF Init, TypeOK, Run, Object, NoObject, Proc
<1>2. TypeOK /\ [Next]_vars => TypeOK'
  <2> SUFFICES ASSUME TypeOK, [Next]_vars PROVE TypeOK'
    OBVIOUS
  <2> USE SharedStateAssumption DEF TypeOK
  <2>1. CASE UNCHANGED vars
    BY <2>1 DEF vars
  <2>2. CASE Unlink
    BY <2>2 DEF Unlink, NoObject
  <2>3. CASE Create
    BY <2>3 DEF Create, Object
  <2>4. CASE SizeAndMap
    <3>1. full' \subseteq Object /\ failed' \subseteq Run
      BY <2>4 DEF SizeAndMap, Object
    <3> QED BY <2>4, <3>1 DEF SizeAndMap
  <2>5. CASE InitState
    BY <2>5 DEF InitState
  <2>6. CASE ForkPart
    <3>1. PICK p \in Part, next \in {"open", "unforked"} :
            ppc' = [ppc EXCEPT ![<<run, p>>] = next]
      BY <2>6 DEF ForkPart
    <3>2. cpc' \in {"fork", "up"} /\ UNCHANGED <<run, name, full, fd, whole, failed>>
      BY <2>6 DEF ForkPart
    <3> QED BY <3>1, <3>2
  <2>7. CASE CarAccess
    BY <2>7 DEF CarAccess
  <2>8. CASE NextRun
    <3>1. run + 1 \in Run
      BY <2>8 DEF NextRun, Run
    <3>2. ppc' \in [Proc -> {"none", "unforked", "open", "map", "use", "exited",
                             "crashed", "killed"}]
      BY <2>8 DEF NextRun
    <3> QED BY <2>8, <3>1, <3>2 DEF NextRun
  <2>9. ASSUME NEW c \in Proc, Open(c) PROVE TypeOK'
    BY <2>9 DEF Open
  <2>10. ASSUME NEW c \in Proc, StatAndMap(c) PROVE TypeOK'
    BY <2>10 DEF StatAndMap
  <2>11. ASSUME NEW c \in Proc, Access(c) PROVE TypeOK'
    BY <2>11 DEF Access
  <2> QED BY <2>1, <2>2, <2>3, <2>4, <2>5, <2>6, <2>7, <2>8, <2>9, <2>10, <2>11
          DEF Next
<1> QED BY <1>1, <1>2, PTL DEF Spec

-----------------------------------------------------------------------------
(* Which object a part process has opened. *)

Live(c) == ppc[c] \in {"open", "map", "use"}

\* The object of a run has its size only once its car has sized it, and then
\* the name stands for it.  Only the parts of the current run are alive, after
\* it has been sized, and they have opened it or nothing.
NamesTheRun ==
  /\ \A o \in full : o <= run
  /\ cpc \in {"unlink", "create", "size"} => run \notin full
  /\ cpc = "init" /\ run \in full => name = run
  /\ cpc \in {"fork", "up", "gone"} => name = run
  /\ \A c \in Proc : Live(c) => /\ c[1] = run /\ name = run
                               /\ cpc \in {"fork", "up", "gone", "crashed"}
  /\ \A c \in Proc : ppc[c] \in {"map", "use"} => fd[c] \in {NoObject, run}

\* NamesTheRun is inductive.
LEMMA NamesTheRunStep ==
  TypeOK /\ NamesTheRun /\ [Next]_vars => NamesTheRun'
<1> SUFFICES ASSUME TypeOK, NamesTheRun, [Next]_vars PROVE NamesTheRun'
  OBVIOUS
<1> USE DEF NamesTheRun, Live, TypeOK
<1>1. CASE UNCHANGED vars
  BY <1>1 DEF vars
<1>2. CASE Unlink
  BY <1>2 DEF Unlink
<1>3. CASE Create
  BY <1>3 DEF Create
<1>4. CASE SizeAndMap
  <2>1. run \in Nat /\ full \subseteq Nat /\ cpc = "size" /\ cpc' = "init"
    BY <1>4 DEF SizeAndMap, Run, Object
  <2>2. full' \subseteq full \union {run} /\ (run \in full' => name = run)
    BY <1>4 DEF SizeAndMap
  <2>3. UNCHANGED <<run, name, ppc, fd>>
    BY <1>4 DEF SizeAndMap
  <2> QED BY <2>1, <2>2, <2>3
<1>5. CASE InitState
  BY <1>5 DEF InitState
<1>6. CASE ForkPart
  <2>1. PICK p \in Part, next \in {"open", "unforked"} :
          ppc' = [ppc EXCEPT ![<<run, p>>] = next]
    BY <1>6 DEF ForkPart
  <2>2. /\ cpc = "fork" /\ cpc' \in {"fork", "up"}
        /\ UNCHANGED <<run, name, full, fd>>
    BY <1>6 DEF ForkPart
  <2>3. <<run, p>> \in Proc /\ <<run, p>>[1] = run
    BY DEF Proc
  <2> QED BY <2>1, <2>2, <2>3
<1>7. CASE CarAccess
  BY <1>7 DEF CarAccess
<1>8. CASE NextRun
  <2>1. run \in Nat /\ full \subseteq Nat
    BY DEF Run, Object
  <2>2. /\ cpc' = "unlink" /\ run' = run + 1 /\ full' = full
        /\ \A c \in Proc : ppc'[c] \notin {"open", "map", "use"}
    BY <1>8 DEF NextRun
  <2> QED BY <2>1, <2>2
<1>9. ASSUME NEW c \in Proc, Open(c) PROVE NamesTheRun'
  BY <1>9 DEF Open
<1>10. ASSUME NEW c \in Proc, StatAndMap(c) PROVE NamesTheRun'
  BY <1>10 DEF StatAndMap
<1>11. ASSUME NEW c \in Proc, Access(c) PROVE NamesTheRun'
  BY <1>11 DEF Access
<1> QED BY <1>1, <1>2, <1>3, <1>4, <1>5, <1>6, <1>7, <1>8, <1>9, <1>10, <1>11
        DEF Next

\* A part never works on the State of another run: run.sh has killed it before
\* the name can stand for a new object.  This holds of both programs.
THEOREM PartsUseTheirOwnState == Spec => [](OwnState /\ NamesTheRun)
<1>1. Init => NamesTheRun
  BY DEF Init, NamesTheRun, Live
<1>2. TypeOK /\ NamesTheRun => OwnState
  BY DEF NamesTheRun, OwnState, Live
<1> QED BY <1>1, <1>2, NamesTheRunStep, SharedTypeCorrect, PTL DEF Spec

-----------------------------------------------------------------------------
(* The size of the object, where the parts do not truncate it. *)

\* Unless a call of its car has failed, the object of the run has its size
\* before anybody uses it, and whoever has mapped it has mapped all of it.
Sized ==
  /\ cpc = "init" => run \in full \union failed
  /\ cpc \in {"fork", "up", "gone"} => run \in full
  /\ \A c \in Proc : Live(c) => run \in full
  /\ \A c \in Proc : ppc[c] = "use" => whole[c] \/ fd[c] = NoObject
  /\ NoBusError

\* Without truncation Sized is inductive, given who has opened what.
LEMMA SizedStep ==
  ASSUME Program = "recoverybase"
  PROVE TypeOK /\ NamesTheRun /\ Sized /\ [Next]_vars => Sized'
<1> SUFFICES ASSUME TypeOK, NamesTheRun, Sized, [Next]_vars PROVE Sized'
  OBVIOUS
<1> USE DEF Sized, NoBusError, NamesTheRun, Live, TypeOK
<1>1. CASE UNCHANGED vars
  BY <1>1 DEF vars
<1>2. CASE Unlink
  BY <1>2 DEF Unlink
<1>3. CASE Create
  BY <1>3 DEF Create
<1>4. CASE SizeAndMap
  BY <1>4 DEF SizeAndMap
<1>5. CASE InitState
  BY <1>5 DEF InitState
<1>6. CASE ForkPart
  <2>1. PICK p \in Part, next \in {"open", "unforked"} :
          ppc' = [ppc EXCEPT ![<<run, p>>] = next]
    BY <1>6 DEF ForkPart
  <2>2. /\ cpc = "fork" /\ cpc' \in {"fork", "up"}
        /\ UNCHANGED <<run, full, fd, whole, failed>>
    BY <1>6 DEF ForkPart
  <2> QED BY <2>1, <2>2
<1>7. CASE CarAccess
  BY <1>7 DEF CarAccess
<1>8. CASE NextRun
  BY <1>8 DEF NextRun
<1>9. ASSUME NEW c \in Proc, Open(c) PROVE Sized'
  <2>1. ~AttachTruncates
    BY DEF AttachTruncates
  <2> QED BY <1>9, <2>1 DEF Open
<1>10. ASSUME NEW c \in Proc, StatAndMap(c) PROVE Sized'
  <2>1. fd[c] \in full \/ fd[c] = NoObject
    BY <1>10 DEF StatAndMap
  <2> QED BY <1>10, <2>1 DEF StatAndMap
<1>11. ASSUME NEW c \in Proc, Access(c) PROVE Sized'
  <2>1. (whole[c] /\ fd[c] \in full) \/ fd[c] = NoObject
    BY <1>11 DEF Access
  <2>2. PICK next \in {"use", "exited", "crashed"} :
          /\ ppc' = [ppc EXCEPT ![c] = next]
          /\ next = "crashed" => fd[c] = NoObject
    BY <1>11, <2>1 DEF Access
  <2> QED BY <1>11, <2>2 DEF Access
<1> QED BY <1>1, <1>2, <1>3, <1>4, <1>5, <1>6, <1>7, <1>8, <1>9, <1>10, <1>11
        DEF Next

\* In recoverybase/ the car dies of its State only in a run in which one of its
\* own calls has failed, and a part only if its own has.
THEOREM NoAccessCrashes ==
  ASSUME Program = "recoverybase" PROVE Spec => []NoBusError
<1>1. Init => Sized
  BY DEF Init, Sized, NoBusError, Live
<1>2. Sized => NoBusError
  BY DEF Sized
<1> QED BY <1>1, <1>2, SizedStep, SharedTypeCorrect, PartsUseTheirOwnState, PTL
        DEF Spec

-----------------------------------------------------------------------------
(* What becomes of the parts that do truncate it. *)

\* An access of c through its mapping would hit the object.
Reaches(c) == whole[c] /\ fd[c] \in full

\* The parts of recovery/ never get to work: whoever has the State mapped dies
\* of its next access, while the car, whose accesses to the State all lie
\* before the first part opens it, comes up unharmed unless a call of its own
\* has failed.
PartsAreDoomed ==
  /\ \A c \in Proc : ppc[c] = "use" => ~Reaches(c)
  /\ cpc = "crashed" => run \in failed

\* Before the fork nobody has opened the object, which has its size when the
\* car stores into it, unless a call has failed.  Each part that opens it
\* empties it, no car of this program sizes it a second time, and so no part
\* maps all of it.
Truncated ==
  /\ cpc \in {"unlink", "create", "size", "init"}
       => \A c \in Proc : ppc[c] \notin {"open", "map", "use"}
  /\ cpc = "init" => run \in full \union failed
  /\ cpc = "crashed" => run \in failed
  /\ \A c \in Proc : ppc[c] \in {"map", "use"} => fd[c] \notin full
  /\ \A c \in Proc : ~whole[c]

\* With truncation Truncated is inductive, given who has opened what.
LEMMA TruncatedStep ==
  ASSUME Program = "recovery"
  PROVE TypeOK /\ NamesTheRun /\ Truncated /\ [Next]_vars => Truncated'
<1> SUFFICES ASSUME TypeOK, NamesTheRun, Truncated, [Next]_vars
             PROVE Truncated'
  OBVIOUS
<1> USE DEF Truncated, NamesTheRun, Live, TypeOK
<1>1. CASE UNCHANGED vars
  BY <1>1 DEF vars
<1>2. CASE Unlink
  BY <1>2 DEF Unlink
<1>3. CASE Create
  BY <1>3 DEF Create
<1>4. CASE SizeAndMap
  BY <1>4 DEF SizeAndMap
<1>5. CASE InitState
  BY <1>5 DEF InitState
<1>6. CASE ForkPart
  <2>1. PICK p \in Part, next \in {"open", "unforked"} :
          ppc' = [ppc EXCEPT ![<<run, p>>] = next]
    BY <1>6 DEF ForkPart
  <2>2. /\ cpc = "fork" /\ cpc' \in {"fork", "up"}
        /\ UNCHANGED <<run, full, fd, whole, failed>>
    BY <1>6 DEF ForkPart
  <2> QED BY <2>1, <2>2
<1>7. CASE CarAccess
  BY <1>7 DEF CarAccess
<1>8. CASE NextRun
  \* There is no script that starts this program again.
  <2>1. run = 1 /\ MaxRuns = 1
    BY SharedStateAssumption DEF Run
  <2> QED BY <1>8, <2>1 DEF NextRun
<1>9. ASSUME NEW c \in Proc, Open(c) PROVE Truncated'
  <2>1. PICK object \in {name, NoObject} :
          fd' = [fd EXCEPT ![c] = object] /\ full' = full \ {object}
    BY <1>9 DEF Open, AttachTruncates
  <2> QED BY <1>9, <2>1 DEF Open
<1>10. ASSUME NEW c \in Proc, StatAndMap(c) PROVE Truncated'
  <2>1. fd[c] \notin full
    BY <1>10 DEF StatAndMap
  <2> QED BY <1>10, <2>1 DEF StatAndMap
<1>11. ASSUME NEW c \in Proc, Access(c) PROVE Truncated'
  <2>1. ppc' = [ppc EXCEPT ![c] = "crashed"]
    BY <1>11 DEF Access
  <2> QED BY <1>11, <2>1 DEF Access
<1> QED BY <1>1, <1>2, <1>3, <1>4, <1>5, <1>6, <1>7, <1>8, <1>9, <1>10, <1>11
        DEF Next

\* In recovery/, whose parts open the State with O_TRUNC, no part survives its
\* first access to it, in whatever order they open, map and use it.
THEOREM RecoveryPartsAreDoomed ==
  ASSUME Program = "recovery" PROVE Spec => []PartsAreDoomed
<1>1. Init => Truncated
  BY DEF Init, Truncated
<1>2. TypeOK /\ NamesTheRun /\ Truncated => PartsAreDoomed
  BY DEF Truncated, NamesTheRun, Live, PartsAreDoomed, Reaches
<1> QED BY <1>1, <1>2, TruncatedStep, SharedTypeCorrect, PartsUseTheirOwnState,
           PTL DEF Spec
=============================================================================
