---------------------------- MODULE OrphansProofs ----------------------------
(***************************************************************************)
(* Theorems about Orphans, for any number of managers, stores and engines:  *)
(* who may be killed at a boot, if no manager is pid 1, and what a boot has *)
(* sent SIGKILL by its end, if no subreaper adopts what a manager leaves    *)
(* behind.  Nothing is proved of when what is killed is gone: a boot does   *)
(* not wait for it.                                                         *)
(***************************************************************************)
EXTENDS Orphans, TLAPS

USE DEF vars, Process, Leader, Core, Group

-----------------------------------------------------------------------------
\* Every action leaves every variable in its set.
LEMMA TypeStep == TypeOK /\ [Next]_vars => TypeOK'
<1> SUFFICES ASSUME TypeOK, [Next]_vars PROVE TypeOK'
  OBVIOUS
<1> USE OrphansAssumption DEF TypeOK
<1>1. ASSUME NEW m \in Managers, Boots(m) PROVE TypeOK'
  BY <1>1 DEF Boots
<1>2. ASSUME NEW m \in Managers, NEW p \in Process, Looks(m, p) PROVE TypeOK'
  BY <1>2 DEF Looks
<1>3. ASSUME NEW m \in Managers, NEW p \in Process, Reaps(m, p) PROVE TypeOK'
  BY <1>3 DEF Reaps
<1>4. ASSUME NEW m \in Managers, ComesUp(m) \/ Dies(m) PROVE TypeOK'
  BY <1>4 DEF ComesUp, Dies
<1>5. ASSUME NEW m \in Managers, NEW e \in Engines, Launches(m, e) PROVE TypeOK'
  BY <1>5 DEF Launches
<1>6. ASSUME NEW e \in Engines, Forks(e) \/ StopsEngine(e) PROVE TypeOK'
  BY <1>6 DEF Forks, StopsEngine
<1>7. ASSUME NEW p \in Process, Exits(p) PROVE TypeOK'
  BY <1>7 DEF Exits
<1>8. CASE UNCHANGED vars
  BY <1>8
<1>9. QED
  BY <1>1, <1>2, <1>3, <1>4, <1>5, <1>6, <1>7, <1>8 DEF Next

(* The types, and that every process that runs was launched by somebody. *)
THEOREM TypeCorrect == Spec => []TypeOK
<1>1. Init => TypeOK
  BY DEF Init, TypeOK
<1>2. QED
  BY <1>1, TypeStep, PTL DEF Spec

-----------------------------------------------------------------------------
(***************************************************************************)
(* What a manager has found stays an orphan of its store until it is        *)
(* killed, however late that is: a manager that is gone does not come back, *)
(* and an engine is launched once.  SupervisedIsSpared rests on this, since *)
(* reap() does not look again.                                              *)
(***************************************************************************)
Abandoned(e) == Leader(e) \notin alive \/ manager[launchedBy[e]] = "gone"

FoundInv ==
    \A m \in Managers : \A p \in found[m] :
        /\ launchedBy[p[1]] # None
        /\ Owner[launchedBy[p[1]]] = Owner[m]
        /\ Abandoned(p[1])

LEMMA FoundStep == ASSUME PidOne = None, TypeOK, FoundInv, [Next]_vars PROVE FoundInv'
<1> USE OrphansAssumption DEF TypeOK, FoundInv, Abandoned
<1>0. \A m \in Managers : \A p \in found[m] :
         p[1] \in Engines /\ launchedBy[p[1]] \in Managers
  <2>1. \A p \in Process : p[1] \in Engines
    OBVIOUS
  <2>2. QED
    BY <2>1, ZenonT(60)
<1>1. ASSUME NEW m \in Managers, Boots(m) PROVE FoundInv'
  BY <1>0, <1>1, ZenonT(60) DEF Boots
<1>2. ASSUME NEW m \in Managers, NEW p \in Process, Looks(m, p) PROVE FoundInv'
  <2>1. ASSUME p \in alive, Orphaned(p) PROVE launchedBy[p[1]] # None /\ Abandoned(p[1])
    BY <2>1 DEF Orphaned, HasParent, Supervised
  <2>2. QED
    BY <1>2, <2>1, ZenonT(60) DEF Looks, Marker
<1>3. ASSUME NEW m \in Managers, NEW p \in Process, Reaps(m, p) PROVE FoundInv'
  BY <1>3, ZenonT(60) DEF Reaps
<1>4. ASSUME NEW m \in Managers, ComesUp(m) \/ Dies(m) PROVE FoundInv'
  <2>1. \A n \in Managers : manager[n] = "gone" => manager'[n] = "gone"
    BY <1>4 DEF ComesUp, Dies
  <2>2. alive' \subseteq alive /\ UNCHANGED <<launchedBy, found>>
    BY <1>4 DEF ComesUp, Dies
  <2>3. QED
    BY <1>0, <2>1, <2>2
<1>5. ASSUME NEW m \in Managers, NEW e \in Engines, Launches(m, e) PROVE FoundInv'
  BY <1>0, <1>5, ZenonT(60) DEF Launches
<1>6. ASSUME NEW e \in Engines, Forks(e) \/ StopsEngine(e) PROVE FoundInv'
  <2>1. \A f \in Engines : Leader(f) \in alive' => Leader(f) \in alive
    BY <1>6 DEF Forks, StopsEngine
  <2>2. UNCHANGED <<manager, launchedBy, found>>
    BY <1>6 DEF Forks, StopsEngine
  <2>3. QED
    BY <1>0, <2>1, <2>2
<1>7. ASSUME NEW p \in Process, Exits(p) PROVE FoundInv'
  BY <1>7, ZenonT(60) DEF Exits
<1>8. CASE UNCHANGED vars
  BY <1>8
<1>9. QED
  BY <1>1, <1>2, <1>3, <1>4, <1>5, <1>6, <1>7, <1>8 DEF Next

\* The step SupervisedIsSpared asks for.
Spares ==
    \A m \in Managers, e \in Engines :
        found'[m] # found[m] /\ Leader(e) \in killed' \ killed =>
            /\ Owner[launchedBy[e]] = Owner[m]
            /\ manager[launchedBy[e]] = "gone"

LEMMA SparesStep == ASSUME TypeOK, FoundInv, [Next]_vars PROVE Spares
<1> USE DEF TypeOK, FoundInv, Abandoned, Spares
<1>1. ASSUME NEW m \in Managers, NEW p \in Process, Reaps(m, p) PROVE Spares
  BY <1>1 DEF Reaps
<1>2. CASE killed' \subseteq killed
  BY <1>2
<1>3. CASE UNCHANGED found
  BY <1>3
<1>4. QED
  BY <1>1, <1>2, <1>3
  DEF Next, Boots, Looks, ComesUp, Dies, Launches, Forks, StopsEngine, Exits

(* Where no manager is pid 1, a boot kills the launched process of no engine *)
(* whose manager is there: orphans.py:16-22 and 94-112.                      *)
THEOREM Spared == ASSUME PidOne = None PROVE Spec => SupervisedIsSpared
<1>1. Init => FoundInv
  BY DEF Init, FoundInv
<1>2. TypeOK /\ FoundInv /\ [Next]_vars => FoundInv'
  BY FoundStep
<1>3. TypeOK /\ FoundInv /\ [Next]_vars => [Spares]_vars
  BY SparesStep
<1>4. [][Spares]_vars => SupervisedIsSpared
  BY PTL DEF SupervisedIsSpared, Spares
<1>5. QED
  BY <1>1, <1>2, <1>3, <1>4, TypeCorrect, PTL DEF Spec

-----------------------------------------------------------------------------
(***************************************************************************)
(* An engine that was abandoned when the manager made its listing is, while *)
(* its leader runs and no SIGKILL is on its way to it, still to be looked   *)
(* at or still to be killed.                                                *)
(***************************************************************************)
BootInv ==
    \A m \in Managers :
        /\ manager[m] = "up" => listed[m] = {} /\ found[m] = {}
        /\ manager[m] \in {"looking", "up"} =>
              \A e \in Engines \ spared[m] :
                  /\ launchedBy[e] # None
                  /\ manager[launchedBy[e]] = "gone"
                  /\ Leader(e) \in alive \ killed /\ Owner[launchedBy[e]] = Owner[m]
                        /\ <<m, e>> \in MayRead \cap MayKill
                     => Leader(e) \in listed[m] \cup found[m]

LEMMA BootStep == ASSUME ~Subreaper, TypeOK, BootInv, [Next]_vars PROVE BootInv'
<1> USE OrphansAssumption DEF TypeOK, BootInv
<1>1. ASSUME NEW m \in Managers, Boots(m) PROVE BootInv'
  BY <1>1 DEF Boots, Supervised
<1>2. ASSUME NEW m \in Managers, NEW p \in Process, Looks(m, p) PROVE BootInv'
  BY <1>2 DEF Looks, Marker, Orphaned, HasParent, Supervised
<1>3. ASSUME NEW m \in Managers, NEW p \in Process, Reaps(m, p) PROVE BootInv'
  BY <1>3 DEF Reaps
<1>4. ASSUME NEW m \in Managers, ComesUp(m) PROVE BootInv'
  BY <1>4 DEF ComesUp
<1>5. ASSUME NEW m \in Managers, Dies(m) PROVE BootInv'
  BY <1>5 DEF Dies
<1>6. ASSUME NEW m \in Managers, NEW e \in Engines, Launches(m, e) PROVE BootInv'
  BY <1>6 DEF Launches
<1>7. ASSUME NEW e \in Engines, Forks(e) \/ StopsEngine(e) PROVE BootInv'
  BY <1>7 DEF Forks, StopsEngine
<1>8. ASSUME NEW p \in Process, Exits(p) PROVE BootInv'
  BY <1>8 DEF Exits
<1>9. CASE UNCHANGED vars
  BY <1>9
<1>10. QED
  BY <1>1, <1>2, <1>3, <1>4, <1>5, <1>6, <1>7, <1>8, <1>9 DEF Next

(* Where no subreaper lives, a manager that is up has sent SIGKILL to every  *)
(* engine of its store that had lost its manager, that it may read of and    *)
(* signal, and that still runs: orphans.py:73-112.                           *)
THEOREM Cleared == ASSUME ~Subreaper PROVE Spec => []BootClears
<1>1. Init => BootInv
  BY DEF Init, BootInv
<1>2. TypeOK /\ BootInv /\ [Next]_vars => BootInv'
  BY BootStep
<1>3. BootInv => BootClears
  BY DEF BootInv, BootClears, LeftTo
<1>4. QED
  BY <1>1, <1>2, <1>3, TypeCorrect, PTL DEF Spec

=============================================================================
