-------------------------- MODULE ProcessGroupProofs --------------------------
(***************************************************************************)
(* Theorems about ProcessGroup, for any group, any number of concurrent     *)
(* stops and any grace: what a stop() that returns may rely on, and that no *)
(* process escapes the SIGKILL its leader is sent.                          *)
(***************************************************************************)
EXTENDS ProcessGroup, TLAPS

USE DEF vars, procVars, stopVars, Members, Exists

-----------------------------------------------------------------------------
(***************************************************************************)
(* That no wait outlasts its grace, which is part of TypeOK, rests on what  *)
(* a turn of the drain loop has checked before it sleeps.                   *)
(***************************************************************************)
PolledInv == \A k \in Stops : pc[k] = "draining" /\ polled[k] => elapsed[k] < Grace

\* Every action leaves every variable in its set.
LEMMA TypeStep == TypeOK /\ PolledInv /\ [Next]_vars => TypeOK' /\ PolledInv'
<1> SUFFICES ASSUME TypeOK, PolledInv, [Next]_vars PROVE TypeOK' /\ PolledInv'
  OBVIOUS
<1> USE ProcessGroupAssumption DEF TypeOK, PolledInv
<1>1. ASSUME NEW k \in Stops, StopReturnsAtOnce(k) \/ LeaderWaited(k) \/ DrainEnds(k)
      PROVE  TypeOK' /\ PolledInv'
  <2>1. CASE StopReturnsAtOnce(k)
    BY <2>1 DEF StopReturnsAtOnce
  <2>2. CASE LeaderWaited(k)
    BY <2>2 DEF LeaderWaited
  <2>3. CASE DrainEnds(k)
    BY <2>3 DEF DrainEnds
  <2>4. QED
    BY <1>1, <2>1, <2>2, <2>3
<1>2. ASSUME NEW k \in Stops, StopAsks(k) PROVE TypeOK' /\ PolledInv'
  <2>1. signal' \in [Members -> {"none", "term", "kill"}]
    BY <1>2 DEF StopAsks, SignalGroup
  <2>2. QED
    BY <1>2, <2>1 DEF StopAsks
<1>3. ASSUME NEW k \in Stops, GraceExpires(k) PROVE TypeOK' /\ PolledInv'
  <2>1. signal' \in [Members -> {"none", "term", "kill"}]
    BY <1>3 DEF GraceExpires, SignalGroup
  <2>2. QED
    BY <1>3, <2>1 DEF GraceExpires
<1>4. ASSUME NEW k \in Stops, DrainTurn(k) PROVE TypeOK' /\ PolledInv'
  <2>1. signal' \in [Members -> {"none", "term", "kill"}]
    BY <1>4 DEF DrainTurn, SignalGroup
  <2>2. escalated' \in [Stops -> BOOLEAN]
    BY <1>4 DEF DrainTurn
  <2>3. PolledInv'
    BY <1>4 DEF DrainTurn
  <2>4. QED
    BY <1>4, <2>1, <2>2, <2>3 DEF DrainTurn
<1>5. ASSUME Tick PROVE TypeOK' /\ PolledInv'
  <2>1. ASSUME NEW k \in Stops, Timed(k) PROVE elapsed[k] + 1 \in 0..Grace
    BY <1>5, <2>1 DEF Tick, Timed
  <2>2. elapsed' \in [Stops -> 0..Grace]
    BY <1>5, <2>1 DEF Tick
  <2>3. QED
    BY <1>5, <2>2 DEF Tick
<1>6. ASSUME NEW m \in Members, Forks(m) \/ Collected(m) PROVE TypeOK' /\ PolledInv'
  BY <1>6 DEF Forks, Collected
<1>7. ASSUME NEW m \in Members, ExitsByItself(m) \/ IsKilled(m)
      PROVE  TypeOK' /\ PolledInv'
  BY <1>7 DEF ExitsByItself, IsKilled, Exit
<1>8. ASSUME ReturncodeSet PROVE TypeOK' /\ PolledInv'
  BY <1>8 DEF ReturncodeSet
<1>9. CASE UNCHANGED vars
  BY <1>9
<1>10. QED
  BY <1>1, <1>2, <1>3, <1>4, <1>5, <1>6, <1>7, <1>8, <1>9 DEF Next, StopStep

(* The types of all variables; in particular no wait outlasts its grace:     *)
(* runtime.py:69-104.                                                        *)
THEOREM TypeCorrect == Spec => []TypeOK
<1>1. Init => TypeOK /\ PolledInv
  <2> SUFFICES ASSUME Init PROVE TypeOK /\ PolledInv
    OBVIOUS
  <2>1. pgid \in BOOLEAN
    <3>1. PICK l \in {"running", "zombie", "gone"} : pgid = (l # "gone")
      BY Zenon DEF Init
    <3>2. QED
      BY Zenon, <3>1
  <2>2. proc \in [Members -> {"absent", "running", "zombie", "gone"}]
    BY DEF Init
  <2>3. signal \in [Members -> {"none", "term", "kill"}] /\ returncode \in BOOLEAN
    BY DEF Init
  <2>4. pc \in [Stops -> {"idle", "waiting", "insisting", "draining", "done"}]
    BY DEF Init
  <2>5. elapsed \in [Stops -> 0..Grace]
    BY ProcessGroupAssumption DEF Init
  <2>6. escalated \in [Stops -> BOOLEAN] /\ polled \in [Stops -> BOOLEAN]
    BY Zenon DEF Init
  <2>7. PolledInv
    BY DEF Init, PolledInv
  <2>8. QED
    BY Zenon, <2>1, <2>2, <2>3, <2>4, <2>5, <2>6, <2>7 DEF TypeOK
<1>2. QED
  BY <1>1, TypeStep, PTL DEF Spec

-----------------------------------------------------------------------------
\* `returncode` is set after the leader has been collected, which is final; and
\* no stop() comes as far as its drain without having seen it.
LeaderInv == LeaderGone /\ (returncode => proc[Leader] = "gone")

LEMMA LeaderStep == TypeOK /\ LeaderInv /\ [Next]_vars => LeaderInv'
<1> SUFFICES ASSUME TypeOK, LeaderInv, [Next]_vars PROVE LeaderInv'
  OBVIOUS
<1> USE ProcessGroupAssumption DEF TypeOK, LeaderInv, LeaderGone
<1>1. ASSUME NEW k \in Stops, StopReturnsAtOnce(k) \/ StopAsks(k) PROVE LeaderInv'
  BY <1>1 DEF StopReturnsAtOnce, StopAsks
<1>2. ASSUME NEW k \in Stops, StopStep(k) PROVE LeaderInv'
  BY <1>2 DEF StopStep, LeaderWaited, GraceExpires, DrainEnds, DrainTurn
<1>3. ASSUME Tick PROVE LeaderInv'
  BY <1>3 DEF Tick
<1>4. ASSUME NEW m \in Members, Forks(m) \/ Collected(m) PROVE LeaderInv'
  BY <1>4 DEF Forks, Collected
<1>5. ASSUME NEW m \in Members, ExitsByItself(m) \/ IsKilled(m) PROVE LeaderInv'
  BY <1>5 DEF ExitsByItself, IsKilled, Exit
<1>6. ASSUME ReturncodeSet PROVE LeaderInv'
  BY <1>6 DEF ReturncodeSet
<1>7. CASE UNCHANGED vars
  BY <1>7
<1>8. QED
  BY <1>1, <1>2, <1>3, <1>4, <1>5, <1>6, <1>7 DEF Next

(* A stop() that drains or has returned has seen the leader's exit, however  *)
(* it was reached and whoever else is stopping: runtime.py:69-86.            *)
THEOREM LeaderIsGone == Spec => []LeaderGone
<1>1. Init => LeaderInv
  BY DEF Init, LeaderInv, LeaderGone
<1>2. LeaderInv => LeaderGone
  BY DEF LeaderInv
<1>3. QED
  BY <1>1, <1>2, TypeCorrect, LeaderStep, PTL DEF Spec

-----------------------------------------------------------------------------
\* Whoever is in the group when its leader is killed is killed too, and forks no more.
KillReachesAll == signal[Leader] = "kill" => \A m \in Members : Exists(m) => signal[m] = "kill"

LEMMA KillReachesStep == TypeOK /\ KillReachesAll /\ [Next]_vars => KillReachesAll'
<1> SUFFICES ASSUME TypeOK, KillReachesAll, [Next]_vars PROVE KillReachesAll'
  OBVIOUS
<1> USE ProcessGroupAssumption DEF TypeOK, KillReachesAll
<1>1. ASSUME NEW sig \in {"term", "kill"}, SignalGroup(sig), UNCHANGED proc PROVE KillReachesAll'
  BY <1>1 DEF SignalGroup
<1>2. ASSUME NEW k \in Stops, StopAsks(k) \/ GraceExpires(k) PROVE KillReachesAll'
  BY <1>1, <1>2 DEF StopAsks, GraceExpires
<1>3. ASSUME NEW k \in Stops, DrainTurn(k) PROVE KillReachesAll'
  <2>1. CASE SignalGroup("kill")
    BY <1>1, <1>3, <2>1 DEF DrainTurn
  <2>2. CASE UNCHANGED signal
    BY <1>3, <2>2 DEF DrainTurn
  <2>3. QED
    BY <1>3, <2>1, <2>2 DEF DrainTurn
<1>4. ASSUME NEW m \in Members, Forks(m) PROVE KillReachesAll'
  BY <1>4 DEF Forks
<1>5. ASSUME NEW m \in Members, ExitsByItself(m) \/ IsKilled(m) \/ Collected(m)
      PROVE  KillReachesAll'
  BY <1>5 DEF ExitsByItself, IsKilled, Exit, Collected
<1>6. CASE UNCHANGED <<proc, signal>>
  BY <1>6
<1>7. QED
  BY <1>2, <1>3, <1>4, <1>5, <1>6
  DEF Next, StopStep, StopReturnsAtOnce, LeaderWaited, DrainEnds, ReturncodeSet, Tick

(* What there is of a group whose leader was killed has been killed with it, *)
(* and so will be gone: the safety half of KilledLeaderLeavesNobody, for any *)
(* group and any number of stops that overlap (runtime.py:72-81).            *)
THEOREM NobodySlipsThrough == Spec => []KillReachesAll
<1>1. Init => KillReachesAll
  BY ProcessGroupAssumption DEF Init, KillReachesAll
<1>2. QED
  BY <1>1, KillReachesStep, TypeCorrect, PTL DEF Spec

=============================================================================
