--------------------------- MODULE SupervisorProofs ---------------------------
(***************************************************************************)
(* Theorems about Supervisor, for any number of starts and stops in any     *)
(* order, any deadline and any behaviour of the engines: it is type         *)
(* correct, and what its records say of failures is true.                   *)
(***************************************************************************)
EXTENDS Supervisor, TLAPS

(***************************************************************************)
(* A step changes few of the variables, and each leaf cites the action with *)
(* what it calls.  The names of tuples and of sets of strings stand for     *)
(* nothing but themselves and are expanded everywhere.                      *)
(***************************************************************************)
USE DEF vars, recordVars, selfVars, taskVars, startVars, stopVars, engineVars,
        startLocals, stopLocals, EngineState, StartupFailure, FailureKind, Unwinding,
        StartSuspended, StartEnded, StopSuspended, StopEnded, TaskLive, TaskDone

\* A leader that has not been reaped holds its engine's place.
Alive == {"running", "exited"}

-----------------------------------------------------------------------------
\* What _reap leaves of the tasks, whichever it cancels.
LEMMA CancelTypes ==
    ASSUME TypeOK, NEW w, NEW p, CancelNext(w, p)
    PROVE  /\ pumpTask' \in [Starts -> {"none"} \cup TaskLive \cup TaskDone]
           /\ watchTask' \in [Starts -> {"none"} \cup TaskLive \cup TaskDone]
           /\ UNCHANGED <<pumpOn, watchOn>>
<1>1. ASSUME NEW q, CancelPump(q)
      PROVE  /\ pumpTask' \in [Starts -> {"none"} \cup TaskLive \cup TaskDone]
             /\ watchTask' \in [Starts -> {"none"} \cup TaskLive \cup TaskDone]
  BY <1>1 DEF TypeOK, CancelPump
<1>2. ASSUME CancelWatch(w)
      PROVE  /\ pumpTask' \in [Starts -> {"none"} \cup TaskLive \cup TaskDone]
             /\ watchTask' \in [Starts -> {"none"} \cup TaskLive \cup TaskDone]
  <2>1. CASE CancelPump(watchOn[w])
    BY <2>1, <1>1
  <2>2. CASE watchTask' = [watchTask EXCEPT ![w] = "cancelling"] /\ UNCHANGED pumpTask
    BY <2>2 DEF TypeOK
  <2>3. QED
    BY <1>2, <2>1, <2>2 DEF CancelWatch
<1>3. QED
  BY <1>1, <1>2 DEF CancelNext, TypeOK

\* Every action leaves every variable in its set.
LEMMA TypeStep == TypeOK /\ [Next]_vars => TypeOK'
<1> SUFFICES ASSUME TypeOK, [Next]_vars PROVE TypeOK'
  OBVIOUS
<1> USE SupervisorAssumption
<1>1. ASSUME NEW s \in Starts, StartRefused(s) PROVE TypeOK'
  BY <1>1 DEF TypeOK, StartRefused
<1>2. ASSUME NEW s \in Starts, StartBegins(s) PROVE TypeOK'
  BY <1>2 DEF TypeOK, StartBegins, FreshScanner
<1>3. ASSUME NEW s \in Starts, SpawnReturns(s) PROVE TypeOK'
  BY <1>3, SMTT(40) DEF TypeOK, SpawnReturns, PollTurn, StartFails, ClassifyExit
<1>4. ASSUME NEW s \in Starts, HealthAnswers(s) PROVE TypeOK'
  BY <1>4 DEF TypeOK, HealthAnswers
<1>5. ASSUME NEW s \in Starts, HealthMisses(s) PROVE TypeOK'
  BY <1>5 DEF TypeOK, HealthMisses
<1>6. ASSUME NEW s \in Starts, BecomesReady(s) PROVE TypeOK'
  BY <1>6 DEF TypeOK, BecomesReady
<1>7. ASSUME NEW s \in Starts, PollsAgain(s) PROVE TypeOK'
  BY <1>7, SMTT(40) DEF TypeOK, PollsAgain, PollTurn, StartFails, ClassifyExit
<1>8. ASSUME NEW s \in Starts, StartTimesOut(s) PROVE TypeOK'
  BY <1>8 DEF TypeOK, StartTimesOut, StartFails
<1>9. ASSUME NEW s \in Starts, PollFindsNoHandle(s) PROVE TypeOK'
  BY <1>9 DEF TypeOK, PollFindsNoHandle
<1>10. ASSUME NEW s \in Starts, StartUnwinds(s) PROVE TypeOK'
  <2>1. ASSUME NEW w \in Starts \cup {None}, NEW p \in Starts \cup {None}, StartTail(s, w, p)
        PROVE  /\ selfVars' = selfVars \/ ClearSelf
               /\ startPc' \in [Starts -> {"idle"} \cup StartSuspended \cup StartEnded]
               /\ startOn' \in [Starts -> Starts \cup {None}]
               /\ startPump' \in [Starts -> Starts \cup {None}]
               /\ CancelNext(w, p)
    <3>1. /\ selfVars' = selfVars \/ ClearSelf
          /\ CancelNext(w, p)
      BY <2>1 DEF StartTail
    <3>2. \E place \in {"unwatching", "unpumping", "raised"}, t, q \in Starts \cup {None} :
             StartAwaits(s, place, t, q)
      BY <2>1 DEF StartTail, Live
    <3>3. QED
      BY <3>1, <3>2 DEF TypeOK, StartAwaits
  <2>2. PICK w \in Starts \cup {None}, p \in Starts \cup {None} : StartTail(s, w, p)
    BY <1>10 DEF TypeOK, StartUnwinds
  <2>3. UNCHANGED <<recordVars, polls, stopVars, engineVars>>
    BY <1>10 DEF StartUnwinds
  <2>4. /\ record' \in Starts \cup {None} /\ scanned' \in Starts \cup {None}
        /\ handle' \in Starts \cup {None} /\ pump' \in Starts \cup {None}
        /\ watch' \in Starts \cup {None}
    BY <2>1, <2>2 DEF TypeOK, ClearSelf
  <2>5. QED
    BY <2>1, <2>2, <2>3, <2>4, CancelTypes DEF TypeOK
<1>11. ASSUME NEW s \in Starts, StartCancelled(s) PROVE TypeOK'
  BY <1>11, ZenonT(60) DEF TypeOK, StartCancelled
<1>12. ASSUME NEW k \in Stops, StopDoesNothing(k) PROVE TypeOK'
  BY <1>12 DEF TypeOK, StopDoesNothing
<1>13. ASSUME NEW k \in Stops, StopKills(k) PROVE TypeOK'
  BY <1>13 DEF TypeOK, StopKills, MarkStopping
<1>14. ASSUME NEW k \in Stops, NEW w \in Starts \cup {None}, NEW p \in Starts \cup {None},
              NEW st \in [Starts -> EngineState], StopTail(k, w, p, st),
              UNCHANGED <<failure, readyAt, startVars, engineVars>>
       PROVE  TypeOK'
  <2>1. /\ selfVars' = selfVars \/ ClearSelf
        /\ stopPc' \in [Stops -> {"idle"} \cup StopSuspended \cup StopEnded]
        /\ stopOn' \in [Stops -> Starts \cup {None}]
        /\ stopPump' \in [Stops -> Starts \cup {None}]
        /\ CancelNext(w, p)
    BY <1>14 DEF TypeOK, StopTail, StopAwaits
  <2>2. state' \in [Starts -> EngineState]
    BY <1>14 DEF StopTail
  <2>3. /\ record' \in Starts \cup {None} /\ scanned' \in Starts \cup {None}
        /\ handle' \in Starts \cup {None} /\ pump' \in Starts \cup {None}
        /\ watch' \in Starts \cup {None}
    BY <2>1 DEF TypeOK, ClearSelf
  <2>4. QED
    BY <1>14, <2>1, <2>2, <2>3, CancelTypes DEF TypeOK
<1>15. ASSUME NEW k \in Stops, StopReapsAtOnce(k) \/ StopReaps(k) PROVE TypeOK'
  <2>1. MarkStopping \in [Starts -> EngineState]
    BY DEF TypeOK, MarkStopping
  <2>2. QED
    BY <1>14, <1>15, <2>1 DEF TypeOK, StopReapsAtOnce, StopReaps
<1>16. ASSUME NEW k \in Stops, StopUnwinds(k) PROVE TypeOK'
  BY <1>14, <1>16 DEF TypeOK, StopUnwinds
<1>17. ASSUME NEW k \in Stops, StopCancelled(k) PROVE TypeOK'
  BY <1>17 DEF TypeOK, StopCancelled
<1>18. ASSUME NEW s \in Starts, PumpStarts(s) PROVE TypeOK'
  BY <1>18 DEF TypeOK, PumpStarts, PumpReads
<1>19. ASSUME NEW s \in Starts, PumpLine(s) PROVE TypeOK'
  BY <1>19 DEF TypeOK, PumpLine, PumpReads
<1>20. ASSUME NEW s \in Starts, PumpSignature(s) PROVE TypeOK'
  <2>1. unread' \in [Starts -> BOOLEAN]
    BY <1>20 DEF TypeOK, PumpSignature
  <2>2. scanned' \in Starts \cup {None}
    BY <1>20 DEF TypeOK, PumpSignature
  <2>3. /\ pumpTask' \in [Starts -> {"none"} \cup TaskLive \cup TaskDone]
        /\ pumpOn' \in [Starts -> Starts \cup {None}]
    BY <1>20 DEF TypeOK, PumpSignature, PumpReads
  <2>4. QED
    BY <1>20, <2>1, <2>2, <2>3 DEF TypeOK, PumpSignature
<1>21. ASSUME NEW s \in Starts, PumpEof(s) PROVE TypeOK'
  BY <1>21 DEF TypeOK, PumpEof
<1>22. ASSUME NEW s \in Starts, WatchStarts(s) PROVE TypeOK'
  <2>1. watchTask' \in [Starts -> {"none"} \cup TaskLive \cup TaskDone]
    BY <1>22 DEF TypeOK, WatchStarts
  <2>2. watchOn' \in [Starts -> Starts \cup {None}]
    BY <1>22 DEF TypeOK, WatchStarts
  <2>3. QED
    BY <1>22, <2>1, <2>2 DEF TypeOK, WatchStarts
<1>23. ASSUME NEW s \in Starts, WatchSeesEof(s) PROVE TypeOK'
  BY <1>23 DEF TypeOK, WatchSeesEof
<1>24. ASSUME NEW s \in Starts, WatchBreaks(s) PROVE TypeOK'
  BY <1>24 DEF TypeOK, WatchBreaks
<1>25. ASSUME NEW s \in Starts, EngineServes(s) PROVE TypeOK'
  BY <1>25 DEF TypeOK, EngineServes
<1>26. ASSUME NEW s \in Starts, EngineForks(s) PROVE TypeOK'
  BY <1>26 DEF TypeOK, EngineForks
<1>27. ASSUME NEW s \in Starts, EngineComplains(s) PROVE TypeOK'
  BY <1>27 DEF TypeOK, EngineComplains
<1>28. ASSUME NEW s \in Starts, EngineExits(s) PROVE TypeOK'
  BY <1>28 DEF TypeOK, EngineExits
<1>29. ASSUME NEW s \in Starts, EngineReaped(s) PROVE TypeOK'
  BY <1>29 DEF TypeOK, EngineReaped
<1>30. ASSUME NEW s \in Starts, ChildExits(s) PROVE TypeOK'
  BY <1>30 DEF TypeOK, ChildExits
<1>31. ASSUME NEW s \in Starts, EngineKilled(s) PROVE TypeOK'
  BY <1>31 DEF TypeOK, EngineKilled
<1>32. ASSUME NEW s \in Starts, ClientCloses(s) PROVE TypeOK'
  BY <1>32 DEF TypeOK, ClientCloses
<1>33. ASSUME NEW s \in Starts, StartKills(s) PROVE TypeOK'
  BY <1>33 DEF TypeOK, StartKills
<1>34. ASSUME NEW s \in Starts, PumpCancelled(s) PROVE TypeOK'
  BY <1>34 DEF TypeOK, PumpCancelled
<1>35. ASSUME NEW s \in Starts, WatchCancelled(s) PROVE TypeOK'
  BY <1>35 DEF TypeOK, WatchCancelled
<1>36. CASE UNCHANGED vars
  BY <1>36 DEF TypeOK
<1>37. QED
  BY <1>1, <1>2, <1>3, <1>4, <1>5, <1>6, <1>7, <1>8, <1>9, <1>10, <1>11,
     <1>12, <1>13, <1>15, <1>16, <1>17, <1>18, <1>19, <1>20, <1>21, <1>22,
     <1>23, <1>24, <1>25, <1>26, <1>27, <1>28, <1>29, <1>30, <1>31, <1>32,
     <1>33, <1>34, <1>35, <1>36
  DEF Next, Internal, StartCall, StartStep, StopCall, StopStep, PumpStep,
      PumpProgress, WatchStep, EngineStep

(* The types of all variables, whatever start() and stop() are called for. *)
THEOREM TypeCorrect == Spec => []TypeOK
<1>1. Init => TypeOK
  BY SupervisorAssumption DEF Init, TypeOK
<1>2. QED
  BY <1>1, TypeStep, PTL DEF Spec

-----------------------------------------------------------------------------
(***************************************************************************)
(* FailureExplained is not inductive by itself: that an engine which died   *)
(* while serving had become ready rests on READY meaning that it had, and   *)
(* that a start which failed never had become ready on a start coming to    *)
(* neither of them before it has left its loop, nor to both.  What ends a   *)
(* READY record is its watch or a stop.                                     *)
(***************************************************************************)
Resolved == {"closing", "returned", "cancelled"}

FailureInv ==
    /\ FailureExplained
    /\ \A s \in Starts :
          /\ state[s] = "ready" => readyAt[s] /\ failure[s] = None
          /\ readyAt[s] => startPc[s] \in Resolved
          /\ failure[s] \in StartupFailure => startPc[s] \in Resolved
          /\ startPc[s] \in {"closing", "returned"} =>
                readyAt[s] \/ failure[s] \in StartupFailure
          /\ readyAt[s] => \/ state[s] = "ready" \/ failure[s] = "died_while_ready"
                           \/ \E k \in Stops : stopPc[k] # "idle"

\* What the invariant speaks of is changed by few actions.
LEMMA FailureFrame ==
    FailureInv /\ UNCHANGED <<state, failure, readyAt, startPc, stopPc>> => FailureInv'
BY DEF FailureInv, FailureExplained

LEMMA FailureStep == TypeOK /\ FailureInv /\ [Next]_vars => FailureInv'
<1> SUFFICES ASSUME TypeOK, FailureInv, [Next]_vars PROVE FailureInv'
  OBVIOUS
<1> USE SupervisorAssumption DEF Resolved
<1>1. ASSUME NEW s \in Starts, StartRefused(s) PROVE FailureInv'
  BY <1>1 DEF TypeOK, FailureInv, FailureExplained, StartRefused
<1>2. ASSUME NEW s \in Starts, StartBegins(s) PROVE FailureInv'
  BY <1>2 DEF TypeOK, FailureInv, FailureExplained, StartBegins
<1>3. ASSUME NEW s \in Starts, SpawnReturns(s) PROVE FailureInv'
  BY <1>3 DEF TypeOK, FailureInv, FailureExplained, SpawnReturns, PollTurn,
     StartFails, ClassifyExit
<1>4. ASSUME NEW s \in Starts, HealthAnswers(s) \/ HealthMisses(s) PROVE FailureInv'
  BY <1>4 DEF TypeOK, FailureInv, FailureExplained, HealthAnswers, HealthMisses
<1>5. ASSUME NEW s \in Starts, BecomesReady(s) PROVE FailureInv'
  BY <1>5 DEF TypeOK, FailureInv, FailureExplained, BecomesReady
<1>6. ASSUME NEW s \in Starts, ClientCloses(s) PROVE FailureInv'
  BY <1>6 DEF TypeOK, FailureInv, FailureExplained, ClientCloses
<1>7. ASSUME NEW s \in Starts, PollsAgain(s) PROVE FailureInv'
  BY <1>7 DEF TypeOK, FailureInv, FailureExplained, PollsAgain, PollTurn, StartFails,
     ClassifyExit
<1>8. ASSUME NEW s \in Starts, StartTimesOut(s) PROVE FailureInv'
  BY <1>8 DEF TypeOK, FailureInv, FailureExplained, StartTimesOut, StartFails
<1>9. ASSUME NEW s \in Starts, PollFindsNoHandle(s) \/ StartKills(s) PROVE FailureInv'
  BY <1>9 DEF TypeOK, FailureInv, FailureExplained, PollFindsNoHandle, StartKills
<1>10. ASSUME NEW s \in Starts, StartUnwinds(s) PROVE FailureInv'
  <2>1. /\ startPc[s] \in {"raising", "killing"} \cup Unwinding
        /\ \E place \in Unwinding \cup {"raised"} : startPc' = [startPc EXCEPT ![s] = place]
        /\ UNCHANGED <<recordVars, stopVars>>
    BY <1>10 DEF StartUnwinds, StartTail, StartAwaits
  <2>2. QED
    BY <2>1 DEF TypeOK, FailureInv, FailureExplained
<1>11. ASSUME NEW s \in Starts, StartCancelled(s) PROVE FailureInv'
  BY <1>11 DEF TypeOK, FailureInv, FailureExplained, StartCancelled
<1>12. ASSUME NEW k \in Stops, StopDoesNothing(k) \/ StopCancelled(k) PROVE FailureInv'
  BY <1>12 DEF TypeOK, FailureInv, FailureExplained, StopDoesNothing, StopCancelled
<1>13. ASSUME NEW k \in Stops, StopKills(k) PROVE FailureInv'
  BY <1>13 DEF TypeOK, FailureInv, FailureExplained, StopKills, MarkStopping
<1>14. ASSUME NEW k \in Stops,
              StopReapsAtOnce(k) \/ StopReaps(k) \/ StopUnwinds(k)
       PROVE  FailureInv'
  <2>1. PICK st \in {state, MarkStopping} : \E w, p : StopTail(k, w, p, st)
    BY <1>14 DEF StopReapsAtOnce, StopReaps, StopUnwinds
  <2>2. /\ state' \in {st, [st EXCEPT ![record] = "stopped"]}
        /\ \E place \in Unwinding \cup {"done"} : stopPc' = [stopPc EXCEPT ![k] = place]
    BY <2>1 DEF StopTail, StopAwaits
  <2>3. UNCHANGED <<failure, readyAt, startPc>>
    BY <1>14 DEF StopReapsAtOnce, StopReaps, StopUnwinds
  <2>4. stopPc'[k] # "idle"
    BY <2>2 DEF TypeOK
  <2>5. \A s \in Starts : /\ state'[s] = "failed" => state[s] = "failed"
                          /\ state'[s] = "ready" => state[s] = "ready"
    BY <2>1, <2>2 DEF TypeOK, MarkStopping
  <2>6. QED
    BY <2>3, <2>4, <2>5 DEF FailureInv, FailureExplained
<1>15. ASSUME NEW s \in Starts, WatchSeesEof(s) PROVE FailureInv'
  BY <1>15 DEF TypeOK, FailureInv, FailureExplained, WatchSeesEof
<1>16. ASSUME NEW s \in Starts, PumpStep(s) PROVE FailureInv'
  BY <1>16, FailureFrame
  DEF PumpStep, PumpProgress, PumpStarts, PumpLine, PumpSignature, PumpEof, PumpCancelled
<1>17. ASSUME NEW s \in Starts, WatchStarts(s) \/ WatchBreaks(s) \/ WatchCancelled(s)
       PROVE  FailureInv'
  BY <1>17, FailureFrame DEF WatchStarts, WatchBreaks, WatchCancelled
<1>18. ASSUME NEW s \in Starts, EngineStep(s) PROVE FailureInv'
  BY <1>18, FailureFrame
  DEF EngineStep, EngineServes, EngineForks, EngineComplains, EngineExits,
      EngineReaped, ChildExits, EngineKilled
<1>19. CASE UNCHANGED vars
  BY <1>19, FailureFrame
<1>20. QED
  BY <1>1, <1>2, <1>3, <1>4, <1>5, <1>6, <1>7, <1>8, <1>9, <1>10, <1>11,
     <1>12, <1>13, <1>14, <1>15, <1>16, <1>17, <1>18, <1>19
  DEF Next, Internal, StartCall, StartStep, StopCall, StopStep, WatchStep

(* A FAILED record says why, and the why agrees with how far the start got:  *)
(* supervisor.py:169-234, whatever interleaves with start(), stop() and the  *)
(* watch.                                                                    *)
THEOREM FailuresAreExplained == Spec => []FailureExplained
<1>1. Init => FailureInv
  BY SupervisorAssumption DEF Init, FailureInv, FailureExplained
<1>2. FailureInv => FailureExplained
  BY DEF FailureInv
<1>3. QED
  BY <1>1, <1>2, TypeCorrect, FailureStep, PTL DEF Spec

=============================================================================
