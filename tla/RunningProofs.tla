----------------------------- MODULE RunningProofs -----------------------------
(***************************************************************************)
(* Theorems about Running, for any number of contexts that share a          *)
(* supervisor one after the other, whatever their engines do and whichever  *)
(* of their starts are cancelled, as long as no stop() is: no engine is     *)
(* left running or watched, and what a client sees is an EngineLifecycle.   *)
(***************************************************************************)
EXTENDS Running, SupervisorProofs

(***************************************************************************)
(* The inductive invariant.  At most one context is inside; whatever        *)
(* `self` holds of a handle, a pump and a watch is that context's, from the *)
(* end of its spawn until its stop() clears them.  NoStrayEngine and        *)
(* GoneAfterwards are not inductive without it: that stop() ends the engine *)
(* of its own context rests on self._handle being that engine.              *)
(***************************************************************************)
OneInside == \A c, d \in Starts : Inside(c) /\ Inside(d) => c = d

HandleInv ==
    /\ handle # None => Inside(handle) /\ record = handle /\ state[handle] # "stopped"
    /\ pump = handle
    /\ watch \in {None, handle}

\* Where the calls of context c stand.
CallInv(c) ==
    /\ startPc[c] = "idle" => state[c] = "stopped"
    /\ startPc[c] \in {"spawning", "polling", "answered", "sleeping"} =>
          record = c /\ state[c] = "starting"
    /\ startPc[c] \in {"polling", "answered", "sleeping", "closing"} => handle = c
    /\ startPc[c] \notin {"raising", "killing"} \cup Unwinding
    /\ stopPc[c] # "idle" => startPc[c] \in StartEnded
    /\ stopPc[c] \in StopSuspended => handle = c
    /\ stopPc[c] = "killing" => stopOn[c] = c

\* What context c has running.
WorkInv(c) ==
    /\ leader[c] \in Alive => Inside(c) /\ (handle = c \/ startPc[c] = "spawning")
    /\ pumpTask[c] \in TaskLive => handle = c
    /\ watchTask[c] \in TaskLive => watch = c
    /\ stopPc[c] \in Unwinding => leader[c] \notin Alive
    /\ stopPc[c] = "unwatching" => stopOn[c] = watch /\ stopPump[c] = c
    /\ stopPc[c] = "unpumping" => stopOn[c] = c /\ watchTask[c] \notin TaskLive

\* How the watch of context c hangs on its pump, and its pump on its engine.
WatchInv(c) ==
    /\ pumpTask[c] = "reading" => pumpOn[c] = c
    /\ watchTask[c] = "awaiting" => watchOn[c] = c
    /\ state[c] = "ready" =>
          handle = c /\ stopPc[c] = "idle" /\ watchTask[c] \in {"created", "awaiting"}
    /\ pumpTask[c] \in {"failed", "cancelling", "cancelled"} => stopPc[c] # "idle"
    /\ watchTask[c] # "reading"

RunningInv ==
    /\ OneInside
    /\ HandleInv
    /\ \A c \in Starts : CallInv(c)
    /\ \A c \in Starts : WorkInv(c)
    /\ \A c \in Starts : WatchInv(c)

\* The premises under which the theorems hold.
Sequential == Overlapping = FALSE /\ AbandonedStops = {}

\* The names of tuples and of sets of strings, expanded everywhere.
USE DEF vars, recordVars, selfVars, taskVars, startVars, stopVars, engineVars,
        startLocals, stopLocals, EngineState, StartupFailure, FailureKind, Unwinding,
        StartSuspended, StartEnded, StopSuspended, StopEnded, TaskLive, TaskDone, Alive
USE DEF OneInside, HandleInv, CallInv, WorkInv, WatchInv, Inside, Outside,
        Left, LiveTask

\* What stop() does once the handle it stopped is that of a reaped engine of its own
\* context: it cancels the next of the context's tasks, or there is none left.
LEMMA TailStep ==
    ASSUME Sequential, TypeOK, RunningInv, NEW s \in Starts,
           handle = s, leader[s] \notin Alive, startPc[s] \in StartEnded, ~Left(s),
           NEW w \in {watch, None}, w = None => watchTask[s] \notin TaskLive,
           NEW p \in {s, None}, p = None => w = None /\ pumpTask[s] \notin TaskLive,
           NEW st \in {state, MarkStopping}, st[s] \notin {"ready", "stopped"},
           StopTail(s, w, p, st),
           UNCHANGED <<failure, readyAt, startVars, engineVars>>
    PROVE  RunningInv'
<1> USE SupervisorAssumption, RunningAssumption DEF Sequential
<1>1. /\ record = s /\ pump = s /\ watch \in {None, s}
      /\ \A c \in Starts \ {s} : /\ Outside(c) \/ Left(c)
                                /\ pumpTask[c] \notin TaskLive /\ watchTask[c] \notin TaskLive
                                /\ leader[c] \notin Alive /\ state[c] # "ready"
  BY DEF RunningInv
<1>2. st \in [Starts -> EngineState] /\ \A c \in Starts \ {s} : st[c] = state[c]
  BY <1>1 DEF TypeOK, MarkStopping
<1>3. CASE Live(watchTask, w)
  <2>1. /\ w = s /\ StopAwaits(s, "unwatching", s, p) /\ CancelWatch(s) /\ p = s
        /\ state' = st /\ UNCHANGED <<selfVars, pumpOn, watchOn>>
    BY <1>1, <1>3 DEF StopTail, CancelNext, Live, RunningInv
  <2>2. /\ \/ pumpTask' = [pumpTask EXCEPT ![s] = "cancelling"] /\ watchTask' = watchTask
           \/ watchTask' = [watchTask EXCEPT ![s] = "cancelling"] /\ pumpTask' = pumpTask
    BY <2>1 DEF CancelWatch, CancelPump, RunningInv
  <2>3. QED
    BY <1>1, <1>2, <2>1, <2>2, SMTT(40) DEF TypeOK, RunningInv, StopAwaits
<1>4. CASE ~Live(watchTask, w) /\ Live(pumpTask, p)
  <2>1. /\ p = s /\ StopAwaits(s, "unpumping", s, s) /\ watchTask[s] \notin TaskLive
        /\ pumpTask' = [pumpTask EXCEPT ![s] = "cancelling"]
        /\ state' = st /\ UNCHANGED <<selfVars, pumpOn, watchOn, watchTask>>
    BY <1>1, <1>4 DEF StopTail, CancelNext, CancelPump, Live, RunningInv
  <2>2. QED
    BY <1>1, <1>2, <2>1, SMTT(40) DEF TypeOK, RunningInv, StopAwaits
<1>5. CASE ~Live(watchTask, w) /\ ~Live(pumpTask, p)
  <2>1. /\ StopAwaits(s, "done", None, None) /\ ClearSelf
        /\ watchTask[s] \notin TaskLive /\ pumpTask[s] \notin TaskLive
        /\ state' = [st EXCEPT ![s] = "stopped"] /\ UNCHANGED taskVars
    BY <1>1, <1>5 DEF StopTail, CancelNext, Live, RunningInv
  <2>2. QED
    BY <1>1, <1>2, <2>1, SMTT(40) DEF TypeOK, RunningInv, StopAwaits, ClearSelf
<1>6. QED
  BY <1>3, <1>4, <1>5

LEMMA RunningStep == ASSUME Sequential, TypeOK, RunningInv, [RunningNext]_vars
                     PROVE  RunningInv'
<1> USE SupervisorAssumption, RunningAssumption DEF Sequential

<1>1. ASSUME NEW s \in Starts, StartRefused(s) /\ Enter(s) PROVE RunningInv'
  BY <1>1 DEF TypeOK, RunningInv, StartRefused, Enter
<1>2. ASSUME NEW s \in Starts, StartBegins(s) /\ Enter(s) PROVE RunningInv'
  BY <1>2 DEF TypeOK, RunningInv, StartBegins, Enter, FreshScanner
<1>3. ASSUME NEW s \in Starts, SpawnReturns(s) PROVE RunningInv'
  <2>1. \A c \in Starts : Inside(c) => c = s
    BY <1>3 DEF TypeOK, RunningInv, SpawnReturns
  <2>2. OneInside' /\ HandleInv' /\ \A c \in Starts : CallInv(c)'
    BY <1>3, SMTT(40) DEF TypeOK, RunningInv, SpawnReturns, PollTurn, StartFails
  <2>3. \A c \in Starts : WorkInv(c)'
    BY <1>3, <2>1, SMTT(40) DEF TypeOK, RunningInv, SpawnReturns, PollTurn, StartFails
  <2>4. \A c \in Starts : WatchInv(c)'
    BY <1>3, <2>1 DEF TypeOK, RunningInv, SpawnReturns, PollTurn, StartFails
  <2>5. QED
    BY <2>2, <2>3, <2>4 DEF RunningInv
<1>4. ASSUME NEW s \in Starts, HealthAnswers(s) PROVE RunningInv'
  BY <1>4 DEF TypeOK, RunningInv, HealthAnswers
<1>5. ASSUME NEW s \in Starts, HealthMisses(s) PROVE RunningInv'
  BY <1>5 DEF TypeOK, RunningInv, HealthMisses
<1>6. ASSUME NEW s \in Starts, BecomesReady(s) PROVE RunningInv'
  BY <1>6, SMTT(40) DEF TypeOK, RunningInv, BecomesReady
<1>7. ASSUME NEW s \in Starts, PollsAgain(s) PROVE RunningInv'
  BY <1>7, SMTT(40) DEF TypeOK, RunningInv, PollsAgain, PollTurn, StartFails
<1>8. ASSUME NEW s \in Starts, StartTimesOut(s) PROVE RunningInv'
  BY <1>8 DEF TypeOK, RunningInv, StartTimesOut, StartFails
<1>9. ASSUME NEW s \in Starts, PollFindsNoHandle(s) PROVE RunningInv'
  BY <1>9 DEF TypeOK, RunningInv, PollFindsNoHandle
<1>10. ASSUME NEW s \in Starts, StartKills(s) \/ StartUnwinds(s) PROVE RunningInv'
  BY <1>10 DEF TypeOK, RunningInv, StartKills, StartUnwinds
<1>11. ASSUME NEW s \in Starts, StartCancelled(s) PROVE RunningInv'
  BY <1>11 DEF TypeOK, RunningInv, StartCancelled
<1>12. ASSUME NEW s \in Starts, StopDoesNothing(s) /\ Exit(s) PROVE RunningInv'
  BY <1>12 DEF TypeOK, RunningInv, StopDoesNothing, Exit
<1>13. ASSUME NEW s \in Starts, StopKills(s) /\ Exit(s) PROVE RunningInv'
  BY <1>13 DEF TypeOK, RunningInv, StopKills, Exit, MarkStopping
<1>14. ASSUME NEW s \in Starts, StopReapsAtOnce(s) /\ Exit(s) PROVE RunningInv'
  <2>1. /\ handle = s /\ record = s /\ pump = s /\ state[s] # "stopped"
        /\ startPc[s] \in StartEnded /\ ~Left(s) /\ leader[s] \notin Alive
        /\ watch \in {watch, None} /\ (watch = None => watchTask[s] \notin TaskLive)
    BY <1>14 DEF TypeOK, RunningInv, StopReapsAtOnce, Exit
  <2>2. MarkStopping[s] \notin {"ready", "stopped"}
    BY <2>1 DEF TypeOK, MarkStopping
  <2>3. /\ StopTail(s, watch, s, MarkStopping)
        /\ UNCHANGED <<failure, readyAt, startVars, engineVars>>
    BY <1>14, <2>1 DEF StopReapsAtOnce
  <2>4. QED
    BY <2>1, <2>2, <2>3, TailStep
<1>15. ASSUME NEW s \in Starts, StopReaps(s) PROVE RunningInv'
  <2>1. /\ handle = s /\ pump = s /\ state[s] \notin {"ready", "stopped"}
        /\ startPc[s] \in StartEnded /\ ~Left(s) /\ leader[s] \notin Alive
        /\ watch \in {watch, None} /\ (watch = None => watchTask[s] \notin TaskLive)
    BY <1>15 DEF TypeOK, RunningInv, StopReaps
  <2>2. StopTail(s, watch, s, state) /\ UNCHANGED <<failure, readyAt, startVars, engineVars>>
    BY <1>15, <2>1 DEF StopReaps
  <2>3. QED
    BY <2>1, <2>2, TailStep
<1>16. ASSUME NEW s \in Starts, StopUnwinds(s) PROVE RunningInv'
  <2>1. /\ handle = s /\ pump = s /\ state[s] \notin {"ready", "stopped"}
        /\ startPc[s] \in StartEnded /\ ~Left(s) /\ leader[s] \notin Alive
    BY <1>16 DEF TypeOK, RunningInv, StopUnwinds
  <2>2. CASE stopPc[s] = "unwatching"
    <3>1. watchTask[s] \notin TaskLive /\ stopPump[s] = s /\ StopTail(s, None, s, state)
      BY <1>16, <2>1, <2>2 DEF TypeOK, RunningInv, StopUnwinds
    <3>2. UNCHANGED <<failure, readyAt, startVars, engineVars>>
      BY <1>16 DEF StopUnwinds
    <3>3. QED
      BY <2>1, <3>1, <3>2, TailStep
  <2>3. CASE stopPc[s] = "unpumping"
    <3>1. /\ watchTask[s] \notin TaskLive /\ pumpTask[s] \notin TaskLive
          /\ StopTail(s, None, None, state)
      BY <1>16, <2>1, <2>3 DEF TypeOK, RunningInv, StopUnwinds
    <3>2. UNCHANGED <<failure, readyAt, startVars, engineVars>>
      BY <1>16 DEF StopUnwinds
    <3>3. QED
      BY <2>1, <3>1, <3>2, TailStep
  <2>4. QED
    BY <1>16, <2>2, <2>3 DEF StopUnwinds
<1>17. ASSUME NEW s \in Starts, StopCancelled(s) PROVE RunningInv'
  BY <1>17 DEF TypeOK, RunningInv, StopCancelled
<1>18. ASSUME NEW s \in Starts, PumpStep(s) PROVE RunningInv'
  BY <1>18 DEF TypeOK, RunningInv, PumpStep, PumpProgress, PumpStarts, PumpLine,
     PumpSignature, PumpEof, PumpCancelled, PumpReads, ReaderTaken
<1>19. ASSUME NEW s \in Starts, WatchStep(s) PROVE RunningInv'
  BY <1>19 DEF TypeOK, RunningInv, WatchStep, WatchStarts, WatchSeesEof,
     WatchBreaks, WatchCancelled
<1>20. ASSUME NEW s \in Starts, EngineStep(s) PROVE RunningInv'
  BY <1>20 DEF TypeOK, RunningInv, EngineStep, EngineServes, EngineForks,
     EngineComplains, EngineExits, EngineReaped, ChildExits, EngineKilled
<1>21. ASSUME NEW s \in Starts, ClientCloses(s) PROVE RunningInv'
  BY <1>21 DEF TypeOK, RunningInv, ClientCloses
<1>22. CASE UNCHANGED vars
  BY <1>22 DEF RunningInv
<1>23. QED
  BY <1>1, <1>2, <1>3, <1>4, <1>5, <1>6, <1>7, <1>8, <1>9, <1>10, <1>11, <1>12,
     <1>13, <1>14, <1>15, <1>16, <1>17, <1>18, <1>19, <1>20, <1>21, <1>22
     DEF RunningNext, Internal, Enter, Exit, StartCall, StartStep, StopCall,
     StopStep

(* Every behaviour keeps the invariant. *)
LEMMA RunningInvariant == ASSUME Sequential PROVE RunningSpec => [](TypeOK /\ RunningInv)
<1>1. Init => TypeOK /\ RunningInv
  BY SupervisorAssumption, RunningAssumption
  DEF Init, TypeOK, RunningInv, Sequential
<1>2. [RunningNext]_vars => [Next]_vars
  BY RunningAssumption
  DEF RunningNext, Enter, Exit, Next
<1>3. TypeOK /\ RunningInv /\ [RunningNext]_vars => TypeOK' /\ RunningInv'
  BY <1>2, TypeStep, RunningStep
<1>4. QED
  BY <1>1, <1>3, PTL DEF RunningSpec

-----------------------------------------------------------------------------
(* Contexts that do not overlap lose no engine: supervisor.py:248-262.       *)
THEOREM NoStray == ASSUME Sequential PROVE RunningSpec => []NoStrayEngine
<1>1. TypeOK /\ RunningInv => NoStrayEngine
  BY DEF RunningInv, NoStrayEngine
<1>2. QED
  BY <1>1, RunningInvariant, PTL

(* A context left through a completed stop() has neither engine nor task     *)
(* left: supervisor.py:147-154 and 236-245.                                  *)
THEOREM GoneForGood == ASSUME Sequential PROVE RunningSpec => []GoneAfterwards
<1>1. TypeOK /\ RunningInv => GoneAfterwards
  BY SupervisorAssumption, RunningAssumption
  DEF TypeOK, RunningInv, GoneAfterwards
<1>2. QED
  BY <1>1, RunningInvariant, PTL

(* READY means watched, also while starts are cancelled:                     *)
(* supervisor.py:183-191 and 218-234.                                        *)
THEOREM ReadyWatched == ASSUME Sequential PROVE RunningSpec => []ReadyIsWatched
<1>1. TypeOK /\ RunningInv => ReadyIsWatched
  BY SupervisorAssumption, RunningAssumption
  DEF TypeOK, RunningInv, ReadyIsWatched
<1>2. QED
  BY <1>1, RunningInvariant, PTL

(***************************************************************************)
(* Running implements EngineLifecycle.  What RunningInv lacks: a record that *)
(* is FAILED or STOPPING is one that stop() can still reach, and the current *)
(* record is that of a context which has been entered.                      *)
(***************************************************************************)
HeldInv ==
    /\ \A c \in Starts : state[c] \in {"failed", "stopping"} => handle = c
    /\ record # None => startPc[record] # "idle"

\* Each step of the contexts is one of EngineLifecycle, or shows nothing.
Stays == UNCHANGED <<SupervisorState, Present>>
Moves == Lifecycle!Next \/ Stays

USE DEF Present, SupervisorState

\* The end of a stop() of the contexts, or the wait for one task more.
StopsTasks(s) == (StopReapsAtOnce(s) /\ Exit(s)) \/ StopReaps(s) \/ StopUnwinds(s)

\* What such a step does.
TasksStopping(s) ==
    /\ handle = s /\ record = s /\ leader[s] \notin Alive /\ Inside(s)
    /\ state[s] # "stopped"
    /\ UNCHANGED <<record, scanned, failure, readyAt, startVars, engineVars>>
    /\ \/ /\ ClearSelf
          /\ stopPc' = [stopPc EXCEPT ![s] = "done"]
          /\ state' = [state EXCEPT ![s] = "stopped"]
       \/ /\ UNCHANGED selfVars
          /\ \E place \in Unwinding : stopPc' = [stopPc EXCEPT ![s] = place]
          /\ state' \in {state, MarkStopping}

LEMMA StopEffects ==
    ASSUME Sequential, TypeOK, RunningInv, NEW s \in Starts, StopsTasks(s)
    PROVE  TasksStopping(s)
<1> USE SupervisorAssumption, RunningAssumption DEF Sequential
<1>1. /\ handle = s /\ record = s /\ leader[s] \notin Alive /\ Inside(s)
      /\ state[s] # "stopped"
  BY DEF TypeOK, RunningInv, StopsTasks, StopReapsAtOnce, StopReaps, StopUnwinds, Exit
<1>2. PICK w, p, st : st \in {state, MarkStopping} /\ StopTail(s, w, p, st)
  BY DEF StopsTasks, StopReapsAtOnce, StopReaps, StopUnwinds
<1>3. UNCHANGED <<failure, readyAt, startVars, engineVars>>
  BY DEF StopsTasks, StopReapsAtOnce, StopReaps, StopUnwinds
<1>4. [st EXCEPT ![s] = "stopped"] = [state EXCEPT ![s] = "stopped"]
  <2>1. DOMAIN state = Starts
    BY DEF TypeOK
  <2>2. CASE st = state
    BY <2>2
  <2>3. CASE st = MarkStopping
    BY <1>1, <2>1, <2>3 DEF MarkStopping
  <2>4. QED
    BY <1>2, <2>2, <2>3
<1>5. \/ /\ ClearSelf
         /\ stopPc' = [stopPc EXCEPT ![s] = "done"]
         /\ state' = [st EXCEPT ![s] = "stopped"]
      \/ /\ UNCHANGED selfVars
         /\ \E place \in Unwinding : stopPc' = [stopPc EXCEPT ![s] = place]
         /\ state' = st
  <2>1. CASE Live(watchTask, w) \/ Live(pumpTask, p)
    BY <1>2, <2>1 DEF StopTail, StopAwaits
  <2>2. CASE ~Live(watchTask, w) /\ ~Live(pumpTask, p)
    BY <1>1, <1>2, <2>2 DEF StopTail, StopAwaits
  <2>3. QED
    BY <2>1, <2>2
<1>6. UNCHANGED <<record, scanned>>
  BY <1>5 DEF ClearSelf
<1>7. QED
  BY <1>1, <1>2, <1>3, <1>4, <1>5, <1>6 DEF TasksStopping

LEMMA HeldStep == ASSUME Sequential, TypeOK, RunningInv, HeldInv, [RunningNext]_vars
                  PROVE  HeldInv'
<1> USE SupervisorAssumption, RunningAssumption DEF Sequential, HeldInv
<1>1. ASSUME NEW s \in Starts, StartRefused(s) \/ StartBegins(s), Enter(s) PROVE HeldInv'
  BY <1>1 DEF TypeOK, RunningInv, StartRefused, StartBegins, Busy, Enter
<1>2. ASSUME NEW s \in Starts, SpawnReturns(s) PROVE HeldInv'
  BY <1>2 DEF TypeOK, RunningInv, SpawnReturns, PollTurn, StartFails
<1>3. ASSUME NEW s \in Starts, BecomesReady(s) PROVE HeldInv'
  BY <1>3 DEF TypeOK, RunningInv, BecomesReady
<1>4. ASSUME NEW s \in Starts, PollsAgain(s) \/ StartTimesOut(s) PROVE HeldInv'
  BY <1>4 DEF TypeOK, RunningInv, PollsAgain, PollTurn, StartTimesOut, StartFails
<1>5. ASSUME NEW s \in Starts, StopKills(s) PROVE HeldInv'
  BY <1>5 DEF TypeOK, RunningInv, StopKills, MarkStopping
<1>6. ASSUME NEW s \in Starts, StopsTasks(s) PROVE HeldInv'
  <2>1. TasksStopping(s)
    BY <1>6, StopEffects
  <2>2. QED
    BY <2>1 DEF TasksStopping, TypeOK, MarkStopping, ClearSelf
<1>7. ASSUME NEW s \in Starts, WatchSeesEof(s) PROVE HeldInv'
  BY <1>7 DEF TypeOK, RunningInv, WatchSeesEof
<1>8. ASSUME NEW s \in Starts, HealthAnswers(s) \/ HealthMisses(s) \/ ClientCloses(s)
                                  \/ StartCancelled(s)
      PROVE  HeldInv'
  BY <1>8 DEF TypeOK, RunningInv, HealthAnswers, HealthMisses, ClientCloses, StartCancelled
<1>9. ASSUME NEW s \in Starts, PollFindsNoHandle(s) \/ StartKills(s) \/ StartUnwinds(s)
      PROVE  HeldInv'
  BY <1>9 DEF TypeOK, RunningInv, PollFindsNoHandle, StartKills, StartUnwinds
<1>10. CASE UNCHANGED <<state, handle, record, startPc>>
  BY <1>10
<1>11. QED
  BY <1>1, <1>2, <1>3, <1>4, <1>5, <1>6, <1>7, <1>8, <1>9, <1>10
  DEF RunningNext, Internal, Enter, Exit, StartCall, StartStep, StopCall, StopsTasks,
      StopStep, StopDoesNothing, StopCancelled, PumpStep, PumpProgress,
      PumpStarts, PumpLine, PumpSignature, PumpEof, PumpCancelled, WatchStep, WatchStarts,
      WatchBreaks, WatchCancelled, EngineStep, EngineServes, EngineForks, EngineComplains,
      EngineExits, EngineReaped, ChildExits, EngineKilled

LEMMA LifecycleStep == ASSUME Sequential, TypeOK, RunningInv, HeldInv, [RunningNext]_vars
                       PROVE  Moves
<1> USE SupervisorAssumption, RunningAssumption
    DEF Sequential, HeldInv, Stays, Moves, Lifecycle!Next
<1>1. ASSUME NEW s \in Starts, StartBegins(s), Enter(s) PROVE Lifecycle!Begin
  <2>1. handle = None /\ ~Busy
    BY <1>1 DEF TypeOK, RunningInv, StartBegins, Enter
  <2>2. SupervisorState = "stopped"
    BY <2>1 DEF TypeOK, Busy
  <2>3. Present = {}
    BY <1>1, <2>1 DEF TypeOK, RunningInv, Enter
  <2>4. SupervisorState' = "starting"
    BY <1>1 DEF TypeOK, StartBegins
  <2>5. Present' \in {{}, {s}}
    BY <1>1, <2>3 DEF TypeOK, StartBegins
  <2>6. QED
    BY <2>2, <2>3, <2>4, <2>5 DEF Lifecycle!Begin
<1>2. ASSUME NEW s \in Starts, SpawnReturns(s) PROVE Moves
  BY <1>2 DEF TypeOK, RunningInv, SpawnReturns, PollTurn, StartFails, Lifecycle!Fail
<1>3. ASSUME NEW s \in Starts, BecomesReady(s) PROVE Moves
  BY <1>3 DEF TypeOK, RunningInv, BecomesReady, Lifecycle!Serve
<1>4. ASSUME NEW s \in Starts, PollsAgain(s) \/ StartTimesOut(s) PROVE Moves
  BY <1>4 DEF TypeOK, RunningInv, PollsAgain, PollTurn, StartTimesOut, StartFails,
     Lifecycle!Fail
<1>5. ASSUME NEW s \in Starts, StopKills(s) PROVE Moves
  BY <1>5 DEF TypeOK, RunningInv, StopKills, MarkStopping, Lifecycle!Ask
<1>6. ASSUME NEW s \in Starts, StopsTasks(s) PROVE Moves
  <2>1. TasksStopping(s)
    BY <1>6, StopEffects
  <2>2. Present = {} /\ Present' = {}
    BY <2>1 DEF TasksStopping, TypeOK, RunningInv
  <2>3. SupervisorState # "stopped"
    BY <2>1 DEF TasksStopping, TypeOK
  <2>4. \/ SupervisorState' = "stopped"
        \/ SupervisorState' = SupervisorState
        \/ SupervisorState \in {"starting", "ready"} /\ SupervisorState' = "stopping"
    BY <2>1 DEF TasksStopping, TypeOK, MarkStopping, ClearSelf
  <2>5. QED
    BY <2>2, <2>3, <2>4 DEF Lifecycle!Finish, Lifecycle!Ask
<1>7. ASSUME NEW s \in Starts, WatchSeesEof(s) PROVE Moves
  BY <1>7 DEF TypeOK, RunningInv, WatchSeesEof, Lifecycle!Fail
<1>8. ASSUME NEW s \in Starts, StartCancelled(s) \/ EngineReaped(s) PROVE Moves
  <2>1. SupervisorState' = SupervisorState
    BY <1>8 DEF StartCancelled, EngineReaped
  <2>2. \/ Present' = Present
        \/ s \in Present /\ Present' = Present \ {s}
    <3>1. leader' \in {leader, [leader EXCEPT ![s] = "reaped"]}
      BY <1>8 DEF TypeOK, StartCancelled, EngineReaped
    <3>2. CASE leader' = leader
      <4>1. Present' = Present
        BY <3>2
      <4>2. QED
        BY <4>1
    <3>3. CASE leader' = [leader EXCEPT ![s] = "reaped"]
      <4>1. \A c \in Starts : c \in Present' <=> c \in Present /\ c # s
        BY <3>3 DEF TypeOK
      <4>2. Present' = Present \ {s}
        BY <4>1
      <4>3. QED
        BY <4>2
    <3>5. QED
      BY <3>1, <3>2, <3>3
  <2>3. QED
    BY <2>1, <2>2 DEF Lifecycle!End
<1>9. ASSUME NEW s \in Starts, EngineExits(s) \/ EngineKilled(s) PROVE Stays
  BY <1>9 DEF TypeOK, EngineExits, EngineKilled
<1>10. CASE UNCHANGED <<record, state, leader>>
  BY <1>10
<1>11. ASSUME NEW s \in Starts, StartUnwinds(s) PROVE Moves
  BY <1>11 DEF RunningInv, StartUnwinds
<1>12. QED
  BY <1>1, <1>2, <1>3, <1>4, <1>5, <1>6, <1>7, <1>8, <1>9, <1>10, <1>11
  DEF RunningNext, Internal, Enter, Exit, StartCall, StartStep, StopCall, StopStep,
      StopsTasks, StartRefused, HealthAnswers, HealthMisses, ClientCloses,
      PollFindsNoHandle, StartKills, StopDoesNothing, StopCancelled, PumpStep, PumpProgress,
      PumpStarts, PumpLine, PumpSignature, PumpEof, PumpCancelled, WatchStep, WatchStarts,
      WatchBreaks, WatchCancelled, EngineStep, EngineServes, EngineForks, EngineComplains,
      ChildExits

(* Contexts that do not overlap show their clients an EngineLifecycle:       *)
(* supervisor.py:104-153, 169-234.                                           *)
THEOREM LivesOneLife == ASSUME Sequential PROVE RunningSpec => ImplementsLifecycle
<1>1. Init => HeldInv /\ Lifecycle!Init
  BY SupervisorAssumption DEF Init, HeldInv, Lifecycle!Init
<1>2. TypeOK /\ RunningInv /\ HeldInv /\ [RunningNext]_vars => HeldInv'
  BY HeldStep
<1>3. TypeOK /\ RunningInv /\ HeldInv /\ [RunningNext]_vars
         => [Lifecycle!Next]_<<SupervisorState, Present>>
  BY LifecycleStep DEF Moves, Stays
<1>4. QED
  BY <1>1, <1>2, <1>3, RunningInvariant, PTL
  DEF RunningSpec, ImplementsLifecycle, Lifecycle!Spec, Lifecycle!vars

-----------------------------------------------------------------------------
\* What the scanner has seen is the current engine's: it is made with the record,
\* and a pump reads its own context's engine, as long as that has the handle.
ScannerInv == scanned # None => scanned = record

LEMMA ScannerStep == ASSUME Sequential, TypeOK, RunningInv, ScannerInv, [RunningNext]_vars
                     PROVE  ScannerInv'
<1> USE SupervisorAssumption, RunningAssumption DEF Sequential, ScannerInv
<1>1. ASSUME NEW s \in Starts, StartBegins(s) PROVE ScannerInv'
  BY <1>1 DEF StartBegins, FreshScanner
<1>2. ASSUME NEW s \in Starts, PumpSignature(s) PROVE ScannerInv'
  <2>1. pumpOn[s] = s /\ handle = s /\ record = s
    BY <1>2 DEF TypeOK, RunningInv, PumpSignature
  <2>2. QED
    BY <1>2, <2>1 DEF PumpSignature
<1>3. ASSUME NEW s \in Starts, StartUnwinds(s) \/ StopsTasks(s) PROVE ScannerInv'
  BY <1>3, StopEffects DEF TasksStopping, RunningInv, StartUnwinds
<1>4. CASE UNCHANGED <<record, scanned>>
  BY <1>4
<1>5. QED
  BY <1>1, <1>2, <1>3, <1>4
  DEF RunningNext, Internal, Enter, Exit, StartCall, StartStep, StopCall, StopStep,
      StopsTasks, StartRefused, SpawnReturns, HealthAnswers, HealthMisses, BecomesReady,
      ClientCloses, PollsAgain, StartTimesOut, PollFindsNoHandle, StartKills,
      StartCancelled, StopDoesNothing, StopKills, StopCancelled, PumpStep, PumpProgress,
      PumpStarts, PumpLine, PumpEof, PumpCancelled, WatchStep, WatchStarts, WatchSeesEof,
      WatchBreaks, WatchCancelled, EngineStep, EngineServes, EngineForks, EngineComplains,
      EngineExits, EngineReaped, ChildExits, EngineKilled

\* An out-of-memory verdict is that of a start that ends, which has the record.
LEMMA VerdictStep ==
    ASSUME Sequential, TypeOK, RunningInv, ScannerInv, [RunningNext]_vars,
           NEW c \in Starts, failure'[c] = "oom", failure[c] # "oom"
    PROVE  scanned = c
<1> USE SupervisorAssumption, RunningAssumption DEF Sequential, ScannerInv
<1>1. ASSUME NEW s \in Starts, SpawnReturns(s) \/ PollsAgain(s) PROVE scanned = c
  <2>1. record = s
    BY <1>1 DEF TypeOK, RunningInv, SpawnReturns, PollsAgain
  <2>2. c = s /\ scanned # None
    BY <1>1 DEF TypeOK, SpawnReturns, PollsAgain, PollTurn, StartFails, ClassifyExit
  <2>3. QED
    BY <2>1, <2>2
<1>2. ASSUME NEW s \in Starts, StartTimesOut(s) \/ WatchSeesEof(s) PROVE FALSE
  BY <1>2 DEF TypeOK, StartTimesOut, StartFails, WatchSeesEof
<1>3. CASE UNCHANGED failure
  BY <1>3
<1>4. QED
  BY <1>1, <1>2, <1>3
  DEF RunningNext, Internal, Enter, Exit, StartCall, StartStep, StopCall, StopStep,
      StartRefused, StartBegins, HealthAnswers, HealthMisses, BecomesReady, ClientCloses,
      PollFindsNoHandle, StartKills, StartUnwinds, StartCancelled, StopDoesNothing,
      StopKills, StopReapsAtOnce, StopReaps, StopUnwinds, StopCancelled, PumpStep,
      PumpProgress, PumpStarts, PumpLine, PumpSignature, PumpEof, PumpCancelled, WatchStep,
      WatchStarts, WatchBreaks, WatchCancelled, EngineStep, EngineServes, EngineForks,
      EngineComplains, EngineExits, EngineReaped, ChildExits, EngineKilled

(* Contexts that do not overlap get their verdicts from their own engine's   *)
(* output: supervisor.py:112, 156-167 and 202-216.                           *)
THEOREM OwnVerdict == ASSUME Sequential PROVE RunningSpec => VerdictFromOwnLog
<1> DEFINE Own == \A s \in Starts : failure'[s] = "oom" /\ failure[s] # "oom" => scanned = s
<1>1. Init => ScannerInv
  BY DEF Init, ScannerInv
<1>2. TypeOK /\ RunningInv /\ ScannerInv /\ [RunningNext]_vars => ScannerInv' /\ [Own]_vars
  BY ScannerStep, VerdictStep
<1>3. QED
  BY <1>1, <1>2, RunningInvariant, PTL DEF RunningSpec, VerdictFromOwnLog

-----------------------------------------------------------------------------
(***************************************************************************)
(* If in addition every launcher can be executed and no start is cancelled, *)
(* a context that has been entered holds the record and, once start() is    *)
(* over, the handle: its stop() has something to stop and ends with the     *)
(* record STOPPED.                                                          *)
(***************************************************************************)
Launching == Unlaunchable = {} /\ AbandonedStarts = {}

IdleInv ==
    /\ \A c \in Starts : Inside(c) =>
          /\ record = c
          /\ startPc[c] \in StartEnded /\ stopPc[c] = "idle" => handle = c
    /\ (\A c \in Starts : ~Inside(c)) => SupervisorState = "stopped"

\* Every step keeps IdleInv under the two premises.
LEMMA IdleStep == ASSUME Sequential, Launching, TypeOK, RunningInv, IdleInv,
                         [RunningNext]_vars
                  PROVE  IdleInv'
<1> USE SupervisorAssumption, RunningAssumption DEF Sequential, Launching
<1>1. ASSUME NEW s \in Starts, StartRefused(s) /\ Enter(s) PROVE IdleInv'
  BY <1>1 DEF TypeOK, RunningInv, IdleInv, SupervisorState, Busy,
     StartRefused, Enter
<1>2. ASSUME NEW s \in Starts, StartBegins(s) /\ Enter(s) PROVE IdleInv'
  BY <1>2, SMTT(40) DEF TypeOK, RunningInv, IdleInv, SupervisorState, Busy,
     StartBegins, Enter, FreshScanner
<1>3. ASSUME NEW s \in Starts, SpawnReturns(s) PROVE IdleInv'
  BY <1>3 DEF TypeOK, RunningInv, IdleInv, SupervisorState, SpawnReturns,
     PollTurn, StartFails
<1>4. ASSUME NEW s \in Starts, HealthAnswers(s) PROVE IdleInv'
  BY <1>4 DEF TypeOK, RunningInv, IdleInv, SupervisorState, HealthAnswers
<1>5. ASSUME NEW s \in Starts, HealthMisses(s) PROVE IdleInv'
  BY <1>5 DEF TypeOK, RunningInv, IdleInv, SupervisorState, HealthMisses
<1>6. ASSUME NEW s \in Starts, BecomesReady(s) PROVE IdleInv'
  BY <1>6 DEF TypeOK, RunningInv, IdleInv, SupervisorState, BecomesReady
<1>7. ASSUME NEW s \in Starts, PollsAgain(s) PROVE IdleInv'
  BY <1>7 DEF TypeOK, RunningInv, IdleInv, SupervisorState, PollsAgain,
     PollTurn, StartFails
<1>8. ASSUME NEW s \in Starts, StartTimesOut(s) PROVE IdleInv'
  BY <1>8 DEF TypeOK, RunningInv, IdleInv, SupervisorState, StartTimesOut,
     StartFails
<1>9. ASSUME NEW s \in Starts, PollFindsNoHandle(s) \/ ClientCloses(s) PROVE IdleInv'
  BY <1>9 DEF TypeOK, RunningInv, IdleInv, SupervisorState,
     PollFindsNoHandle, ClientCloses
<1>10. ASSUME NEW s \in Starts, StartKills(s) \/ StartUnwinds(s) PROVE IdleInv'
  BY <1>10 DEF TypeOK, RunningInv, IdleInv, SupervisorState, StartKills, StartUnwinds
<1>11. ASSUME NEW s \in Starts, StartCancelled(s) PROVE IdleInv'
  BY <1>11 DEF TypeOK, RunningInv, IdleInv, SupervisorState, StartCancelled
<1>12. ASSUME NEW s \in Starts, StopDoesNothing(s) /\ Exit(s) PROVE IdleInv'
  BY <1>12 DEF TypeOK, RunningInv, IdleInv, SupervisorState,
     StopDoesNothing, Exit
<1>13. ASSUME NEW s \in Starts, StopKills(s) /\ Exit(s) PROVE IdleInv'
  BY <1>13 DEF TypeOK, RunningInv, IdleInv, SupervisorState, StopKills,
     Exit, MarkStopping
<1>14. ASSUME NEW s \in Starts, StopsTasks(s) PROVE IdleInv'
  <2>1. TasksStopping(s)
    BY <1>14, StopEffects
  <2>2. QED
    BY <2>1 DEF TasksStopping, TypeOK, RunningInv, IdleInv, MarkStopping, ClearSelf
<1>15. ASSUME NEW s \in Starts, StopCancelled(s) PROVE IdleInv'
  BY <1>15 DEF TypeOK, RunningInv, IdleInv, SupervisorState, StopCancelled
<1>16. ASSUME NEW s \in Starts, PumpStep(s) PROVE IdleInv'
  BY <1>16 DEF TypeOK, RunningInv, IdleInv, SupervisorState, PumpStep,
     PumpProgress, PumpCancelled, PumpStarts, PumpLine, PumpSignature, PumpEof, PumpReads, ReaderTaken
<1>17. ASSUME NEW s \in Starts, WatchStep(s) PROVE IdleInv'
  BY <1>17 DEF TypeOK, RunningInv, IdleInv, SupervisorState, WatchStep,
     WatchStarts, WatchSeesEof, WatchBreaks, WatchCancelled
<1>18. ASSUME NEW s \in Starts, EngineStep(s) PROVE IdleInv'
  BY <1>18 DEF TypeOK, RunningInv, IdleInv, SupervisorState, EngineStep,
     EngineServes, EngineForks, EngineComplains, EngineExits, EngineReaped,
     ChildExits, EngineKilled
<1>19. CASE UNCHANGED vars
  BY <1>19 DEF IdleInv, SupervisorState
<1>20. QED
  BY <1>1, <1>2, <1>3, <1>4, <1>5, <1>6, <1>7, <1>8, <1>9, <1>10, <1>11,
     <1>12, <1>13, <1>14, <1>15, <1>16, <1>17, <1>18, <1>19
     DEF RunningNext, Internal, Enter, Exit, StartCall, StartStep, StopCall,
     StopStep, StopsTasks

(* A supervisor nobody uses takes a new start, if no launcher is missing and *)
(* no start is cancelled: supervisor.py:106-111 and 147-154.                 *)
THEOREM IdleFree == ASSUME Sequential, Launching PROVE RunningSpec => []IdleIsFree
<1>1. Init => IdleInv
  BY DEF Init, IdleInv, SupervisorState
<1>2. TypeOK /\ RunningInv /\ IdleInv /\ [RunningNext]_vars => IdleInv'
  BY IdleStep
<1>3. IdleInv => IdleIsFree
  BY DEF IdleInv, IdleIsFree, Busy
<1>4. QED
  BY <1>1, <1>2, <1>3, RunningInvariant, PTL DEF RunningSpec

=============================================================================
