----------------------------- MODULE Supervisor -----------------------------
(***************************************************************************)
(* The Supervisor of vllm_untwisted/engine/supervisor.py: one asyncio loop  *)
(* on which start(), stop(), the log pump and the liveness watch of every   *)
(* engine interleave at their awaits, over one set of attributes of `self`. *)
(*                                                                         *)
(* A step is the code between two awaits.  Invocations of start() and       *)
(* stop() are named by Starts and Stops; start s creates record s and, if   *)
(* the spawn succeeds, engine s.  The pump and the watch that start s       *)
(* creates are tasks s.  Nothing is assumed here of who calls start() and   *)
(* stop() and when: module Running adds the discipline of the `running`     *)
(* context manager.                                                         *)
(*                                                                         *)
(* Abstracted: ports (engine s is the only one that answers on the port of  *)
(* record s), timings (a bound on the number of polls stands for the start  *)
(* deadline), the log tail, and the log itself, of which one line matters:  *)
(* the one carrying a failure signature of logscan.FAILURES.                *)
(***************************************************************************)
EXTENDS Integers, FiniteSets

CONSTANTS Starts,     \* the invocations of Supervisor.start()
          Stops,      \* the invocations of Supervisor.stop()
          MaxPolls,   \* health polls that fit before start_timeout (bound)
          Unlaunchable,  \* the starts whose launcher cannot be executed
          Forking,    \* the engines that may fork a child
          Complaining,    \* the engines that may print a failure signature
          AbandonedStarts,  \* the starts whose caller may cancel them
          AbandonedStops,   \* the stops whose caller may cancel them
          None        \* Python's None

StartupFailure == {"oom", "exit_before_ready", "start_timeout"}
FailureKind == StartupFailure \cup {"died_while_ready"}

ASSUME SupervisorAssumption ==
    /\ None \notin Starts \cup FailureKind
    /\ MaxPolls \in Nat
    /\ Unlaunchable \subseteq Starts
    /\ Forking \subseteq Starts
    /\ Complaining \subseteq Starts
    /\ AbandonedStarts \subseteq Starts
    /\ AbandonedStops \subseteq Stops

VARIABLES
    record,     \* self.record: the start whose EngineRecord it is, or None
    state,      \* record s: its state
    failure,    \* record s: the kind of its failure, or None
    readyAt,    \* record s: whether ready_at is set
    handle,     \* self._handle: the engine it stands for, or None
    pump,       \* self._pump: the task, named by the start that created it
    watch,      \* self._watch: likewise
    scanned,    \* the engine whose signature set self._scanner.failure_kind
    pumpTask,   \* the _pump_log task of start s
    pumpOn,     \* the engine whose stdout pump s is reading
    watchTask,  \* the _watch_liveness task of start s
    watchOn,    \* the pump task that watch s awaits
    startPc,    \* where start s is suspended, or how it ended
    polls,      \* health polls start s has made
    startOn,    \* in its _reap: the engine, watch or pump that start s awaits
    startPump,  \* in its _reap: the pump of the tuple it goes through
    stopPc,     \* where stop k is suspended, or that it returned
    stopOn,     \* the engine, watch or pump that stop k awaits
    stopPump,   \* in its _reap: the pump of the tuple it goes through
    leader,     \* engine s: its main process
    child,      \* engine s: a child of it that shares its stdout (EngineCore)
    serving,    \* engine s: whether it answers /health
    unread      \* engine s: a failure signature is in its pipe, not yet read

recordVars == <<state, failure, readyAt>>
selfVars   == <<record, handle, pump, watch, scanned>>
taskVars   == <<pumpTask, pumpOn, watchTask, watchOn>>
startLocals == <<polls, startOn, startPump>>
startVars  == <<startPc, startLocals>>
stopLocals == <<stopOn, stopPump>>
stopVars   == <<stopPc, stopLocals>>
engineVars == <<leader, child, serving, unread>>
vars == <<recordVars, selfVars, taskVars, startVars, stopVars, engineVars>>

EngineState == {"stopped", "starting", "ready", "stopping", "failed"}

\* Awaiting a task one has cancelled, CancelledError being suppressed.
Unwinding == {"unwatching", "unpumping"}
StartSuspended == {"spawning", "polling", "answered", "sleeping", "closing",
                   "raising", "killing"} \cup Unwinding
StartEnded == {"returned", "raised", "refused", "cancelled"}
StopSuspended == {"killing"} \cup Unwinding
StopEnded == {"done", "cancelled"}
TaskLive == {"created", "reading", "awaiting", "cancelling"}
TaskDone == {"eof", "failed", "cancelled", "done"}

\* The `state` property: an absent record reads as STOPPED.
SupervisorState == IF record = None THEN "stopped" ELSE state[record]

TypeOK ==
    /\ record \in Starts \cup {None}
    /\ state \in [Starts -> EngineState]
    /\ failure \in [Starts -> FailureKind \cup {None}]
    /\ readyAt \in [Starts -> BOOLEAN]
    /\ handle \in Starts \cup {None}
    /\ pump \in Starts \cup {None}
    /\ watch \in Starts \cup {None}
    /\ scanned \in Starts \cup {None}
    /\ pumpTask \in [Starts -> {"none"} \cup TaskLive \cup TaskDone]
    /\ pumpOn \in [Starts -> Starts \cup {None}]
    /\ watchTask \in [Starts -> {"none"} \cup TaskLive \cup TaskDone]
    /\ watchOn \in [Starts -> Starts \cup {None}]
    /\ startPc \in [Starts -> {"idle"} \cup StartSuspended \cup StartEnded]
    /\ polls \in [Starts -> 0..MaxPolls]
    /\ startOn \in [Starts -> Starts \cup {None}]
    /\ startPump \in [Starts -> Starts \cup {None}]
    /\ stopPc \in [Stops -> {"idle"} \cup StopSuspended \cup StopEnded]
    /\ stopOn \in [Stops -> Starts \cup {None}]
    /\ stopPump \in [Stops -> Starts \cup {None}]
    /\ leader \in [Starts -> {"none", "running", "exited", "reaped"}]
    /\ child \in [Starts -> {"none", "running", "exited"}]
    /\ serving \in [Starts -> BOOLEAN]
    /\ unread \in [Starts -> BOOLEAN]

Init ==
    /\ record = None
    /\ state = [s \in Starts |-> "stopped"]
    /\ failure = [s \in Starts |-> None]
    /\ readyAt = [s \in Starts |-> FALSE]
    /\ handle = None
    /\ pump = None
    /\ watch = None
    /\ scanned = None
    /\ pumpTask = [s \in Starts |-> "none"]
    /\ pumpOn = [s \in Starts |-> None]
    /\ watchTask = [s \in Starts |-> "none"]
    /\ watchOn = [s \in Starts |-> None]
    /\ startPc = [s \in Starts |-> "idle"]
    /\ polls = [s \in Starts |-> 0]
    /\ startOn = [s \in Starts |-> None]
    /\ startPump = [s \in Starts |-> None]
    /\ stopPc = [k \in Stops |-> "idle"]
    /\ stopOn = [k \in Stops |-> None]
    /\ stopPump = [k \in Stops |-> None]
    /\ leader = [s \in Starts |-> "none"]
    /\ child = [s \in Starts |-> "none"]
    /\ serving = [s \in Starts |-> FALSE]
    /\ unread = [s \in Starts |-> FALSE]

-----------------------------------------------------------------------------
(***************************************************************************)
(* _reap, once the handle has been stopped.  The tuple (self._watch,        *)
(* self._pump) is evaluated once; of each in turn, one that is not done by  *)
(* then is cancelled and awaited; only after both are the attributes        *)
(* cleared.  A cancelled task ends in a step of its own.                    *)
(***************************************************************************)
Live(task, t) == t # None /\ task[t] \in TaskLive

CancelPump(p) ==
    /\ pumpTask' = [pumpTask EXCEPT ![p] = "cancelling"]
    /\ UNCHANGED watchTask

\* A task that awaits another passes its own cancellation on to that one.
CancelWatch(w) ==
    IF watchTask[w] = "awaiting" /\ pumpTask[watchOn[w]] \in TaskLive
    THEN CancelPump(watchOn[w])
    ELSE /\ watchTask' = [watchTask EXCEPT ![w] = "cancelling"]
         /\ UNCHANGED pumpTask

\* The next of the watch w and the pump p that has to be cancelled, if any.
CancelNext(w, p) ==
    /\ \/ Live(watchTask, w) /\ CancelWatch(w)
       \/ ~Live(watchTask, w) /\ Live(pumpTask, p) /\ CancelPump(p)
       \/ /\ ~Live(watchTask, w) /\ ~Live(pumpTask, p)
          /\ UNCHANGED <<pumpTask, watchTask>>
    /\ UNCHANGED <<pumpOn, watchOn>>

ClearSelf ==
    /\ handle' = None
    /\ pump' = None
    /\ watch' = None
    /\ UNCHANGED <<record, scanned>>

-----------------------------------------------------------------------------
(***************************************************************************)
(* start().  The busy check, the new record and the fork are one step: the   *)
(* spawn is awaited with the process already there, or it raises at once.   *)
(* It is outside the try, so an exception leaves the record STARTING and    *)
(* the handle as it was.                                                    *)
(***************************************************************************)
Busy == SupervisorState \in {"starting", "ready", "stopping"}

StartRefused(s) ==
    /\ startPc[s] = "idle"
    /\ Busy
    /\ startPc' = [startPc EXCEPT ![s] = "refused"]
    /\ UNCHANGED <<recordVars, selfVars, taskVars, startLocals, stopVars, engineVars>>

\* Mutant: one scanner for every start.
FreshScannerForgotten == UNCHANGED scanned
FreshScanner == scanned' = None

StartBegins(s) ==
    /\ startPc[s] = "idle"
    /\ ~Busy
    /\ record' = s
    /\ state' = [state EXCEPT ![s] = "starting"]
    /\ FreshScanner
    /\ IF s \in Unlaunchable
       THEN /\ startPc' = [startPc EXCEPT ![s] = "raised"]
            /\ UNCHANGED leader
       ELSE /\ startPc' = [startPc EXCEPT ![s] = "spawning"]
            /\ leader' = [leader EXCEPT ![s] = "running"]
    /\ UNCHANGED <<failure, readyAt, handle, pump, watch, taskVars, startLocals,
                   stopVars, child, serving, unread>>

\* What the log said before the exit was noticed decides the kind.
ClassifyExit == IF scanned = None THEN "exit_before_ready" ELSE "oom"

\* Mutant: FAILED, without the why.
StartFailsSilently(s, kind) ==
    /\ state' = [state EXCEPT ![s] = "failed"]
    /\ UNCHANGED <<failure, readyAt>>
StartFails(s, kind) ==
    /\ state' = [state EXCEPT ![s] = "failed"]
    /\ failure' = [failure EXCEPT ![s] = kind]
    /\ UNCHANGED readyAt

(***************************************************************************)
(* One turn of _await_ready's loop, h being self._handle: not the handle    *)
(* start s spawned, whatever the attribute holds at that moment.  A return  *)
(* from within the loop leaves the `async with`, and the client's __aexit__ *)
(* awaits the close of its connections before start() goes on: "closing".   *)
(***************************************************************************)
PollTurn(s, h) ==
    \/ /\ leader[h] = "reaped"
       /\ StartFails(s, ClassifyExit)
       /\ startPc' = [startPc EXCEPT ![s] = "closing"]
       /\ UNCHANGED polls
    \/ /\ leader[h] # "reaped"
       /\ polls[s] < MaxPolls
       /\ polls' = [polls EXCEPT ![s] = @ + 1]
       /\ startPc' = [startPc EXCEPT ![s] = "polling"]
       /\ UNCHANGED recordVars

SpawnReturns(s) ==
    /\ startPc[s] = "spawning"
    /\ handle' = s
    /\ pump' = s
    /\ pumpTask' = [pumpTask EXCEPT ![s] = "created"]
    /\ PollTurn(s, s)
    /\ UNCHANGED <<record, watch, scanned, pumpOn, watchTask, watchOn, startOn,
                   startPump, stopVars, engineVars>>

\* The engine behind the record's own port answers 200.
HealthAnswers(s) ==
    /\ startPc[s] = "polling"
    /\ leader[s] = "running" /\ serving[s]
    /\ startPc' = [startPc EXCEPT ![s] = "answered"]
    /\ UNCHANGED <<recordVars, selfVars, taskVars, startLocals, stopVars, engineVars>>

\* Mutant: ask again at once, with no look at the deadline.
HealthMissesEagerly(s) ==
    /\ startPc[s] = "polling"
    /\ UNCHANGED vars

\* Anything else httpx can come back with; the poll interval follows.
HealthMisses(s) ==
    /\ startPc[s] = "polling"
    /\ startPc' = [startPc EXCEPT ![s] = "sleeping"]
    /\ UNCHANGED <<recordVars, selfVars, taskVars, startLocals, stopVars, engineVars>>

\* Mutant: nobody watches.
BecomesReadyUnwatched(s) ==
    /\ startPc[s] = "answered"
    /\ state' = [state EXCEPT ![s] = "ready"]
    /\ readyAt' = [readyAt EXCEPT ![s] = TRUE]
    /\ startPc' = [startPc EXCEPT ![s] = "closing"]
    /\ UNCHANGED <<failure, selfVars, taskVars, startLocals, stopVars, engineVars>>

BecomesReady(s) ==
    /\ startPc[s] = "answered"
    /\ state' = [state EXCEPT ![s] = "ready"]
    /\ readyAt' = [readyAt EXCEPT ![s] = TRUE]
    /\ watch' = s
    /\ watchTask' = [watchTask EXCEPT ![s] = "created"]
    /\ startPc' = [startPc EXCEPT ![s] = "closing"]
    /\ UNCHANGED <<failure, record, handle, pump, scanned, pumpTask, pumpOn,
                   watchOn, startLocals, stopVars, engineVars>>

\* By now the watch or a stop() may have changed the record.
ClientCloses(s) ==
    /\ startPc[s] = "closing"
    /\ startPc' = [startPc EXCEPT ![s] = "returned"]
    /\ UNCHANGED <<recordVars, selfVars, taskVars, startLocals, stopVars, engineVars>>

PollsAgain(s) ==
    /\ startPc[s] = "sleeping"
    /\ handle # None
    /\ PollTurn(s, handle)
    /\ UNCHANGED <<selfVars, taskVars, startOn, startPump, stopVars, engineVars>>

\* The deadline: the process, which may well be running, is left as it is.  Here
\* the client is closed before the record is written, as part of the sleep.
StartTimesOut(s) ==
    /\ startPc[s] = "sleeping"
    /\ StartFails(s, "start_timeout")
    /\ startPc' = [startPc EXCEPT ![s] = "returned"]
    /\ UNCHANGED <<selfVars, taskVars, startLocals, stopVars, engineVars>>

\* `self._handle.returncode` on None: the exception closes the client first.
PollFindsNoHandle(s) ==
    /\ startPc[s] = "sleeping"
    /\ handle = None
    /\ startPc' = [startPc EXCEPT ![s] = "raising"]
    /\ UNCHANGED <<recordVars, selfVars, taskVars, startLocals, stopVars, engineVars>>

\* `except Exception`: _reap, which reads self._handle anew.
StartKills(s) ==
    /\ startPc[s] = "raising"
    /\ handle # None /\ leader[handle] # "reaped"
    /\ startPc' = [startPc EXCEPT ![s] = "killing"]
    /\ startOn' = [startOn EXCEPT ![s] = handle]
    /\ UNCHANGED <<recordVars, selfVars, taskVars, polls, startPump, stopVars,
                   engineVars>>

StartAwaits(s, place, t, p) ==
    /\ startPc' = [startPc EXCEPT ![s] = place]
    /\ startOn' = [startOn EXCEPT ![s] = t]
    /\ startPump' = [startPump EXCEPT ![s] = p]

\* The rest of _reap, and `raise`.
StartTail(s, w, p) ==
    /\ CancelNext(w, p)
    /\ \/ Live(watchTask, w) /\ StartAwaits(s, "unwatching", w, p) /\ UNCHANGED selfVars
       \/ /\ ~Live(watchTask, w) /\ Live(pumpTask, p)
          /\ StartAwaits(s, "unpumping", p, p)
          /\ UNCHANGED selfVars
       \/ /\ ~Live(watchTask, w) /\ ~Live(pumpTask, p)
          /\ StartAwaits(s, "raised", None, None)
          /\ ClearSelf

StartUnwinds(s) ==
    /\ \/ /\ startPc[s] = "raising"
          /\ handle # None => leader[handle] = "reaped"
          /\ StartTail(s, watch, pump)
       \/ /\ startPc[s] = "killing" /\ leader[startOn[s]] = "reaped"
          /\ StartTail(s, watch, pump)
       \/ /\ startPc[s] = "unwatching" /\ watchTask[startOn[s]] \in TaskDone
          /\ StartTail(s, None, startPump[s])
       \/ /\ startPc[s] = "unpumping" /\ pumpTask[startOn[s]] \in TaskDone
          /\ StartTail(s, None, None)
    /\ UNCHANGED <<recordVars, polls, stopVars, engineVars>>

\* CancelledError is no Exception: nothing is reaped.  During the spawn asyncio
\* closes the transport, which kills the process and waits for it.
StartCancelled(s) ==
    /\ s \in AbandonedStarts
    /\ startPc[s] \in StartSuspended \ Unwinding
    /\ startPc' = [startPc EXCEPT ![s] = "cancelled"]
    /\ IF startPc[s] = "spawning"
       THEN /\ leader' = [leader EXCEPT ![s] = "reaped"]
            /\ serving' = [serving EXCEPT ![s] = FALSE]
       ELSE UNCHANGED <<leader, serving>>
    /\ UNCHANGED <<recordVars, selfVars, taskVars, startLocals, stopVars, child,
                   unread>>

-----------------------------------------------------------------------------
(***************************************************************************)
(* stop().  It suspends while the handle is being stopped and while         *)
(* cancelled tasks finish; `self.record` is read again at the end.          *)
(***************************************************************************)
\* Mutant: a failed engine needs no stopping.
StopIgnoresFailed(k) ==
    /\ stopPc[k] = "idle"
    /\ record = None \/ handle = None \/ SupervisorState = "failed"
    /\ stopPc' = [stopPc EXCEPT ![k] = "done"]
    /\ UNCHANGED <<recordVars, selfVars, taskVars, startVars, stopLocals, engineVars>>

StopDoesNothing(k) ==
    /\ stopPc[k] = "idle"
    /\ record = None \/ handle = None
    /\ stopPc' = [stopPc EXCEPT ![k] = "done"]
    /\ UNCHANGED <<recordVars, selfVars, taskVars, startVars, stopLocals, engineVars>>

MarkStopping == [state EXCEPT ![record] = IF @ = "failed" THEN @ ELSE "stopping"]

StopKills(k) ==
    /\ stopPc[k] = "idle"
    /\ record # None /\ handle # None
    /\ leader[handle] # "reaped"
    /\ state' = MarkStopping
    /\ stopPc' = [stopPc EXCEPT ![k] = "killing"]
    /\ stopOn' = [stopOn EXCEPT ![k] = handle]
    /\ UNCHANGED <<failure, readyAt, selfVars, taskVars, startVars, stopPump,
                   engineVars>>

StopAwaits(k, place, t, p) ==
    /\ stopPc' = [stopPc EXCEPT ![k] = place]
    /\ stopOn' = [stopOn EXCEPT ![k] = t]
    /\ stopPump' = [stopPump EXCEPT ![k] = p]

\* Mutant: the pump is not looked at, as though the watch always took it along.
StopTailButPump(k, w, p, st) ==
    /\ CancelNext(w, None)
    /\ \/ /\ Live(watchTask, w)
          /\ StopAwaits(k, "unwatching", w, p) /\ state' = st /\ UNCHANGED selfVars
       \/ /\ ~Live(watchTask, w)
          /\ StopAwaits(k, "done", None, None) /\ ClearSelf
          /\ state' = [st EXCEPT ![record] = "stopped"]

\* Mutant: the record is left STOPPING.
StopTailQuietly(k, w, p, st) ==
    /\ CancelNext(w, p)
    /\ state' = st
    /\ \/ Live(watchTask, w) /\ StopAwaits(k, "unwatching", w, p) /\ UNCHANGED selfVars
       \/ /\ ~Live(watchTask, w) /\ Live(pumpTask, p)
          /\ StopAwaits(k, "unpumping", p, p) /\ UNCHANGED selfVars
       \/ /\ ~Live(watchTask, w) /\ ~Live(pumpTask, p)
          /\ StopAwaits(k, "done", None, None) /\ ClearSelf

\* The rest of _reap and of stop(), st being the records' states by then.
StopTail(k, w, p, st) ==
    /\ CancelNext(w, p)
    /\ \/ /\ Live(watchTask, w)
          /\ StopAwaits(k, "unwatching", w, p)
          /\ state' = st
          /\ UNCHANGED selfVars
       \/ /\ ~Live(watchTask, w) /\ Live(pumpTask, p)
          /\ StopAwaits(k, "unpumping", p, p)
          /\ state' = st
          /\ UNCHANGED selfVars
       \/ /\ ~Live(watchTask, w) /\ ~Live(pumpTask, p)
          /\ StopAwaits(k, "done", None, None)
          /\ state' = [st EXCEPT ![record] = "stopped"]
          /\ ClearSelf

\* A handle whose process has been reaped returns without suspending.
StopReapsAtOnce(k) ==
    /\ stopPc[k] = "idle"
    /\ record # None /\ handle # None
    /\ leader[handle] = "reaped"
    /\ StopTail(k, watch, pump, MarkStopping)
    /\ UNCHANGED <<failure, readyAt, startVars, engineVars>>

StopReaps(k) ==
    /\ stopPc[k] = "killing"
    /\ leader[stopOn[k]] = "reaped"
    /\ StopTail(k, watch, pump, state)
    /\ UNCHANGED <<failure, readyAt, startVars, engineVars>>

\* The task that it awaited has ended.
StopUnwinds(k) ==
    /\ \/ /\ stopPc[k] = "unwatching" /\ watchTask[stopOn[k]] \in TaskDone
          /\ StopTail(k, None, stopPump[k], state)
       \/ /\ stopPc[k] = "unpumping" /\ pumpTask[stopOn[k]] \in TaskDone
          /\ StopTail(k, None, None, state)
    /\ UNCHANGED <<failure, readyAt, startVars, engineVars>>

\* Cancelled while the handle is being stopped: the rest of stop() is skipped.
\* (While it awaits the tasks it cancelled, stop() suppresses CancelledError.)
StopCancelled(k) ==
    /\ k \in AbandonedStops
    /\ stopPc[k] = "killing"
    /\ stopPc' = [stopPc EXCEPT ![k] = "cancelled"]
    /\ UNCHANGED <<recordVars, selfVars, taskVars, startVars, stopLocals, engineVars>>

-----------------------------------------------------------------------------
(***************************************************************************)
(* _pump_log.  Every turn reads from self._handle, whichever engine that is *)
(* by then, and feeds self._scanner.  A StreamReader another task waits on  *)
(* raises RuntimeError, and None has no readline: either ends the task.     *)
(***************************************************************************)
ReaderTaken(p) ==
    \E q \in Starts \ {p} :
        pumpTask[q] \in {"reading", "cancelling"} /\ pumpOn[q] = handle

PumpReads(p) ==
    IF handle = None \/ ReaderTaken(p)
    THEN /\ pumpTask' = [pumpTask EXCEPT ![p] = "failed"]
         /\ UNCHANGED pumpOn
    ELSE /\ pumpTask' = [pumpTask EXCEPT ![p] = "reading"]
         /\ pumpOn' = [pumpOn EXCEPT ![p] = handle]

PumpStarts(p) ==
    /\ pumpTask[p] = "created"
    /\ PumpReads(p)
    /\ UNCHANGED <<recordVars, selfVars, watchTask, watchOn, startVars, stopVars,
                   engineVars>>

PumpLine(p) ==
    /\ pumpTask[p] = "reading"
    /\ leader[pumpOn[p]] = "running" \/ child[pumpOn[p]] = "running"
    /\ PumpReads(p)
    /\ UNCHANGED <<recordVars, selfVars, watchTask, watchOn, startVars, stopVars,
                   engineVars>>

PumpSignature(p) ==
    /\ pumpTask[p] = "reading"
    /\ unread[pumpOn[p]]
    /\ unread' = [unread EXCEPT ![pumpOn[p]] = FALSE]
    /\ scanned' = IF scanned = None THEN pumpOn[p] ELSE scanned
    /\ PumpReads(p)
    /\ UNCHANGED <<recordVars, record, handle, pump, watch, watchTask, watchOn,
                   startVars, stopVars, leader, child, serving>>

\* The pipe closes when nothing that inherited it is left.
PumpEof(p) ==
    /\ pumpTask[p] = "reading"
    /\ leader[pumpOn[p]] # "running" /\ child[pumpOn[p]] # "running"
    /\ ~unread[pumpOn[p]]
    /\ pumpTask' = [pumpTask EXCEPT ![p] = "eof"]
    /\ UNCHANGED <<recordVars, selfVars, pumpOn, watchTask, watchOn, startVars,
                   stopVars, engineVars>>

PumpCancelled(p) ==
    /\ pumpTask[p] = "cancelling"
    /\ pumpTask' = [pumpTask EXCEPT ![p] = "cancelled"]
    /\ UNCHANGED <<recordVars, selfVars, pumpOn, watchTask, watchOn, startVars,
                   stopVars, engineVars>>

-----------------------------------------------------------------------------
(* _watch_liveness: await the pump that self._pump names when the task first *)
(* runs; a record still READY at the end of the output has lost its engine. *)
WatchStarts(w) ==
    /\ watchTask[w] = "created"
    /\ IF pump = None
       THEN /\ watchTask' = [watchTask EXCEPT ![w] = "failed"]
            /\ UNCHANGED watchOn
       ELSE /\ watchTask' = [watchTask EXCEPT ![w] = "awaiting"]
            /\ watchOn' = [watchOn EXCEPT ![w] = pump]
    /\ UNCHANGED <<recordVars, selfVars, pumpTask, pumpOn, startVars, stopVars,
                   engineVars>>

\* Mutant: an end of output is a death, whatever the record says.
WatchBlamesEngine(w) ==
    /\ watchTask[w] = "awaiting"
    /\ pumpTask[watchOn[w]] = "eof"
    /\ watchTask' = [watchTask EXCEPT ![w] = "done"]
    /\ state' = [state EXCEPT ![w] = "failed"]
    /\ failure' = [failure EXCEPT ![w] = "died_while_ready"]
    /\ UNCHANGED <<readyAt, selfVars, pumpTask, pumpOn, watchOn, startVars,
                   stopVars, engineVars>>

WatchSeesEof(w) ==
    /\ watchTask[w] = "awaiting"
    /\ pumpTask[watchOn[w]] = "eof"
    /\ watchTask' = [watchTask EXCEPT ![w] = "done"]
    /\ IF state[w] = "ready"
       THEN /\ state' = [state EXCEPT ![w] = "failed"]
            /\ failure' = [failure EXCEPT ![w] = "died_while_ready"]
       ELSE UNCHANGED <<state, failure>>
    /\ UNCHANGED <<readyAt, selfVars, pumpTask, pumpOn, watchOn, startVars,
                   stopVars, engineVars>>

\* The exception that ended the pump ends the watch.
WatchBreaks(w) ==
    /\ watchTask[w] = "awaiting"
    /\ pumpTask[watchOn[w]] \in {"failed", "cancelled"}
    /\ watchTask' = [watchTask EXCEPT ![w] = pumpTask[watchOn[w]]]
    /\ UNCHANGED <<recordVars, selfVars, pumpTask, pumpOn, watchOn, startVars,
                   stopVars, engineVars>>

WatchCancelled(w) ==
    /\ watchTask[w] = "cancelling"
    /\ watchTask' = [watchTask EXCEPT ![w] = "cancelled"]
    /\ UNCHANGED <<recordVars, selfVars, pumpTask, pumpOn, watchOn, startVars,
                   stopVars, engineVars>>

-----------------------------------------------------------------------------
(***************************************************************************)
(* The engine processes, from how the supervisor uses them: a leader that   *)
(* may fork, may come to serve, may print a failure signature and may exit  *)
(* at any time; a child that shares its output.                             *)
(***************************************************************************)
EngineServes(e) ==
    /\ leader[e] = "running" /\ ~serving[e]
    /\ serving' = [serving EXCEPT ![e] = TRUE]
    /\ UNCHANGED <<recordVars, selfVars, taskVars, startVars, stopVars, leader,
                   child, unread>>

EngineForks(e) ==
    /\ e \in Forking
    /\ leader[e] = "running" /\ child[e] = "none"
    /\ child' = [child EXCEPT ![e] = "running"]
    /\ UNCHANGED <<recordVars, selfVars, taskVars, startVars, stopVars, leader,
                   serving, unread>>

\* A line with a failure signature: an exception, "CUDA out of memory".
EngineComplains(e) ==
    /\ e \in Complaining
    /\ leader[e] = "running" /\ ~unread[e]
    /\ unread' = [unread EXCEPT ![e] = TRUE]
    /\ UNCHANGED <<recordVars, selfVars, taskVars, startVars, stopVars, leader,
                   child, serving>>

EngineExits(e) ==
    /\ leader[e] = "running"
    /\ leader' = [leader EXCEPT ![e] = "exited"]
    /\ serving' = [serving EXCEPT ![e] = FALSE]
    /\ UNCHANGED <<recordVars, selfVars, taskVars, startVars, stopVars, child,
                   unread>>

\* asyncio's child watcher runs and `returncode` is no longer None.
EngineReaped(e) ==
    /\ leader[e] = "exited"
    /\ leader' = [leader EXCEPT ![e] = "reaped"]
    /\ UNCHANGED <<recordVars, selfVars, taskVars, startVars, stopVars, child,
                   serving, unread>>

ChildExits(e) ==
    /\ child[e] = "running"
    /\ child' = [child EXCEPT ![e] = "exited"]
    /\ UNCHANGED <<recordVars, selfVars, taskVars, startVars, stopVars, leader,
                   serving, unread>>

\* handle.stop() signals the group until the leader is gone.
EngineKilled(e) ==
    /\ \/ \E k \in Stops : stopPc[k] = "killing" /\ stopOn[k] = e
       \/ \E s \in Starts : startPc[s] = "killing" /\ startOn[s] = e
    /\ leader[e] = "running"
    /\ leader' = [leader EXCEPT ![e] = "exited"]
    /\ serving' = [serving EXCEPT ![e] = FALSE]
    /\ UNCHANGED <<recordVars, selfVars, taskVars, startVars, stopVars, child,
                   unread>>

-----------------------------------------------------------------------------
StartStep(s) ==
    \/ SpawnReturns(s) \/ HealthAnswers(s) \/ HealthMisses(s)
    \/ BecomesReady(s) \/ ClientCloses(s) \/ PollsAgain(s) \/ StartTimesOut(s)
    \/ PollFindsNoHandle(s) \/ StartKills(s) \/ StartUnwinds(s)

StopStep(k) == StopReaps(k) \/ StopUnwinds(k)

StartCall(s) == StartRefused(s) \/ StartBegins(s)
StopCall(k) == StopDoesNothing(k) \/ StopKills(k) \/ StopReapsAtOnce(k)

\* What a pump owes: one line more is no progress.
PumpProgress(p) ==
    PumpStarts(p) \/ PumpSignature(p) \/ PumpEof(p) \/ PumpCancelled(p)
PumpStep(p) == PumpProgress(p) \/ PumpLine(p)
WatchStep(w) ==
    WatchStarts(w) \/ WatchSeesEof(w) \/ WatchBreaks(w) \/ WatchCancelled(w)
EngineStep(e) ==
    \/ EngineServes(e) \/ EngineForks(e) \/ EngineComplains(e)
    \/ EngineExits(e) \/ EngineReaped(e) \/ ChildExits(e) \/ EngineKilled(e)

\* What goes on by itself once start() and stop() have been called.
Internal ==
    \/ \E s \in Starts : StartStep(s) \/ PumpStep(s) \/ WatchStep(s) \/ EngineStep(s)
    \/ \E k \in Stops : StopStep(k)

Next ==
    \/ Internal
    \/ \E s \in Starts : StartCall(s) \/ StartCancelled(s)
    \/ \E k \in Stops : StopCall(k) \/ StopCancelled(k)

Spec == Init /\ [][Next]_vars

(***************************************************************************)
(* Fairness.  The event loop runs every task that can run; asyncio's child  *)
(* watcher reports an exit; the group of an engine being stopped is         *)
(* signalled until its leader is gone (SIGKILL after the grace).  An engine *)
(* owes nothing: it may never serve, never print, never exit by itself.     *)
(***************************************************************************)
Fairness ==
    /\ \A s \in Starts :
          /\ WF_vars(StartStep(s))
          /\ WF_vars(PumpProgress(s))
          /\ WF_vars(WatchStep(s))
          /\ WF_vars(EngineReaped(s))
          /\ WF_vars(EngineKilled(s))
    /\ \A k \in Stops : WF_vars(StopStep(k))

FairSpec == Spec /\ Fairness

-----------------------------------------------------------------------------
\* What a record says of its failure agrees with how far its start got: a
\* FAILED record has a failure, an engine that died while serving had become
\* ready, one that failed to start had not (supervisor.py:169-234).
FailureExplained ==
    \A s \in Starts :
        /\ state[s] = "failed" => failure[s] # None
        /\ failure[s] = "died_while_ready" => readyAt[s]
        /\ failure[s] \in StartupFailure => ~readyAt[s]

\* An out-of-memory verdict rests on what this engine printed, never on a line
\* of another one (supervisor.py:112 makes a scanner per start, and 160-164
\* feeds it from whichever engine self._handle is).
VerdictFromOwnLog ==
    [][\A s \in Starts :
          failure'[s] = "oom" /\ failure[s] # "oom" => scanned = s]_vars

\* Whatever the callers do, every start and stop that is made comes to an end, a
\* start by its deadline if by nothing else: no start, stop, pump and watch wait
\* for each other in a circle (supervisor.py:172-200, 236-245).  (Each call is
\* made once, so that all have ended is that none is suspended any more.)
CallsReturn ==
    <>[](/\ \A s \in Starts : startPc[s] \notin StartSuspended
         /\ \A k \in Stops : stopPc[k] \notin StopSuspended)

=============================================================================
