-------------------------------- MODULE Api --------------------------------
(***************************************************************************)
(* The engine endpoints of vllm_untwisted/api/app.py over the Manager:      *)
(* POST /engine/start answers at once and leaves the start to a task, go(); *)
(* POST /engine/stop cancels the task in app.state.starting, waits for it,  *)
(* and stops the engine; the lifespan stops it too, without the first part. *)
(* Each publishes "engine.state" events, of which the last is kept here.    *)
(*                                                                         *)
(* Request s posts a start of ConfigOf[s]; its task and the supervisor's    *)
(* start() carry the same name.  Request k posts a stop, or is the shutdown *)
(* of the application if it is in Shutdowns.                                *)
(***************************************************************************)
EXTENDS Manager

CONSTANTS Shutdowns,    \* the stops that the lifespan makes
          Patient       \* whether clients post one request at a time

ASSUME ApiAssumption ==
    /\ Shutdowns \subseteq Stops
    /\ Patient \in BOOLEAN

VARIABLES
    answer,     \* the answer to start request s
    starting,   \* app.state.starting: the task of a start request, or None
    task,       \* the go() task of request s
    cancelled,  \* whether the task has been cancelled
    stopping,   \* where stop request k is
    awaited,    \* the task stop request k waits for
    event       \* the state in the last "engine.state" event

apiVars == <<answer, starting, task, cancelled, stopping, awaited, event>>
everything == <<allVars, apiVars>>

TaskPending == {"created", "running"}
\* Mutant: a task that was cancelled has not finished.
TaskFinished == {"finished"}
TaskOver == {"finished", "cancelled"}

ApiTypeOK ==
    /\ answer \in [Starts -> {"none", "accepted", "conflict", "missing"}]
    /\ starting \in Starts \cup {None}
    /\ task \in [Starts -> {"none"} \cup TaskPending \cup TaskOver]
    /\ cancelled \in [Starts -> BOOLEAN]
    /\ stopping \in [Stops -> {"none", "awaiting", "stopping", "answered"}]
    /\ awaited \in [Stops -> Starts \cup {None}]
    /\ event \in EngineState \cup {"none"}

ApiInit ==
    /\ ManagerInit
    /\ answer = [s \in Starts |-> "none"]
    /\ starting = None
    /\ task = [s \in Starts |-> "none"]
    /\ cancelled = [s \in Starts |-> FALSE]
    /\ stopping = [k \in Stops |-> "none"]
    /\ awaited = [k \in Stops |-> None]
    /\ event = "none"

-----------------------------------------------------------------------------
(* POST /engine/start *)

Answered(s, code) == answer' = [answer EXCEPT ![s] = code]

StartConflicts(s) ==
    /\ answer[s] = "none"
    /\ SupervisorState \in {"starting", "ready"}
    /\ Answered(s, "conflict")
    /\ UNCHANGED <<allVars, starting, task, cancelled, stopping, awaited, event>>

StartMissing(s) ==
    /\ answer[s] = "none"
    /\ SupervisorState \notin {"starting", "ready"}
    /\ ConfigOf[s] \notin stored
    /\ Answered(s, "missing")
    /\ UNCHANGED <<allVars, starting, task, cancelled, stopping, awaited, event>>

StartAccepted(s) ==
    /\ answer[s] = "none"
    /\ SupervisorState \notin {"starting", "ready"}
    /\ ConfigOf[s] \in stored
    /\ Answered(s, "accepted")
    /\ starting' = s
    /\ task' = [task EXCEPT ![s] = "created"]
    /\ UNCHANGED <<allVars, cancelled, stopping, awaited, event>>

\* Where go() stands after a step of manager.start(): its own end publishes what
\* became of the start, an exception publishes "failed", cancellation nothing.
GoFollows(s) ==
    /\ task' = [task EXCEPT ![s] =
           IF startPc'[s] \in StartSuspended THEN "running" ELSE "finished"]
    /\ event' = CASE startPc'[s] \in StartSuspended -> IF startPc[s] = "idle" THEN "starting" ELSE event
                  [] startPc'[s] = "returned" /\ ConfigOf[s] \in stored -> state'[s]
                  [] OTHER -> "failed"
    /\ UNCHANGED <<answer, starting, cancelled, stopping, awaited>>

GoBegins(s) ==
    /\ task[s] = "created" /\ ~cancelled[s]
    /\ ManagerStarts(s) \/ ManagerStartsUnknown(s)
    /\ GoFollows(s)

\* A task that was cancelled goes on only where CancelledError is suppressed.
GoProceeds(s) ==
    /\ task[s] = "running"
    /\ cancelled[s] => startPc[s] \in Unwinding
    /\ ManagerStartProceeds(s)
    /\ GoFollows(s)

GoCancelled(s) ==
    /\ cancelled[s]
    /\ \/ task[s] = "running" /\ ManagerStartCancelled(s)
       \/ task[s] = "created" /\ UNCHANGED allVars
    /\ task' = [task EXCEPT ![s] = "cancelled"]
    /\ UNCHANGED <<answer, starting, cancelled, stopping, awaited, event>>

-----------------------------------------------------------------------------
(* POST /engine/stop, and the lifespan *)

\* After a step of manager.stop(); the lifespan publishes nothing.
StopFollows(k) ==
    IF stopPc'[k] = "done"
    THEN /\ stopping' = [stopping EXCEPT ![k] = "answered"]
         /\ event' = IF k \in Shutdowns THEN event ELSE "stopped"
    ELSE /\ stopping' = [stopping EXCEPT ![k] = "stopping"]
         /\ UNCHANGED event

\* Mutant: the start is not cancelled.
NothingPending == FALSE
StartPending == starting # None /\ task[starting] \in TaskPending

StopCancelsStart(k) ==
    /\ stopping[k] = "none" /\ k \notin Shutdowns
    /\ StartPending
    /\ cancelled' = [cancelled EXCEPT ![starting] = TRUE]
    /\ stopping' = [stopping EXCEPT ![k] = "awaiting"]
    /\ awaited' = [awaited EXCEPT ![k] = starting]
    /\ UNCHANGED <<allVars, answer, starting, task, event>>

\* Mutant: to cancel the start is to stop the engine.
StopRequestedOfStart(k) ==
    /\ \/ /\ stopping[k] = "none" /\ (k \in Shutdowns \/ ~StartPending)
          /\ ManagerStops(k)
          /\ StopFollows(k)
       \/ /\ stopping[k] = "awaiting" /\ task[awaited[k]] \in TaskOver
          /\ stopping' = [stopping EXCEPT ![k] = "answered"]
          /\ event' = "stopped"
          /\ UNCHANGED allVars
    /\ UNCHANGED <<answer, starting, task, cancelled, awaited>>
StopRequested(k) ==
    /\ \/ stopping[k] = "none" /\ (k \in Shutdowns \/ ~StartPending)
       \/ stopping[k] = "awaiting" /\ task[awaited[k]] \in TaskOver
    /\ ManagerStops(k)
    /\ StopFollows(k)
    /\ UNCHANGED <<answer, starting, task, cancelled, awaited>>

StopProceeds(k) ==
    /\ stopping[k] = "stopping"
    /\ ManagerStopProceeds(k)
    /\ StopFollows(k)
    /\ UNCHANGED <<answer, starting, task, cancelled, awaited>>

\* What the application leaves pending when it is gone, asyncio.run cancels.
LoopEnds(k) ==
    /\ k \in Shutdowns /\ stopping[k] = "answered"
    /\ \E s \in Starts : task[s] \in TaskPending /\ ~cancelled[s]
    /\ cancelled' = [s \in Starts |-> cancelled[s] \/ task[s] \in TaskPending]
    /\ UNCHANGED <<allVars, answer, starting, task, stopping, awaited, event>>

-----------------------------------------------------------------------------
Unanswered == \E k \in Stops : stopping[k] \in {"awaiting", "stopping"}
TasksPending == \E s \in Starts : task[s] \in TaskPending

\* The lifespan's shutdown follows the last request, and nothing follows it.
ShutDown == \E k \in Shutdowns : stopping[k] # "none"

\* A patient client posts a start once it has seen how the last one ended and
\* stopped it, and a stop at any time; others post what they like.  The lifespan
\* is shut down when requests are over, which gives every task time to begin.
PostStart(s) ==
    /\ ~ShutDown
    /\ Patient => ~Unanswered /\ ~TasksPending /\ Stopped
    /\ StartConflicts(s) \/ StartMissing(s) \/ StartAccepted(s)

PostStop(k) ==
    /\ ~ShutDown
    /\ Patient \/ k \in Shutdowns => ~Unanswered
    /\ k \in Shutdowns => \A s \in Starts : task[s] # "created"
    /\ StopCancelsStart(k) \/ StopRequested(k)

GoStep(s) == GoBegins(s) \/ GoProceeds(s) \/ GoCancelled(s)
StopRequestStep(k) == stopping[k] # "none" /\ (StopRequested(k) \/ StopProceeds(k))

ApiNext ==
    \/ \E s \in Starts :
          \/ PostStart(s) \/ GoStep(s)
          \/ Background(s) /\ UNCHANGED apiVars
    \/ \E k \in Stops : PostStop(k) \/ StopRequestStep(k) \/ LoopEnds(k)
    \/ \E c \in Configs : Delete(c) /\ UNCHANGED apiVars

ApiSpec == ApiInit /\ [][ApiNext]_everything

\* The loop runs every task; of the processes, the child watcher reports exits
\* and what is signalled dies, as in Supervisor.
FairApiSpec ==
    /\ ApiSpec
    /\ \A s \in Starts :
          /\ WF_everything(GoStep(s))
          /\ WF_everything((EngineReaped(s) \/ EngineKilled(s)) /\ UNCHANGED <<managerVars, apiVars>>)
          /\ WF_everything(PumpProgress(s) /\ UNCHANGED <<managerVars, apiVars>>)
          /\ WF_everything(WatchStep(s) /\ UNCHANGED <<managerVars, apiVars>>)
    /\ \A k \in Stops : WF_everything(StopRequestStep(k))

-----------------------------------------------------------------------------
Settled == ~Unanswered /\ ~TasksPending

\* When a stop has been answered and nothing was started since, no engine runs:
\* not even one whose start was in flight (app.py:210-219).
StoppedIsGone ==
    Settled /\ event = "stopped" => \A s \in Starts : leader[s] \in {"none", "reaped"}

\* When a stop request has been answered, no run is left open: each has an
\* outcome that says how it ended (manager.py:95-115).  The lifespan's stop, which
\* does not wait for a start in flight, does not bring this about.
NoOpenRun ==
    Settled /\ Stopped /\ ~ShutDown => \A i \in DOMAIN runs : runs[i].outcome # "ready"

(***************************************************************************)
(* Until the shutdown, what the ledger says of a run is what became of its  *)
(* own engine, though a stop settles it with a state and a failure it read  *)
(* before it waited (manager.py:103-114): one that says "ready" or          *)
(* "stopped" served, and was stopped without having failed; one that says   *)
(* "failed" or "died" gives its engine's own reason; and an engine that     *)
(* served is not marked as one that never did unless it died before its     *)
(* start had returned.                                                      *)
(***************************************************************************)
OutcomeIsOwn ==
    ~ShutDown =>
        \A i \in DOMAIN runs :
            LET r == runs[i]
            IN  /\ r.outcome \in {"ready", "stopped"} => r.became_ready
                /\ r.outcome = "stopped" => failure[r.start] = None
                /\ r.outcome \in {"failed", "died"} =>
                      r.failure_kind = failure[r.start] /\ r.failure_kind # None
                /\ readyAt[r.start] /\ ~r.became_ready =>
                      r.failure_kind = "died_while_ready"

\* A start that a stop has cancelled is not heard of again: after "stopped" the
\* next event is of a new start (app.py:212-218).
StopHasTheLastWord ==
    [][event = "stopped" /\ event' # "stopped" => event' \in {"starting", "failed"}
          /\ \E s \in Starts : task[s] = "created"]_everything

\* A request to stop is answered, whatever start is in flight: the task it waits
\* for does end (app.py:212-217).
StopIsAnswered == \A k \in Stops : stopping[k] # "none" ~> stopping[k] = "answered"

=============================================================================
