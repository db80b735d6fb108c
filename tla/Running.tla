------------------------------ MODULE Running ------------------------------
(***************************************************************************)
(* `async with running(config, supervisor)` of engine/supervisor.py: the    *)
(* context named c calls start() once, and stop() once it is left, whether  *)
(* the start returned, raised, was refused or was cancelled.  Invocations   *)
(* of start() and stop() carry the name of their context, so Stops is       *)
(* Starts.                                                                  *)
(***************************************************************************)
EXTENDS Supervisor

CONSTANT Overlapping    \* whether contexts that share a supervisor may overlap

ASSUME RunningAssumption ==
    /\ Stops = Starts
    /\ Overlapping \in BOOLEAN

Outside(c) == startPc[c] = "idle"
Left(c) == stopPc[c] \in StopEnded
Inside(c) == ~Outside(c) /\ ~Left(c)

\* Entering: the `try`, and start().
Enter(c) ==
    /\ Overlapping \/ \A d \in Starts : ~Inside(d)
    /\ StartCall(c)

\* The `finally`: stop(), after the body if the start returned a record.
Exit(c) ==
    /\ startPc[c] \in StartEnded
    /\ StopCall(c)

RunningNext ==
    \/ Internal
    \/ \E c \in Starts :
          Enter(c) \/ Exit(c) \/ StartCancelled(c) \/ StopCancelled(c)

RunningSpec == Init /\ [][RunningNext]_vars

\* The body of a context may last for ever: Exit is owed by nobody.
FairRunningSpec == RunningSpec /\ Fairness

-----------------------------------------------------------------------------
\* Nothing of the supervisor's work is under way for the context.
LiveTask(s) == pumpTask[s] \in TaskLive \/ watchTask[s] \in TaskLive

(***************************************************************************)
(* Contexts that do not overlap never lose a process: an engine whose main  *)
(* process is there is the one self._handle stands for, where a stop() can  *)
(* still reach it, or is being spawned by a start in progress.              *)
(* supervisor.py:252-255, "make sure it is gone afterwards".                *)
(***************************************************************************)
NoStrayEngine ==
    \A s \in Starts : leader[s] \in {"running", "exited"} =>
        handle = s \/ startPc[s] = "spawning"

\* A context that was left through a completed stop() leaves no engine and no
\* log pump or liveness watch of its own behind (supervisor.py:236-245).
GoneAfterwards ==
    \A c \in Starts : stopPc[c] = "done" =>
        leader[c] \in {"none", "reaped"} /\ ~LiveTask(c)

\* An engine reported READY has its liveness watched: the watch of its record
\* is pending, on the pump that reads that very engine, or has just been
\* overtaken by the pump's end (supervisor.py:183-191 and 218-234).
ReadyIsWatched ==
    \A s \in Starts : state[s] = "ready" =>
        /\ record = s /\ handle = s
        /\ \/ watchTask[s] = "created" /\ pump = s
           \/ watchTask[s] = "awaiting" /\ watchOn[s] = s
        /\ pumpTask[s] = "reading" => pumpOn[s] = s
        /\ pumpTask[s] \notin {"failed", "cancelled"}

(***************************************************************************)
(* To a client of contexts that do not overlap, all this is a simple life:  *)
(* one engine, whose record moves on from STARTING and never back, that is  *)
(* never reported STOPPED, nor another begun, while it has a process.  A    *)
(* late health answer or end of output revives nothing                      *)
(* (supervisor.py:104-153, 169-234).                                        *)
(***************************************************************************)
Present == {s \in Starts : leader[s] \in {"running", "exited"}}

Lifecycle == INSTANCE EngineLifecycle
             WITH Engines <- Starts, phase <- SupervisorState, engines <- Present

ImplementsLifecycle == Lifecycle!Spec

\* With nobody inside and the last stop() completed, the supervisor takes a new
\* start.  supervisor.py:108 refuses one with "stop it first".
IdleIsFree ==
    (\A c \in Starts : Outside(c) \/ stopPc[c] = "done") => ~Busy

\* A ready engine whose main process is gone is reported as a failure, or
\* stopped (supervisor.py:219), once no child of it holds its output open: the
\* watch waits for the end of the output, not for the process (225-234).
SilenceIsNoticed ==
    \A s \in Starts :
        state[s] = "ready" /\ leader[s] = "reaped" /\ child[s] # "running"
            ~> state[s] # "ready"

=============================================================================
