------------------------------- MODULE CliRun -------------------------------
(***************************************************************************)
(* `untwisted run` of vllm_untwisted/cli.py, the one client of the API of   *)
(* module Api: it posts a start, watches the event stream until the engine  *)
(* settles or it is interrupted, and posts a stop.  Without --url the       *)
(* server is its own (serve.py) and is shut down before the command exits.  *)
(*                                                                         *)
(* The start is TheStart; the stop it posts is TheStop; that of its own     *)
(* server's lifespan is TheShutdown.                                        *)
(*                                                                         *)
(* Abstracted: what is printed; engine.log events, which the watch passes   *)
(* over; the timeouts.  The stop it posts is given 60 s, where a stop takes *)
(* its grace of 10 s, the drain of as many and no more; the server is given *)
(* 10 s to exit, by when its lifespan has nothing left to stop.             *)
(***************************************************************************)
EXTENDS Api

CONSTANTS TheStart, TheStop, TheShutdown

\* The command is a patient client: it makes one start, and waits for it.
ASSUME CliAssumption ==
    /\ Starts = {TheStart} /\ Stops = {TheStop, TheShutdown}
    /\ TheStop # TheShutdown /\ Shutdowns = {TheShutdown}
    /\ Patient

VARIABLES
    options,    \* the flags of the command, and whether the server is its own
    cli,        \* how far the command has got
    served,     \* _watch_engine's `served`
    outcome,    \* the exit code
    interrupted,    \* whether SIGINT or SIGTERM came
    inbox       \* the engine.state events in its stream, not yet read

cliVars == <<options, cli, served, outcome, interrupted, inbox>>
cliLocals == <<served, outcome, interrupted>>
world == <<everything, cliVars>>

\* --detach is refused where the server is the command's own.
Options == {o \in [embedded : BOOLEAN, once : BOOLEAN, detach : BOOLEAN] :
                ~(o.embedded /\ o.detach)}
CliPc == {"posting", "watching", "subscribed", "stopping", "unanswered",
          "closing", "exiting", "exited", "killed"}

CliTypeOK ==
    /\ TypeOK /\ ManagerTypeOK /\ ApiTypeOK
    /\ options \in Options
    /\ cli \in CliPc
    /\ served \in BOOLEAN
    /\ outcome \in 0..1
    /\ interrupted \in BOOLEAN
    /\ inbox \in Seq(EngineState)

CliInit ==
    /\ ApiInit
    /\ options \in Options
    /\ cli = "posting"
    /\ served = FALSE
    /\ outcome = 0
    /\ interrupted = FALSE
    /\ inbox = <<>>

\* EventBus: who is subscribed when an event is published receives it.
Delivered ==
    inbox' = IF cli = "subscribed" /\ event' # event THEN Append(inbox, event') ELSE inbox

-----------------------------------------------------------------------------
PostsStart ==
    /\ cli = "posting"
    /\ \/ StartAccepted(TheStart) /\ cli' = "watching" /\ UNCHANGED outcome
       \/ /\ StartMissing(TheStart) \/ StartConflicts(TheStart)
          /\ cli' = "closing" /\ outcome' = 1
    /\ UNCHANGED <<options, served, interrupted, inbox>>

\* The stream is asked for once the start has been answered.
Subscribes ==
    /\ cli = "watching"
    /\ cli' = "subscribed"
    /\ UNCHANGED <<everything, options, cliLocals, inbox>>

\* Mutant: an interrupt leaves the engine as it is.
SettlesInterrupted(code) ==
    /\ outcome' = code
    /\ cli' = IF interrupted' \/ (options.detach /\ code = 0) THEN "closing" ELSE "stopping"

\* The `finally`: always a stop, but after a detached success.
Settles(code) ==
    /\ outcome' = code
    /\ cli' = IF options.detach /\ code = 0 THEN "closing" ELSE "stopping"

\* Mutant: the first event settles it.
ReadsAnything ==
    /\ cli = "subscribed" /\ inbox # <<>>
    /\ inbox' = Tail(inbox)
    /\ served' = (Head(inbox) = "ready")
    /\ Settles(0)
    /\ UNCHANGED <<everything, options, interrupted>>

ReadsEvent ==
    /\ cli = "subscribed" /\ inbox # <<>>
    /\ inbox' = Tail(inbox)
    /\ \/ /\ Head(inbox) = "ready"
          /\ served' = TRUE
          /\ IF options.once \/ options.detach THEN Settles(0) ELSE UNCHANGED <<cli, outcome>>
       \/ /\ Head(inbox) \in {"failed", "stopped"}
          /\ Settles(IF served THEN 0 ELSE 1)
          /\ UNCHANGED served
       \/ /\ Head(inbox) \in {"starting", "stopping"}
          /\ UNCHANGED <<served, cli, outcome>>
    /\ UNCHANGED <<everything, options, interrupted>>

Interrupted ==
    /\ cli \in {"watching", "subscribed"}
    /\ interrupted' = TRUE
    /\ Settles(0)
    /\ UNCHANGED <<everything, options, served, inbox>>

\* The handlers are gone before the stop is posted, and with them what made an
\* interrupt of SIGTERM: one that comes now ends the process where it is.
Killed ==
    /\ cli \in {"stopping", "unanswered", "closing", "exiting"}
    /\ cli' = "killed"
    /\ UNCHANGED <<everything, options, cliLocals, inbox>>

PostsStop ==
    /\ cli = "stopping"
    /\ stopping[TheStop] = "none"
    /\ StopCancelsStart(TheStop) \/ StopRequested(TheStop)
    /\ cli' = "unanswered"
    /\ UNCHANGED <<options, cliLocals, inbox>>

\* Mutant: the stop is over when the stream says so.
StopAnsweredByEvent ==
    /\ cli = "unanswered"
    /\ inbox # <<>> /\ Head(inbox) = "stopped"
    /\ cli' = "closing"
    /\ UNCHANGED <<everything, options, cliLocals, inbox>>

StopAnswered ==
    /\ cli = "unanswered"
    /\ stopping[TheStop] = "answered"
    /\ cli' = "closing"
    /\ UNCHANGED <<everything, options, cliLocals, inbox>>

\* Leaving running_server: the lifespan's stop, and the end of the loop.
Closes ==
    \/ /\ cli = "closing" /\ ~options.embedded
       /\ cli' = "exited"
       /\ UNCHANGED everything
    \/ /\ cli = "closing" /\ options.embedded
       /\ stopping[TheShutdown] = "none"
       /\ StopRequested(TheShutdown)
       /\ cli' = "exiting"
    \/ /\ cli = "exiting"
       /\ stopping[TheShutdown] = "answered" /\ ~TasksPending
       /\ cli' = "exited"
       /\ UNCHANGED everything

CliStep ==
    \/ PostsStart \/ Subscribes \/ ReadsEvent \/ PostsStop \/ StopAnswered
    \/ Closes /\ UNCHANGED <<options, cliLocals, inbox>>

\* Of a server that was killed with the command the model follows nothing any more:
\* what it leaves is what module Orphans begins with.
ServerUp == ~(options.embedded /\ cli = "killed")

ServerStep ==
    /\ ServerUp
    /\ \/ GoStep(TheStart)
       \/ \E k \in Stops : StopRequestStep(k) \/ LoopEnds(k)
    /\ Delivered
    /\ UNCHANGED <<options, cli, cliLocals>>

Outside == ServerUp /\ Background(TheStart) /\ UNCHANGED <<apiVars, cliVars>>

CliNext ==
    \/ CliStep \/ Interrupted \/ Killed \/ ServerStep \/ Outside
    \/ \E c \in Configs : Delete(c) /\ UNCHANGED <<apiVars, cliVars>>

CliSpec == CliInit /\ [][CliNext]_world

FairCliSpec ==
    /\ CliSpec
    /\ WF_world(CliStep)
    /\ WF_world(ServerStep)
    /\ WF_world(/\ ServerUp
                /\ EngineReaped(TheStart) \/ EngineKilled(TheStart)
                /\ UNCHANGED <<managerVars, apiVars, cliVars>>)
    /\ WF_world(/\ ServerUp
                /\ PumpProgress(TheStart)
                /\ UNCHANGED <<managerVars, apiVars, cliVars>>)
    /\ WF_world(/\ ServerUp
                /\ WatchStep(TheStart)
                /\ UNCHANGED <<managerVars, apiVars, cliVars>>)

-----------------------------------------------------------------------------
\* A command that has come to its end leaves no engine, an interrupt in the middle
\* of the start included, but where it was told to detach: then the engine is left
\* if it was ready, and also, ready or not, if the command was interrupted, whose
\* outcome is 0 as well (cli.py:292-310).
NothingLeftBehind ==
    cli = "exited" /\ ~(options.detach /\ (served \/ interrupted))
        => leader[TheStart] \in {"none", "reaped"}

\* Exit code 0 says that the engine was ready, unless the command was interrupted
\* (cli.py:233-256, 300).
ExitCodeIsTrue ==
    cli = "exited" /\ outcome = 0 => readyAt[TheStart] \/ interrupted

\* An interrupt ends the command, by itself or where a second signal kills it
\* (cli.py:294-310).
InterruptEndsIt == interrupted ~> cli \in {"exited", "killed"}

=============================================================================
