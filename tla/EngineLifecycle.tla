-------------------------- MODULE EngineLifecycle --------------------------
(***************************************************************************)
(* What the supervisor promises about the engine, as its `state` property   *)
(* and the process table show it (engine/state.py, design.md): a phase that *)
(* only moves on, one engine process at a time, and none when it is over.   *)
(***************************************************************************)
CONSTANT Engines

VARIABLES phase,    \* "stopped", "starting", "ready", "failed" or "stopping"
          engines   \* those that have a main process

vars == <<phase, engines>>

Init == phase = "stopped" /\ engines = {}

\* The engine is a fresh process, or cannot be launched.
Begin ==
    /\ phase = "stopped" /\ engines = {}
    /\ phase' = "starting"
    /\ \E e \in Engines : engines' \in {{}, {e}}

Serve == phase = "starting" /\ phase' = "ready" /\ UNCHANGED engines

\* A startup failure, or the death of a ready engine.
Fail == phase \in {"starting", "ready"} /\ phase' = "failed" /\ UNCHANGED engines

Ask == phase \in {"starting", "ready"} /\ phase' = "stopping" /\ UNCHANGED engines

\* The process goes, in whatever phase, and without a word.
End ==
    /\ \E e \in engines : engines' = engines \ {e}
    /\ UNCHANGED phase

\* Nothing is over while there is a process.
Finish ==
    /\ phase # "stopped" /\ engines = {}
    /\ phase' = "stopped"
    /\ UNCHANGED engines

Next == Begin \/ Serve \/ Fail \/ Ask \/ End \/ Finish

Spec == Init /\ [][Next]_vars

=============================================================================
