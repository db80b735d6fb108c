---------------------------- MODULE ProcessGroup ----------------------------
(***************************************************************************)
(* SubprocessHandle of vllm_untwisted/engine/runtime.py: stop() asks an     *)
(* engine's process group to go away, insists, and waits for the group.     *)
(*                                                                         *)
(* The group is a leader and the processes it and they fork.  A child that  *)
(* exits stays a zombie of the group until its parent, or init once the     *)
(* leader is gone, collects it.  The leader's exit reaches Python in two    *)
(* steps: the child watcher's waitpid (from then on the kernel knows no     *)
(* such pid), then `returncode`.                                            *)
(*                                                                         *)
(* Time is counted in turns of _drain_group's loop (0.05 s in the code); a  *)
(* timer that is due goes off before the next tick.                         *)
(***************************************************************************)
EXTENDS Integers, FiniteSets

CONSTANTS Leader,     \* the process that was spawned, a session of its own
          Children,   \* the processes that may be forked under it
          Stubborn,   \* those that do not exit on SIGTERM
          Stops,      \* the invocations of stop()
          Grace       \* its argument, in turns

Members == {Leader} \cup Children

ASSUME ProcessGroupAssumption ==
    /\ Leader \notin Children
    /\ Stubborn \subseteq Members
    /\ Grace \in Nat

VARIABLES
    proc,       \* the kernel's view of each member
    signal,     \* the strongest signal a member has been sent
    returncode, \* whether proc.returncode is set
    pgid,       \* whether self._pgid was captured
    pc,         \* where stop k is suspended
    elapsed,    \* turns since the current wait of stop k began, up to Grace
    escalated,  \* stop k: `escalated`
    polled      \* stop k: its drain loop has had its turn at this time

procVars == <<proc, signal, returncode, pgid>>
stopVars == <<pc, elapsed, escalated, polled>>
vars == <<procVars, stopVars>>

TypeOK ==
    /\ proc \in [Members -> {"absent", "running", "zombie", "gone"}]
    /\ signal \in [Members -> {"none", "term", "kill"}]
    /\ returncode \in BOOLEAN
    /\ pgid \in BOOLEAN
    /\ pc \in [Stops -> {"idle", "waiting", "insisting", "draining", "done"}]
    /\ elapsed \in [Stops -> 0..Grace]
    /\ escalated \in [Stops -> BOOLEAN]
    /\ polled \in [Stops -> BOOLEAN]

\* The handle is made when the spawn returns: the leader runs, or it has exited
\* and perhaps been waited for already, in which case getpgid finds nothing.
Init ==
    /\ \E l \in {"running", "zombie", "gone"} :
          /\ proc = [m \in Members |-> IF m = Leader THEN l ELSE "absent"]
          /\ pgid = (l # "gone")
    /\ signal = [m \in Members |-> "none"]
    /\ returncode = FALSE
    /\ pc = [k \in Stops |-> "idle"]
    /\ elapsed = [k \in Stops |-> 0]
    /\ escalated = [k \in Stops |-> FALSE]
    /\ polled = [k \in Stops |-> FALSE]

-----------------------------------------------------------------------------
(* What the operating system answers. *)

\* os.killpg(pgid, 0) finds somebody, a zombie included.
Exists(m) == proc[m] \in {"running", "zombie"}
GroupExists == \E m \in Members : Exists(m)

\* killpg(getpgid(leader)): getpgid knows a zombie, but not a process that has
\* been waited for; send_signal, the fallback, finds that one gone as well.
\* Mutant: terminate the process, not the group.
SignalLeader(sig) ==
    signal' = [m \in Members |->
        IF m = Leader /\ Exists(m) /\ signal[m] # "kill" THEN sig ELSE signal[m]]
SignalGroup(sig) ==
    signal' = [m \in Members |->
        IF Exists(Leader) /\ Exists(m) /\ signal[m] # "kill" THEN sig ELSE signal[m]]

-----------------------------------------------------------------------------
(* stop() *)

StopReturnsAtOnce(k) ==
    /\ pc[k] = "idle"
    /\ returncode
    /\ pc' = [pc EXCEPT ![k] = "done"]
    /\ UNCHANGED <<procVars, elapsed, escalated, polled>>

StopAsks(k) ==
    /\ pc[k] = "idle"
    /\ ~returncode
    /\ SignalGroup("term")
    /\ pc' = [pc EXCEPT ![k] = "waiting"]
    /\ elapsed' = [elapsed EXCEPT ![k] = 0]
    /\ UNCHANGED <<proc, returncode, pgid, escalated, polled>>

\* proc.wait() returns, within the grace or after the insistence: _drain_group.
LeaderWaited(k) ==
    /\ pc[k] \in {"waiting", "insisting"}
    /\ returncode
    /\ pc' = [pc EXCEPT ![k] = "draining"]
    /\ elapsed' = [elapsed EXCEPT ![k] = 0]
    /\ polled' = [polled EXCEPT ![k] = FALSE]
    /\ UNCHANGED <<procVars, escalated>>

\* Mutant: no second wait() after the insistence.
GraceExpiresAndDrains(k) ==
    /\ pc[k] = "waiting"
    /\ ~returncode
    /\ elapsed[k] = Grace
    /\ SignalGroup("kill")
    /\ pc' = [pc EXCEPT ![k] = "draining"]
    /\ UNCHANGED <<proc, returncode, pgid, elapsed, escalated, polled>>
GraceExpires(k) ==
    /\ pc[k] = "waiting"
    /\ ~returncode
    /\ elapsed[k] = Grace
    /\ SignalGroup("kill")
    /\ pc' = [pc EXCEPT ![k] = "insisting"]
    /\ UNCHANGED <<proc, returncode, pgid, elapsed, escalated, polled>>

\* No group id, nobody left, or no time left.
\* Mutant: no deadline for the drain.
DrainEndsWithGroup(k) ==
    /\ pc[k] = "draining" /\ ~polled[k]
    /\ ~pgid \/ ~GroupExists
    /\ pc' = [pc EXCEPT ![k] = "done"]
    /\ UNCHANGED <<procVars, elapsed, escalated, polled>>
DrainEnds(k) ==
    /\ pc[k] = "draining" /\ ~polled[k]
    /\ ~pgid \/ ~GroupExists \/ elapsed[k] = Grace
    /\ pc' = [pc EXCEPT ![k] = "done"]
    /\ UNCHANGED <<procVars, elapsed, escalated, polled>>

DrainTurn(k) ==
    /\ pc[k] = "draining" /\ ~polled[k]
    /\ pgid /\ GroupExists /\ elapsed[k] < Grace
    /\ IF ~escalated[k] /\ 2 * elapsed[k] >= Grace
       THEN SignalGroup("kill") /\ escalated' = [escalated EXCEPT ![k] = TRUE]
       ELSE UNCHANGED <<signal, escalated>>
    /\ polled' = [polled EXCEPT ![k] = TRUE]
    /\ UNCHANGED <<proc, returncode, pgid, pc, elapsed>>

\* Whose timer runs: a wait with a timeout, a drain loop asleep.
Timed(k) == pc[k] \in {"waiting", "draining"}

Tick ==
    /\ \E k \in Stops : Timed(k)
    /\ \A k \in Stops :
          /\ pc[k] = "waiting" => elapsed[k] < Grace
          /\ pc[k] = "draining" => polled[k]
    /\ elapsed' = [k \in Stops |-> IF Timed(k) THEN elapsed[k] + 1 ELSE elapsed[k]]
    /\ polled' = [k \in Stops |-> FALSE]
    /\ UNCHANGED <<procVars, pc, escalated>>

-----------------------------------------------------------------------------
(* The processes of the group. *)

Forks(m) ==
    /\ \E p \in Members : proc[p] = "running" /\ signal[p] # "kill"
    /\ m \in Children /\ proc[m] = "absent"
    /\ proc' = [proc EXCEPT ![m] = "running"]
    /\ UNCHANGED <<signal, returncode, pgid, stopVars>>

Exit(m) ==
    /\ proc[m] = "running"
    /\ proc' = [proc EXCEPT ![m] = "zombie"]
    /\ UNCHANGED <<signal, returncode, pgid, stopVars>>

\* By itself, or because it chose to on SIGTERM.
ExitsByItself(m) == (m \notin Stubborn \/ signal[m] # "term") /\ Exit(m)
IsKilled(m) == signal[m] = "kill" /\ Exit(m)

\* A parent that is alive may collect its child or not; init always does.
Collected(m) ==
    /\ proc[m] = "zombie"
    /\ proc' = [proc EXCEPT ![m] = "gone"]
    /\ UNCHANGED <<signal, returncode, pgid, stopVars>>

ReturncodeSet ==
    /\ proc[Leader] = "gone" /\ ~returncode
    /\ returncode' = TRUE
    /\ UNCHANGED <<proc, signal, pgid, stopVars>>

StopStep(k) == LeaderWaited(k) \/ GraceExpires(k) \/ DrainEnds(k) \/ DrainTurn(k)

Next ==
    \/ \E k \in Stops : StopReturnsAtOnce(k) \/ StopAsks(k) \/ StopStep(k)
    \/ \E m \in Members : Forks(m) \/ ExitsByItself(m) \/ IsKilled(m) \/ Collected(m)
    \/ ReturncodeSet
    \/ Tick

Spec == Init /\ [][Next]_vars

(***************************************************************************)
(* Fairness: time passes, the event loop runs what is due, the kernel kills *)
(* what it was told to kill, the child watcher collects the leader, and     *)
(* init collects what the leader left.  No process need exit by itself.     *)
(***************************************************************************)
Fairness ==
    /\ WF_vars(Tick)
    /\ WF_vars(ReturncodeSet)
    /\ WF_vars(Collected(Leader))
    /\ \A k \in Stops : WF_vars(StopStep(k))
    /\ \A m \in Members :
          /\ WF_vars(IsKilled(m))
          /\ WF_vars(Collected(m) /\ proc[Leader] = "gone")

FairSpec == Spec /\ Fairness

-----------------------------------------------------------------------------
\* A stop that drains or has returned has seen the leader collected: it reports
\* an exit code, never None (runtime.py:69-86).
LeaderGone ==
    \A k \in Stops : pc[k] \in {"draining", "done"} => returncode /\ proc[Leader] = "gone"

\* stop() comes back, whoever ignores it (runtime.py:69-104).
StopReturns == \A k \in Stops : pc[k] # "idle" ~> pc[k] = "done"

\* A leader that has to be killed takes its whole group with it: nothing forked
\* while the group was being asked slips through (runtime.py:72-81).
KilledLeaderLeavesNobody == signal[Leader] = "kill" ~> ~GroupExists

=============================================================================
