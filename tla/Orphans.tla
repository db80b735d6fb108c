------------------------------ MODULE Orphans ------------------------------
(***************************************************************************)
(* engine/orphans.py: a manager that comes up looks through /proc for the   *)
(* engines that managers of the same store left behind, and kills them,     *)
(* while other managers may be up, launching, stopping or dying.            *)
(*                                                                         *)
(* An engine is two processes of one session and group: the leader its      *)
(* manager launched and a core that the leader forks; both carry the mark.  *)
(* A process without a mark is never looked at twice and is left out.  The  *)
(* look at one process (its environment, its parent, whether that is alive) *)
(* is one step; pids are not reused while they are looked at.  SIGKILL is    *)
(* sent in one step and the process is gone in a later one.                 *)
(***************************************************************************)
EXTENDS Naturals

CONSTANTS Managers, Engines,
          Owner,        \* the store each manager uses
          MayRead,      \* whose engines' environments a manager may read
          MayKill,      \* whose engines it may signal
          PidOne,       \* the manager that is pid 1 of its namespace, or None
          Subreaper,    \* whether a living subreaper adopts orphans, not pid 1
          None

ASSUME OrphansAssumption ==
    /\ None \notin Managers
    /\ MayRead \subseteq Managers \X Engines
    /\ MayKill \subseteq Managers \X Engines
    /\ PidOne \in Managers \cup {None}
    /\ Subreaper \in BOOLEAN

VARIABLES
    manager,    \* where each manager is
    launchedBy, \* the manager that launched the engine, or None
    alive,      \* the processes that run
    killed,     \* those of them that SIGKILL is on its way to
    listed,     \* what is left of manager m's listing of /proc
    found,      \* manager m: the orphans found and not yet killed
    spared      \* the engines whose manager was there when m made its listing

vars == <<manager, launchedBy, alive, killed, listed, found, spared>>

Process == Engines \X {"leader", "core"}
Leader(e) == <<e, "leader">>
Core(e) == <<e, "core">>
Group(e) == {Leader(e), Core(e)}

TypeOK ==
    /\ manager \in [Managers -> {"off", "looking", "up", "gone"}]
    /\ launchedBy \in [Engines -> Managers \cup {None}]
    /\ alive \subseteq Process
    /\ killed \subseteq alive
    /\ \A p \in alive : launchedBy[p[1]] # None
    /\ listed \in [Managers -> SUBSET Process]
    /\ found \in [Managers -> SUBSET Process]
    /\ spared \in [Managers -> SUBSET Engines]

Init ==
    /\ manager = [m \in Managers |-> "off"]
    /\ launchedBy = [e \in Engines |-> None]
    /\ alive = {}
    /\ killed = {}
    /\ listed = [m \in Managers |-> {}]
    /\ found = [m \in Managers |-> {}]
    /\ spared = [m \in Managers |-> {}]

-----------------------------------------------------------------------------
Supervised(e) == launchedBy[e] # None /\ manager[launchedBy[e]] # "gone"

\* Whether the process that created it, a manager or a leader, is still there.
HasParent(p) == IF p = Core(p[1]) THEN Leader(p[1]) \in alive ELSE Supervised(p[1])

\* Mutant: the mark is enough.
Marked(p) == TRUE
\* find(): the parent is alive in any case, and only pid 1 tells an orphan: the
\* one that adopts what has lost its parent, unless a subreaper does, and, in a
\* container, the manager that runs as its first process.
Orphaned(p) ==
    IF HasParent(p) THEN p = Leader(p[1]) /\ launchedBy[p[1]] = PidOne
                    ELSE ~Subreaper

Marker(p) == Owner[launchedBy[p[1]]]

-----------------------------------------------------------------------------
(* reap(owner), in Manager.__init__ *)
Boots(m) ==
    /\ manager[m] = "off"
    /\ manager' = [manager EXCEPT ![m] = "looking"]
    /\ listed' = [listed EXCEPT ![m] = alive]
    /\ spared' = [spared EXCEPT ![m] =
           {e \in Engines : launchedBy[e] = None \/ Supervised(e)}]
    /\ UNCHANGED <<launchedBy, alive, killed, found>>

Looks(m, p) ==
    /\ manager[m] = "looking"
    /\ p \in listed[m]
    /\ listed' = [listed EXCEPT ![m] = @ \ {p}]
    /\ found' = IF p \in alive /\ <<m, p[1]>> \in MayRead
                     /\ Marker(p) = Owner[m] /\ Orphaned(p)
                THEN [found EXCEPT ![m] = @ \cup {p}] ELSE found
    /\ UNCHANGED <<manager, launchedBy, alive, killed, spared>>

\* Mutant: SIGTERM, of which a process may make what it likes.
ReapsPolitely(m, p) ==
    /\ manager[m] = "looking" /\ listed[m] = {}
    /\ p \in found[m]
    /\ found' = [found EXCEPT ![m] = @ \ {p}]
    /\ UNCHANGED <<manager, launchedBy, alive, killed, listed, spared>>

\* killpg(getpgid(pid)), and if that fails kill(pid), which fails too: the process
\* is gone, or not the manager's to signal.  Either way it goes on, and waits for
\* nothing.
Reaps(m, p) ==
    /\ manager[m] = "looking" /\ listed[m] = {}
    /\ p \in found[m]
    /\ found' = [found EXCEPT ![m] = @ \ {p}]
    /\ \/ /\ p \in alive /\ <<m, p[1]>> \in MayKill
          /\ killed' = killed \cup (Group(p[1]) \cap alive)
       \/ /\ p \notin alive \/ <<m, p[1]>> \notin MayKill
          /\ UNCHANGED killed
    /\ UNCHANGED <<manager, launchedBy, alive, listed, spared>>

ComesUp(m) ==
    /\ manager[m] = "looking" /\ listed[m] = {} /\ found[m] = {}
    /\ manager' = [manager EXCEPT ![m] = "up"]
    /\ UNCHANGED <<launchedBy, alive, killed, listed, found, spared>>

-----------------------------------------------------------------------------
(* The managers and engines around it *)

\* Each manager launches into a session of the engine's own, one at a time.
Launches(m, e) ==
    /\ manager[m] = "up"
    /\ launchedBy[e] = None
    /\ \A f \in Engines : launchedBy[f] = m => Group(f) \cap alive = {}
    /\ launchedBy' = [launchedBy EXCEPT ![e] = m]
    /\ alive' = alive \cup {Leader(e)}
    /\ UNCHANGED <<manager, killed, listed, found, spared>>

Forks(e) ==
    /\ Leader(e) \in alive \ killed
    /\ alive' = alive \cup {Core(e)}
    /\ UNCHANGED <<manager, launchedBy, killed, listed, found, spared>>

\* By itself, or of the signal that is on its way to it.
Exits(p) ==
    /\ p \in alive
    /\ alive' = alive \ {p}
    /\ killed' = killed \ {p}
    /\ UNCHANGED <<manager, launchedBy, listed, found, spared>>

\* Supervisor.stop(): the leader and then the rest of the group (Exits has the
\* leader go first).
StopsEngine(e) ==
    /\ launchedBy[e] # None /\ manager[launchedBy[e]] = "up"
    /\ alive' = alive \ Group(e)
    /\ killed' = killed \ Group(e)
    /\ UNCHANGED <<manager, launchedBy, listed, found, spared>>

\* Killed, or stopped in order once its engine is; pid 1 takes everything along.
Dies(m) ==
    /\ manager[m] \in {"looking", "up"}
    /\ IF m = PidOne
       THEN manager' = [n \in Managers |-> "gone"] /\ alive' = {} /\ killed' = {}
       ELSE manager' = [manager EXCEPT ![m] = "gone"] /\ UNCHANGED <<alive, killed>>
    /\ UNCHANGED <<launchedBy, listed, found, spared>>

Next ==
    \/ \E m \in Managers :
          \/ Boots(m) \/ ComesUp(m) \/ Dies(m)
          \/ \E p \in Process : Looks(m, p) \/ Reaps(m, p)
          \/ \E e \in Engines : Launches(m, e)
    \/ \E e \in Engines : Forks(e) \/ StopsEngine(e)
    \/ \E p \in Process : Exits(p)

Spec == Init /\ [][Next]_vars

-----------------------------------------------------------------------------
\* "Reap a marked engine only when its parent is gone" (orphans.py:18): what a
\* manager comes to kill is an engine of its own store, and if it still has the
\* process its manager launched, that manager is gone.
SupervisedIsSpared ==
    [][\A m \in Managers, e \in Engines :
          found'[m] # found[m] /\ Leader(e) \in killed' \ killed =>
              /\ Owner[launchedBy[e]] = Owner[m]
              /\ manager[launchedBy[e]] = "gone"]_vars

\* An engine that manager m may read of and signal, and that had lost its manager,
\* one of the same store, when m looked.
LeftTo(m, e) ==
    /\ e \notin spared[m] /\ Owner[launchedBy[e]] = Owner[m]
    /\ <<m, e>> \in MayRead \cap MayKill

\* A manager that is up has reclaimed every engine that was left to it: the process
\* that was launched is gone, or SIGKILL is on its way to it (orphans.py:94-112).
BootClears ==
    \A m \in Managers, e \in Engines :
        manager[m] = "up" /\ LeftTo(m, e) /\ Leader(e) \in alive => Leader(e) \in killed

=============================================================================
