-------------------------------- MODULE Shm --------------------------------
(***************************************************************************)
(* The sweep of shared memory (engine/shm.py) that each start of an engine  *)
(* begins with, against engines, of this manager and of others, whose       *)
(* workers create a region, join the one that is there, clean up or crash.  *)
(* The sweep has a snapshot of nothing: it reads /proc one process after    *)
(* the other, lists the directory, and unlinks one path after the other,    *)
(* while everybody else goes on.                                            *)
(*                                                                         *)
(* A path belongs to an engine id.  A file is named by the worker that made *)
(* it, so that what is mapped and what is at the path can differ, as they   *)
(* do once it is unlinked.  The engine is modelled from shm.py:3-29.        *)
(***************************************************************************)
EXTENDS Naturals

CONSTANTS Managers, Engines, Workers, Ids,
          Owner,      \* the manager that starts an engine
          EngineOf,   \* the engine of a worker
          Id,         \* what its region's path is made of: that of a retry is the same
          None

ASSUME ShmAssumption ==
    /\ Owner \in [Engines -> Managers]
    /\ EngineOf \in [Workers -> Engines]
    /\ Id \in [Engines -> Ids]
    /\ None \notin Workers

\* Two managers' engines never share an id.
OwnIds == \A e, f \in Engines : Id[e] = Id[f] => Owner[e] = Owner[f]

Path(w) == Id[EngineOf[w]]

VARIABLES
    file,      \* what is at each path: the worker that made it, or None
    worker,    \* "none", "forked", "holding" a region, "gone"
    holds,     \* the file it has open and mapped
    engine,    \* "new", "sweeping" before it, "started"
    sweep,     \* where the sweep of each manager is
    unread,    \* the processes of the listing of /proc it has yet to read
    used,      \* the paths it has found in use
    doomed,    \* the paths it has yet to unlink
    before,    \* history: who was holding a region when it began
    thorough   \* history: each engine a manager started, it started when the ones
               \* before were gone altogether

processVars == <<worker, holds>>
sweepVars == <<sweep, unread, used, doomed, before, thorough>>
vars == <<file, processVars, engine, sweepVars>>

Lives(w) == worker[w] \in {"forked", "holding"}

TypeOK ==
    /\ file \in [Ids -> Workers \cup {None}]
    /\ worker \in [Workers -> {"none", "forked", "holding", "gone"}]
    /\ holds \in [Workers -> Workers \cup {None}]
    /\ engine \in [Engines -> {"new", "sweeping", "started"}]
    /\ sweep \in [Managers -> {"idle", "reading", "unlinking"}]
    /\ unread \in [Managers -> SUBSET Workers]
    /\ used \in [Managers -> SUBSET Ids]
    /\ doomed \in [Managers -> SUBSET Ids]
    /\ before \in [Managers -> SUBSET Workers]
    /\ thorough \in [Managers -> BOOLEAN]

Init ==
    /\ file = [i \in Ids |-> None]
    /\ worker = [w \in Workers |-> "none"]
    /\ holds = [w \in Workers |-> None]
    /\ engine = [e \in Engines |-> "new"]
    /\ sweep = [m \in Managers |-> "idle"]
    /\ unread = [m \in Managers |-> {}]
    /\ used = [m \in Managers |-> {}]
    /\ doomed = [m \in Managers |-> {}]
    /\ before = [m \in Managers |-> {}]
    /\ thorough = [m \in Managers |-> TRUE]

-----------------------------------------------------------------------------
(* The engines *)

Forks(w) ==
    /\ engine[EngineOf[w]] = "started" /\ worker[w] = "none"
    /\ \/ \A v \in Workers : EngineOf[v] = EngineOf[w] => worker[v] = "none"
       \/ \E v \in Workers : EngineOf[v] = EngineOf[w] /\ Lives(v)
    /\ worker' = [worker EXCEPT ![w] = "forked"]
    /\ UNCHANGED <<file, holds, engine, sweepVars>>

\* O_CREAT | O_EXCL, or the file that is there.
Opens(w) ==
    /\ worker[w] = "forked"
    /\ worker' = [worker EXCEPT ![w] = "holding"]
    /\ IF file[Path(w)] = None
       THEN /\ file' = [file EXCEPT ![Path(w)] = w]
            /\ holds' = [holds EXCEPT ![w] = w]
       ELSE /\ holds' = [holds EXCEPT ![w] = file[Path(w)]]
            /\ UNCHANGED file
    /\ UNCHANGED <<engine, sweepVars>>

\* One process crashes or is killed; what it made stays.
Crashes(w) ==
    /\ Lives(w)
    /\ worker' = [worker EXCEPT ![w] = "gone"]
    /\ holds' = [holds EXCEPT ![w] = None]
    /\ UNCHANGED <<file, engine, sweepVars>>

\* cleanup() of a graceful shutdown.
CleansUp(e) ==
    /\ \E w \in Workers : EngineOf[w] = e /\ worker[w] = "holding"
    /\ file' = [file EXCEPT ![Id[e]] = None]
    /\ worker' = [w \in Workers |-> IF EngineOf[w] = e THEN "gone" ELSE worker[w]]
    /\ holds' = [w \in Workers |-> IF EngineOf[w] = e THEN None ELSE holds[w]]
    /\ UNCHANGED <<engine, sweepVars>>

-----------------------------------------------------------------------------
(* The sweep: nothing else of the manager runs until it is over *)

Over(e) ==
    /\ \A w \in Workers : EngineOf[w] = e => ~Lives(w)
    /\ \E w \in Workers : EngineOf[w] = e /\ worker[w] = "gone"

\* start() refuses only while the last engine is starting, serving or being stopped:
\* one that timed out runs on, and what one that was stopped has forked may be there.
Begins(e) ==
    LET m == Owner[e]
        Last == {f \in Engines : Owner[f] = m /\ engine[f] = "started"}
    IN
    /\ engine[e] = "new" /\ sweep[m] = "idle"
    /\ thorough' = IF \A f \in Last : Over(f) THEN thorough
                   ELSE [thorough EXCEPT ![m] = FALSE]
    /\ engine' = [engine EXCEPT ![e] = "sweeping"]
    /\ sweep' = [sweep EXCEPT ![m] = "reading"]
    /\ unread' = [unread EXCEPT ![m] = {w \in Workers : Lives(w)}]
    /\ used' = [used EXCEPT ![m] = {}]
    /\ before' = [before EXCEPT ![m] = {w \in Workers : worker[w] = "holding"}]
    /\ UNCHANGED <<file, processVars, doomed>>

\* Mutant: only the process that made a region counts.
ReadsProcessBlindly(m, w) ==
    /\ sweep[m] = "reading" /\ w \in unread[m]
    /\ unread' = [unread EXCEPT ![m] = @ \ {w}]
    /\ used' = [used EXCEPT ![m] =
                   IF holds[w] = w /\ file[Path(w)] = w THEN @ \cup {Path(w)} ELSE @]
    /\ UNCHANGED <<file, processVars, engine, sweep, doomed, before, thorough>>

\* One process's maps and descriptors.  Of what has been unlinked they show
\* another name; of one that has exited there is nothing.
ReadsProcess(m, w) ==
    /\ sweep[m] = "reading" /\ w \in unread[m]
    /\ unread' = [unread EXCEPT ![m] = @ \ {w}]
    /\ used' = [used EXCEPT ![m] =
                   IF holds[w] # None /\ file[Path(w)] = holds[w]
                   THEN @ \cup {Path(w)} ELSE @]
    /\ UNCHANGED <<file, processVars, engine, sweep, doomed, before, thorough>>

\* Mutant: a path counts as used when somebody uses any.
ListsAll(m) ==
    /\ sweep[m] = "reading" /\ unread[m] = {}
    /\ doomed' = [doomed EXCEPT ![m] = {i \in Ids : file[i] # None /\ used[m] = {}}]
    /\ sweep' = [sweep EXCEPT ![m] = "unlinking"]
    /\ UNCHANGED <<file, processVars, engine, unread, used, before, thorough>>

\* The directory is read when all processes have been.
ListsRegions(m) ==
    /\ sweep[m] = "reading" /\ unread[m] = {}
    /\ doomed' = [doomed EXCEPT ![m] = {i \in Ids : file[i] # None} \ used[m]]
    /\ sweep' = [sweep EXCEPT ![m] = "unlinking"]
    /\ UNCHANGED <<file, processVars, engine, unread, used, before, thorough>>

\* Whatever is at the path by now; if nothing is, the error is passed over.
Unlinks(m, i) ==
    /\ sweep[m] = "unlinking" /\ i \in doomed[m]
    /\ file' = [file EXCEPT ![i] = None]
    /\ doomed' = [doomed EXCEPT ![m] = @ \ {i}]
    /\ UNCHANGED <<processVars, engine, sweep, unread, used, before, thorough>>

\* start() goes on, and spawns the engine.
SweepEnds(e) ==
    LET m == Owner[e] IN
    /\ engine[e] = "sweeping" /\ sweep[m] = "unlinking" /\ doomed[m] = {}
    /\ engine' = [engine EXCEPT ![e] = "started"]
    /\ sweep' = [sweep EXCEPT ![m] = "idle"]
    /\ UNCHANGED <<file, processVars, unread, used, doomed, before, thorough>>

Next ==
    \/ \E w \in Workers : Forks(w) \/ Opens(w) \/ Crashes(w)
    \/ \E e \in Engines : CleansUp(e) \/ Begins(e) \/ SweepEnds(e)
    \/ \E m \in Managers :
          \/ ListsRegions(m)
          \/ \E w \in Workers : ReadsProcess(m, w)
          \/ \E i \in Ids : Unlinks(m, i)

Spec == Init /\ [][Next]_vars

-----------------------------------------------------------------------------
(***************************************************************************)
(* A sweep never takes a region from a worker that had it when the sweep    *)
(* began, whoever joins, crashes, cleans up or sweeps meanwhile             *)
(* (shm.py:24-26).  A region that is opened after its worker was read, or   *)
(* by a worker born since, is not protected.                                *)
(***************************************************************************)
HeldStays ==
    [][\A m \in Managers, i \in Ids : Unlinks(m, i) =>
          \A w \in before[m] : ~(worker[w] = "holding" /\ file[i] # None /\ holds[w] = file[i])]_vars

\* No engine maps what another engine has made, of the same configuration or not:
\* a retry does not serve from the memory of the engine that crashed
\* (shm.py:13-16).  Of a manager none of whose engines has left a process behind
\* at the next start, and of managers that share no ids.
NoDeadMemory ==
    \A w \in Workers : thorough[Owner[EngineOf[w]]] /\ holds[w] # None =>
        EngineOf[holds[w]] = EngineOf[w]

=============================================================================
