------------------------------ MODULE Manager ------------------------------
(***************************************************************************)
(* The Manager of vllm_untwisted/manager.py over the Supervisor, and the    *)
(* run ledger of vllm_untwisted/store/db.py it writes to.                   *)
(*                                                                         *)
(* Start s starts configuration ConfigOf[s] and, once the supervisor's      *)
(* start() has returned, records run s.  Nothing is awaited between that    *)
(* return and the insertion, nor between the return of the supervisor's     *)
(* stop() and the update, so a manager's step is a supervisor's step with   *)
(* what is written to the ledger.  Store methods hold the store's lock:     *)
(* each is one step, whichever thread calls it.                             *)
(*                                                                         *)
(* Abstracted: facts, fingerprint, timings, and the status that is read off *)
(* the rows; a name is resolved to the configuration's id by the caller.    *)
(***************************************************************************)
EXTENDS Supervisor, Sequences

CONSTANTS Configs,      \* the ids of stored configurations
          ConfigOf      \* the configuration each start is for

ASSUME ManagerAssumption == ConfigOf \in [Starts -> Configs]

VARIABLES
    stored,     \* the configurations the store holds
    runs,       \* the rows of the runs table, oldest first
    runId,      \* self._run_id: the run, named by its start, or None
    before,     \* stop k: state_before
    beforeFailure   \* stop k: the kind of `failure`, or None

ledgerVars == <<stored, runs>>
stopNotes == <<before, beforeFailure>>
managerVars == <<ledgerVars, runId, stopNotes>>
allVars == <<vars, managerVars>>

Outcome == {"failed", "ready", "died", "stopped"}
Run == [start : Starts, outcome : Outcome, became_ready : BOOLEAN,
        failure_kind : FailureKind \cup {None}]

ManagerTypeOK ==
    /\ stored \subseteq Configs
    /\ runs \in Seq(Run)
    /\ runId \in Starts \cup {None}
    /\ before \in [Stops -> EngineState]
    /\ beforeFailure \in [Stops -> FailureKind \cup {None}]

ManagerInit ==
    /\ Init
    /\ stored = Configs
    /\ runs = <<>>
    /\ runId = None
    /\ before = [k \in Stops |-> "stopped"]
    /\ beforeFailure = [k \in Stops |-> None]

-----------------------------------------------------------------------------
(* start() *)

\* Mutant: what has not failed has become ready.
NewRunUnlessFailed(s) ==
    LET ready == state'[s] # "failed"
    IN  [start |-> s, outcome |-> IF ready THEN "ready" ELSE "failed",
         became_ready |-> ready, failure_kind |-> failure'[s]]
NewRun(s) ==
    LET ready == state'[s] = "ready"
    IN  [start |-> s, outcome |-> IF ready THEN "ready" ELSE "failed",
         became_ready |-> ready, failure_kind |-> failure'[s]]

\* record_run looks the configuration up again: by then it may be gone, and the
\* KeyError leaves start() with the engine as it is and _run_id as it was.
RecordRun(s) ==
    IF ConfigOf[s] \in stored
    THEN runs' = Append(runs, NewRun(s)) /\ runId' = s /\ UNCHANGED stored
    ELSE UNCHANGED <<ledgerVars, runId>>

\* Whatever step of the supervisor's start() this is, it may be its last.
Recording(s) ==
    /\ IF startPc'[s] = "returned" THEN RecordRun(s) ELSE UNCHANGED <<ledgerVars, runId>>
    /\ UNCHANGED stopNotes

ManagerStarts(s) ==
    /\ ConfigOf[s] \in stored
    /\ StartCall(s)
    /\ UNCHANGED managerVars

\* KeyError: no such configuration; the supervisor is not asked.
ManagerStartsUnknown(s) ==
    /\ startPc[s] = "idle"
    /\ ConfigOf[s] \notin stored
    /\ startPc' = [startPc EXCEPT ![s] = "raised"]
    /\ UNCHANGED <<recordVars, selfVars, taskVars, startLocals, stopVars, engineVars,
                   managerVars>>

ManagerStartProceeds(s) == StartStep(s) /\ Recording(s)
ManagerStartCancelled(s) == StartCancelled(s) /\ UNCHANGED managerVars

-----------------------------------------------------------------------------
(* stop() *)

\* close_run: an UPDATE by id, of no row if the run went with its configuration.
CloseRun(outcome, kind) ==
    runs' = [i \in DOMAIN runs |->
        IF runs[i].start = runId
        THEN [runs[i] EXCEPT !.outcome = outcome, !.failure_kind = kind]
        ELSE runs[i]]

\* Mutant: the death of an engine is a start of its own.
SettleAsNewRun(was, kind) ==
    /\ IF runId # None /\ was = "failed" /\ kind # None
       THEN runs' = Append(runs, [start |-> runId, outcome |-> "died",
                                  became_ready |-> FALSE, failure_kind |-> kind])
       ELSE IF runId # None /\ was = "ready"
            THEN CloseRun("stopped", None)
            ELSE UNCHANGED runs
    /\ runId' = None
    /\ UNCHANGED stored

\* Mutant: only a ready engine's run is settled.
SettleReadyOnly(was, kind) ==
    /\ IF runId # None /\ was = "ready" THEN CloseRun("stopped", None) ELSE UNCHANGED runs
    /\ runId' = None
    /\ UNCHANGED stored

\* Mutant: a run that is over was stopped.
SettleStopped(was, kind) ==
    /\ IF runId # None THEN CloseRun("stopped", None) ELSE UNCHANGED runs
    /\ runId' = None
    /\ UNCHANGED stored

Settle(was, kind) ==
    /\ \/ runId # None /\ was = "ready" /\ CloseRun("stopped", None)
       \/ runId # None /\ was = "failed" /\ kind # None /\ CloseRun("died", kind)
       \/ /\ runId = None \/ (was # "ready" /\ (was # "failed" \/ kind = None))
          /\ UNCHANGED runs
    /\ runId' = None
    /\ UNCHANGED stored

Settling(k, was, kind) ==
    IF stopPc'[k] = "done" THEN Settle(was, kind) ELSE UNCHANGED <<ledgerVars, runId>>

RecordFailure == IF record = None THEN None ELSE failure[record]

ManagerStops(k) ==
    /\ StopCall(k)
    /\ before' = [before EXCEPT ![k] = SupervisorState]
    /\ beforeFailure' = [beforeFailure EXCEPT ![k] = RecordFailure]
    /\ Settling(k, SupervisorState, RecordFailure)

ManagerStopProceeds(k) ==
    /\ StopStep(k)
    /\ Settling(k, before[k], beforeFailure[k])
    /\ UNCHANGED stopNotes

ManagerStopCancelled(k) == StopCancelled(k) /\ UNCHANGED managerVars

-----------------------------------------------------------------------------
(* Store.delete: the configuration's runs go with it (ON DELETE CASCADE). *)

\* The rows that are not c's.
Remaining(rows, c) ==
    LET left[n \in 0..Len(rows)] ==
          IF n = 0 THEN <<>>
          ELSE IF ConfigOf[rows[n].start] = c THEN left[n - 1]
          ELSE Append(left[n - 1], rows[n])
    IN  left[Len(rows)]

Delete(c) ==
    /\ c \in stored
    /\ stored' = stored \ {c}
    /\ runs' = Remaining(runs, c)
    /\ UNCHANGED <<vars, runId, stopNotes>>

\* Pumps, watches and engines.
Background(s) == (PumpStep(s) \/ WatchStep(s) \/ EngineStep(s)) /\ UNCHANGED managerVars

ManagerInternal ==
    \/ \E s \in Starts : ManagerStartProceeds(s) \/ Background(s)
    \/ \E k \in Stops : ManagerStopProceeds(k)

ManagerNext ==
    \/ ManagerInternal
    \/ \E s \in Starts :
          ManagerStarts(s) \/ ManagerStartsUnknown(s) \/ ManagerStartCancelled(s)
    \/ \E k \in Stops : ManagerStops(k) \/ ManagerStopCancelled(k)
    \/ \E c \in Configs : Delete(c)

ManagerSpec == ManagerInit /\ [][ManagerNext]_allVars

\* The supervisor is as a completed stop leaves it, or has not been used.
Stopped == SupervisorState = "stopped"

-----------------------------------------------------------------------------
(***************************************************************************)
(* A run is marked as having become ready only if its engine did, and one   *)
(* that is not marked though its engine did become ready tells of an engine *)
(* that died, or of a supervisor that was told to stop, before start()      *)
(* returned: whatever stops, deletions and other starts come in between     *)
(* (manager.py:78-92, supervisor.py:183-192).                               *)
(***************************************************************************)
LedgerIsTrue ==
    \A i \in DOMAIN runs :
        LET s == runs[i].start
        IN  /\ runs[i].became_ready => readyAt[s]
            /\ readyAt[s] /\ ~runs[i].became_ready =>
                  failure[s] = "died_while_ready" \/ \E k \in Stops : stopPc[k] # "idle"

\* "A start that succeeded and an engine that later died are one run"
\* (manager.py:98): every start that returned has one row, unless its
\* configuration was deleted, and no other start has any.
OneRunPerStart ==
    \A s \in Starts :
        LET rows == {i \in DOMAIN runs : runs[i].start = s}
        IN  /\ Cardinality(rows) <= 1
            /\ rows # {} => startPc[s] = "returned"
            /\ startPc[s] = "returned" /\ ConfigOf[s] \in stored => rows # {}

=============================================================================
