# vllm-untwisted in TLA+

vllm-untwisted is a manager for one vLLM engine: it starts the engine as a
subprocess from a stored configuration, watches it, stops it, keeps a ledger of
its runs, and offers all this over HTTP and a command line. Its hard part is not
computation but order: one asyncio loop on which a start, a stop, a log pump and
a liveness watch interleave at their awaits over shared attributes; worker
threads beside it; processes that fork, exit, ignore signals or are adopted by
somebody else; managers that are killed and come back.

Paths below are relative to `vllm_untwisted/`.

## The system

| component | state it keeps | operations | talks to | what makes it correct |
|---|---|---|---|---|
| `engine/supervisor.py` `Supervisor` | the record, the handle, the pump and watch tasks, the scanner | `start`, `stop`, `_pump_log`, `_await_ready`, `_watch_liveness`, `_reap` | runtime, scanner; called by the manager and the fit tiers | no engine is lost, no task outlives its engine, a failure is explained by its own log, nothing waits in a circle |
| `running` (same file) | none | start on entry, stop on exit | supervisor | the engine is gone afterwards, whatever happened inside |
| `engine/runtime.py` | process, process-group id | `spawn`, `stop`, `_drain_group`, `_signal_group` | the kernel | ask first, then insist; the whole group goes |
| `engine/orphans.py` | nothing: `/proc` is the state | `find`, `reap` | the kernel, other managers | left-over engines go, supervised ones stay |
| `engine/state.py`, `engine/logscan.py` | record, facts, failure kind | `feed` | supervisor | first signature wins, per start |
| `engine/shm.py` | nothing: `/proc` and `/dev/shm` are the state | `survey`, `sweep` | supervisor's start, other managers' engines | nothing in use is removed, nothing dead is adopted |
| `engine/config.py` | arguments | `flag`, `with_args`, `argv` | import, lint, fit tiers | a flag reads as the engine takes it |
| `manager.py` | current run, current entry | `start`, `stop` | supervisor, store | one run per start, each closed as it ended |
| `store/db.py` | configurations, runs, one sqlite connection per process | `add`, `rename`, `update`, `delete`, `record_run`, `close_run`, status | sqlite, other processes through it | what was answered is kept, names are distinct, the status says what the starts showed |
| `store/shell.py` | import in progress | `parse_text` | API, CLI | names are distinct, the environment is what sh passes |
| `store/lint.py`, `fingerprint.py`, `calibrate.py`, `api/models.py` | none | pure functions, I/O, declarations | | |
| `api/events.py` | subscribers' queues | `publish`, `subscribe` | all endpoints, the log pump | bounded, ordered, losses recorded |
| `api/app.py` | the start task, the bus | engine endpoints, stream, configuration endpoints, lifespan | manager, bus, store | a stop is final, the manager takes its engine along |
| `api/serve.py`, `cli.py` | the command's progress | `untwisted run` and one-request commands | the API | nothing left behind, true exit code |

What is hard to test here is listed, with its line, under `hazards` in
`PROJECT.json`: interleavings at awaits (supervisor, API), state read before an
await and used after it (manager, supervisor, runtime), results by two routes
(exit against log, health answer against stop), threads inside a structure made
for one loop (event bus), partial failure (spawn that raises, engine left by a
timeout, manager that is killed, statement that fails in a transaction), several
processes on one database or in one `/dev/shm`, and a stream that is subscribed to
late.

## The modules

`A -> B` reads "A extends B": composition is by extension, so that the composed
module speaks of the same supervisor.

    CliRun -> Api -> Manager -> Supervisor <- Running
    ShellImport -> EngineConfig
    ProcessGroup    EventBus    Orphans    Store    Shm
    EngineLifecycle, LossyStreams: abstract specifications, which Running and
    EventBus implement
    RunningProofs -> SupervisorProofs <- ServerProofs (Manager, Api, CliRun);
    ProcessGroupProofs, EventBusProofs, OrphansProofs, ShmProofs;
    StoreProofs (Store, ShellImport and EngineConfig: the package `store/` and what
    it keeps)
    MCManager, MCApi, MCCliRun, MCOrphans, MCShellImport, MCStore, MCShm: values
    of constants that are functions or sets of records

**Supervisor.** A step is the code between two awaits. The variables `record`,
`handle`, `pump`, `watch`, `scanned` are the attributes of `self`; `state`,
`failure`, `readyAt` are fields of each record; `pumpTask`/`pumpOn` and
`watchTask`/`watchOn` say where each task is suspended and on what; `startPc`
and `stopPc` where each call is. `StartBegins` is the code up to the await of
the spawn, `SpawnReturns` goes to the first health request, `PollTurn` is one
turn of the loop (return code first, then deadline), `HealthAnswers`/
`BecomesReady` the 200 and what follows it, `StartTimesOut` the deadline,
`StartKills` and `StartUnwinds` the `except` branch. Whatever returns or raises from
within the loop leaves the health client, which awaits the close of its connections:
`closing`, ended by `ClientCloses`, and `raising`; in between the watch or a stop may
change the record. `stop()` and the `except` branch share `_reap`: the handle is
awaited (`killing`), then the watch is cancelled and awaited (`unwatching`) if it is
not done, then the pump (`unpumping`), each looked at when its turn comes; only then
are the attributes cleared and, by `stop()`, the record marked (`StopTail`,
`StartTail`). A task that is cancelled ends in a step of its own (`PumpCancelled`,
`WatchCancelled`), and a watch that is cancelled while it awaits the pump has that
cancelled first. `StopReapsAtOnce` is a stop whose process has been collected.
`StartCancelled`/`StopCancelled` are a `CancelledError` at each await but those of
cancelled tasks, where it is suppressed. The pump
reads whatever handle and scanner `self` has at each turn, as the code does; so
two pumps, or a pump of one start on the engine of another, are states the model
has. The engine is modelled from its use: a leader that may serve, print a
failure signature, fork a child that inherits the output, and exit. The exit of
the process (`exited`) and `returncode` (`reaped`) are two steps.

**Running.** Who may call what in `async with running(...)`: a start, then,
however it ended, a stop. `Overlapping` says whether contexts on one supervisor
may overlap. Where they do not, Running implements **EngineLifecycle**: `phase` is
what the `state` property of the supervisor shows, `engines` the engines that have
a main process. The record moves on (stopped, starting, ready, failed or stopping)
and not back, there is one engine at a time, and nothing is over while it lives.

**ProcessGroup.** What `handle.stop()` does to a group of processes, with
zombies, stubborn members, forks under the signal and several stops. `Supervisor`
uses only its outcome (the leader is gone when a stop comes back: `LeaderGone`).
Time is counted in turns of the drain loop; `Tick` cannot pass a timer that is due.

**Manager.** The ledger. Between the return of the supervisor's `start()` and
`record_run` nothing is awaited, so `Recording` is conjoined to the supervisor's
step that returns; likewise `Settling` to the step that ends `stop()`. The store
is modelled as far as the ledger goes: rows, and the cascade on delete. A stop notes
the state and the failure before it waits (`before`, `beforeFailure`) and settles the
run with them afterwards; a start is recorded with the state it finds when it returns,
which need not be the one it had set.

**Api.** The start request answers and leaves the rest to a task (`GoBegins`,
`GoProceeds`, `GoCancelled`); the stop request cancels that task, waits for it
(`StopCancelsStart`) and stops the engine (`StopRequested`, `StopProceeds`); the
lifespan stops without the first part; `LoopEnds` is `asyncio.run` cancelling
what is left.

**CliRun.** `untwisted run` as the client, with its own server or a remote one,
`--once`, `--detach`, and interrupts. The handlers are removed before the stop is
posted, so a second signal, a SIGTERM, ends the command where it is (`Killed`), and
its own server with it (`ServerUp`).

**EventBus.** A step is what a thread switch cannot divide; publishers on the
loop exclude each other and the readers (`LoopFree`), those in `Threads` do not.
That the oldest event goes and that it is counted are two steps (`DropOldest`,
`CountDrop`).
`offered` is a history variable: what each queue was offered, lost events included.
The whole implements **LossyStreams**, with `came` for `offered` and `waiting` for
`queue`: an event may be lost before it waits or given up from the front, and what
is sent comes in order and once.

**Orphans.** Engines of two processes, managers of two stores that boot, launch,
stop and die. The parent of a process, as `/proc` shows it, is a function of who
lives, `PidOne` and `Subreaper` (`Orphaned`). `Reaps` only sends SIGKILL: what it is
on its way to is in `killed`, and exits later. `MayRead` and `MayKill` say whose
processes a manager may look into and signal; where it may not, it goes on.

**Store.** Two processes with a connection each on one sqlite file. A request is
what an endpoint, the ledger or an import asks; its place `pc` is where it is
between the statements it makes: `Looks` is the handler's `_require`, `Requires`
the method's own, `Adds`, `Renames`, `Deletes`, `Records`, `ClosesRun` the writing
statements with the constraint that may stop them, `FindsLocked` the five seconds
that are over, `Commits` and `Checks` the rest. A connection is `idle`, or has
`begun` a transaction without a snapshot, is `reading` from one, or `writing`; that
is how sqlite3's implicit transactions work under WAL, and it is what makes a
failed statement matter: nothing rolls it back. `Ends` is a close or a kill,
between any two statements. The events of configuration changes are in EventBus,
the ledger over the supervisor in Manager.

**Shm.** Managers, engines and the workers of engines; a file is named by the
worker that made it, so that a mapping and what is at its path can differ.
`ReadsProcess` is one process of the survey, `ListsRegions` the directory,
`Unlinks` one path, and everybody goes on between them; only the sweeping manager's
own starts wait. A start is refused only while the last engine is starting, serving or
being stopped, so a manager may sweep beside one of its own that timed out (`Begins`).
`before` and `thorough` are history: who held a region when the sweep began, and
whether each start of a manager found its earlier engines gone altogether.

**EngineConfig.** `Flag` and `WithArgs` over lists of tokens, and `TakenFor`, what the
engine's argument parser makes of such a list. `EditsAgree` is what the two owe each
other. A pure module: no variables.

**ShellImport.** One step per line of a script; lines are records that say what
they turn out to be. A comment has the name that `_slug` makes of it (`Slug`), or
makes none (`NoComment`), as one of dashes does. `Assigns`, `Exports` and `Unsets` are
what a line does in sh, and `ShellPasses` what sh has for a command on a line; they
look at the script, not at what the importer keeps of it. The latest configuration's
arguments meet EngineConfig in `FlagsAgree` and `PortIsAssigned`.

## What the runs show

A passing run exhausts its state space.

| run | properties | instance and why it is enough |
|---|---|---|
| Supervisor | `FailureExplained`, `CallsReturn` | two starts and two stops called in any order, one of each cancelled at any await: a second start can take over any attribute the first is about to use, and an unwinding start and two stops cancel and await the same two tasks, one of which awaits the other. Engines that fork and complain are in Running |
| Running | `NoStrayEngine`, `GoneAfterwards`, `ReadyIsWatched`, `IdleIsFree`, `ImplementsLifecycle`, `VerdictFromOwnLog`, `SilenceIsNoticed` | two contexts in a row, forking and complaining engines, two polls: anything the first leaves behind meets the second |
| ProcessGroup | `LeaderGone`, `StopReturns`, `KilledLeaderLeavesNobody` | leader, two children, two of the three stubborn, two stops; a grace of three turns, so that half of it is neither its start nor its end |
| EventBus | `Bounded`, `EveryLossRecorded`, `NewestKept`, `ImplementsStreams` | a queue of two, three publishers on the loop (they overflow it alone) and two in worker threads (the excess over the bound, a publish that finds the set changed, a retry that finds the queue full again). One client: queues share nothing but the counter and the set, whose change is a client's coming |
| Manager | `LedgerIsTrue`, `OneRunPerStart` | two starts of one configuration and a stop interleaved in any way, one start and the stop cancelled midway, the configuration deleted at any time |
| Api | `StoppedIsGone`, `NoOpenRun`, `OutcomeIsOwn`, `StopHasTheLastWord`, `StopIsAnswered` | two starts, one stop and the shutdown, deletions: a stop can meet a start at each of its awaits, and a new start what the stop left |
| CliRun | `NothingLeftBehind`, `ExitCodeIsTrue`, `InterruptEndsIt` | the command's one start and one stop, its server's shutdown, all flags, an interrupt and a signal that kills it |
| Orphans | `BootClears`, `SupervisedIsSpared` | two managers of one store, one of another that is pid 1 (and whose end is everybody's), two engines, one of which one manager may not read and another may not signal |
| ShellImport | `NamesUnique`, `EnvIsWhatShPasses`, `NamedByItsComment`, `FlagsAgree`, `PortIsAssigned` | all scripts of `MaxLines` = 4 lines over lines of each kind, with a comment whose name collides with a line number's, one that makes no name, a variable exported twice, assigned and unset, and arguments with two flags and a port in both spellings, repeated, with none, an empty, one or two values; each flag is read, set to each value and removed |
| Store | `PromisesKept`, `ImportComplete`, `Intact`, `RequestsAnswered` | a manager and a command; a create, an import of two names, a rename, an update, a delete and a start's run, of which any `MaxRequests` = 4 are made: one leaves the transaction open, one is locked out or reads from a stale snapshot, one commits in between, and one finds what the others have left. Three names, so that two requests can want the same one |
| Shm | `NoDeadMemory`, `HeldStays` | a manager's first engine and its retry at the same path, another manager's engine at its own, two workers each (one makes the region, one joins it; one of them may crash before the sweep and one in it); the workers of one engine are interchangeable |
| RunningLauncher | `IdleIsFree` | the same as Running but for a launcher that cannot be executed: it is violated, see below |

The type invariants of the modules are theorems (below), and held in these
instances too; so did the inductive invariant of the API (`ApiInv`), which TLC
checked on the states of the run Api before it was proved.

Every bound is a constant of a `.cfg`: `Starts` and `Stops` (calls),
`MaxPolls` (polls before the deadline), `Grace` (turns), `QUEUE_DEPTH`,
`MaxLines`, `MaxRequests`, and the sets of processes, managers and clients. All runs say
`CHECK_DEADLOCK FALSE`: each call is made once, so a system in which all have
been made and nothing runs does stop, and that is no deadlock. Waiting in a
circle is the business of the liveness properties.

The discipline of the callers matters to what holds, and the configurations say
which is assumed: the properties of `Running` need contexts that do not overlap
(`Overlapping = FALSE`) and, for `IdleIsFree`, launchers that can be executed
(`Unlaunchable = {}`); those of `Api` a patient client, who does not post a start
before the last one is over and stopped (`Patient = TRUE`), as `untwisted run`, which
starts once, is (`CliAssumption`); two properties of
`EventBus` say themselves that only the loop has published (`OnTheLoop`); Orphans
has no second manager in the store of the one that is pid 1, and `BootClears` is of
engines that the manager may read of and signal; `NoDeadMemory` is of the engines of a
manager that has so far found the earlier ones gone altogether at each start
(`thorough`: the code does not see to that) and of managers whose engines never share a
path (`OwnIds`); `NoOpenRun` and `OutcomeIsOwn` are of the time before the shutdown; `FlagsAgree` is of flags
none of whose occurrences has more values than its spelling has room for
(`SingleValued`), and of those read before an edit only if written once;
`PortIsAssigned` is of scripts that give the port once, in either spelling
(`PinnedOnce`), and `EnvIsWhatShPasses` leaves out variables of which a line that
parse_text reports has changed what sh does (`Reported`);
`ImportComplete` if nothing is deleted or renamed meanwhile.

### Where the code departs from what is said of it

RunningLauncher shows a disagreement between the code and what a message of it
says: a launcher that cannot be executed leaves the supervisor STARTING for ever, and
`stop()`, which the refusal of the next start advises, does nothing
(`engine/supervisor.py:108,135,148`).

The models have these behaviours too, as steps of the code they translate; no
property claims their absence:

- a ready engine can be recorded as one that never became healthy, against what
  `store/db.py:66` says of `became_ready`. The return after READY awaits the close of
  the health client (`engine/supervisor.py:175,192`); if the engine's output ends in
  that time the watch makes the record FAILED, and if a stop comes it makes it
  STOPPING, before `manager.py:82` looks at it. `LedgerIsTrue` says that nothing else
  has this effect, and `OutcomeIsOwn` that for patient clients only the first has;
- a manager that has reclaimed an engine may launch its own while that one still runs:
  `reap()` sends SIGKILL and nobody waits (`engine/orphans.py:105`), where
  `manager.py:65-67` reclaims so that the next start finds the GPU free. `BootClears`
  says what is true: the engine is gone, or SIGKILL is on its way to it;
- an imported `--port=N` is the port the engine takes, and not the supervisor's
  (`store/shell.py:215`, `engine/config.py:42`), against `store/shell.py:214`.
  `PortIsAssigned` says which of the two it is in each spelling;
- a process that has exited is called a timeout, because the loop looks at the
  deadline after its last sleep (`engine/supervisor.py:195`), and an exit is called
  unexplained with its explanation still in the pipe (177);
- after a start that timed out, its engine runs on and a second start is not
  refused (`engine/supervisor.py:107,197`);
- a ready engine's death goes unnoticed while a child of it holds its output
  open (`engine/supervisor.py:226`; `SilenceIsNoticed` has the rest), and when
  noticed it is announced to nobody on the event stream (227);
- a stop returns at once if the return code is set, although children of the
  group may run (`engine/runtime.py:70`);
- publishers in worker threads can lose an event without a count, and raise when
  a client comes or goes (`api/events.py:44-52`);
- the lifespan's stop leaves a start in flight alone (`api/app.py:78`): an engine
  can outlive the manager, and a record that is STOPPING can become READY and
  its run stay open;
- an interrupted `untwisted run --detach` has outcome 0, posts no stop and leaves an
  engine that may still be starting; and the handlers being gone by then, a second
  signal ends the command before its stop is answered (`cli.py:300-309`);
- an engine started while a process of an earlier one of its manager is left, after a
  time-out or a stop that did not wait for the group, can map what that one has made
  (`engine/supervisor.py:107,197`, `engine/runtime.py:70,102`);
- two starts posted back to back are both accepted (`api/app.py:175`);
- a configuration deleted while its engine starts leaves a ready engine without
  a run (`manager.py:80`), and a start over an engine that died leaves a run open
  (92);
- `untwisted run` misses a failure that is published before it subscribes
  (`cli.py:279`);
- a manager that is pid 1 has its engine killed by the next manager of its store,
  an engine adopted by a living subreaper is left, and a child whose leader exits
  between the look and the kill survives (`engine/orphans.py:88,102-112`);
- the drain's SIGKILL looks up a pid that has been waited for and reaches nobody
  (`engine/runtime.py:49,102,108`): a stubborn child outlives a stop whose leader
  went politely;
- a start that failed is rewritten, when it is stopped, as an engine that died
  (`manager.py:26,109`);
- a region that a worker opens after it was read by a survey, or that a worker born
  since opens, is unlinked while it is mapped (`engine/shm.py:105`);
- an INSERT or UPDATE that a constraint stops leaves its transaction open, and with
  it the one write lock, until that process next commits: meanwhile other
  processes' writes, and even their opening the store, fail after five seconds
  (`store/db.py:208-219,236-255`);
- a write that was locked out leaves a transaction begun, in which the next read
  pins a snapshot: once anybody else commits, every read of that process is out of
  date and every write fails at once, until it ends;
- a name that an update finds taken, a run whose configuration was deleted while
  its engine started, and a configuration deleted between a change and the answer
  to it are errors that no handler catches (`store/db.py:252,281`,
  `api/app.py:115,144`); in the second case the engine serves without a run, as it
  does when the write is locked out, and `go()` announces a failure;
- an import that loses a race for one name, or is locked out, stops there with an
  error, its earlier names committed (`api/app.py:121-127`);
- a bare assignment to a variable exported before is not kept (`store/shell.py:189`);
- of a flag that is repeated `flag()` reads the first and the engine takes the last;
  of one with several values, or a negative one, `with_args` leaves values behind
  (`engine/config.py:70,93`).

Not in a model, but met on the way: one configuration whose `--max-num-seqs` or
pinned cache is not a number makes `/lint` fail for all (`store/lint.py:42,71`,
`api/app.py:160`).

### Fairness

The event loop runs every task that can run (weak fairness of each start's, stop's and
watch's steps and of `PumpProgress`, the end of a cancelled task among them), asyncio's child watcher reports an exit
(`EngineReaped`, `ReturncodeSet`), the kernel kills what was sent SIGKILL
(`EngineKilled`, `IsKilled`), timers go off (`Tick`), and init collects what it
adopted (`Collected` once the leader is gone). In Store, as long as a request that
was made can go on, one does: threads run, and sqlite's wait is bounded. A process
may stay away, and an engine serve, for ever. Shm has no liveness property and no
fairness. Nothing is owed by an engine: it need not serve, print, exit or honour
SIGTERM. A pump's ordinary line is not fair either: an engine may be silent.
Callers call when they like.

## What is proved

TLAPS proves these for all values of the constants under the named assumptions
of each module, any number of starts, contexts, managers, engines, publishers,
processes, requests; scripts and argument lists of any length.

*Supervisor*: `TypeCorrect`, and `FailuresAreExplained`, which is not inductive:
a start that has been answered but has not yet set READY must be known not to
have failed, and a watch must be known to belong to a record that became ready.
`FailureInv` adds where in its start each kind of failure can be.

*Running*, from `Sequential` (contexts do not overlap, and no stop is
cancelled): `NoStray`, `GoneForGood`, `ReadyWatched`, `LivesOneLife`, `OwnVerdict`;
starts may be cancelled and launchers missing. The invariant is `RunningInv`: at most one
context is inside (`OneInside`); handle, pump, watch and record all belong to it
(`HandleInv`); how far its calls are, through each await of `_reap`, determines what it
has (`CallInv`); only its engine lives and only its tasks (`WorkInv`); its watch hangs on
its pump and that on its engine (`WatchInv`). Each part needs the others: that a poll sees its
own process rests on nobody else being inside, that nobody is left when the next
context enters rests on the pump and the watch having been awaited by stop.
The run Running has no cancelled start, for the sake of `IdleIsFree`, so that here
the theorems say more than it does. `LivesOneLife` is the refinement: every step,
from states of the invariant, is one of EngineLifecycle's or none. `OwnVerdict` adds
`ScannerInv`: a signature that has been found was found in the current start's log.
`IdleFree` needs
`Launching` besides, that every launcher can be executed and no start is
cancelled; RunningLauncher shows that without it the property is false.

*ProcessGroup*: `TypeCorrect` (with `PolledInv`: a drain loop that had its turn
had time left, so a tick never passes the grace), `LeaderIsGone` for any number
of overlapping stops, and `NobodySlipsThrough`, what is safety in
`KilledLeaderLeavesNobody`: whoever there is of a group whose leader was killed has
been killed too.

*EventBus*: `TypeCorrect`, and `QueuesBounded` for any number of threads: the
bound of `Full` is a check that other threads can outrun, so `RoomInv` counts,
for each queue, the calls that have seen room in it and not yet used it; of those
at most one is on the loop. `StreamsAreOrdered` is the refinement of LossyStreams,
for any number of threads too. `NewestAreKept` and `LossesAreCounted` are of a bus on
which only the loop has published: then no other call is midway, the room that one
has seen, or made, is there when it appends, and the queue it gives up from is full
(`AloneInv`); what it has given up and not yet counted is one event (`Uncounted`). Total is a sum over clients; that it changes by what one of them changes
by (`TotalChanges`) is proved by induction over sets of clients, `ClientByClient`.
`ClientsSeeItOnce` is proved of the streams, and so of the bus: what a client was sent
and what waits for it are together a part of what was offered, in that order
(`OrderInv`), and of that nothing comes twice.

*Orphans*: `TypeCorrect`; `Spared`, where no manager is pid 1: what has been
found was orphaned then (`FoundInv`) and never regains a parent; `Cleared`, where
no subreaper lives: `BootInv` says where an engine that must go is, in the
listing, among the found, or sent SIGKILL.

*Shm*: `TypeCorrect`; `HeldRegionsStay`, which assumes nothing of the managers:
who held a region when the sweep began and still does is unread or has made its
path a used one, so it is not among the doomed (`SurveyInv`; `FileInv`: a file is
at the path it was made for). `NothingDeadIsMapped`, from `OwnIds`:
of one id only one engine of a manager that is `thorough` is not over (`OneInv`), and
when it starts, its path is empty or its own (`CleanInv`).

*Store*: all rests on `LockInv`: who may write sees the latest database, since
nobody else is about to commit, its snapshot, if it has one, is not outdated, and a
transaction that a failed statement left open has changed nothing. Then
`StaysIntact` needs that ids are new (`Known`: of an id that is anywhere, its
request has used it up); `ImportsAreComplete` that an import has dealt with all
names but those it has yet to (`PlaceInv`, `NameInv`); `PromisesAreKept` that each request finds what it rests on, not only in the database
but in whatever transaction is about to be committed, or that a deletion was asked
for (`KeepInv`). Ends of processes between any two statements are steps like any
other.

*ShellImport and EngineConfig* (in StoreProofs): `NamesAreUnique`, `CommentsNameTheirOwn`,
`EnvironmentsAreTrue`, `EditsMeanTheSame`, `FlagsMeanTheSame`, `PortsAreAssigned`. The
invariant is `ParseInv`, what the lines read so far have left: the environment is what
they leave (`Collects`), a comment is pending exactly if they leave one (`Leaves`), names
are distinct (`DistinctInv`), and every configuration comes from a launch line of its own,
under a name made of the comment before it (`ComesFrom`). That a free name is found
among as many tries as there are names, and one, is a pigeonhole (`UnusedIsNew`). That
removing a flag leaves every other flag its meaning is proved for every argument list
by following each token that is kept to its place in what is left (`Leftover`); the
values of a flag stay together because `SingleValued` lets no flag have two, and
without that it is false (see the departures above).

*Server* has three layers in one module, each resting on the one below; the
assumptions of a layer are cited in it and above only.

For *Manager*, whatever is started, stopped, cancelled and deleted in any order:
`LedgerTellsTheTruth`, `StartsHaveOneRun`. The two
are inductive only together (`LedgerInv`): that a start that returns adds the only row
of its own rests on there being none before, and what the row says on `FailureInv`
and on what can have changed a READY record before its start returned.
Which rows a deletion leaves (`RemainingRows`) is a lemma over tables of any length.

For *Api*: `ApiDrivesManager`, that requests use the manager as any caller may, from
which `LedgerServes` follows for clients patient or not. Of a patient client,
`StoppedEngineIsGone`, `RunsAreClosed`, `OutcomesAreOwn`, `StoppedIsTheLastWord`. None is
inductive: `ApiInv` says which request, task and call of the supervisor are under way at
a time (`CallsInv`); that the one engine that may run is the handle's, or is being
spawned, and that a start that a stop has overtaken while its client was closing returns
of an engine that is gone (`ReachInv`); that after "stopped" nothing lives nor is
starting (`EventInv`); and, until the shutdown, that no start runs without its handle and
none is raising (`HoldInv`); that a start about to begin finds the supervisor stopped
(`PostedInv`); that `_run_id` is the current record's run, and what a stop under way has
noted of the record is still so (`RunInv`); and that each row says of its engine what
`OutcomeIsOwn` does, an open one being the current record's (`RowsInv`). After the
shutdown has begun a start in flight may outlive it, so the last four are claimed only
until then.

For *CliRun*: `CommandIsAClient`, that the command, the shutdown of its own server
included, does what `ApiSpec` allows, so that the theorems above hold of its server.
`CliInv` says how far its requests are at each place of the command (`ProgressInv`),
that nothing is left once it goes, unless it detaches (`LeavingInv`), and that what it
has been told, or is about to read, is true (`TruthInv`). `CommandLeavesNothing` and `ExitCodeTellsTheTruth` follow.

The prover has no induction over data: the library's theorems take an operator as a
parameter. Where a proof needs one it argues from a least or greatest counterexample (`Least`,
`Greatest`), or over the set of what something holds for (`ClientByClient`); what the
recursive function in `Without` computes is reached in this way too, place by place.

Only model-checked: everything under fairness (`CallsReturn`, `SilenceIsNoticed`,
`StopReturns`, `KilledLeaderLeavesNobody`, `StopIsAnswered`, `InterruptEndsIt`,
`RequestsAnswered`). Every other property of a passing run is stated by a theorem.

## What is not modelled

The scanner's regular expressions and its facts, which no control depends on; the
filter on the environment (`declared_env`); lint, fingerprint, calibration, the
shapes of the API, commands that make one request and print its answer, parsing
and printing: pure functions and I/O without a state of their own. In ShellImport
a line comes tokenized, and model paths are left out. uvicorn, httpx, asyncio and
sqlite themselves are modelled only as this code uses them.

In CliRun, signals that come before the handlers are installed (`cli.py:283`) end
the process by Python's default and are left out, as are connections that break. So is
a second SIGINT, which raises KeyboardInterrupt wherever the loop is: asyncio then
cancels what is pending, the request to stop and its own server among it, and the
engine may be left as it is by `Killed`. In
Manager, the status that `_entry` reads off the rows is left out, and writes to the
ledger do not fail: that they may is in Store, whose
requests are not composed with the supervisor. In Supervisor, the close of the health
client is awaited after every return and exception from within the loop, whether or not
a connection was kept alive. In Store, the several SELECTs of one
look-up are one step, and a process that has ended may come back but its requests
do not. In Orphans pids are not reused; in Supervisor ports are
not.

## Plan

1. Done: all modules above and their proofs; the abstract specifications
   EngineLifecycle and LossyStreams with their refinements.
2. Worth doing next: Manager over Store instead of its own ledger, so that a run
   that cannot be recorded meets a supervisor that is ready; a LogScan (first
   occurrence wins, facts that accrue after ready) once control depends on it.
