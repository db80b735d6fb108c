------------------------------ MODULE ShmProofs ------------------------------
(***************************************************************************)
(* Theorems about Shm, for any number of managers, engines, workers and     *)
(* ids: what a sweep leaves alone, under no assumption, and what an engine  *)
(* finds at its path, if managers share no ids and as long as its manager   *)
(* has started none before all processes of the last one were gone.         *)
(***************************************************************************)
EXTENDS Shm, TLAPS

USE DEF processVars, sweepVars, vars

-----------------------------------------------------------------------------
\* Every action leaves every variable in its set.
LEMMA TypeStep == TypeOK /\ [Next]_vars => TypeOK'
<1> SUFFICES ASSUME TypeOK, [Next]_vars PROVE TypeOK'
  OBVIOUS
<1> USE ShmAssumption DEF TypeOK, Path
<1>1. ASSUME NEW w \in Workers, Forks(w) \/ Opens(w) \/ Crashes(w) PROVE TypeOK'
  <2>1. CASE Forks(w)
    BY <2>1 DEF Forks
  <2>2. CASE Opens(w)
    <3>1. file' \in [Ids -> Workers \cup {None}]
      BY <2>2 DEF Opens
    <3>2. holds' \in [Workers -> Workers \cup {None}]
      BY <2>2 DEF Opens
    <3>3. QED
      BY <2>2, <3>1, <3>2 DEF Opens
  <2>3. CASE Crashes(w)
    BY <2>3 DEF Crashes
  <2>4. QED
    BY <1>1, <2>1, <2>2, <2>3
<1>2. ASSUME NEW e \in Engines, CleansUp(e) PROVE TypeOK'
  BY <1>2 DEF CleansUp
<1>3. ASSUME NEW e \in Engines, Begins(e) PROVE TypeOK'
  BY <1>3 DEF Begins, Lives
<1>4. ASSUME NEW e \in Engines, SweepEnds(e) PROVE TypeOK'
  BY <1>4 DEF SweepEnds
<1>5. ASSUME NEW m \in Managers, ListsRegions(m) PROVE TypeOK'
  BY <1>5 DEF ListsRegions
<1>6. ASSUME NEW m \in Managers, NEW w \in Workers, ReadsProcess(m, w) PROVE TypeOK'
  BY <1>6 DEF ReadsProcess
<1>7. ASSUME NEW m \in Managers, NEW i \in Ids, Unlinks(m, i) PROVE TypeOK'
  BY <1>7 DEF Unlinks
<1>8. CASE UNCHANGED vars
  BY <1>8
<1>9. QED
  BY <1>1, <1>2, <1>3, <1>4, <1>5, <1>6, <1>7, <1>8 DEF Next

(* Type correctness. *)
THEOREM TypeCorrect == Spec => []TypeOK
<1>1. Init => TypeOK
  BY DEF Init, TypeOK
<1>2. QED
  BY <1>1, TypeStep, PTL DEF Spec

-----------------------------------------------------------------------------
(***************************************************************************)
(* What the directory and the workers have in common: a file is at the path *)
(* of the worker that made it, and was made before anybody had it.          *)
(***************************************************************************)
Made(v) == worker[v] \in {"holding", "gone"}

FileInv ==
    /\ \A i \in Ids : file[i] # None => Made(file[i]) /\ Path(file[i]) = i
    /\ \A w \in Workers : holds[w] # None =>
          worker[w] = "holding" /\ Made(holds[w]) /\ Path(holds[w]) = Path(w)

LEMMA FileStep == ASSUME TypeOK, FileInv, [Next]_vars PROVE FileInv'
<1> USE ShmAssumption DEF TypeOK, FileInv, Made, Path
<1>1. ASSUME NEW w \in Workers, Forks(w) PROVE FileInv'
  BY <1>1 DEF Forks
<1>2. ASSUME NEW w \in Workers, Opens(w) PROVE FileInv'
  BY <1>2 DEF Opens
<1>3. ASSUME NEW w \in Workers, Crashes(w) PROVE FileInv'
  BY <1>3 DEF Crashes
<1>4. ASSUME NEW e \in Engines, CleansUp(e) PROVE FileInv'
  BY <1>4 DEF CleansUp
<1>5. ASSUME NEW m \in Managers, NEW i \in Ids, Unlinks(m, i) PROVE FileInv'
  BY <1>5 DEF Unlinks
<1>6. ASSUME UNCHANGED <<file, worker, holds>> PROVE FileInv'
  BY <1>6
<1>7. QED
  BY <1>1, <1>2, <1>3, <1>4, <1>5, <1>6
     DEF Next, Begins, SweepEnds, ListsRegions, ReadsProcess

-----------------------------------------------------------------------------
(***************************************************************************)
(* Who had a region when the sweep began, and has what is at the path       *)
(* still, is yet to be read or has been counted; and what was counted is    *)
(* not doomed.  A worker that has lost the file does not get another one,   *)
(* and nobody gets the file of a worker that is yet to make it: this is     *)
(* where FileInv is needed.                                                 *)
(***************************************************************************)
Linked(w) ==
    worker[w] = "holding" /\ file[Path(w)] # None /\ holds[w] = file[Path(w)]

SurveyInv ==
    \A m \in Managers : \A w \in before[m] :
        /\ Made(w)
        /\ Linked(w) /\ sweep[m] = "reading" => w \in unread[m] \/ Path(w) \in used[m]
        /\ Linked(w) /\ sweep[m] = "unlinking" => Path(w) \notin doomed[m]

LEMMA SurveyStep == ASSUME TypeOK, FileInv, SurveyInv, [Next]_vars PROVE SurveyInv'
<1> USE ShmAssumption DEF TypeOK, SurveyInv, Made, Linked, Path
<1>1. ASSUME NEW w \in Workers, Forks(w) PROVE SurveyInv'
  BY <1>1 DEF Forks
<1>2. ASSUME NEW w \in Workers, Opens(w) PROVE SurveyInv'
  <2>1. \A v \in Workers : Made(v) => v # w /\ worker'[v] = worker[v] /\ holds'[v] = holds[v]
    BY <1>2 DEF Opens
  <2>2. \A v \in Workers : Made(v) /\ Linked(v)' => Linked(v)
    BY <1>2, <2>1 DEF Opens, FileInv
  <2>3. UNCHANGED sweepVars
    BY <1>2 DEF Opens
  <2>4. QED
    BY <2>1, <2>2, <2>3
<1>3. ASSUME NEW w \in Workers, Crashes(w) PROVE SurveyInv'
  BY <1>3 DEF Crashes
<1>4. ASSUME NEW e \in Engines, CleansUp(e) PROVE SurveyInv'
  BY <1>4 DEF CleansUp
<1>5. ASSUME NEW e \in Engines, Begins(e) PROVE SurveyInv'
  BY <1>5 DEF Begins, Lives
<1>6. ASSUME NEW e \in Engines, SweepEnds(e) PROVE SurveyInv'
  BY <1>6 DEF SweepEnds
<1>7. ASSUME NEW m \in Managers, ListsRegions(m) PROVE SurveyInv'
  BY <1>7 DEF ListsRegions
<1>8. ASSUME NEW m \in Managers, NEW w \in Workers, ReadsProcess(m, w) PROVE SurveyInv'
  BY <1>8 DEF ReadsProcess
<1>9. ASSUME NEW m \in Managers, NEW i \in Ids, Unlinks(m, i) PROVE SurveyInv'
  BY <1>9 DEF Unlinks
<1>10. CASE UNCHANGED vars
  BY <1>10
<1>11. QED
  BY <1>1, <1>2, <1>3, <1>4, <1>5, <1>6, <1>7, <1>8, <1>9, <1>10 DEF Next

(***************************************************************************)
(* A region stays with those who had it when the sweep began, whatever      *)
(* others do meanwhile, whoever they are and whatever their ids.            *)
(***************************************************************************)
THEOREM HeldRegionsStay == Spec => HeldStays
<1> DEFINE Inv == TypeOK /\ FileInv /\ SurveyInv
<1>1. Init => Inv
  BY DEF Init, TypeOK, FileInv, SurveyInv
<1>2. Inv /\ [Next]_vars => Inv'
  BY TypeStep, FileStep, SurveyStep
<1>3. ASSUME Inv, NEW m \in Managers, NEW i \in Ids, Unlinks(m, i), NEW w \in before[m]
      PROVE ~(worker[w] = "holding" /\ file[i] # None /\ holds[w] = file[i])
  <2>1. w \in Workers
    BY <1>3 DEF TypeOK
  <2>2. file[i] # None /\ holds[w] = file[i] => Path(w) = i
    BY <1>3, <2>1 DEF FileInv
  <2>3. QED
    BY <1>3, <2>1, <2>2 DEF SurveyInv, Linked, Unlinks
<1>4. Inv => [\A m \in Managers, i \in Ids : Unlinks(m, i) =>
               \A w \in before[m] :
                  ~(worker[w] = "holding" /\ file[i] # None /\ holds[w] = file[i])]_vars
  BY <1>3
<1>5. QED
  BY <1>1, <1>2, <1>4, PTL DEF Spec, HeldStays

-----------------------------------------------------------------------------
(***************************************************************************)
(* A manager has one engine at a time as long as it has been thorough: of   *)
(* two, one is new or over.                                                 *)
(* What is over stays so, since a process is forked by a living one.        *)
(***************************************************************************)
Current(e) == engine[e] = "sweeping" \/ (engine[e] = "started" /\ ~Over(e))

OneInv ==
    /\ \A e \in Engines : engine[e] # "started" =>
          \A w \in Workers : EngineOf[w] = e => worker[w] = "none"
    /\ \A e \in Engines : engine[e] = "sweeping" => sweep[Owner[e]] # "idle"
    /\ \A e, f \in Engines : Owner[e] = Owner[f] =>
          (engine[e] = "sweeping" /\ engine[f] = "sweeping" => e = f)
    /\ \A e, f \in Engines :
          thorough[Owner[e]] /\ Owner[e] = Owner[f] /\ Current(e) /\ Current(f) => e = f

LEMMA OneStep == ASSUME TypeOK, OneInv, [Next]_vars PROVE OneInv'
<1> USE ShmAssumption DEF TypeOK, OneInv, Current, Over, Lives
<1>1. ASSUME NEW w \in Workers, Forks(w) PROVE OneInv'
  <2>1. Current(EngineOf[w])
    BY <1>1 DEF Forks
  <2>2. \A e \in Engines : Current(e)' => Current(e)
    BY <1>1, <2>1 DEF Forks
  <2>3. QED
    BY <1>1, <2>2 DEF Forks
<1>2. ASSUME NEW w \in Workers, Opens(w) PROVE OneInv'
  BY <1>2 DEF Opens
<1>3. ASSUME NEW w \in Workers, Crashes(w) PROVE OneInv'
  BY <1>3 DEF Crashes
<1>4. ASSUME NEW e \in Engines, CleansUp(e) PROVE OneInv'
  BY <1>4 DEF CleansUp
<1>5. ASSUME NEW e \in Engines, Begins(e) PROVE OneInv'
  <2>1. \A f \in Engines \ {e} : Current(f)' <=> Current(f)
    BY <1>5 DEF Begins
  <2>2. ASSUME thorough'[Owner[e]] PROVE \A f \in Engines : Owner[f] = Owner[e] => ~Current(f)
    <3>1. TAKE f \in Engines
    <3>2. SUFFICES ASSUME Owner[f] = Owner[e] PROVE ~Current(f)
      OBVIOUS
    <3>3. engine[f] # "sweeping"
      BY <1>5, <3>2 DEF Begins
    <3>4. engine[f] = "started" => Over(f)
      <4> HIDE DEF Over
      <4>1. \A g \in {h \in Engines : Owner[h] = Owner[e] /\ engine[h] = "started"} : Over(g)
        BY <1>5, <2>2 DEF Begins
      <4>2. QED
        BY <3>2, <4>1
    <3>5. QED
      BY <3>3, <3>4
  <2>3. \A m \in Managers : thorough'[m] => thorough[m]
    BY <1>5 DEF Begins
  <2>4. \A f, g \in Engines :
           thorough'[Owner[f]] /\ Owner[f] = Owner[g] /\ Current(f)' /\ Current(g)' => f = g
    <3> HIDE DEF Current, Over
    <3>1. QED
      BY <2>1, <2>2, <2>3
  <2>5. /\ engine' = [engine EXCEPT ![e] = "sweeping"] /\ UNCHANGED worker
        /\ sweep' = [sweep EXCEPT ![Owner[e]] = "reading"]
        /\ engine[e] = "new" /\ sweep[Owner[e]] = "idle"
    BY <1>5 DEF Begins
  <2>6. /\ \A f \in Engines : engine'[f] # "started" =>
             \A w \in Workers : EngineOf[w] = f => worker'[w] = "none"
        /\ \A f \in Engines : engine'[f] = "sweeping" => sweep'[Owner[f]] # "idle"
        /\ \A f, g \in Engines : Owner[f] = Owner[g] =>
             (engine'[f] = "sweeping" /\ engine'[g] = "sweeping" => f = g)
    BY <2>5
  <2>7. QED
    BY <2>4, <2>6
<1>6. ASSUME NEW e \in Engines, SweepEnds(e) PROVE OneInv'
  <2>1. \A f \in Engines : Current(f)' => Current(f)
    BY <1>6 DEF SweepEnds
  <2>2. \A f, g \in Engines :
           thorough'[Owner[f]] /\ Owner[f] = Owner[g] /\ Current(f)' /\ Current(g)' => f = g
    <3> HIDE DEF Current, Over
    <3>1. QED
      BY <1>6, <2>1 DEF SweepEnds
  <2>3. engine'[e] = "started" /\ \A f \in Engines \ {e} : engine'[f] = engine[f]
    BY <1>6 DEF SweepEnds
  <2>4. \A f \in Engines : engine'[f] # "started" =>
           \A w \in Workers : EngineOf[w] = f => worker'[w] = "none"
    BY <1>6, <2>3 DEF SweepEnds
  <2>5. ASSUME NEW f \in Engines, engine'[f] = "sweeping" PROVE sweep'[Owner[f]] # "idle"
    <3>1. f # e /\ engine[f] = "sweeping" /\ sweep[Owner[f]] # "idle"
      BY <2>3, <2>5
    <3>2. Owner[f] # Owner[e]
      BY <1>6, <3>1 DEF SweepEnds
    <3>3. QED
      BY <1>6, <3>1, <3>2 DEF SweepEnds
  <2>6. \A f, g \in Engines : Owner[f] = Owner[g] =>
           (engine'[f] = "sweeping" /\ engine'[g] = "sweeping" => f = g)
    BY <2>3
  <2>7. QED
    BY <2>2, <2>4, <2>5, <2>6
<1>7. ASSUME NEW m \in Managers, ListsRegions(m) PROVE OneInv'
  <2>1. UNCHANGED <<worker, engine, thorough>> /\ sweep' = [sweep EXCEPT ![m] = "unlinking"]
    BY <1>7 DEF ListsRegions
  <2>2. \A f \in Engines : Current(f)' <=> Current(f)
    BY <2>1
  <2>3. QED
    BY <2>1, <2>2
<1>8. ASSUME UNCHANGED <<worker, engine, sweep, thorough>> PROVE OneInv'
  BY <1>8
<1>9. QED
  BY <1>1, <1>2, <1>3, <1>4, <1>5, <1>6, <1>7, <1>8
     DEF Next, ReadsProcess, Unlinks

-----------------------------------------------------------------------------
(***************************************************************************)
(* What an engine that is swept for finds at its path: nobody uses it, for  *)
(* those who might are over; so it is doomed if it is there, and nobody     *)
(* makes it again before the engine is started.  From then on only its own  *)
(* workers do.                                                              *)
(***************************************************************************)
CleanInv ==
    \A e \in Engines : thorough[Owner[e]] =>
        /\ engine[e] = "sweeping" =>
              /\ Id[e] \notin used[Owner[e]]
              /\ sweep[Owner[e]] = "unlinking" =>
                    file[Id[e]] = None \/ Id[e] \in doomed[Owner[e]]
        /\ engine[e] = "started" /\ ~Over(e) /\ file[Id[e]] # None =>
              EngineOf[file[Id[e]]] = e

\* While an engine is swept for, nobody lives who could use its path.
LEMMA Alone ==
    ASSUME OwnIds, TypeOK, OneInv, NEW e \in Engines, engine[e] = "sweeping",
           thorough[Owner[e]], NEW w \in Workers, Path(w) = Id[e]
    PROVE  ~Lives(w)
<1>1. Owner[EngineOf[w]] = Owner[e]
  BY ShmAssumption DEF OwnIds, Path
<1>2. QED
  BY <1>1, ShmAssumption DEF TypeOK, OneInv, Current, Over, Lives

LEMMA CleanStep ==
    ASSUME OwnIds, TypeOK, FileInv, OneInv, CleanInv, [Next]_vars
    PROVE  CleanInv'
<1> USE ShmAssumption DEF TypeOK, CleanInv, Over, Lives
<1>1. ASSUME NEW w \in Workers, Forks(w) PROVE CleanInv'
  <2>1. \A e \in Engines : engine[e] = "started" /\ ~Over(e)' => ~Over(e)
    BY <1>1 DEF Forks
  <2>2. QED
    BY <1>1, <2>1 DEF Forks
<1>2. ASSUME NEW w \in Workers, Opens(w) PROVE CleanInv'
  <2>1. \A e \in Engines : thorough[Owner[e]] /\ engine[e] = "sweeping" => Id[e] # Path(w)
    BY <1>2, Alone DEF Opens
  <2>2. \A e \in Engines :
            thorough[Owner[e]] /\ Id[e] = Path(w) /\ engine[e] = "started" /\ ~Over(e)
                => e = EngineOf[w]
    BY <1>2 DEF Opens, OwnIds, Path, OneInv, Current
  <2>3. \A e \in Engines : Over(e)' = Over(e)
    BY <1>2 DEF Opens
  <2>4. QED
    BY <1>2, <2>1, <2>2, <2>3 DEF Opens, Path
<1>3. ASSUME NEW w \in Workers, Crashes(w) PROVE CleanInv'
  BY <1>3 DEF Crashes
<1>4. ASSUME NEW e \in Engines, CleansUp(e) PROVE CleanInv'
  BY <1>4 DEF CleansUp
<1>5. ASSUME NEW e \in Engines, Begins(e) PROVE CleanInv'
  BY <1>5 DEF Begins, OneInv
<1>6. ASSUME NEW e \in Engines, SweepEnds(e) PROVE CleanInv'
  BY <1>6 DEF SweepEnds
<1>7. ASSUME NEW m \in Managers, ListsRegions(m) PROVE CleanInv'
  BY <1>7 DEF ListsRegions
<1>8. ASSUME NEW m \in Managers, NEW w \in Workers, ReadsProcess(m, w) PROVE CleanInv'
  <2>1. ASSUME NEW e \in Engines, thorough[Owner[e]], engine[e] = "sweeping", holds[w] # None
        PROVE  Id[e] # Path(w)
    BY <2>1, Alone DEF FileInv
  <2>2. QED
    BY <1>8, <2>1 DEF ReadsProcess
<1>9. ASSUME NEW m \in Managers, NEW i \in Ids, Unlinks(m, i) PROVE CleanInv'
  BY <1>9 DEF Unlinks
<1>10. CASE UNCHANGED vars
  BY <1>10
<1>11. QED
  BY <1>1, <1>2, <1>3, <1>4, <1>5, <1>6, <1>7, <1>8, <1>9, <1>10 DEF Next

LEMMA MemoryStep ==
    ASSUME TypeOK, CleanInv, OneInv, NoDeadMemory, [Next]_vars
    PROVE  NoDeadMemory'
<1> USE ShmAssumption DEF TypeOK, NoDeadMemory
<1>1. ASSUME NEW w \in Workers, Opens(w) PROVE NoDeadMemory'
  <2>1. engine[EngineOf[w]] = "started" /\ ~Over(EngineOf[w])
    BY <1>1 DEF Opens, OneInv, Over, Lives
  <2>2. thorough[Owner[EngineOf[w]]] /\ file[Path(w)] # None =>
            EngineOf[file[Path(w)]] = EngineOf[w]
    BY <2>1 DEF CleanInv, Path
  <2>3. QED
    BY <1>1, <2>2 DEF Opens
<1>2. ASSUME NEW w \in Workers, Crashes(w) PROVE NoDeadMemory'
  BY <1>2 DEF Crashes
<1>3. ASSUME NEW e \in Engines, CleansUp(e) PROVE NoDeadMemory'
  BY <1>3 DEF CleansUp
<1>4. ASSUME NEW e \in Engines, Begins(e) PROVE NoDeadMemory'
  BY <1>4 DEF Begins
<1>5. ASSUME UNCHANGED <<holds, thorough>> PROVE NoDeadMemory'
  BY <1>5
<1>6. QED
  BY <1>1, <1>2, <1>3, <1>4, <1>5
     DEF Next, Forks, SweepEnds, ListsRegions, ReadsProcess, Unlinks

(***************************************************************************)
(* Where managers share no ids, no engine maps what another one has made,   *)
(* retries of a crashed configuration included, as long as its manager has  *)
(* found every engine before gone altogether when it started the next.      *)
(***************************************************************************)
THEOREM NothingDeadIsMapped ==
    ASSUME OwnIds PROVE Spec => []NoDeadMemory
<1> DEFINE Inv == TypeOK /\ FileInv /\ OneInv /\ CleanInv /\ NoDeadMemory
<1>1. Init => Inv
  BY ShmAssumption DEF Init, TypeOK, FileInv, OneInv, CleanInv, NoDeadMemory, Current
<1>2. Inv /\ [Next]_vars => Inv'
  BY TypeStep, FileStep, OneStep, CleanStep, MemoryStep
<1>3. QED
  BY <1>1, <1>2, PTL DEF Spec

=============================================================================
