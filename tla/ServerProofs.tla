----------------------------- MODULE ServerProofs -----------------------------
(***************************************************************************)
(* Theorems about what the server does for its clients, layer by layer.     *)
(*                                                                         *)
(*  1. Manager, for any table of runs, configurations, starts and stops:    *)
(*     its ledger tells the truth.                                          *)
(*  2. Api, for any number of requests: the same of whatever clients do;    *)
(*     and, of a client that waits for its start, that no engine and no     *)
(*     open run outlives an answered stop, and each run ends as its own     *)
(*     engine did.                                                          *)
(*  3. CliRun: the command is such a client, leaves nothing behind, and     *)
(*     its exit code is true.                                               *)
(*                                                                         *)
(* The assumptions on the constants of a layer are cited in it and above it *)
(* only, so that what is said of Manager and Api holds without the command. *)
(***************************************************************************)
EXTENDS CliRun, SupervisorProofs, SequenceTheorems, FiniteSetTheorems, WellFoundedInduction

-----------------------------------------------------------------------------
(* 1. The manager *)

-----------------------------------------------------------------------------
(* Induction over the length of the table. *)

\* A set of naturals with a member has a least one.
LEMMA Least == ASSUME NEW T, T \subseteq Nat, T # {}
               PROVE  \E n \in T : \A m \in T : n <= m
<1>1. PICK n \in T : \A m \in T : ~(<<m, n>> \in OpToRel(<, Nat))
  BY WFMin, NatLessThanWellFounded, Zenon
<1>2. \A m \in T : ~(m < n)
  BY <1>1 DEF OpToRel
<1>3. QED
  BY <1>2

\* One step of the recursion that Remaining is.
Extended(rows, c, left, n) ==
    IF n = 0 THEN <<>>
    ELSE IF ConfigOf[rows[n].start] = c THEN left[n - 1]
    ELSE Append(left[n - 1], rows[n])

\* There is a function that satisfies it.
LEMMA RemainingExists ==
    ASSUME NEW rows, Len(rows) \in Nat, NEW c
    PROVE  \E left : left = [n \in 0..Len(rows) |-> Extended(rows, c, left, n)]
<1> DEFINE Defined(k) == \E left : left = [n \in 0..k |-> Extended(rows, c, left, n)]
           Undefined == {k \in Nat : ~Defined(k)}
<1>1. Undefined = {}
  <2>1. SUFFICES ASSUME Undefined # {} PROVE FALSE
    OBVIOUS
  <2>2. PICK k \in Undefined : \A m \in Undefined : k <= m
    BY <2>1, Least
  <2>3. CASE k = 0
    <3> DEFINE left == [n \in 0..0 |-> <<>>]
    <3>1. left = [n \in 0..0 |-> Extended(rows, c, left, n)]
      BY DEF Extended
    <3>2. QED
      BY <3>1, <2>2, <2>3, Zenon
  <2>4. CASE k # 0
    <3>1. k \in Nat /\ k - 1 \in Nat /\ k - 1 \notin Undefined
      BY <2>2, <2>4
    <3>2. PICK left : left = [n \in 0..k - 1 |-> Extended(rows, c, left, n)]
      BY <3>1
    <3> DEFINE longer == [n \in 0..k |-> IF n = k THEN Extended(rows, c, left, n) ELSE left[n]]
    <3>3. \A n \in 0..k : longer[n] = Extended(rows, c, longer, n)
      <4>1. TAKE n \in 0..k
      <4>2. CASE n = 0
        BY <4>2, <3>1, <3>2, <2>4 DEF Extended
      <4>3. CASE n # 0
        <5>1. n - 1 \in 0..k - 1 /\ longer[n - 1] = left[n - 1]
          BY <4>3, <3>1
        <5>2. longer[n] = Extended(rows, c, left, n)
          BY <3>1, <3>2
        <5>3. QED
          BY <5>1, <5>2 DEF Extended
      <4>4. QED
        BY <4>2, <4>3
    <3>4. longer = [n \in 0..k |-> Extended(rows, c, longer, n)]
      BY <3>3, Zenon
    <3>5. QED
      BY <3>4, <2>2, Zenon
  <2>5. QED
    BY <2>3, <2>4
<1>2. QED
  BY <1>1

\* So Remaining is what its recursion says.
LEMMA RemainingIs ==
    ASSUME NEW rows, Len(rows) \in Nat, NEW c
    PROVE  \E left : /\ Remaining(rows, c) = left[Len(rows)]
                     /\ \A n \in 0..Len(rows) : left[n] = Extended(rows, c, left, n)
<1> DEFINE left == CHOOSE f : f = [n \in 0..Len(rows) |->
               IF n = 0 THEN <<>>
               ELSE IF ConfigOf[rows[n].start] = c THEN f[n - 1]
               ELSE Append(f[n - 1], rows[n])]
<1>1. Remaining(rows, c) = left[Len(rows)]
  BY Zenon DEF Remaining
<1>2. \E f : f = [n \in 0..Len(rows) |->
              IF n = 0 THEN <<>>
              ELSE IF ConfigOf[rows[n].start] = c THEN f[n - 1]
              ELSE Append(f[n - 1], rows[n])]
  <2>1. \E f : f = [n \in 0..Len(rows) |-> Extended(rows, c, f, n)]
    BY RemainingExists, Zenon
  <2>2. QED
    BY <2>1, Zenon DEF Extended
<1>3. left = [n \in 0..Len(rows) |->
              IF n = 0 THEN <<>>
              ELSE IF ConfigOf[rows[n].start] = c THEN left[n - 1]
              ELSE Append(left[n - 1], rows[n])]
  BY <1>2, Zenon
<1>4. \A n \in 0..Len(rows) : left[n] = Extended(rows, c, left, n)
  BY <1>3, Zenon DEF Extended
<1>5. QED
  BY <1>1, <1>4, Zenon

\* No start has two rows.
Distinct(rows) == \A i, j \in 1..Len(rows) : rows[i].start = rows[j].start => i = j

\* The rows of rest are those of rows that are not c's.
Others(rest, rows, c) ==
    /\ \A i \in 1..Len(rest) :
          \E j \in 1..Len(rows) : rest[i] = rows[j] /\ ConfigOf[rows[j].start] # c
    /\ \A j \in 1..Len(rows) :
          ConfigOf[rows[j].start] # c => \E i \in 1..Len(rest) : rest[i] = rows[j]

\* Its rows are the other configurations' rows, each as often as before, and it is
\* the whole table if it is as long.
LEMMA RemainingRows ==
    ASSUME NEW S, NEW rows \in Seq(S), NEW c, NEW rest, rest = Remaining(rows, c)
    PROVE  /\ rest \in Seq(S)
           /\ Others(rest, rows, c)
           /\ Distinct(rows) => Distinct(rest)
           /\ Len(rest) = Len(rows) => rest = rows
<1>1. Len(rows) \in Nat /\ \A n \in 1..Len(rows) : rows[n] \in S
  OBVIOUS
<1>2. PICK left : /\ Remaining(rows, c) = left[Len(rows)]
                  /\ \A n \in 0..Len(rows) : left[n] = Extended(rows, c, left, n)
  BY <1>1, RemainingIs, Zenon
<1> DEFINE
    From(n) == \A i \in 1..Len(left[n]) :
                  \E j \in 1..n : left[n][i] = rows[j] /\ ConfigOf[rows[j].start] # c
    Kept(n) == \A j \in 1..n :
                  ConfigOf[rows[j].start] # c => \E i \in 1..Len(left[n]) : left[n][i] = rows[j]
    Once(n) == (\A i, j \in 1..n : rows[i].start = rows[j].start => i = j)
                 => \A i, j \in 1..Len(left[n]) : left[n][i].start = left[n][j].start => i = j
    Whole(n) == Len(left[n]) <= n /\ (Len(left[n]) = n => \A i \in 1..n : left[n][i] = rows[i])
    Good(n) == left[n] \in Seq(S) /\ From(n) /\ Kept(n) /\ Once(n) /\ Whole(n)
    Bad == {n \in Nat : n <= Len(rows) /\ ~Good(n)}
<1> HIDE DEF Good, Bad
<1>3. Bad = {}
  <2>1. SUFFICES ASSUME Bad # {} PROVE FALSE
    OBVIOUS
  <2>2. PICK n \in Bad : \A m \in Bad : n <= m
    <3>1. Bad \subseteq Nat
      BY DEF Bad
    <3>2. QED
      BY <2>1, <3>1, Least
  <2>3. n \in 0..Len(rows) /\ ~Good(n)
    BY <2>2, <1>1 DEF Bad
  <2>4. CASE n = 0
    <3>1. left[n] = <<>>
      BY <2>3, <2>4, <1>2 DEF Extended
    <3>2. QED
      BY <2>3, <2>4, <3>1 DEF Good
  <2>5. CASE n # 0
    <3>1. n \in 1..Len(rows) /\ n - 1 \in Nat /\ n - 1 <= Len(rows) /\ n - 1 \notin Bad
      BY <2>2, <2>3, <2>5, <1>1
    <3>2. Good(n - 1)
      BY <3>1 DEF Bad
    <3>a. From(n - 1) /\ Kept(n - 1) /\ Once(n - 1) /\ Whole(n - 1) /\ left[n - 1] \in Seq(S)
      BY <3>2 DEF Good
    <3>3. CASE ConfigOf[rows[n].start] = c
      <4>1. left[n] = left[n - 1]
        BY <3>3, <2>3, <2>5, <1>2 DEF Extended
      <4>2. \A j \in 1..n : ConfigOf[rows[j].start] # c => j \in 1..n - 1
        BY <3>1, <3>3
      <4>a. \A j \in 1..n - 1 : j \in 1..n
        BY <3>1
      <4>3. From(n)
        <5>1. From(n - 1)
          BY <3>a
        <5>2. QED
          BY <4>1, <4>a, <5>1, Zenon
      <4>4. Kept(n)
        <5>1. Kept(n - 1)
          BY <3>a
        <5>2. QED
          BY <4>1, <4>2, <5>1, Zenon
      <4>5. Once(n)
        <5>1. SUFFICES ASSUME \A i, j \in 1..n : rows[i].start = rows[j].start => i = j
                       PROVE  \A i, j \in 1..Len(left[n]) :
                                  left[n][i].start = left[n][j].start => i = j
          OBVIOUS
        <5>2. \A i, j \in 1..n - 1 : rows[i].start = rows[j].start => i = j
          BY <3>1, <5>1
        <5>3. QED
          BY <3>a, <4>1, <5>2, Zenon
      <4>6. Whole(n)
        BY <3>1, <3>a, <4>1
      <4>7. QED
        BY <2>3, <3>a, <4>1, <4>3, <4>4, <4>5, <4>6, Zenon DEF Good
    <3>4. CASE ConfigOf[rows[n].start] # c
      <4>1. left[n] = Append(left[n - 1], rows[n])
        BY <3>4, <2>3, <2>5, <1>2 DEF Extended
      <4> DEFINE old == left[n - 1]
      <4>2. /\ old \in Seq(S) /\ rows[n] \in S
            /\ left[n] \in Seq(S) /\ Len(left[n]) = Len(old) + 1
            /\ \A i \in 1..Len(old) : left[n][i] = old[i]
            /\ left[n][Len(old) + 1] = rows[n]
        BY <1>1, <3>1, <3>a, <4>1
      <4> HIDE DEF old
      <4>3. From(n)
        <5>1. SUFFICES ASSUME NEW i \in 1..Len(left[n])
                       PROVE  \E j \in 1..n : left[n][i] = rows[j] /\ ConfigOf[rows[j].start] # c
          OBVIOUS
        <5>2. CASE i \in 1..Len(old)
          BY <3>1, <3>a, <4>2, <5>2 DEF old
        <5>3. CASE i = Len(old) + 1
          BY <3>1, <3>4, <4>2, <5>3
        <5>4. QED
          BY <4>2, <5>2, <5>3
      <4>4. Kept(n)
        <5>1. SUFFICES ASSUME NEW j \in 1..n, ConfigOf[rows[j].start] # c
                       PROVE  \E i \in 1..Len(left[n]) : left[n][i] = rows[j]
          OBVIOUS
        <5>2. CASE j = n
          BY <4>2, <5>2
        <5>3. CASE j # n
          <6>1. PICK i \in 1..Len(old) : old[i] = rows[j]
            BY <3>1, <3>a, <5>1, <5>3 DEF old
          <6>2. QED
            BY <4>2, <6>1
        <5>4. QED
          BY <5>2, <5>3
      <4>5. Once(n)
        <5>1. SUFFICES ASSUME \A i, j \in 1..n : rows[i].start = rows[j].start => i = j
                       PROVE  \A i, j \in 1..Len(left[n]) :
                                  left[n][i].start = left[n][j].start => i = j
          OBVIOUS
        <5>2. \A i, j \in 1..Len(old) : old[i].start = old[j].start => i = j
          <6>1. \A i, j \in 1..n - 1 : rows[i].start = rows[j].start => i = j
            BY <3>1, <5>1
          <6>2. QED
            BY <3>a, <6>1, Zenon DEF old
        <5>3. \A i \in 1..Len(old) : old[i].start # rows[n].start
          <6>1. TAKE i \in 1..Len(old)
          <6>2. PICK j \in 1..n - 1 : old[i] = rows[j]
            BY <3>a DEF old
          <6>3. j \in 1..n /\ n \in 1..n /\ j # n
            BY <3>1
          <6>4. QED
            BY <5>1, <6>2, <6>3
        <5>4. QED
          BY <4>2, <5>2, <5>3
      <4>6. Whole(n)
        BY <3>1, <3>a, <4>2 DEF old
      <4>7. QED
        BY <2>3, <4>2, <4>3, <4>4, <4>5, <4>6, Zenon DEF Good
    <3>5. QED
      BY <3>3, <3>4
  <2>6. QED
    BY <2>4, <2>5
<1>4. Good(Len(rows))
  BY <1>1, <1>3 DEF Bad
<1> DEFINE n == Len(rows)
<1>5. left[n] \in Seq(S) /\ From(n) /\ Kept(n) /\ Once(n) /\ Whole(n)
  BY <1>4 DEF Good
<1>6. rest = left[n]
  BY <1>2
<1>7. Len(rest) = n => rest = rows
  <2>1. SUFFICES ASSUME Len(rest) = n PROVE rest = rows
    OBVIOUS
  <2>2. \A i \in 1..n : rest[i] = rows[i]
    BY <1>5, <1>6, <2>1, Zenon
  <2>3. QED
    BY <1>5, <1>6, <2>1, <2>2, SeqEqual
<1>8. QED
  BY <1>5, <1>6, <1>7 DEF Others, Distinct

-----------------------------------------------------------------------------
(* What a manager does to its supervisor *)

USE DEF vars, recordVars, selfVars, taskVars, startVars, stopVars, engineVars,
        startLocals, stopLocals, EngineState, StartupFailure, FailureKind, Unwinding,
        StartSuspended, StartEnded, StopSuspended, StopEnded, TaskLive, TaskDone
USE DEF ledgerVars, stopNotes, managerVars, allVars

\* A start of what the store does not have ends before the supervisor hears of it.
Unheard(s) == startPc[s] = "idle" /\ startPc' = [startPc EXCEPT ![s] = "raised"]
              /\ UNCHANGED <<recordVars, selfVars, taskVars, startLocals, stopVars, engineVars>>

LEMMA SupervisorMoves == [ManagerNext]_allVars => [Next]_vars \/ \E s \in Starts : Unheard(s)
BY DEF ManagerNext, ManagerInternal, ManagerStartProceeds, Background, ManagerStopProceeds,
       ManagerStarts, ManagerStartsUnknown, ManagerStartCancelled, ManagerStops,
       ManagerStopCancelled, Delete, Next, Internal, Unheard

LEMMA BaseStep == TypeOK /\ FailureInv /\ [ManagerNext]_allVars => TypeOK' /\ FailureInv'
<1> SUFFICES ASSUME TypeOK, FailureInv, [ManagerNext]_allVars PROVE TypeOK' /\ FailureInv'
  OBVIOUS
<1>1. CASE [Next]_vars
  BY <1>1, TypeStep, FailureStep
<1>2. ASSUME NEW s \in Starts, Unheard(s) PROVE TypeOK' /\ FailureInv'
  <2>1. TypeOK'
    BY <1>2 DEF TypeOK, Unheard
  <2>2. FailureInv'
    BY <1>2 DEF TypeOK, FailureInv, FailureExplained, Resolved, Unheard
  <2>3. QED
    BY <2>1, <2>2
<1>3. QED
  BY <1>1, <1>2, SupervisorMoves

-----------------------------------------------------------------------------
(* Types *)

LEMMA RunsTypes ==
    ASSUME TypeOK', runs \in Seq(Run), runId \in Starts \cup {None}
    PROVE  /\ \A s \in Starts : RecordRun(s) /\ ConfigOf[s] \in stored =>
                 NewRun(s) \in Run /\ runs' \in Seq(Run)
           /\ \A out \in Outcome, kind \in FailureKind \cup {None} :
                 CloseRun(out, kind) =>
                    /\ runs' \in Seq(Run) /\ Len(runs') = Len(runs)
                    /\ \A i \in 1..Len(runs) :
                          /\ runs'[i].start = runs[i].start
                          /\ runs'[i].became_ready = runs[i].became_ready
                          /\ runs'[i].outcome =
                                IF runs[i].start = runId THEN out ELSE runs[i].outcome
                          /\ runs'[i].failure_kind =
                                IF runs[i].start = runId THEN kind ELSE runs[i].failure_kind
<1>1. ASSUME NEW s \in Starts, RecordRun(s), ConfigOf[s] \in stored
      PROVE  NewRun(s) \in Run /\ runs' \in Seq(Run)
  <2>1. NewRun(s) \in Run
    BY DEF TypeOK, NewRun, Run, Outcome
  <2>2. QED
    BY <1>1, <2>1 DEF RecordRun
<1>2. ASSUME NEW out \in Outcome, NEW kind \in FailureKind \cup {None}, CloseRun(out, kind)
      PROVE  /\ runs' \in Seq(Run) /\ Len(runs') = Len(runs)
             /\ \A i \in 1..Len(runs) :
                   /\ runs'[i].start = runs[i].start
                   /\ runs'[i].became_ready = runs[i].became_ready
                   /\ runs'[i].outcome = IF runs[i].start = runId THEN out ELSE runs[i].outcome
                   /\ runs'[i].failure_kind =
                         IF runs[i].start = runId THEN kind ELSE runs[i].failure_kind
  <2>1. DOMAIN runs = 1..Len(runs) /\ Len(runs) \in Nat /\ \A i \in 1..Len(runs) : runs[i] \in Run
    OBVIOUS
  <2> DEFINE closed(i) == IF runs[i].start = runId
                          THEN [runs[i] EXCEPT !.outcome = out, !.failure_kind = kind]
                          ELSE runs[i]
  <2>2. \A i \in 1..Len(runs) :
           /\ closed(i) \in Run
           /\ closed(i).start = runs[i].start
           /\ closed(i).became_ready = runs[i].became_ready
           /\ closed(i).outcome = IF runs[i].start = runId THEN out ELSE runs[i].outcome
           /\ closed(i).failure_kind =
                 IF runs[i].start = runId THEN kind ELSE runs[i].failure_kind
    BY <2>1 DEF Run
  <2>3. runs' = [i \in 1..Len(runs) |-> closed(i)]
    BY <1>2, <2>1 DEF CloseRun
  <2> HIDE DEF closed
  <2>4. runs' \in [1..Len(runs) -> Run]
    BY <2>2, <2>3
  <2>5. runs' \in Seq(Run) /\ Len(runs') = Len(runs)
    BY <2>1, <2>4
  <2>6. QED
    BY <2>2, <2>3, <2>5
<1>3. QED
  BY <1>1, <1>2

LEMMA ManagerTypeStep ==
    TypeOK /\ TypeOK' /\ ManagerTypeOK /\ [ManagerNext]_allVars => ManagerTypeOK'
<1> SUFFICES ASSUME TypeOK, TypeOK', ManagerTypeOK, [ManagerNext]_allVars PROVE ManagerTypeOK'
  OBVIOUS
<1> USE SupervisorAssumption, ManagerAssumption
<1>0. runs \in Seq(Run) /\ runId \in Starts \cup {None}
  BY DEF ManagerTypeOK
<1>1. ASSUME NEW s \in Starts, Recording(s) PROVE ManagerTypeOK'
  BY <1>0, <1>1, RunsTypes DEF ManagerTypeOK, Recording, RecordRun
<1>2. ASSUME NEW was \in EngineState, NEW kind \in FailureKind \cup {None}, Settle(was, kind)
      PROVE  stored' = stored /\ runs' \in Seq(Run) /\ runId' = None
  BY <1>0, <1>2, RunsTypes DEF Settle, Outcome
<1>3. ASSUME NEW k \in Stops, ManagerStops(k) PROVE ManagerTypeOK'
  <2>1. SupervisorState \in EngineState /\ RecordFailure \in FailureKind \cup {None}
    BY DEF TypeOK, SupervisorState, RecordFailure
  <2>2. /\ before' \in [Stops -> EngineState]
        /\ beforeFailure' \in [Stops -> FailureKind \cup {None}]
    BY <1>3, <2>1 DEF ManagerTypeOK, ManagerStops
  <2>3. stored' = stored /\ runs' \in Seq(Run) /\ runId' \in Starts \cup {None}
    BY <1>0, <1>2, <1>3, <2>1 DEF ManagerStops, Settling
  <2>4. QED
    BY <2>2, <2>3 DEF ManagerTypeOK
<1>4. ASSUME NEW k \in Stops, ManagerStopProceeds(k) PROVE ManagerTypeOK'
  <2>1. before[k] \in EngineState /\ beforeFailure[k] \in FailureKind \cup {None}
    BY DEF ManagerTypeOK
  <2>2. stored' = stored /\ runs' \in Seq(Run) /\ runId' \in Starts \cup {None}
    BY <1>0, <1>2, <1>4, <2>1 DEF ManagerStopProceeds, Settling
  <2>3. QED
    BY <1>4, <2>2 DEF ManagerTypeOK, ManagerStopProceeds
<1>5. ASSUME NEW c \in Configs, Delete(c) PROVE ManagerTypeOK'
  <2>1. runs' \in Seq(Run)
    BY <1>0, <1>5, RemainingRows DEF Delete
  <2>2. QED
    BY <1>5, <2>1 DEF ManagerTypeOK, Delete
<1>6. CASE UNCHANGED managerVars
  BY <1>6 DEF ManagerTypeOK
<1>7. QED
  BY <1>1, <1>3, <1>4, <1>5, <1>6
  DEF ManagerNext, ManagerInternal, ManagerStartProceeds, Background, ManagerStarts,
      ManagerStartsUnknown, ManagerStartCancelled, ManagerStopCancelled

\* What the lemmas above keep, put together.
ManagerBase == TypeOK /\ FailureInv /\ ManagerTypeOK

LEMMA ManagerBaseInit == ManagerInit => ManagerBase
BY SupervisorAssumption, ManagerAssumption
DEF ManagerInit, Init, ManagerBase, TypeOK, FailureInv, FailureExplained, ManagerTypeOK

LEMMA ManagerBaseStep == ManagerBase /\ [ManagerNext]_allVars => ManagerBase'
BY BaseStep, ManagerTypeStep DEF ManagerBase

(* The types of the ledger, over any supervisor and whatever is deleted. *)
THEOREM ManagerTypeCorrect == ManagerSpec => [](TypeOK /\ ManagerTypeOK)
<1>1. ManagerBase => TypeOK /\ ManagerTypeOK
  BY DEF ManagerBase
<1>2. QED
  BY <1>1, ManagerBaseInit, ManagerBaseStep, PTL DEF ManagerSpec

-----------------------------------------------------------------------------
(* The ledger *)

\* Of the starts, a step of start s changes s only, and s has not returned before.
LEMMA StartStepIsLocal ==
    ASSUME TypeOK, NEW s \in Starts, StartStep(s)
    PROVE  /\ startPc[s] \in StartSuspended
           /\ UNCHANGED stopPc
           /\ \A t \in Starts \ {s} : /\ startPc'[t] = startPc[t] /\ readyAt'[t] = readyAt[t]
                                      /\ state'[t] = state[t] /\ failure'[t] = failure[t]
<1>1. CASE StartUnwinds(s)
  BY <1>1 DEF TypeOK, StartUnwinds, StartTail, StartAwaits
<1>2. CASE SpawnReturns(s) \/ PollsAgain(s) \/ StartTimesOut(s)
  BY <1>2 DEF TypeOK, SpawnReturns, PollsAgain, PollTurn, StartFails, StartTimesOut
<1>3. CASE HealthAnswers(s) \/ HealthMisses(s) \/ BecomesReady(s) \/ ClientCloses(s)
  BY <1>3 DEF TypeOK, HealthAnswers, HealthMisses, BecomesReady, ClientCloses
<1>4. CASE PollFindsNoHandle(s) \/ StartKills(s)
  BY <1>4 DEF TypeOK, PollFindsNoHandle, StartKills
<1>5. QED
  BY <1>1, <1>2, <1>3, <1>4 DEF StartStep

\* What no other step undoes: no start returns, no engine becomes ready, a death
\* and a stop stay known.
NothingReturns ==
    /\ readyAt' = readyAt
    /\ \A t \in Starts : (startPc'[t] = "returned") = (startPc[t] = "returned")
    /\ \A t \in Starts : failure[t] = "died_while_ready" => failure'[t] = "died_while_ready"
    /\ \A k \in Stops : stopPc[k] # "idle" => stopPc'[k] # "idle"

LEMMA OthersReturnNothing ==
    ASSUME TypeOK,
           \/ UNCHANGED vars
           \/ \E s \in Starts : \/ StartCall(s) \/ Unheard(s) \/ StartCancelled(s)
                                \/ PumpStep(s) \/ WatchStep(s) \/ EngineStep(s)
           \/ \E k \in Stops : StopCall(k) \/ StopStep(k) \/ StopCancelled(k)
    PROVE  NothingReturns
<1> USE DEF NothingReturns
<1>1. ASSUME NEW s \in Starts, StartCall(s) \/ Unheard(s) \/ StartCancelled(s)
      PROVE  NothingReturns
  BY <1>1 DEF TypeOK, StartCall, StartRefused, StartBegins, Unheard, StartCancelled
<1>2. ASSUME NEW s \in Starts, PumpStep(s) \/ EngineStep(s) PROVE NothingReturns
  BY <1>2 DEF PumpStep, PumpProgress, PumpStarts, PumpLine, PumpSignature, PumpEof,
     PumpCancelled, EngineStep, EngineServes, EngineForks, EngineComplains, EngineExits,
     EngineReaped, ChildExits, EngineKilled
<1>3. ASSUME NEW s \in Starts, WatchStep(s) PROVE NothingReturns
  BY <1>3 DEF TypeOK, WatchStep, WatchStarts, WatchSeesEof, WatchBreaks, WatchCancelled
<1>4. ASSUME NEW k \in Stops, StopCall(k) \/ StopStep(k) \/ StopCancelled(k)
      PROVE  NothingReturns
  <2>1. UNCHANGED <<readyAt, startPc, failure>>
    BY <1>4 DEF StopCall, StopDoesNothing, StopKills, StopReapsAtOnce, StopStep, StopReaps,
       StopUnwinds, StopCancelled
  <2>2. stopPc' \in {[stopPc EXCEPT ![k] = place] : place \in {"killing", "done", "cancelled"}
                                                              \cup Unwinding}
    BY <1>4 DEF StopCall, StopDoesNothing, StopKills, StopReapsAtOnce, StopStep, StopReaps,
       StopUnwinds, StopCancelled, StopTail, StopAwaits
  <2>3. QED
    BY <2>1, <2>2 DEF TypeOK
<1>5. QED
  BY <1>1, <1>2, <1>3, <1>4

(***************************************************************************)
(* LedgerIsTrue and OneRunPerStart as one inductive invariant: the rows are *)
(* those of the starts that returned, and say of them whether they got      *)
(* ready, as far as the start knew when it returned.                        *)
(***************************************************************************)
LedgerInv ==
    /\ \A i \in 1..Len(runs) :
          /\ startPc[runs[i].start] = "returned"
          /\ runs[i].became_ready => readyAt[runs[i].start]
          /\ readyAt[runs[i].start] /\ ~runs[i].became_ready =>
                \/ failure[runs[i].start] = "died_while_ready"
                \/ \E k \in Stops : stopPc[k] # "idle"
    /\ Distinct(runs)
    /\ \A s \in Starts :
          startPc[s] = "returned" /\ ConfigOf[s] \in stored
              => \E i \in 1..Len(runs) : runs[i].start = s

\* Settling a run rewrites rows in place.
LEMMA SettleKeepsRows ==
    ASSUME ManagerBase, TypeOK', NEW was \in EngineState, NEW kind \in FailureKind \cup {None},
           Settle(was, kind)
    PROVE  /\ stored' = stored /\ Len(runs') = Len(runs)
           /\ \A i \in 1..Len(runs) : /\ runs'[i].start = runs[i].start
                                      /\ runs'[i].became_ready = runs[i].became_ready
<1>1. runs \in Seq(Run) /\ runId \in Starts \cup {None}
  BY DEF ManagerBase, ManagerTypeOK
<1>2. QED
  BY <1>1, RunsTypes DEF Settle, Outcome

\* So does what ends a stop.
LEMMA StopKeepsRows ==
    ASSUME ManagerBase, TypeOK', NEW k \in Stops, ManagerStops(k) \/ ManagerStopProceeds(k)
    PROVE  /\ stored' = stored /\ Len(runs') = Len(runs)
           /\ \A i \in 1..Len(runs) : /\ runs'[i].start = runs[i].start
                                      /\ runs'[i].became_ready = runs[i].became_ready
<1>1. /\ SupervisorState \in EngineState /\ RecordFailure \in FailureKind \cup {None}
      /\ before[k] \in EngineState /\ beforeFailure[k] \in FailureKind \cup {None}
  BY DEF ManagerBase, TypeOK, ManagerTypeOK, SupervisorState, RecordFailure
<1>2. QED
  BY <1>1, SettleKeepsRows DEF ManagerStops, ManagerStopProceeds, Settling

LEMMA LedgerStep == ManagerBase /\ LedgerInv /\ [ManagerNext]_allVars => LedgerInv'
<1> SUFFICES ASSUME ManagerBase, LedgerInv, [ManagerNext]_allVars PROVE LedgerInv'
  OBVIOUS
<1> USE SupervisorAssumption, ManagerAssumption
<1>0. /\ TypeOK /\ TypeOK' /\ FailureInv' /\ runs \in Seq(Run) /\ runs' \in Seq(Run)
      /\ \A i \in 1..Len(runs) : runs[i].start \in Starts
  <2>1. ManagerBase'
    BY ManagerBaseStep
  <2>2. runs \in Seq(Run) /\ runs' \in Seq(Run)
    BY <2>1 DEF ManagerBase, ManagerTypeOK
  <2>3. \A i \in 1..Len(runs) : runs[i] \in Run
    BY <2>2
  <2>4. QED
    BY <2>1, <2>2, <2>3 DEF ManagerBase, Run
<1>1. ASSUME NothingReturns,
             stored' = stored, Len(runs') = Len(runs),
             \A i \in 1..Len(runs) : /\ runs'[i].start = runs[i].start
                                     /\ runs'[i].became_ready = runs[i].became_ready
      PROVE  LedgerInv'
  <2>1. ASSUME NEW i \in 1..Len(runs')
        PROVE  /\ startPc'[runs'[i].start] = "returned"
               /\ runs'[i].became_ready => readyAt'[runs'[i].start]
               /\ readyAt'[runs'[i].start] /\ ~runs'[i].became_ready =>
                     \/ failure'[runs'[i].start] = "died_while_ready"
                     \/ \E k \in Stops : stopPc'[k] # "idle"
    <3>1. /\ i \in 1..Len(runs) /\ runs[i].start \in Starts
          /\ runs'[i].start = runs[i].start /\ runs'[i].became_ready = runs[i].became_ready
      BY <1>0, <1>1
    <3>2. /\ startPc[runs[i].start] = "returned"
          /\ runs[i].became_ready => readyAt[runs[i].start]
          /\ readyAt[runs[i].start] /\ ~runs[i].became_ready =>
                \/ failure[runs[i].start] = "died_while_ready"
                \/ \E k \in Stops : stopPc[k] # "idle"
      BY <3>1 DEF LedgerInv
    <3>3. (\E k \in Stops : stopPc[k] # "idle") => \E k \in Stops : stopPc'[k] # "idle"
      BY <1>1 DEF NothingReturns
    <3>4. QED
      BY <1>1, <3>1, <3>2, <3>3 DEF NothingReturns
  <2>2. Distinct(runs')
    BY <1>1 DEF LedgerInv, Distinct
  <2>3. \A s \in Starts : startPc'[s] = "returned" /\ ConfigOf[s] \in stored'
            => \E i \in 1..Len(runs') : runs'[i].start = s
    BY <1>1 DEF NothingReturns, LedgerInv
  <2>4. QED
    BY <2>1, <2>2, <2>3 DEF LedgerInv, Distinct
<1>2. ASSUME NEW s \in Starts, ManagerStartProceeds(s), startPc'[s] = "returned",
             ConfigOf[s] \in stored
      PROVE  LedgerInv'
  <2>1. /\ startPc[s] # "returned" /\ stopPc' = stopPc
        /\ \A t \in Starts \ {s} : /\ startPc'[t] = startPc[t] /\ readyAt'[t] = readyAt[t]
                                   /\ failure'[t] = failure[t]
    BY <1>0, <1>2, StartStepIsLocal DEF ManagerStartProceeds
  <2>2. runs' = Append(runs, NewRun(s)) /\ stored' = stored
    BY <1>2 DEF ManagerStartProceeds, Recording, RecordRun
  <2>3. /\ NewRun(s).start = s
        /\ NewRun(s).became_ready => readyAt'[s]
        /\ readyAt'[s] /\ ~NewRun(s).became_ready =>
              failure'[s] = "died_while_ready" \/ \E k \in Stops : stopPc'[k] # "idle"
    BY <1>0 DEF NewRun, FailureInv
  <2>4. /\ Len(runs') = Len(runs) + 1 /\ runs'[Len(runs) + 1] = NewRun(s)
        /\ \A i \in 1..Len(runs) : runs'[i] = runs[i]
    BY <1>0, <2>2
  <2>5. \A i \in 1..Len(runs) : runs[i].start # s
    BY <2>1 DEF LedgerInv
  <2>6. Len(runs) \in Nat
    BY <1>0
  <2>7. QED
    BY <1>0, <1>2, <2>1, <2>2, <2>3, <2>4, <2>5, <2>6 DEF LedgerInv, Distinct
<1>3. ASSUME NEW s \in Starts, ManagerStartProceeds(s),
             startPc'[s] # "returned" \/ ConfigOf[s] \notin stored
      PROVE  LedgerInv'
  <2>1. /\ startPc[s] # "returned" /\ stopPc' = stopPc
        /\ \A t \in Starts \ {s} : /\ startPc'[t] = startPc[t] /\ readyAt'[t] = readyAt[t]
                                   /\ failure'[t] = failure[t]
    BY <1>0, <1>3, StartStepIsLocal DEF ManagerStartProceeds
  <2>2. UNCHANGED ledgerVars
    BY <1>3 DEF ManagerStartProceeds, Recording, RecordRun
  <2>3. QED
    BY <1>0, <1>3, <2>1, <2>2 DEF LedgerInv, Distinct
<1>4. ASSUME NEW k \in Stops, ManagerStops(k) \/ ManagerStopProceeds(k) PROVE LedgerInv'
  BY <1>0, <1>1, <1>4, StopKeepsRows, OthersReturnNothing DEF ManagerStops, ManagerStopProceeds
<1>5. ASSUME NEW c \in Configs, Delete(c) PROVE LedgerInv'
  <2>1. /\ UNCHANGED <<startPc, readyAt, failure, stopPc>> /\ stored' = stored \ {c}
        /\ runs' = Remaining(runs, c)
    BY <1>5 DEF Delete
  <2>2. Others(runs', runs, c) /\ (Distinct(runs) => Distinct(runs'))
    BY <1>0, <2>1, RemainingRows
  <2>3. Distinct(runs')
    BY <2>2 DEF LedgerInv
  <2>4. \A i \in 1..Len(runs') :
           /\ startPc'[runs'[i].start] = "returned"
           /\ runs'[i].became_ready => readyAt'[runs'[i].start]
           /\ readyAt'[runs'[i].start] /\ ~runs'[i].became_ready =>
                 \/ failure'[runs'[i].start] = "died_while_ready"
                 \/ \E k \in Stops : stopPc'[k] # "idle"
    BY <2>1, <2>2 DEF LedgerInv, Others
  <2>5. \A s \in Starts : startPc[s] = "returned" /\ ConfigOf[s] \in stored'
            => \E i \in 1..Len(runs') : runs'[i].start = s
    <3>1. SUFFICES ASSUME NEW s \in Starts, startPc[s] = "returned", ConfigOf[s] \in stored'
                   PROVE  \E i \in 1..Len(runs') : runs'[i].start = s
      OBVIOUS
    <3>2. ConfigOf[s] \in stored /\ ConfigOf[s] # c
      BY <2>1, <3>1
    <3>3. PICK j \in 1..Len(runs) : runs[j].start = s
      BY <3>1, <3>2 DEF LedgerInv
    <3>4. PICK i \in 1..Len(runs') : runs'[i] = runs[j]
      BY <2>2, <3>2, <3>3 DEF Others
    <3>5. QED
      BY <3>3, <3>4
  <2>6. QED
    BY <2>1, <2>3, <2>4, <2>5 DEF LedgerInv, Distinct
<1>6. ASSUME UNCHANGED ledgerVars, NothingReturns PROVE LedgerInv'
  BY <1>1, <1>6
<1>7. ASSUME NEW s \in Starts, ManagerStarts(s) \/ ManagerStartsUnknown(s)
                                  \/ ManagerStartCancelled(s) \/ Background(s)
      PROVE  LedgerInv'
  <2>1. UNCHANGED ledgerVars
    BY <1>7 DEF ManagerStarts, ManagerStartsUnknown, ManagerStartCancelled, Background
  <2>2. \/ StartCall(s) \/ Unheard(s) \/ StartCancelled(s)
        \/ PumpStep(s) \/ WatchStep(s) \/ EngineStep(s)
    BY <1>7 DEF ManagerStarts, ManagerStartsUnknown, ManagerStartCancelled, Background, Unheard
  <2>3. QED
    BY <1>0, <1>6, <2>1, <2>2, OthersReturnNothing
<1>8. ASSUME NEW k \in Stops, ManagerStopCancelled(k) PROVE LedgerInv'
  BY <1>0, <1>6, <1>8, OthersReturnNothing DEF ManagerStopCancelled
<1>9. CASE UNCHANGED allVars
  BY <1>6, <1>9 DEF NothingReturns
<1>10. QED
  BY <1>2, <1>3, <1>4, <1>5, <1>7, <1>8, <1>9 DEF ManagerNext, ManagerInternal

LEMMA LedgerInvariant == ManagerSpec => [](ManagerBase /\ LedgerInv)
<1>1. ManagerInit => ManagerBase /\ LedgerInv
  <2>1. ManagerInit => LedgerInv
    BY DEF ManagerInit, Init, LedgerInv, Distinct
  <2>2. QED
    BY <2>1, ManagerBaseInit
<1>2. ManagerBase /\ LedgerInv /\ [ManagerNext]_allVars => ManagerBase' /\ LedgerInv'
  BY ManagerBaseStep, LedgerStep
<1>3. QED
  BY <1>1, <1>2, PTL DEF ManagerSpec

LEMMA LedgerImplies == ManagerBase /\ LedgerInv => LedgerIsTrue /\ OneRunPerStart
<1> SUFFICES ASSUME ManagerBase, LedgerInv PROVE LedgerIsTrue /\ OneRunPerStart
  OBVIOUS
<1>1. DOMAIN runs = 1..Len(runs) /\ Len(runs) \in Nat
  BY DEF ManagerBase, ManagerTypeOK
<1>2. LedgerIsTrue
  BY <1>1 DEF LedgerInv, LedgerIsTrue
<1>3. ASSUME NEW s \in Starts
      PROVE  LET rows == {i \in DOMAIN runs : runs[i].start = s}
             IN  /\ Cardinality(rows) <= 1
                 /\ rows # {} => startPc[s] = "returned"
                 /\ startPc[s] = "returned" /\ ConfigOf[s] \in stored => rows # {}
  <2> DEFINE rows == {i \in DOMAIN runs : runs[i].start = s}
  <2>1. rows # {} => startPc[s] = "returned"
    BY <1>1 DEF LedgerInv
  <2>2. startPc[s] = "returned" /\ ConfigOf[s] \in stored => rows # {}
    BY <1>1 DEF LedgerInv
  <2>3. \A i, j \in rows : i = j
    BY <1>1 DEF LedgerInv, Distinct
  <2>4. Cardinality(rows) <= 1
    <3>1. CASE rows = {}
      BY <3>1, FS_EmptySet
    <3>2. CASE rows # {}
      <4>1. PICK i \in rows : rows = {i}
        BY <2>3, <3>2
      <4>2. Cardinality({i}) = 1
        BY FS_Singleton
      <4>3. QED
        BY <4>1, <4>2
    <3>3. QED
      BY <3>1, <3>2
  <2>5. QED
    BY <2>1, <2>2, <2>4
<1>4. QED
  BY <1>2, <1>3 DEF OneRunPerStart

(* A run is marked as having become ready only if its engine did; one whose  *)
(* engine did and which is not marked tells of an engine that died or of a   *)
(* stop that was made, whatever is deleted or started meanwhile:             *)
(* manager.py:78-92, supervisor.py:183-192.                                  *)
THEOREM LedgerTellsTheTruth == ManagerSpec => []LedgerIsTrue
BY LedgerInvariant, LedgerImplies, PTL

(* Every start that returned has one run, unless its configuration is gone,  *)
(* and no other has any: manager.py:78-115.                                  *)
THEOREM StartsHaveOneRun == ManagerSpec => []OneRunPerStart
BY LedgerInvariant, LedgerImplies, PTL

-----------------------------------------------------------------------------
(* 2. The API *)

-----------------------------------------------------------------------------
(* What a request does to the manager *)

USE DEF apiVars, everything, TaskPending, TaskOver

\* Every step is one of the manager's, or none of its.
LEMMA ManagerMoves == [ApiNext]_everything => [ManagerNext]_allVars
BY DEF ApiNext, PostStart, StartConflicts, StartMissing, StartAccepted, GoStep, GoBegins,
       GoProceeds, GoCancelled, PostStop, StopCancelsStart, StopRequested, StopRequestStep,
       StopProceeds, LoopEnds, ManagerNext, ManagerInternal

\* Of all calls, a step of one moves that one only.
OnlyStart(s) == /\ \A t \in Starts \ {s} : startPc'[t] = startPc[t]
                /\ UNCHANGED <<stopPc, stopOn>>
OnlyStop(k) == /\ \A l \in Stops \ {k} : stopPc'[l] = stopPc[l]
               /\ UNCHANGED <<startPc, leader>>

LEMMA StartBeginsMoves ==
    ASSUME TypeOK, NEW s \in Starts, ManagerStarts(s) \/ ManagerStartsUnknown(s)
    PROVE  /\ startPc[s] = "idle" /\ startPc'[s] \in {"spawning", "refused", "raised"}
           /\ OnlyStart(s)
BY DEF TypeOK, ManagerStarts, ManagerStartsUnknown, StartCall, StartRefused, StartBegins, OnlyStart

LEMMA StartProceedsMoves ==
    ASSUME TypeOK, NEW s \in Starts, ManagerStartProceeds(s)
    PROVE  /\ startPc[s] \in StartSuspended /\ startPc'[s] \in StartSuspended \cup StartEnded
           /\ OnlyStart(s)
<1>1. startPc[s] \in StartSuspended /\ \A t \in Starts \ {s} : startPc'[t] = startPc[t]
  BY StartStepIsLocal DEF ManagerStartProceeds
<1>2. /\ UNCHANGED stopVars
      /\ \E place \in StartSuspended \cup StartEnded : startPc' = [startPc EXCEPT ![s] = place]
  <2>1. CASE StartUnwinds(s)
    BY <2>1 DEF StartUnwinds, StartTail, StartAwaits
  <2>2. CASE SpawnReturns(s) \/ PollsAgain(s) \/ StartTimesOut(s)
    BY <2>2 DEF SpawnReturns, PollsAgain, PollTurn, StartFails, StartTimesOut
  <2>3. CASE HealthAnswers(s) \/ HealthMisses(s) \/ BecomesReady(s) \/ ClientCloses(s)
    BY <2>3 DEF HealthAnswers, HealthMisses, BecomesReady, ClientCloses
  <2>4. CASE PollFindsNoHandle(s) \/ StartKills(s)
    BY <2>4 DEF PollFindsNoHandle, StartKills
  <2>5. QED
    BY <2>1, <2>2, <2>3, <2>4 DEF ManagerStartProceeds, StartStep
<1>3. QED
  BY <1>1, <1>2 DEF TypeOK, OnlyStart

LEMMA StartCancelledMoves ==
    ASSUME TypeOK, NEW s \in Starts, ManagerStartCancelled(s)
    PROVE  /\ startPc[s] \in StartSuspended /\ startPc'[s] = "cancelled"
           /\ OnlyStart(s)
BY DEF TypeOK, ManagerStartCancelled, StartCancelled, OnlyStart

LEMMA StopBeginsMoves ==
    ASSUME TypeOK, NEW k \in Stops, ManagerStops(k)
    PROVE  stopPc[k] = "idle" /\ stopPc'[k] \in StopSuspended \cup {"done"} /\ OnlyStop(k)
BY DEF TypeOK, ManagerStops, StopCall, StopDoesNothing, StopKills, StopReapsAtOnce, StopTail,
       StopAwaits, OnlyStop

LEMMA StopProceedsMoves ==
    ASSUME TypeOK, NEW k \in Stops, ManagerStopProceeds(k)
    PROVE  /\ stopPc[k] \in StopSuspended /\ stopPc'[k] \in StopSuspended \cup {"done"}
           /\ OnlyStop(k)
BY DEF TypeOK, ManagerStopProceeds, StopStep, StopReaps, StopUnwinds, StopTail, StopAwaits,
       OnlyStop

LEMMA BackgroundMoves ==
    ASSUME TypeOK, NEW s \in Starts, Background(s)
    PROVE  UNCHANGED <<startVars, stopVars, record, handle, pump, watch, managerVars>>
BY DEF Background, PumpStep, PumpProgress, PumpStarts, PumpLine, PumpSignature, PumpEof,
       PumpCancelled, WatchStep, WatchStarts, WatchSeesEof, WatchBreaks, WatchCancelled,
       EngineStep, EngineServes, EngineForks, EngineComplains, EngineExits, EngineReaped,
       ChildExits, EngineKilled

\* What goes on in the background brings no engine into being, and of the records
\* it changes the READY ones only: those fail of a death.
LEMMA BackgroundEffects ==
    ASSUME TypeOK, NEW s \in Starts, Background(s)
    PROVE  /\ \A t \in Starts : leader[t] \notin Alive => leader'[t] \notin Alive
           /\ \A t \in Starts : leader[t] = "reaped" => leader'[t] = "reaped"
           /\ \A t \in Starts :
                 \/ UNCHANGED <<state[t], failure[t]>>
                 \/ /\ state[t] = "ready"
                    /\ state'[t] = "failed" /\ failure'[t] = "died_while_ready"
           /\ readyAt' = readyAt
<1>1. CASE PumpStep(s)
  BY <1>1 DEF PumpStep, PumpProgress, PumpStarts, PumpLine, PumpSignature, PumpEof, PumpCancelled
<1>2. CASE WatchStep(s)
  BY <1>2 DEF TypeOK, WatchStep, WatchStarts, WatchSeesEof, WatchBreaks, WatchCancelled
<1>3. CASE EngineStep(s)
  <2>1. UNCHANGED recordVars
    BY <1>3 DEF EngineStep, EngineServes, EngineForks, EngineComplains, EngineExits,
       EngineReaped, ChildExits, EngineKilled
  <2>2. \/ leader' = leader
        \/ leader[s] = "running" /\ leader' = [leader EXCEPT ![s] = "exited"]
        \/ leader[s] = "exited" /\ leader' = [leader EXCEPT ![s] = "reaped"]
    BY <1>3 DEF EngineStep, EngineServes, EngineForks, EngineComplains, EngineExits,
       EngineReaped, ChildExits, EngineKilled
  <2>3. QED
    BY <2>1, <2>2 DEF TypeOK, Alive
<1>4. QED
  BY <1>1, <1>2, <1>3 DEF Background

-----------------------------------------------------------------------------
(* Types *)

LEMMA ApiTypeStep == TypeOK' /\ ApiTypeOK /\ [ApiNext]_everything => ApiTypeOK'
<1> SUFFICES ASSUME TypeOK', ApiTypeOK, [ApiNext]_everything PROVE ApiTypeOK'
  OBVIOUS
<1> USE SupervisorAssumption, ApiAssumption
<1>1. ASSUME NEW s \in Starts, PostStart(s) PROVE ApiTypeOK'
  BY <1>1 DEF ApiTypeOK, PostStart, StartConflicts, StartMissing, StartAccepted, Answered
<1>2. ASSUME NEW s \in Starts, GoFollows(s) PROVE ApiTypeOK'
  <2>1. state'[s] \in EngineState
    BY DEF TypeOK
  <2>2. event' \in EngineState \cup {"none"}
    BY <1>2, <2>1 DEF ApiTypeOK, GoFollows
  <2>3. task' \in [Starts -> {"none"} \cup TaskPending \cup TaskOver]
    BY <1>2 DEF ApiTypeOK, GoFollows
  <2>4. QED
    BY <1>2, <2>2, <2>3 DEF ApiTypeOK, GoFollows
<1>3. ASSUME NEW s \in Starts, GoCancelled(s) PROVE ApiTypeOK'
  BY <1>3 DEF ApiTypeOK, GoCancelled
<1>4. ASSUME NEW k \in Stops, StopCancelsStart(k) PROVE ApiTypeOK'
  BY <1>4 DEF ApiTypeOK, StopCancelsStart
<1>5. ASSUME NEW k \in Stops, StopRequested(k) \/ StopProceeds(k) PROVE ApiTypeOK'
  BY <1>5 DEF ApiTypeOK, StopRequested, StopProceeds, StopFollows
<1>6. ASSUME NEW k \in Stops, LoopEnds(k) PROVE ApiTypeOK'
  BY <1>6, Zenon DEF ApiTypeOK, LoopEnds
<1>7. CASE UNCHANGED apiVars
  BY <1>7 DEF ApiTypeOK
<1>8. QED
  BY <1>1, <1>2, <1>3, <1>4, <1>5, <1>6, <1>7
  DEF ApiNext, GoStep, GoBegins, GoProceeds, PostStop, StopRequestStep

ApiBase == ManagerBase /\ ApiTypeOK

LEMMA ApiBaseInit == ApiInit => ApiBase
BY ManagerBaseInit, SupervisorAssumption DEF ApiInit, ApiBase, ApiTypeOK

LEMMA ApiBaseStep == ApiBase /\ [ApiNext]_everything => ApiBase'
<1>1. ApiBase /\ [ApiNext]_everything => ManagerBase'
  BY ManagerMoves, ManagerBaseStep DEF ApiBase
<1>2. QED
  BY <1>1, ApiTypeStep DEF ApiBase, ManagerBase

(* The requests use the manager as any caller may: what is proved of it      *)
(* holds behind the API, of clients patient or not: app.py:160-219 over      *)
(* manager.py:78-115.                                                        *)
THEOREM ApiDrivesManager == ApiSpec => ManagerSpec
<1>1. ApiInit => ManagerInit
  BY DEF ApiInit
<1>2. QED
  BY <1>1, ManagerMoves, PTL DEF ApiSpec, ManagerSpec

(* What a manager's ledger promises, it promises clients of the API,         *)
(* patient or not: app.py:160-219 over manager.py:78-115.                    *)
THEOREM LedgerServes == ApiSpec => [](LedgerIsTrue /\ OneRunPerStart)
BY ApiDrivesManager, LedgerTellsTheTruth, StartsHaveOneRun, PTL

-----------------------------------------------------------------------------
(***************************************************************************)
(* The inductive invariant.  CallsInv: where requests, tasks and calls of   *)
(* the supervisor are with respect to each other; a patient client has one  *)
(* task pending and one stop unanswered at most.                            *)
(***************************************************************************)
TaskInv(s) ==
    /\ answer[s] = "none" => task[s] = "none"
    /\ task[s] \in {"none", "created"} => startPc[s] = "idle"
    /\ (task[s] = "running") = (startPc[s] \in StartSuspended)
    /\ task[s] \in TaskPending => starting = s

RequestInv(k) ==
    /\ stopping[k] \in {"none", "awaiting"} => stopPc[k] = "idle"
    /\ (stopping[k] = "stopping") = (stopPc[k] \in StopSuspended)
    /\ stopping[k] = "awaiting" => starting # None /\ awaited[k] = starting
    /\ stopping[k] = "awaiting" => k \notin Shutdowns
    /\ stopping[k] = "stopping" /\ k \notin Shutdowns => ~TasksPending

InFlight(k) == stopping[k] \in {"awaiting", "stopping"}

CallsInv ==
    /\ \A s \in Starts : TaskInv(s)
    /\ \A k \in Stops : RequestInv(k)
    /\ \A k, l \in Stops : InFlight(k) /\ InFlight(l) => k = l
    /\ ShutDown => /\ \A s \in Starts : task[s] # "created"
                   /\ \A k \in Stops \ Shutdowns : ~InFlight(k)

USE DEF TasksPending, ShutDown, Unanswered, StartPending, InFlight

LEMMA CallsStep ==
    ASSUME Patient, ApiBase, CallsInv, [ApiNext]_everything
    PROVE  CallsInv'
<1> USE ApiAssumption, SupervisorAssumption DEF CallsInv, TaskInv, RequestInv
<1>0. TypeOK /\ TypeOK' /\ ApiTypeOK /\ ApiTypeOK'
  BY ApiBaseStep DEF ApiBase, ManagerBase
<1>1. ASSUME NEW s \in Starts, PostStart(s) PROVE CallsInv'
  BY <1>0, <1>1 DEF ApiTypeOK, PostStart, StartConflicts, StartMissing, StartAccepted, Answered
<1>2. ASSUME NEW s \in Starts, GoBegins(s) PROVE CallsInv'
  <2>1. /\ startPc[s] = "idle" /\ startPc'[s] \in {"spawning", "refused", "raised"}
        /\ OnlyStart(s)
    BY <1>0, <1>2, StartBeginsMoves DEF GoBegins
  <2>2. QED
    BY <1>0, <1>2, <2>1 DEF ApiTypeOK, GoBegins, GoFollows, OnlyStart
<1>3. ASSUME NEW s \in Starts, GoProceeds(s) PROVE CallsInv'
  <2>1. /\ startPc[s] \in StartSuspended /\ startPc'[s] \in StartSuspended \cup StartEnded
        /\ OnlyStart(s)
    BY <1>0, <1>3, StartProceedsMoves DEF GoProceeds
  <2>2. QED
    BY <1>0, <1>3, <2>1 DEF ApiTypeOK, GoProceeds, GoFollows, OnlyStart
<1>4. ASSUME NEW s \in Starts, GoCancelled(s) PROVE CallsInv'
  <2>1. CASE ManagerStartCancelled(s) /\ task[s] = "running"
    <3>1. startPc[s] \in StartSuspended /\ startPc'[s] = "cancelled" /\ OnlyStart(s)
      BY <1>0, <2>1, StartCancelledMoves
    <3>2. QED
      BY <1>0, <1>4, <2>1, <3>1 DEF ApiTypeOK, GoCancelled, OnlyStart
  <2>2. CASE UNCHANGED allVars /\ task[s] = "created"
    BY <1>0, <1>4, <2>2 DEF ApiTypeOK, GoCancelled
  <2>3. QED
    BY <1>4, <2>1, <2>2 DEF GoCancelled
<1>5. ASSUME NEW k \in Stops, ~ShutDown, ~Unanswered,
             k \in Shutdowns => \A s \in Starts : task[s] # "created", StopCancelsStart(k)
      PROVE  CallsInv'
  BY <1>0, <1>5 DEF ApiTypeOK, StopCancelsStart
<1>6. ASSUME NEW k \in Stops, StopRequested(k),
             \/ stopping[k] # "none"
             \/ /\ ~ShutDown /\ ~Unanswered
                /\ k \in Shutdowns => \A s \in Starts : task[s] # "created"
      PROVE  CallsInv'
  <2>1. stopPc[k] = "idle" /\ stopPc'[k] \in StopSuspended \cup {"done"} /\ OnlyStop(k)
    BY <1>0, <1>6, StopBeginsMoves DEF StopRequested
  <2>2. k \notin Shutdowns => ~TasksPending
    BY <1>0, <1>6 DEF ApiTypeOK, StopRequested
  <2>3. QED
    BY <1>0, <1>6, <2>1, <2>2, ApiAssumption DEF ApiTypeOK, StopRequested, StopFollows, OnlyStop
<1>7. ASSUME NEW k \in Stops, StopProceeds(k) PROVE CallsInv'
  <2>1. /\ stopPc[k] \in StopSuspended /\ stopPc'[k] \in StopSuspended \cup {"done"}
        /\ OnlyStop(k)
    BY <1>0, <1>7, StopProceedsMoves DEF StopProceeds
  <2>2. QED
    BY <1>0, <1>7, <2>1 DEF ApiTypeOK, StopProceeds, StopFollows, OnlyStop
<1>8. ASSUME NEW k \in Stops, LoopEnds(k) PROVE CallsInv'
  BY <1>0, <1>8 DEF ApiTypeOK, LoopEnds
<1>9. CASE UNCHANGED <<startPc, stopPc, apiVars>>
  BY <1>9
<1>10. ASSUME NEW s \in Starts, Background(s), UNCHANGED apiVars PROVE CallsInv'
  BY <1>0, <1>9, <1>10, BackgroundMoves
<1>11. ASSUME NEW c \in Configs, Delete(c), UNCHANGED apiVars PROVE CallsInv'
  BY <1>9, <1>11 DEF Delete
<1>12. QED
  BY <1>1, <1>2, <1>3, <1>4, <1>5, <1>6, <1>7, <1>8, <1>9, <1>10, <1>11
  DEF ApiNext, GoStep, PostStop, StopRequestStep

-----------------------------------------------------------------------------
(***************************************************************************)
(* ReachInv: whatever start and stop are under way, the one engine that may  *)
(* run can be reached through self._handle, or its spawn is awaited; and a   *)
(* start that a stop has overtaken returns of an engine that is gone.        *)
(***************************************************************************)
Raising == {"raising", "killing"} \cup Unwinding

USE DEF Alive, Raising

StartReach(s) ==
    /\ leader[s] \in Alive => handle = s \/ startPc[s] = "spawning"
    /\ startPc[s] \in StartSuspended => record = s
    /\ startPc[s] \in {"spawning"} \cup Raising => handle = None
    /\ startPc[s] \in {"polling", "answered", "sleeping", "closing"} => handle \in {s, None}
    /\ startPc[s] = "closing" /\ state[s] = "stopped" =>
          \A t \in Starts : leader[t] \notin Alive
    /\ startPc[s] = "closing" => state[s] # "starting"

StopReach(k) ==
    /\ stopPc[k] = "killing" => handle # None /\ stopOn[k] = handle
    /\ stopPc[k] \in Unwinding => handle # None /\ leader[handle] \notin Alive

ReachInv ==
    /\ handle # None => record = handle
    /\ \A s \in Starts : StartReach(s)
    /\ \A k \in Stops : StopReach(k)

USE DEF StartReach, StopReach

\* While a start is under way nothing is being stopped, and conversely.
NoneStopping == \A k \in Stops : stopPc[k] \notin StopSuspended
NoneStarting == \A s \in Starts : startPc[s] \notin StartSuspended
OnlyStarting(s) == \A t \in Starts \ {s} : startPc[t] \notin StartSuspended
OnlyStopping(k) == \A l \in Stops \ {k} : stopPc[l] \notin StopSuspended

LEMMA ReachWhenStarting ==
    ASSUME TypeOK, ReachInv, NEW s \in Starts, OnlyStarting(s),
           \/ StartCall(s) /\ handle = None /\ NoneStopping
           \/ Unheard(s) \/ StartStep(s) \/ StartCancelled(s)
    PROVE  ReachInv'
<1> USE SupervisorAssumption DEF ReachInv, NoneStopping, OnlyStarting
<1>1. CASE StartRefused(s) \/ Unheard(s)
  BY <1>1 DEF TypeOK, StartRefused, Unheard
<1>2. CASE StartBegins(s) /\ handle = None /\ NoneStopping
  BY <1>2 DEF TypeOK, StartBegins, FreshScanner
<1>3. CASE SpawnReturns(s)
  BY <1>3, SMTT(40) DEF TypeOK, SpawnReturns, PollTurn, StartFails
<1>4. CASE HealthAnswers(s) \/ HealthMisses(s) \/ ClientCloses(s)
  BY <1>4 DEF TypeOK, HealthAnswers, HealthMisses, ClientCloses
<1>5. CASE BecomesReady(s)
  BY <1>5 DEF TypeOK, BecomesReady
<1>6. CASE PollsAgain(s) \/ StartTimesOut(s)
  BY <1>6, SMTT(40) DEF TypeOK, PollsAgain, PollTurn, StartFails, StartTimesOut
<1>7. CASE PollFindsNoHandle(s) \/ StartKills(s)
  BY <1>7 DEF TypeOK, PollFindsNoHandle, StartKills
<1>8. CASE StartUnwinds(s)
  <2>1. /\ startPc[s] \in Raising
        /\ \E place \in Unwinding \cup {"raised"} : startPc' = [startPc EXCEPT ![s] = place]
        /\ UNCHANGED <<recordVars, record, stopVars, engineVars>>
        /\ handle' \in {handle, None}
    BY <1>8 DEF StartUnwinds, StartTail, StartAwaits, ClearSelf
  <2>2. handle' = None /\ handle = None
    BY <2>1
  <2>3. QED
    BY <2>1, <2>2 DEF TypeOK
<1>9. CASE StartCancelled(s)
  BY <1>9 DEF TypeOK, StartCancelled
<1>10. QED
  BY <1>1, <1>2, <1>3, <1>4, <1>5, <1>6, <1>7, <1>8, <1>9 DEF StartCall, StartStep

\* What a step of stop() does to the attributes, the records and the calls.
LEMMA StopTailEffects ==
    ASSUME TypeOK, NEW k \in Stops, NEW w, NEW p, NEW st, StopTail(k, w, p, st)
    PROVE  /\ record' = record
           /\ \/ /\ \E place \in Unwinding : stopPc' = [stopPc EXCEPT ![k] = place]
                 /\ state' = st /\ handle' = handle
              \/ /\ stopPc' = [stopPc EXCEPT ![k] = "done"]
                 /\ state' = [st EXCEPT ![record] = "stopped"] /\ handle' = None
<1>1. CASE Live(watchTask, w) \/ Live(pumpTask, p)
  BY <1>1 DEF StopTail, StopAwaits
<1>2. CASE ~Live(watchTask, w) /\ ~Live(pumpTask, p)
  BY <1>2 DEF StopTail, StopAwaits, ClearSelf
<1>3. QED
  BY <1>1, <1>2

\* The states of the records when stop k gets to the tasks, or to the end.
StatesBefore(k) == IF stopPc[k] = "idle" THEN MarkStopping ELSE state

LEMMA StopReachesTail ==
    ASSUME TypeOK, ReachInv, NEW k \in Stops,
           StopReapsAtOnce(k) \/ StopReaps(k) \/ StopUnwinds(k)
    PROVE  /\ handle # None /\ record = handle /\ leader[handle] \notin Alive
           /\ \E w, p : StopTail(k, w, p, StatesBefore(k))
           /\ UNCHANGED <<failure, readyAt, startVars, engineVars>>
<1> USE SupervisorAssumption DEF ReachInv
<1>1. CASE StopReapsAtOnce(k)
  BY <1>1 DEF TypeOK, StopReapsAtOnce, StatesBefore
<1>2. CASE StopReaps(k)
  BY <1>2 DEF TypeOK, StopReaps, StatesBefore
<1>3. CASE StopUnwinds(k)
  BY <1>3 DEF TypeOK, StopUnwinds, StatesBefore
<1>4. QED
  BY <1>1, <1>2, <1>3

LEMMA ReachWhenStopping ==
    ASSUME TypeOK, ReachInv, NEW k \in Stops, OnlyStopping(k), StopCall(k) \/ StopStep(k)
    PROVE  ReachInv'
<1> USE SupervisorAssumption DEF OnlyStopping
<1>1. CASE StopDoesNothing(k)
  BY <1>1 DEF TypeOK, ReachInv, StopDoesNothing
<1>2. CASE StopKills(k)
  BY <1>2 DEF TypeOK, ReachInv, StopKills, MarkStopping
<1>3. CASE StopReapsAtOnce(k) \/ StopReaps(k) \/ StopUnwinds(k)
  <2> DEFINE st == StatesBefore(k)
  <2>1. PICK w, p : StopTail(k, w, p, st)
    BY <1>3, StopReachesTail
  <2>2. /\ handle # None /\ record = handle /\ leader[handle] \notin Alive
        /\ UNCHANGED <<startPc, leader>>
    BY <1>3, StopReachesTail
  <2>3. \A t \in Starts : leader[t] \notin Alive
    BY <2>2 DEF ReachInv
  <2>4. st \in [Starts -> EngineState] /\ \A t \in Starts : st[t] = "starting" => state[t] = "starting"
    BY <2>2 DEF TypeOK, ReachInv, StatesBefore, MarkStopping
  <2> HIDE DEF st
  <2>5. \/ /\ \E place \in Unwinding : stopPc' = [stopPc EXCEPT ![k] = place]
           /\ state' = st /\ handle' = handle
        \/ /\ stopPc' = [stopPc EXCEPT ![k] = "done"]
           /\ state' = [st EXCEPT ![record] = "stopped"] /\ handle' = None
    BY <2>1, StopTailEffects
  <2>6. record' = record
    BY <2>1, StopTailEffects
  <2>7. QED
    BY <2>2, <2>3, <2>4, <2>5, <2>6 DEF TypeOK, ReachInv
<1>4. QED
  BY <1>1, <1>2, <1>3 DEF StopCall, StopStep

LEMMA ReachInBackground ==
    ASSUME TypeOK, ReachInv, NEW s \in Starts, Background(s)
    PROVE  ReachInv'
BY BackgroundMoves, BackgroundEffects, SupervisorAssumption DEF TypeOK, ReachInv

-----------------------------------------------------------------------------
(***************************************************************************)
(* HoldInv: until the application is shut down, no start is overtaken by a   *)
(* stop: the engine that serves is the one self._handle stands for.          *)
(***************************************************************************)
StartHold(s) ==
    /\ startPc[s] \in {"polling", "answered", "sleeping", "closing"} => handle = s
    /\ startPc[s] \in {"spawning", "polling", "answered", "sleeping"} => state[s] = "starting"
    /\ startPc[s] = "closing" => state[s] \in {"ready", "failed"}
    /\ startPc[s] \notin Raising
    /\ state[s] = "ready" => handle = s

HoldInv ==
    /\ handle # None => state[handle] # "stopped"
    /\ \A s \in Starts : StartHold(s)

USE DEF StartHold

LEMMA HoldWhenStarting ==
    ASSUME TypeOK, ReachInv, HoldInv, NEW s \in Starts, OnlyStarting(s),
           (StartCall(s) /\ Stopped) \/ Unheard(s) \/ StartStep(s) \/ StartCancelled(s)
    PROVE  HoldInv'
<1> USE SupervisorAssumption DEF ReachInv, HoldInv, OnlyStarting
<1>1. CASE StartRefused(s) \/ Unheard(s)
  BY <1>1 DEF TypeOK, StartRefused, Unheard
<1>2. CASE StartBegins(s) /\ Stopped
  <2>1. handle = None
    BY <1>2 DEF TypeOK, Stopped, SupervisorState
  <2>2. QED
    BY <1>2, <2>1 DEF TypeOK, StartBegins, FreshScanner
<1>3. CASE SpawnReturns(s)
  BY <1>3, SMTT(40) DEF TypeOK, SpawnReturns, PollTurn, StartFails
<1>4. CASE HealthAnswers(s) \/ HealthMisses(s) \/ ClientCloses(s)
  BY <1>4 DEF TypeOK, HealthAnswers, HealthMisses, ClientCloses
<1>5. CASE BecomesReady(s)
  BY <1>5 DEF TypeOK, BecomesReady
<1>6. CASE PollsAgain(s) \/ StartTimesOut(s)
  BY <1>6, SMTT(40) DEF TypeOK, PollsAgain, PollTurn, StartFails, StartTimesOut
<1>7. CASE PollFindsNoHandle(s) \/ StartKills(s) \/ StartUnwinds(s)
  BY <1>7 DEF TypeOK, PollFindsNoHandle, StartKills, StartUnwinds
<1>8. CASE StartCancelled(s)
  BY <1>8 DEF TypeOK, StartCancelled
<1>9. QED
  BY <1>1, <1>2, <1>3, <1>4, <1>5, <1>6, <1>7, <1>8 DEF StartCall, StartStep

LEMMA HoldWhenStopping ==
    ASSUME TypeOK, ReachInv, HoldInv, NoneStarting, NEW k \in Stops, StopCall(k) \/ StopStep(k)
    PROVE  HoldInv'
<1> USE SupervisorAssumption DEF HoldInv, NoneStarting
<1>1. CASE StopDoesNothing(k)
  BY <1>1 DEF TypeOK, StopDoesNothing
<1>2. CASE StopKills(k)
  BY <1>2 DEF TypeOK, ReachInv, StopKills, MarkStopping
<1>3. CASE StopReapsAtOnce(k) \/ StopReaps(k) \/ StopUnwinds(k)
  <2> DEFINE st == StatesBefore(k)
  <2>1. handle # None /\ record = handle /\ UNCHANGED startPc
    BY <1>3, StopReachesTail
  <2>2. PICK w, p : StopTail(k, w, p, st)
    BY <1>3, StopReachesTail
  <2>3. /\ st \in [Starts -> EngineState] /\ st[handle] # "stopped"
        /\ \A t \in Starts : st[t] = "ready" => state[t] = "ready"
    BY <2>1 DEF TypeOK, StatesBefore, MarkStopping
  <2> HIDE DEF st
  <2>4. \/ state' = st /\ handle' = handle
        \/ state' = [st EXCEPT ![record] = "stopped"] /\ handle' = None
    BY <2>2, StopTailEffects
  <2>5. QED
    BY <2>1, <2>3, <2>4 DEF TypeOK
<1>4. QED
  BY <1>1, <1>2, <1>3 DEF StopCall, StopStep

LEMMA HoldInBackground ==
    ASSUME TypeOK, HoldInv, NEW s \in Starts, Background(s)
    PROVE  HoldInv'
BY BackgroundMoves, BackgroundEffects, SupervisorAssumption DEF TypeOK, HoldInv

-----------------------------------------------------------------------------
(* What is said of the engine, and what the ledger holds of it *)

\* PostedInv: a start that is about to begin finds the supervisor stopped.
PostedInv == \A s \in Starts : task[s] = "created" => Stopped

\* EventInv: "stopped" is said of engines that are gone, and no start is under way.
EventInv ==
    event = "stopped" => \A s \in Starts : leader[s] \notin Alive /\ task[s] # "running"

\* RunInv: self._run_id is the run of the current record, and what a stop under way
\* has read of the record before it waited is still so.
RunInv ==
    runId # None =>
        /\ record = runId /\ startPc[runId] = "returned"
        /\ (\A k \in Stops : stopping[k] # "stopping") => state[runId] \in {"ready", "failed"}
        /\ \A k \in Stops : stopping[k] = "stopping" =>
              /\ state[runId] # "ready"
              /\ \/ before[k] = "ready" /\ failure[runId] = None
                 \/ /\ before[k] = "failed" /\ failure[runId] # None
                    /\ beforeFailure[k] = failure[runId]

\* RowsInv: OutcomeIsOwn, of which an engine that still serves has an open run, and
\* an open run can be settled.
OwnRow(r) ==
    /\ startPc[r.start] = "returned"
    /\ r.outcome \in {"ready", "stopped"} => r.became_ready
    /\ r.outcome = "stopped" => failure[r.start] = None
    /\ r.outcome \in {"failed", "died"} =>
          r.failure_kind = failure[r.start] /\ r.failure_kind # None
    /\ readyAt[r.start] /\ ~r.became_ready => r.failure_kind = "died_while_ready"
    /\ r.outcome = "ready" => runId = r.start
    /\ r.outcome # "ready" => state[r.start] # "ready"
RowsInv == \A i \in 1..Len(runs) : OwnRow(runs[i])

OpenInv == HoldInv /\ PostedInv /\ RunInv /\ RowsInv
ApiInv == CallsInv /\ ReachInv /\ EventInv /\ (~ShutDown => OpenInv)

\* One task is pending at most.
LEMMA StartsAlone ==
    ASSUME ApiBase, CallsInv, NEW s \in Starts, task[s] \in TaskPending
    PROVE  OnlyStarting(s) /\ \A t \in Starts \ {s} : task[t] \notin TaskPending
BY DEF ApiBase, ApiTypeOK, CallsInv, TaskInv, OnlyStarting

\* One stop is under way at most.
LEMMA StopsAlone ==
    ASSUME ApiBase, CallsInv, NEW k \in Stops,
           \/ StopRequested(k) /\ (stopping[k] # "none" \/ ~Unanswered)
           \/ StopProceeds(k)
    PROVE  OnlyStopping(k)
BY DEF ApiBase, ApiTypeOK, CallsInv, RequestInv, OnlyStopping, StopRequested, StopProceeds

\* Who acts, acts alone: the premises of the lemmas above, from CallsInv.
LEMMA StartActsAlone ==
    ASSUME ApiBase, CallsInv, ~ShutDown, NEW s \in Starts, task[s] \in TaskPending
    PROVE  /\ NoneStopping /\ OnlyStarting(s)
           /\ \A t \in Starts \ {s} : task[t] \notin TaskPending
           /\ \A k \in Stops : stopping[k] # "stopping"
BY ApiAssumption
DEF ApiBase, ApiTypeOK, CallsInv, TaskInv, RequestInv, NoneStopping, OnlyStarting

LEMMA StopActsAlone ==
    ASSUME Patient, ApiBase, CallsInv, ~ShutDown', NEW k \in Stops,
           \/ StopRequested(k) /\ (stopping[k] # "none" \/ ~Unanswered)
           \/ StopProceeds(k)
    PROVE  /\ k \notin Shutdowns /\ ~ShutDown /\ ~TasksPending
           /\ NoneStarting /\ OnlyStopping(k)
           /\ \A l \in Stops \ {k} : stopping[l] # "stopping" /\ stopping'[l] = stopping[l]
           /\ UNCHANGED task
           /\ \/ /\ stopPc'[k] = "done" /\ stopping'[k] = "answered" /\ event' = "stopped"
              \/ /\ stopPc'[k] \in StopSuspended /\ stopping'[k] = "stopping"
                 /\ UNCHANGED event
<1> USE ApiAssumption DEF CallsInv, TaskInv, RequestInv, ApiTypeOK
<1>0. TypeOK /\ ApiTypeOK
  BY DEF ApiBase, ManagerBase
<1>1. stopPc'[k] \in StopSuspended \cup {"done"}
  BY <1>0, StopBeginsMoves, StopProceedsMoves DEF StopRequested, StopProceeds
<1>2. /\ \/ stopPc'[k] = "done" /\ stopping'[k] = "answered"
         \/ stopPc'[k] \in StopSuspended /\ stopping'[k] = "stopping" /\ UNCHANGED event
      /\ \A l \in Stops \ {k} : stopping'[l] = stopping[l]
      /\ UNCHANGED task
  BY <1>0, <1>1 DEF StopRequested, StopProceeds, StopFollows
<1>3. k \notin Shutdowns /\ ~ShutDown
  BY <1>0, <1>2
<1>4. ~TasksPending
  <2>1. CASE StopProceeds(k)
    BY <1>0, <1>3, <2>1 DEF StopProceeds
  <2>2. CASE stopping[k] = "none" /\ ~StartPending
    BY <1>0, <2>2, SupervisorAssumption
  <2>3. CASE stopping[k] = "awaiting" /\ task[awaited[k]] \in TaskOver
    BY <1>0, <2>3
  <2>4. QED
    BY <1>3, <2>1, <2>2, <2>3 DEF StopRequested
<1>5. NoneStarting
  BY <1>0, <1>4 DEF NoneStarting
<1>6. OnlyStopping(k) /\ \A l \in Stops \ {k} : stopping[l] # "stopping"
  BY <1>0 DEF OnlyStopping, StopRequested, StopProceeds
<1>7. stopPc'[k] = "done" => event' = "stopped"
  BY <1>0, <1>3 DEF StopRequested, StopProceeds, StopFollows
<1>8. QED
  BY <1>1, <1>2, <1>3, <1>4, <1>5, <1>6, <1>7

\* A stop that has ended has left nothing.
LEMMA StoppedLeavesNothing ==
    ASSUME TypeOK, ReachInv, NoneStarting, NEW k \in Stops, StopCall(k) \/ StopStep(k),
           stopPc'[k] = "done"
    PROVE  \A s \in Starts : leader'[s] \notin Alive
<1> USE SupervisorAssumption DEF ReachInv, NoneStarting
<1>1. CASE StopDoesNothing(k)
  BY <1>1 DEF TypeOK, StopDoesNothing
<1>2. CASE StopKills(k)
  BY <1>2 DEF TypeOK, StopKills
<1>3. CASE StopReapsAtOnce(k) \/ StopReaps(k) \/ StopUnwinds(k)
  <2>1. handle # None /\ leader[handle] \notin Alive /\ leader' = leader
    BY <1>3, StopReachesTail
  <2>2. QED
    BY <2>1
<1>4. QED
  BY <1>1, <1>2, <1>3 DEF StopCall, StopStep

\* What a step of stop() does to the records.
LEMMA StopActs ==
    ASSUME TypeOK, ReachInv, HoldInv, NEW k \in Stops, StopCall(k) \/ StopStep(k)
    PROVE  /\ record' = record /\ UNCHANGED <<failure, readyAt, startPc>>
           /\ \A t \in Starts : state'[t] = "ready" => state[t] = "ready"
           /\ stopPc'[k] = "done" /\ record # None => state'[record] # "ready"
           /\ stopPc'[k] \in StopSuspended /\ record # None =>
                 state' = StatesBefore(k)
<1> USE SupervisorAssumption
<1>1. CASE StopDoesNothing(k)
  BY <1>1 DEF TypeOK, HoldInv, StopDoesNothing
<1>2. CASE StopKills(k)
  BY <1>2 DEF TypeOK, StopKills, StatesBefore, MarkStopping
<1>3. CASE StopReapsAtOnce(k) \/ StopReaps(k) \/ StopUnwinds(k)
  <2> DEFINE st == StatesBefore(k)
  <2>1. PICK w, p : StopTail(k, w, p, st)
    BY <1>3, StopReachesTail
  <2>2. /\ st \in [Starts -> EngineState] /\ record \in Starts
        /\ \A t \in Starts : st[t] = "ready" => state[t] = "ready"
        /\ UNCHANGED <<failure, readyAt, startPc>>
    BY <1>3, StopReachesTail DEF TypeOK, StatesBefore, MarkStopping
  <2> HIDE DEF st
  <2>3. /\ record' = record
        /\ \/ /\ \E place \in Unwinding : stopPc' = [stopPc EXCEPT ![k] = place]
              /\ state' = st
           \/ /\ stopPc' = [stopPc EXCEPT ![k] = "done"]
              /\ state' = [st EXCEPT ![record] = "stopped"]
    BY <2>1, StopTailEffects
  <2>4. (stopPc'[k] \in StopSuspended => state' = st) /\ (stopPc'[k] = "done" => state'[record] = "stopped")
    BY <2>2, <2>3 DEF TypeOK
  <2>5. state' = st \/ state' = [st EXCEPT ![record] = "stopped"]
    BY <2>3
  <2>6. QED
    BY <2>2, <2>3, <2>4, <2>5 DEF st
<1>4. QED
  BY <1>1, <1>2, <1>3 DEF StopCall, StopStep

\* A start that returns leaves its record READY or FAILED, unless a stop overtook it.
LEMMA ReturnedState ==
    ASSUME TypeOK, NEW s \in Starts, StartStep(s)
    PROVE  /\ startPc'[s] = "returned" => state'[s] = "failed" \/ ClientCloses(s)
           /\ record' = record
<1>1. CASE StartUnwinds(s)
  BY <1>1 DEF TypeOK, StartUnwinds, StartTail, StartAwaits, ClearSelf
<1>2. CASE SpawnReturns(s) \/ PollsAgain(s) \/ StartTimesOut(s)
  BY <1>2 DEF TypeOK, SpawnReturns, PollsAgain, PollTurn, StartFails, StartTimesOut
<1>3. CASE HealthAnswers(s) \/ HealthMisses(s) \/ BecomesReady(s)
  BY <1>3 DEF TypeOK, HealthAnswers, HealthMisses, BecomesReady
<1>4. CASE PollFindsNoHandle(s) \/ StartKills(s)
  BY <1>4 DEF TypeOK, PollFindsNoHandle, StartKills
<1>5. CASE ClientCloses(s)
  BY <1>5 DEF ClientCloses
<1>6. QED
  BY <1>1, <1>2, <1>3, <1>4, <1>5 DEF StartStep

\* Shut down is for good.
LEMMA StaysDown == ApiBase /\ CallsInv /\ ShutDown /\ [ApiNext]_everything => ShutDown'
<1> SUFFICES ASSUME ApiBase, ShutDown, [ApiNext]_everything PROVE ShutDown'
  OBVIOUS
<1> USE ApiAssumption DEF ApiBase, ApiTypeOK
<1>1. ASSUME NEW k \in Stops, StopCancelsStart(k) \/ StopRequested(k) \/ StopProceeds(k)
      PROVE  \A l \in Stops : stopping[l] # "none" => stopping'[l] # "none"
  BY <1>1 DEF StopCancelsStart, StopRequested, StopProceeds, StopFollows
<1>2. CASE UNCHANGED stopping
  BY <1>2
<1>3. QED
  BY <1>1, <1>2
  DEF ApiNext, PostStart, StartConflicts, StartMissing, StartAccepted, GoStep, GoBegins,
      GoProceeds, GoCancelled, GoFollows, PostStop, StopRequestStep, LoopEnds

LEMMA ReachStep ==
    ASSUME Patient, ApiBase, CallsInv, ReachInv, ~ShutDown => HoldInv /\ PostedInv,
           [ApiNext]_everything
    PROVE  ReachInv'
<1>0. TypeOK /\ ApiTypeOK
  BY DEF ApiBase, ManagerBase
<1>1. ASSUME NEW s \in Starts, GoBegins(s) PROVE ReachInv'
  <2>1. ~ShutDown /\ OnlyStarting(s) /\ NoneStopping
    BY <1>0, <1>1, StartsAlone, StartActsAlone DEF CallsInv, GoBegins
  <2>2. handle = None
    BY <1>0, <1>1, <2>1, SupervisorAssumption
    DEF TypeOK, ReachInv, HoldInv, PostedInv, GoBegins, Stopped, SupervisorState
  <2>3. StartCall(s) \/ Unheard(s)
    BY <1>1 DEF GoBegins, ManagerStarts, ManagerStartsUnknown, Unheard
  <2>4. QED
    BY <1>0, <2>1, <2>2, <2>3, ReachWhenStarting
<1>2. ASSUME NEW s \in Starts, GoProceeds(s) \/ GoCancelled(s), ~UNCHANGED allVars
      PROVE  ReachInv'
  <2>1. OnlyStarting(s)
    BY <1>2, StartsAlone DEF GoProceeds, GoCancelled
  <2>2. StartStep(s) \/ StartCancelled(s)
    BY <1>2 DEF GoProceeds, GoCancelled, ManagerStartProceeds, ManagerStartCancelled
  <2>3. QED
    BY <1>0, <2>1, <2>2, ReachWhenStarting
<1>3. ASSUME NEW k \in Stops, \/ StopRequested(k) /\ (stopping[k] # "none" \/ ~Unanswered)
                              \/ StopProceeds(k)
      PROVE  ReachInv'
  <2>1. OnlyStopping(k)
    BY <1>3, StopsAlone
  <2>2. StopCall(k) \/ StopStep(k)
    BY <1>3 DEF StopRequested, StopProceeds, ManagerStops, ManagerStopProceeds
  <2>3. QED
    BY <1>0, <2>1, <2>2, ReachWhenStopping
<1>4. ASSUME NEW s \in Starts, Background(s) PROVE ReachInv'
  BY <1>0, <1>4, ReachInBackground
<1>5. CASE UNCHANGED vars
  BY <1>5 DEF ReachInv
<1>6. QED
  BY <1>1, <1>2, <1>3, <1>4, <1>5
  DEF ApiNext, PostStart, StartConflicts, StartMissing, StartAccepted, GoStep, PostStop,
      StopCancelsStart, StopRequestStep, LoopEnds, Delete

LEMMA HoldStep ==
    ASSUME Patient, ApiBase, CallsInv, ReachInv, HoldInv, PostedInv, ~ShutDown',
           [ApiNext]_everything
    PROVE  HoldInv'
<1>0. TypeOK /\ ApiTypeOK /\ ~ShutDown
  BY StaysDown DEF ApiBase, ManagerBase
<1>1. ASSUME NEW s \in Starts, GoBegins(s) \/ GoProceeds(s) \/ GoCancelled(s), ~UNCHANGED allVars
      PROVE  HoldInv'
  <2>1. OnlyStarting(s)
    BY <1>0, <1>1, StartsAlone DEF GoBegins, GoProceeds, GoCancelled
  <2>2. (StartCall(s) /\ Stopped) \/ Unheard(s) \/ StartStep(s) \/ StartCancelled(s)
    BY <1>1 DEF PostedInv, GoBegins, GoProceeds, GoCancelled, ManagerStarts,
       ManagerStartsUnknown, ManagerStartProceeds, ManagerStartCancelled, Unheard
  <2>3. QED
    BY <1>0, <2>1, <2>2, HoldWhenStarting
<1>2. ASSUME NEW k \in Stops, \/ StopRequested(k) /\ (stopping[k] # "none" \/ ~Unanswered)
                              \/ StopProceeds(k)
      PROVE  HoldInv'
  <2>1. NoneStarting
    BY <1>2, StopActsAlone
  <2>2. StopCall(k) \/ StopStep(k)
    BY <1>2 DEF StopRequested, StopProceeds, ManagerStops, ManagerStopProceeds
  <2>3. QED
    BY <1>0, <2>1, <2>2, HoldWhenStopping
<1>3. ASSUME NEW s \in Starts, Background(s) PROVE HoldInv'
  BY <1>0, <1>3, HoldInBackground
<1>4. CASE UNCHANGED vars
  BY <1>4 DEF HoldInv
<1>5. QED
  BY <1>1, <1>2, <1>3, <1>4
  DEF ApiNext, PostStart, StartConflicts, StartMissing, StartAccepted, GoStep, PostStop,
      StopCancelsStart, StopRequestStep, LoopEnds, Delete

LEMMA PostedStep ==
    ASSUME Patient, ApiBase, CallsInv, PostedInv, ~ShutDown', [ApiNext]_everything
    PROVE  PostedInv'
<1> USE DEF PostedInv
<1>0. TypeOK /\ ApiTypeOK /\ ~ShutDown
  BY StaysDown DEF ApiBase, ManagerBase
<1>1. ASSUME NEW s \in Starts, PostStart(s) PROVE PostedInv'
  BY <1>0, <1>1 DEF ApiTypeOK, PostStart, StartConflicts, StartMissing, StartAccepted, Stopped,
     SupervisorState
<1>2. ASSUME NEW s \in Starts, GoBegins(s) \/ GoProceeds(s) \/ GoCancelled(s)
      PROVE  PostedInv'
  <2>1. \A t \in Starts \ {s} : task[t] \notin TaskPending
    BY <1>0, <1>2, StartActsAlone DEF GoBegins, GoProceeds, GoCancelled
  <2>2. \A t \in Starts : task'[t] # "created"
    BY <1>0, <1>2, <2>1 DEF ApiTypeOK, GoBegins, GoProceeds, GoCancelled, GoFollows
  <2>3. QED
    BY <2>2
<1>3. ASSUME NEW k \in Stops, \/ StopRequested(k) /\ (stopping[k] # "none" \/ ~Unanswered)
                              \/ StopProceeds(k)
      PROVE  PostedInv'
  BY <1>3, StopActsAlone
<1>4. ASSUME NEW s \in Starts, Background(s), UNCHANGED apiVars PROVE PostedInv'
  <2>1. record' = record /\ \A t \in Starts : state[t] = "stopped" => state'[t] = "stopped"
    BY <1>0, <1>4, BackgroundMoves, BackgroundEffects
  <2>2. QED
    BY <1>0, <1>4, <2>1 DEF TypeOK, Stopped, SupervisorState
<1>5. CASE UNCHANGED <<vars, task>>
  BY <1>5 DEF Stopped, SupervisorState
<1>6. QED
  BY <1>1, <1>2, <1>3, <1>4, <1>5
  DEF ApiNext, GoStep, PostStop, StopCancelsStart, StopRequestStep, LoopEnds, Delete

LEMMA EventStep ==
    ASSUME Patient, ApiBase, CallsInv, ReachInv, EventInv, [ApiNext]_everything
    PROVE  EventInv'
<1> USE DEF EventInv
<1>0. TypeOK /\ ApiTypeOK
  BY DEF ApiBase, ManagerBase
<1>1. ASSUME NEW s \in Starts, PostStart(s) PROVE EventInv'
  BY <1>0, <1>1 DEF ApiTypeOK, PostStart, StartConflicts, StartMissing, StartAccepted
<1>2. ASSUME NEW s \in Starts, GoBegins(s) PROVE EventInv'
  <2>1. startPc[s] = "idle" /\ startPc'[s] \in {"spawning", "refused", "raised"}
    BY <1>0, <1>2, StartBeginsMoves DEF GoBegins
  <2>2. event' \in {"starting", "failed"}
    BY <1>2, <2>1 DEF GoBegins, GoFollows
  <2>3. QED
    BY <2>2
<1>3. ASSUME NEW s \in Starts, GoProceeds(s) PROVE EventInv'
  <2>1. startPc[s] \in StartSuspended /\ startPc'[s] \in StartSuspended \cup StartEnded
    BY <1>0, <1>3, StartProceedsMoves DEF GoProceeds
  <2>2. event # "stopped"
    BY <1>3 DEF GoProceeds
  <2>3. CASE event' # "stopped"
    BY <2>3
  <2>4. CASE event' = "stopped"
    <3>1. startPc'[s] = "returned" /\ state'[s] = "stopped"
      BY <1>3, <2>1, <2>2, <2>4 DEF GoProceeds, GoFollows
    <3>2. ClientCloses(s)
      BY <1>0, <1>3, <3>1, ReturnedState DEF GoProceeds, ManagerStartProceeds
    <3>3. \A t \in Starts : leader'[t] \notin Alive
      BY <3>1, <3>2 DEF ReachInv, ClientCloses
    <3>4. \A t \in Starts \ {s} : task[t] \notin TaskPending
      BY <1>3, StartsAlone DEF GoProceeds
    <3>5. \A t \in Starts : task'[t] # "running"
      BY <1>0, <1>3, <3>1, <3>4 DEF ApiTypeOK, GoProceeds, GoFollows
    <3>6. QED
      BY <3>3, <3>5
  <2>5. QED
    BY <2>3, <2>4
<1>4. ASSUME NEW s \in Starts, GoCancelled(s) PROVE EventInv'
  BY <1>0, <1>4 DEF TypeOK, ApiTypeOK, GoCancelled, ManagerStartCancelled, StartCancelled
<1>5. ASSUME NEW k \in Stops, StopRequested(k) \/ StopProceeds(k), UNCHANGED event
      PROVE  EventInv'
  <2>1. leader' = leader
    BY <1>0, <1>5, StopBeginsMoves, StopProceedsMoves DEF StopRequested, StopProceeds, OnlyStop
  <2>2. QED
    BY <1>5, <2>1 DEF StopRequested, StopProceeds
<1>6. ASSUME NEW k \in Stops, event' # event,
             \/ StopRequested(k) /\ (stopping[k] # "none" \/ (~Unanswered /\ ~ShutDown))
             \/ StopProceeds(k)
      PROVE  EventInv'
  <2>1. stopPc'[k] = "done" /\ k \notin Shutdowns
    BY <1>6 DEF StopRequested, StopProceeds, StopFollows
  <2>2. ~ShutDown
    BY <1>0, <1>6, <2>1 DEF CallsInv, StopRequested, StopProceeds
  <2>3. ~ShutDown'
    BY <1>0, <1>6, <2>1, <2>2, ApiAssumption DEF ApiTypeOK, StopRequested, StopProceeds, StopFollows
  <2>4. NoneStarting /\ ~TasksPending /\ UNCHANGED task
    BY <1>6, <2>3, StopActsAlone
  <2>5. StopCall(k) \/ StopStep(k)
    BY <1>6 DEF StopRequested, StopProceeds, ManagerStops, ManagerStopProceeds
  <2>6. \A s \in Starts : leader'[s] \notin Alive
    BY <1>0, <2>1, <2>2, <2>4, <2>5, StoppedLeavesNothing
  <2>7. QED
    BY <2>4, <2>6
<1>7. ASSUME NEW s \in Starts, Background(s), UNCHANGED apiVars PROVE EventInv'
  BY <1>0, <1>7, BackgroundEffects
<1>8. CASE UNCHANGED <<leader, task, event>>
  BY <1>8
<1>9. ASSUME NEW k \in Stops, PostStop(k) \/ StopRequestStep(k) PROVE EventInv'
  <2>1. CASE StopCancelsStart(k)
    BY <1>8, <2>1 DEF StopCancelsStart
  <2>2. CASE StopRequested(k) \/ StopProceeds(k)
    <3>1. \/ StopRequested(k) /\ (stopping[k] # "none" \/ (~Unanswered /\ ~ShutDown))
          \/ StopProceeds(k)
      <4>1. PostStop(k) => ~Unanswered /\ ~ShutDown
        BY DEF PostStop
      <4>2. QED
        BY <1>9, <2>2, <4>1 DEF StopRequestStep
    <3>2. CASE UNCHANGED event
      BY <1>5, <2>2, <3>2, Zenon
    <3>3. CASE ~UNCHANGED event
      BY <1>6, <3>1, <3>3, Zenon
    <3>4. QED
      BY <3>2, <3>3
  <2>3. QED
    BY <1>9, <2>1, <2>2 DEF PostStop, StopRequestStep
<1>10. QED
  BY <1>1, <1>2, <1>3, <1>4, <1>7, <1>8, <1>9
  DEF ApiNext, GoStep, LoopEnds, Delete

\* Settling a run rewrites its own row, and no other.
LEMMA SettleEffects ==
    ASSUME TypeOK', runs \in Seq(Run), runId \in Starts \cup {None},
           NEW was \in EngineState, NEW kind \in FailureKind \cup {None}, Settle(was, kind)
    PROVE  /\ Len(runs') = Len(runs) /\ runId' = None
           /\ \A i \in 1..Len(runs) :
                 /\ runs'[i].start = runs[i].start
                 /\ runs'[i].became_ready = runs[i].became_ready
                 /\ \/ /\ runs[i].start = runId /\ was = "ready"
                       /\ runs'[i].outcome = "stopped"
                    \/ /\ runs[i].start = runId /\ was = "failed" /\ kind # None
                       /\ runs'[i].outcome = "died" /\ runs'[i].failure_kind = kind
                    \/ /\ \/ runs[i].start # runId \/ runId = None
                          \/ was # "ready" /\ (was # "failed" \/ kind = None)
                       /\ runs'[i] = runs[i]
<1> USE SupervisorAssumption
<1>0. DOMAIN runs = 1..Len(runs)
  OBVIOUS
<1>1. CASE runId # None /\ was = "ready" /\ CloseRun("stopped", None)
  <2>1. /\ Len(runs') = Len(runs)
        /\ \A i \in 1..Len(runs) :
              /\ runs'[i].start = runs[i].start
              /\ runs'[i].became_ready = runs[i].became_ready
              /\ runs'[i].outcome = IF runs[i].start = runId THEN "stopped" ELSE runs[i].outcome
    BY <1>1, RunsTypes DEF Outcome
  <2>2. \A i \in 1..Len(runs) : runs[i].start # runId => runs'[i] = runs[i]
    BY <1>0, <1>1 DEF CloseRun
  <2>3. QED
    BY <1>1, <2>1, <2>2 DEF Settle
<1>2. CASE runId # None /\ was = "failed" /\ kind # None /\ CloseRun("died", kind)
  <2>1. /\ Len(runs') = Len(runs)
        /\ \A i \in 1..Len(runs) :
              /\ runs'[i].start = runs[i].start
              /\ runs'[i].became_ready = runs[i].became_ready
              /\ runs'[i].outcome = IF runs[i].start = runId THEN "died" ELSE runs[i].outcome
              /\ runs'[i].failure_kind =
                    IF runs[i].start = runId THEN kind ELSE runs[i].failure_kind
    BY <1>2, RunsTypes DEF Outcome
  <2>2. \A i \in 1..Len(runs) : runs[i].start # runId => runs'[i] = runs[i]
    BY <1>0, <1>2 DEF CloseRun
  <2>3. QED
    BY <1>2, <2>1, <2>2 DEF Settle
<1>3. CASE /\ runId = None \/ (was # "ready" /\ (was # "failed" \/ kind = None))
           /\ runs' = runs
  BY <1>3 DEF Settle
<1>4. QED
  BY <1>1, <1>2, <1>3 DEF Settle

\* No run can be settled while a start is pending.
LEMMA PendingHasNoRun ==
    ASSUME ApiBase, CallsInv, ReachInv, PostedInv, RunInv, ~ShutDown,
           NEW s \in Starts, task[s] \in TaskPending
    PROVE  runId = None
<1> USE SupervisorAssumption
<1>0. TypeOK /\ ManagerTypeOK /\ ApiTypeOK
  BY DEF ApiBase, ManagerBase
<1>1. \A k \in Stops : stopping[k] # "stopping"
  BY StartActsAlone
<1>2. CASE task[s] = "created"
  BY <1>0, <1>1, <1>2 DEF ManagerTypeOK, RunInv, PostedInv, Stopped, SupervisorState
<1>3. CASE task[s] = "running"
  BY <1>0, <1>3 DEF ManagerTypeOK, CallsInv, TaskInv, ReachInv, RunInv
<1>4. QED
  BY <1>2, <1>3

\* What a stop settles a run with is what became of the engine.
LEMMA StopSettles ==
    ASSUME Patient, ApiBase, ApiBase', CallsInv, ReachInv, HoldInv, RunInv, ~ShutDown',
           NEW k \in Stops,
           \/ StopRequested(k) /\ (stopping[k] # "none" \/ ~Unanswered)
           \/ StopProceeds(k)
    PROVE  /\ \/ /\ stopPc'[k] = "done" /\ stopping'[k] = "answered" /\ runId' = None
                 /\ \E was \in EngineState, kind \in FailureKind \cup {None} :
                       /\ Settle(was, kind)
                       /\ runId # None =>
                             \/ was = "ready" /\ failure[runId] = None
                             \/ was = "failed" /\ kind = failure[runId] /\ kind # None
              \/ /\ stopPc'[k] \in StopSuspended /\ stopping'[k] = "stopping"
                 /\ UNCHANGED <<runs, runId>>
           /\ RunInv'
<1> USE SupervisorAssumption
<1>0. /\ TypeOK /\ TypeOK' /\ ManagerTypeOK /\ ApiTypeOK /\ FailureInv
      /\ runId \in Starts \cup {None}
  BY DEF ApiBase, ManagerBase, ManagerTypeOK
<1>1. /\ \A l \in Stops \ {k} : stopping[l] # "stopping" /\ stopping'[l] = stopping[l]
      /\ \/ stopPc'[k] = "done" /\ stopping'[k] = "answered"
         \/ stopPc'[k] \in StopSuspended /\ stopping'[k] = "stopping"
  BY StopActsAlone
<1>2. StopCall(k) \/ StopStep(k)
  BY DEF StopRequested, StopProceeds, ManagerStops, ManagerStopProceeds
<1>3. /\ record' = record /\ UNCHANGED <<failure, readyAt, startPc>>
      /\ stopPc'[k] \in StopSuspended /\ record # None =>
            state' = StatesBefore(k)
  BY <1>0, <1>2, StopActs
<1> DEFINE was == IF StopProceeds(k) THEN before[k] ELSE SupervisorState
           kind == IF StopProceeds(k) THEN beforeFailure[k] ELSE RecordFailure
<1>4. was \in EngineState /\ kind \in FailureKind \cup {None}
  <2>1. SupervisorState \in EngineState /\ RecordFailure \in FailureKind \cup {None}
    BY <1>0 DEF TypeOK, SupervisorState, RecordFailure
  <2>2. before[k] \in EngineState /\ beforeFailure[k] \in FailureKind \cup {None}
    BY <1>0 DEF ManagerTypeOK
  <2>3. QED
    BY <2>1, <2>2
<1>5. runId # None => \/ was = "ready" /\ failure[runId] = None
                      \/ was = "failed" /\ kind = failure[runId] /\ kind # None
  <2>1. CASE StopProceeds(k)
    BY <1>0, <2>1 DEF RunInv, StopProceeds
  <2>2. CASE ~StopProceeds(k)
    <3>1. \A l \in Stops : stopping[l] # "stopping"
      BY <1>1, <2>2 DEF StopRequested
    <3>2. QED
      BY <1>0, <2>2, <3>1 DEF RunInv, SupervisorState, RecordFailure, FailureInv, FailureExplained
  <2>3. QED
    BY <2>1, <2>2
<1>6. Settling(k, was, kind)
  BY DEF StopRequested, StopProceeds, ManagerStops, ManagerStopProceeds
<1>7. CASE stopPc'[k] = "done"
  <2>1. Settle(was, kind)
    BY <1>6, <1>7 DEF Settling
  <2>2. runId' = None
    BY <2>1 DEF Settle
  <2> HIDE DEF was, kind
  <2>3. QED
    BY <1>1, <1>4, <1>5, <1>7, <2>1, <2>2 DEF RunInv
<1>8. CASE stopPc'[k] # "done"
  <2>1. UNCHANGED <<runs, runId>> /\ stopping'[k] = "stopping" /\ stopPc'[k] \in StopSuspended
    BY <1>1, <1>6, <1>8 DEF Settling
  <2>2. before'[k] = was /\ beforeFailure'[k] = kind
    BY <1>0 DEF ManagerTypeOK, StopRequested, StopProceeds, ManagerStops, ManagerStopProceeds
  <2>3. runId # None => state'[runId] # "ready"
    <3>1. SUFFICES ASSUME runId # None PROVE state'[runId] # "ready"
      OBVIOUS
    <3>2. record = runId /\ runId \in Starts
      BY <1>0, <3>1 DEF RunInv
    <3>3. CASE stopPc[k] = "idle"
      BY <1>0, <1>3, <2>1, <3>2, <3>3 DEF TypeOK, StatesBefore, MarkStopping
    <3>4. CASE stopPc[k] # "idle"
      <4>1. stopping[k] = "stopping"
        BY <1>0, <3>4 DEF CallsInv, RequestInv, StopRequested, StopProceeds
      <4>2. QED
        BY <1>3, <2>1, <3>1, <3>2, <3>4, <4>1 DEF RunInv, StatesBefore
    <3>5. QED
      BY <3>3, <3>4
  <2> HIDE DEF was, kind
  <2>4. RunInv'
    BY <1>0, <1>1, <1>3, <1>5, <2>1, <2>2, <2>3 DEF RunInv
  <2>5. QED
    BY <2>1, <2>4
<1>9. QED
  BY <1>7, <1>8

LEMMA RunStep ==
    ASSUME Patient, ApiBase, ApiBase', CallsInv, ReachInv, HoldInv, PostedInv, RunInv, ~ShutDown',
           [ApiNext]_everything
    PROVE  RunInv'
<1> USE SupervisorAssumption
<1>0. TypeOK /\ TypeOK' /\ ApiTypeOK /\ ManagerTypeOK /\ ~ShutDown
  BY StaysDown DEF ApiBase, ManagerBase
<1>1. ASSUME NEW s \in Starts, GoBegins(s) \/ GoCancelled(s) PROVE RunInv'
  <2>1. runId = None
    BY <1>0, <1>1, PendingHasNoRun DEF GoBegins, GoCancelled
  <2>2. runId' = runId
    BY <1>1 DEF GoBegins, GoCancelled, ManagerStarts, ManagerStartsUnknown, ManagerStartCancelled
  <2>3. QED
    BY <2>1, <2>2 DEF RunInv
<1>2. ASSUME NEW s \in Starts, GoProceeds(s) PROVE RunInv'
  <2>1. runId = None /\ StartStep(s) /\ task[s] = "running"
    BY <1>0, <1>2, PendingHasNoRun DEF GoProceeds, ManagerStartProceeds
  <2>2. CASE runId' = runId
    BY <2>1, <2>2 DEF RunInv
  <2>3. CASE runId' # runId
    <3>1. startPc'[s] = "returned" /\ runId' = s
      BY <1>2, <2>3 DEF GoProceeds, ManagerStartProceeds, Recording, RecordRun
    <3>2. record' = s
      BY <1>0, <2>1, ReturnedState DEF CallsInv, TaskInv, ReachInv
    <3>3. state'[s] \in {"ready", "failed"}
      BY <1>0, <2>1, <3>1, ReturnedState DEF HoldInv, ClientCloses
    <3>4. \A k \in Stops : stopping'[k] # "stopping"
      BY <1>0, <1>2, StartActsAlone DEF GoProceeds, GoFollows
    <3>5. QED
      BY <3>1, <3>2, <3>3, <3>4 DEF RunInv
  <2>4. QED
    BY <2>2, <2>3
<1>3. ASSUME NEW k \in Stops, \/ StopRequested(k) /\ (stopping[k] # "none" \/ ~Unanswered)
                              \/ StopProceeds(k)
      PROVE  RunInv'
  BY <1>3, StopSettles
<1>4. ASSUME NEW s \in Starts, Background(s), UNCHANGED apiVars PROVE RunInv'
  BY <1>0, <1>4, BackgroundMoves, BackgroundEffects DEF ManagerTypeOK, RunInv
<1>5. ASSUME UNCHANGED <<vars, runId, stopNotes>>,
             \A k \in Stops : (stopping'[k] = "stopping") = (stopping[k] = "stopping")
      PROVE  RunInv'
  BY <1>5 DEF RunInv
<1>6. ASSUME NEW c \in Configs, Delete(c), UNCHANGED apiVars PROVE RunInv'
  BY <1>5, <1>6 DEF Delete
<1>7. ASSUME NEW k \in Stops, StopCancelsStart(k) PROVE RunInv'
  BY <1>0, <1>5, <1>7 DEF ApiTypeOK, StopCancelsStart
<1>8. CASE UNCHANGED <<allVars, stopping>>
  BY <1>5, <1>8
<1>9. QED
  BY <1>1, <1>2, <1>3, <1>4, <1>6, <1>7, <1>8
  DEF ApiNext, PostStart, StartConflicts, StartMissing, StartAccepted, GoStep, PostStop,
      StopRequestStep, LoopEnds

\* A start that ends adds a row of its own, if any, and changes none.
LEMMA StartRows ==
    ASSUME ApiBase, ApiBase', CallsInv, ReachInv, HoldInv, PostedInv, RunInv, RowsInv, ~ShutDown,
           NEW s \in Starts, GoProceeds(s)
    PROVE  RowsInv'
<1> USE SupervisorAssumption
<1>0. /\ TypeOK /\ TypeOK' /\ FailureInv' /\ runs \in Seq(Run) /\ runId \in Starts \cup {None}
      /\ \A i \in 1..Len(runs) : runs[i].start \in Starts
  <2>1. runs \in Seq(Run) /\ \A i \in 1..Len(runs) : runs[i] \in Run
    BY DEF ApiBase, ManagerBase, ManagerTypeOK
  <2>2. QED
    BY <2>1 DEF ApiBase, ManagerBase, ManagerTypeOK, Run
<1>1. runId = None /\ StartStep(s)
  BY PendingHasNoRun DEF GoProceeds, ManagerStartProceeds
<1>2. /\ startPc[s] # "returned"
      /\ \A t \in Starts \ {s} : /\ startPc'[t] = startPc[t] /\ readyAt'[t] = readyAt[t]
                                 /\ state'[t] = state[t] /\ failure'[t] = failure[t]
  BY <1>0, <1>1, StartStepIsLocal
<1>3. ASSUME NEW i \in 1..Len(runs)
      PROVE  runs[i].start # s /\ runs[i].outcome # "ready"
  BY <1>0, <1>1, <1>2, <1>3 DEF RowsInv, OwnRow
<1>4. ASSUME NEW i \in 1..Len(runs), runs'[i] = runs[i]
      PROVE  OwnRow(runs[i])'
  BY <1>0, <1>2, <1>3, <1>4 DEF RowsInv, OwnRow
<1>5. CASE UNCHANGED runs
  BY <1>4, <1>5 DEF RowsInv
<1>6. CASE startPc'[s] = "returned" /\ runs' = Append(runs, NewRun(s)) /\ runId' = s
  <2>1. state'[s] \in {"ready", "failed"}
    BY <1>0, <1>1, <1>6, ReturnedState DEF HoldInv, ClientCloses
  <2>2. /\ NewRun(s).start = s /\ NewRun(s).failure_kind = failure'[s]
        /\ NewRun(s).outcome = IF state'[s] = "ready" THEN "ready" ELSE "failed"
        /\ NewRun(s).became_ready = (state'[s] = "ready")
    BY DEF NewRun
  <2>3. /\ Len(runs') = Len(runs) + 1 /\ runs'[Len(runs) + 1] = NewRun(s)
        /\ \A i \in 1..Len(runs) : runs'[i] = runs[i]
    BY <1>0, <1>6
  <2>4. ASSUME NEW i \in 1..Len(runs'), i = Len(runs) + 1 PROVE OwnRow(runs[i])'
    <3>1. runs'[i] = NewRun(s)
      BY <2>3, <2>4
    <3>2. state'[s] = "failed" => /\ failure'[s] # None
                                  /\ readyAt'[s] => failure'[s] = "died_while_ready"
      BY <1>0 DEF TypeOK, FailureInv, FailureExplained
    <3>3. QED
      BY <1>6, <2>1, <2>2, <3>1, <3>2 DEF OwnRow
  <2>5. Len(runs) \in Nat
    BY <1>0
  <2>6. QED
    BY <1>4, <2>3, <2>4, <2>5 DEF RowsInv
<1>7. QED
  BY <1>5, <1>6 DEF GoProceeds, ManagerStartProceeds, Recording, RecordRun

\* A stop changes no more than its own row.
LEMMA StopRows ==
    ASSUME Patient, ApiBase, ApiBase', CallsInv, ReachInv, HoldInv, RunInv, RowsInv, ~ShutDown',
           NEW k \in Stops,
           \/ StopRequested(k) /\ (stopping[k] # "none" \/ ~Unanswered)
           \/ StopProceeds(k)
    PROVE  RowsInv'
<1> USE SupervisorAssumption
<1>0. /\ TypeOK /\ TypeOK' /\ FailureInv /\ runs \in Seq(Run) /\ runId \in Starts \cup {None}
      /\ \A i \in 1..Len(runs) : runs[i].start \in Starts /\ runs[i].outcome \in Outcome
  <2>1. runs \in Seq(Run) /\ \A i \in 1..Len(runs) : runs[i] \in Run
    BY DEF ApiBase, ManagerBase, ManagerTypeOK
  <2>2. QED
    BY <2>1 DEF ApiBase, ManagerBase, ManagerTypeOK, Run
<1>1. StopCall(k) \/ StopStep(k)
  BY DEF StopRequested, StopProceeds, ManagerStops, ManagerStopProceeds
<1>2. /\ UNCHANGED <<failure, readyAt, startPc>>
      /\ \A t \in Starts : state'[t] = "ready" => state[t] = "ready"
      /\ stopPc'[k] = "done" /\ record # None => state'[record] # "ready"
  BY <1>0, <1>1, StopActs
<1>3. CASE stopPc'[k] \in StopSuspended /\ UNCHANGED <<runs, runId>>
  BY <1>0, <1>2, <1>3 DEF RowsInv, OwnRow
<1>4. CASE stopPc'[k] = "done" /\ runId' = None
           /\ \E was \in EngineState, kind \in FailureKind \cup {None} :
                 /\ Settle(was, kind)
                 /\ runId # None =>
                       \/ was = "ready" /\ failure[runId] = None
                       \/ was = "failed" /\ kind = failure[runId] /\ kind # None
  <2>1. PICK was \in EngineState, kind \in FailureKind \cup {None} :
                /\ Settle(was, kind)
                /\ runId # None =>
                      \/ was = "ready" /\ failure[runId] = None
                      \/ was = "failed" /\ kind = failure[runId] /\ kind # None
    BY <1>4
  <2>2. /\ Len(runs') = Len(runs)
        /\ \A i \in 1..Len(runs) :
              /\ runs'[i].start = runs[i].start
              /\ runs'[i].became_ready = runs[i].became_ready
              /\ \/ /\ runs[i].start = runId /\ was = "ready"
                    /\ runs'[i].outcome = "stopped"
                 \/ /\ runs[i].start = runId /\ was = "failed" /\ kind # None
                    /\ runs'[i].outcome = "died" /\ runs'[i].failure_kind = kind
                 \/ /\ \/ runs[i].start # runId \/ runId = None
                       \/ was # "ready" /\ (was # "failed" \/ kind = None)
                    /\ runs'[i] = runs[i]
    BY <1>0, <2>1, SettleEffects
  <2>3. ASSUME NEW i \in 1..Len(runs) PROVE OwnRow(runs[i])'
    <3>1. OwnRow(runs[i])
      BY DEF RowsInv
    <3>2. CASE runs[i].start # runId
      <4>1. runs'[i] = runs[i]
        BY <1>0, <2>2, <3>2
      <4>2. runs[i].outcome # "ready"
        BY <3>1, <3>2 DEF OwnRow
      <4>3. QED
        BY <1>0, <1>2, <3>1, <4>1, <4>2 DEF OwnRow
    <3>3. CASE runs[i].start = runId
      <4>1. runId # None /\ record = runId /\ state'[runId] # "ready"
        BY <1>0, <1>2, <1>4, <3>3 DEF RunInv
      <4>2. \/ was = "ready" /\ failure[runId] = None /\ runs'[i].outcome = "stopped"
            \/ /\ was = "failed" /\ kind = failure[runId] /\ kind # None
               /\ runs'[i].outcome = "died" /\ runs'[i].failure_kind = kind
        BY <2>1, <2>2, <3>3, <4>1
      <4>3. readyAt[runId] \/ failure[runId] \in StartupFailure
        BY <1>0, <3>1, <3>3 DEF OwnRow, FailureInv
      <4>4. /\ startPc'[runId] = "returned" /\ runs'[i].start = runId
            /\ failure' = failure /\ readyAt' = readyAt
            /\ runs'[i].became_ready = runs[i].became_ready
        BY <1>2, <2>2, <3>1, <3>3 DEF OwnRow
      <4>5. CASE runs'[i].outcome = "stopped"
        <5>1. failure[runId] = None
          BY <4>2, <4>5
        <5>2. runs[i].became_ready
          <6>1. runs[i].outcome \in {"failed", "died"} => failure[runId] # None
            BY <3>1, <3>3 DEF OwnRow
          <6>2. runs[i].outcome \in {"ready", "stopped"}
            BY <1>0, <5>1, <6>1 DEF Outcome
          <6>3. QED
            BY <3>1, <6>2 DEF OwnRow
        <5>3. QED
          BY <4>1, <4>4, <4>5, <5>1, <5>2 DEF OwnRow
      <4>6. CASE runs'[i].outcome = "died"
        <5>1. /\ runs'[i].failure_kind = failure[runId] /\ failure[runId] # None
          BY <4>2, <4>6
        <5>2. readyAt[runId] => failure[runId] = "died_while_ready"
          BY <1>0, <4>1, <5>1 DEF TypeOK, FailureInv, FailureExplained
        <5>3. QED
          BY <4>1, <4>4, <4>6, <5>1, <5>2 DEF OwnRow
      <4>7. QED
        BY <4>2, <4>5, <4>6
    <3>4. QED
      BY <3>2, <3>3
  <2>4. QED
    BY <2>2, <2>3 DEF RowsInv
<1>5. QED
  BY <1>3, <1>4, StopSettles

LEMMA RowsStep ==
    ASSUME Patient, ApiBase, ApiBase', CallsInv, ReachInv, HoldInv, PostedInv, RunInv, RowsInv,
           ~ShutDown', [ApiNext]_everything
    PROVE  RowsInv'
<1> USE SupervisorAssumption
<1>0. /\ TypeOK /\ FailureInv /\ ~ShutDown /\ runs \in Seq(Run)
      /\ \A i \in 1..Len(runs) : runs[i].start \in Starts /\ runs[i].outcome \in Outcome
  <2>1. runs \in Seq(Run) /\ \A i \in 1..Len(runs) : runs[i] \in Run
    BY DEF ApiBase, ManagerBase, ManagerTypeOK
  <2>2. QED
    BY <2>1, StaysDown DEF ApiBase, ManagerBase, Run
<1>1. ASSUME NEW s \in Starts, GoBegins(s) \/ GoCancelled(s) PROVE RowsInv'
  <2>1. /\ UNCHANGED <<runs, runId>>
        /\ startPc[s] # "returned"
        /\ \A t \in Starts \ {s} : /\ startPc'[t] = startPc[t] /\ readyAt'[t] = readyAt[t]
                                   /\ state'[t] = state[t] /\ failure'[t] = failure[t]
    BY <1>0, <1>1
    DEF TypeOK, CallsInv, TaskInv, GoBegins, GoCancelled, ManagerStarts, ManagerStartsUnknown,
        ManagerStartCancelled, StartCall, StartRefused, StartBegins, StartCancelled
  <2>2. \A i \in 1..Len(runs) : runs[i].start # s
    BY <2>1 DEF RowsInv, OwnRow
  <2>3. QED
    BY <1>0, <2>1, <2>2 DEF RowsInv, OwnRow
<1>2. ASSUME NEW s \in Starts, GoProceeds(s) PROVE RowsInv'
  BY <1>0, <1>2, StartRows
<1>3. ASSUME NEW k \in Stops, \/ StopRequested(k) /\ (stopping[k] # "none" \/ ~Unanswered)
                              \/ StopProceeds(k)
      PROVE  RowsInv'
  BY <1>3, StopRows
<1>4. ASSUME NEW s \in Starts, Background(s) PROVE RowsInv'
  <2>1. /\ UNCHANGED <<runs, runId, startPc, readyAt>>
        /\ \A t \in Starts :
              \/ UNCHANGED <<state[t], failure[t]>>
              \/ /\ state[t] = "ready"
                 /\ state'[t] = "failed" /\ failure'[t] = "died_while_ready"
    BY <1>0, <1>4, BackgroundMoves, BackgroundEffects
  <2>2. ASSUME NEW i \in 1..Len(runs) PROVE OwnRow(runs[i])'
    <3>1. OwnRow(runs[i]) /\ runs[i].start \in Starts /\ runs[i].outcome \in Outcome
      BY <1>0 DEF RowsInv
    <3>2. CASE UNCHANGED <<state[runs[i].start], failure[runs[i].start]>>
      BY <2>1, <3>1, <3>2 DEF OwnRow
    <3>3. CASE /\ state[runs[i].start] = "ready"
               /\ state'[runs[i].start] = "failed"
      <4>1. runs[i].outcome = "ready"
        BY <3>1, <3>3 DEF OwnRow
      <4>2. QED
        BY <2>1, <3>1, <3>3, <4>1 DEF OwnRow
    <3>4. QED
      BY <2>1, <3>1, <3>2, <3>3
  <2>3. QED
    BY <2>1, <2>2 DEF RowsInv
<1>5. CASE UNCHANGED <<vars, runs, runId>>
  BY <1>5 DEF RowsInv, OwnRow
<1>6. ASSUME NEW c \in Configs, Delete(c) PROVE RowsInv'
  <2>1. UNCHANGED <<vars, runId>> /\ runs' = Remaining(runs, c)
    BY <1>6 DEF Delete
  <2>2. Others(runs', runs, c)
    BY <1>0, <2>1, RemainingRows
  <2>3. QED
    BY <2>1, <2>2 DEF RowsInv, OwnRow, Others
<1>7. QED
  BY <1>1, <1>2, <1>3, <1>4, <1>5, <1>6
  DEF ApiNext, PostStart, StartConflicts, StartMissing, StartAccepted, GoStep, PostStop,
      StopCancelsStart, StopRequestStep, LoopEnds

LEMMA ApiInvInit == ApiInit => ApiBase /\ ApiInv
<1>1. ApiInit => /\ ~ShutDown /\ CallsInv /\ ReachInv /\ EventInv
                 /\ HoldInv /\ PostedInv /\ RunInv /\ RowsInv
  BY SupervisorAssumption, ApiAssumption
  DEF ApiInit, ManagerInit, Init, CallsInv, TaskInv, RequestInv, ReachInv, EventInv, HoldInv,
      PostedInv, RunInv, RowsInv
<1>2. QED
  BY <1>1, ApiBaseInit DEF ApiInv, OpenInv

LEMMA ApiInvStep ==
    ASSUME Patient, ApiBase, ApiInv, [ApiNext]_everything
    PROVE  ApiBase' /\ ApiInv'
<1>1. ApiBase' /\ CallsInv' /\ EventInv'
  BY ApiBaseStep, CallsStep, EventStep DEF ApiInv
<1>2. ReachInv'
  BY ReachStep DEF ApiInv, OpenInv
<1>3. ASSUME ~ShutDown' PROVE OpenInv'
  <2>1. ~ShutDown /\ HoldInv /\ PostedInv /\ RunInv /\ RowsInv
    BY <1>3, StaysDown DEF ApiInv, OpenInv
  <2>2. QED
    BY <1>1, <1>3, <2>1, HoldStep, PostedStep, RunStep, RowsStep DEF ApiInv, OpenInv
<1>4. QED
  BY <1>1, <1>2, <1>3 DEF ApiInv

LEMMA ApiInvariant == ASSUME Patient PROVE ApiSpec => [](ApiBase /\ ApiInv)
<1>1. ApiBase /\ ApiInv /\ [ApiNext]_everything => ApiBase' /\ ApiInv'
  BY ApiInvStep
<1>2. QED
  BY <1>1, ApiInvInit, PTL DEF ApiSpec

(* The types of the requests and of all that they use.                       *)
THEOREM ApiTypeCorrect == ApiSpec => [](TypeOK /\ ManagerTypeOK /\ ApiTypeOK)
<1>1. ApiBase => TypeOK /\ ManagerTypeOK /\ ApiTypeOK
  BY DEF ApiBase, ManagerBase
<1>2. QED
  BY <1>1, ApiBaseInit, ApiBaseStep, PTL DEF ApiSpec

(* After a stop has been answered no engine runs, whatever start was in      *)
(* flight, for any number of starts and stops of a client that posts one     *)
(* start at a time: app.py:210-219.                                          *)
THEOREM StoppedEngineIsGone == ASSUME Patient PROVE ApiSpec => []StoppedIsGone
<1>1. ApiBase /\ ApiInv => StoppedIsGone
  BY DEF ApiBase, ManagerBase, TypeOK, ApiInv, EventInv, StoppedIsGone
<1>2. QED
  BY <1>1, ApiInvariant, PTL

(* ... and no run is left open: manager.py:95-115, db.py:287-305.            *)
THEOREM RunsAreClosed == ASSUME Patient PROVE ApiSpec => []NoOpenRun
<1>1. ASSUME ApiBase, ApiInv, Settled, Stopped, ~ShutDown, NEW i \in DOMAIN runs
      PROVE  runs[i].outcome # "ready"
  <2>1. runs \in Seq(Run) /\ i \in 1..Len(runs)
    BY <1>1 DEF ApiBase, ManagerBase, ManagerTypeOK
  <2>2. runs[i].start \in Starts
    <3>1. runs[i] \in Run
      BY <2>1
    <3>2. QED
      BY <3>1 DEF Run
  <2>3. OwnRow(runs[i]) /\ RunInv
    BY <1>1, <2>1 DEF ApiInv, OpenInv, RowsInv
  <2>4. \A k \in Stops : stopping[k] # "stopping"
    BY <1>1 DEF Settled
  <2>5. QED
    BY <1>1, <2>2, <2>3, <2>4, SupervisorAssumption
    DEF OwnRow, RunInv, Stopped, SupervisorState
<1>2. ApiBase /\ ApiInv => NoOpenRun
  BY <1>1 DEF NoOpenRun
<1>3. QED
  BY <1>2, ApiInvariant, PTL

(* Until the shutdown, each run says what became of its own engine, though a *)
(* stop settles it with what it read before it waited for the engine's end:  *)
(* manager.py:78-115.                                                        *)
THEOREM OutcomesAreOwn == ASSUME Patient PROVE ApiSpec => []OutcomeIsOwn
<1>1. ApiBase /\ ApiInv => OutcomeIsOwn
  <2>1. ASSUME ApiBase, ApiInv, ~ShutDown, NEW i \in DOMAIN runs PROVE OwnRow(runs[i])
    BY <2>1 DEF ApiBase, ManagerBase, ManagerTypeOK, ApiInv, OpenInv, RowsInv
  <2>2. QED
    BY <2>1 DEF OwnRow, OutcomeIsOwn
<1>2. QED
  BY <1>1, ApiInvariant, PTL

(* A start that a stop has cancelled publishes nothing any more: after       *)
(* "stopped" comes a start that was posted since: app.py:186-207, 212-218.   *)
THEOREM StoppedIsTheLastWord == ASSUME Patient PROVE ApiSpec => StopHasTheLastWord
<1> DEFINE Last == event = "stopped" /\ event' # "stopped" =>
                      event' \in {"starting", "failed"} /\ \E s \in Starts : task[s] = "created"
<1>1. ASSUME ApiBase, ApiInv, [ApiNext]_everything, event = "stopped", event' # "stopped"
      PROVE  event' \in {"starting", "failed"} /\ \E s \in Starts : task[s] = "created"
  <2>0. TypeOK
    BY <1>1 DEF ApiBase, ManagerBase
  <2>1. ASSUME NEW s \in Starts, GoBegins(s)
        PROVE  event' \in {"starting", "failed"} /\ task[s] = "created"
    <3>1. startPc'[s] \in {"spawning", "refused", "raised"} /\ startPc[s] = "idle"
      BY <2>0, <2>1, StartBeginsMoves DEF GoBegins
    <3>2. QED
      BY <2>1, <3>1 DEF GoBegins, GoFollows
  <2>2. ASSUME NEW s \in Starts, GoProceeds(s) PROVE FALSE
    BY <1>1, <2>2 DEF ApiInv, EventInv, GoProceeds
  <2>3. ASSUME NEW k \in Stops, StopFollows(k) PROVE FALSE
    BY <1>1, <2>3 DEF StopFollows
  <2>4. ~UNCHANGED event
    BY <1>1
  <2>5. ASSUME NEW s \in Starts, PostStart(s) \/ GoCancelled(s) PROVE FALSE
    BY <2>4, <2>5 DEF PostStart, StartConflicts, StartMissing, StartAccepted, GoCancelled
  <2>6. ASSUME NEW k \in Stops, StopCancelsStart(k) \/ LoopEnds(k) PROVE FALSE
    BY <2>4, <2>6 DEF StopCancelsStart, LoopEnds
  <2>7. ASSUME NEW k \in Stops, StopRequested(k) \/ StopProceeds(k) PROVE FALSE
    BY <2>3, <2>7 DEF StopRequested, StopProceeds
  <2>8. CASE UNCHANGED apiVars
    BY <2>4, <2>8
  <2>9. QED
    BY <1>1, <2>1, <2>2, <2>5, <2>6, <2>7, <2>8
    DEF ApiNext, GoStep, PostStop, StopRequestStep
<1>2. ApiBase /\ ApiInv /\ [ApiNext]_everything => [Last]_everything
  BY <1>1
<1>3. QED
  BY <1>2, ApiInvariant, PTL DEF ApiSpec, StopHasTheLastWord

-----------------------------------------------------------------------------
(* 3. The command *)

-----------------------------------------------------------------------------
(* The command as a client *)

USE DEF cliVars, cliLocals, world, Options, CliPc

(***************************************************************************)
(* The inductive invariant: how far the command has got, where its requests *)
(* are, and what it may be sure of by then.                                 *)
(***************************************************************************)
Leaving == {"closing", "exiting", "exited"}

ProgressInv ==
    /\ cli = "posting" => record = None /\ leader[TheStart] \notin Alive /\ ~TasksPending
    /\ cli \in {"posting", "watching", "subscribed", "stopping"} => stopping[TheStop] = "none"
    /\ cli \in Leaving => ~InFlight(TheStop)
    /\ cli \notin {"exiting", "exited", "killed"} => stopping[TheShutdown] = "none"
    /\ stopping[TheStop] = "answered" => event = "stopped" /\ ~TasksPending

\* Unless it has detached, as it does when its outcome is 0, it leaves nothing behind.
LeavingInv ==
    cli \in Leaving /\ ~(options.detach /\ outcome = 0)
        => leader[TheStart] \notin Alive /\ ~TasksPending

\* What it has been told, and what it concludes, is true.
TruthInv ==
    /\ served => readyAt[TheStart]
    /\ \A i \in 1..Len(inbox) : inbox[i] = "ready" => readyAt[TheStart]
    /\ cli \notin {"posting", "watching", "subscribed"} /\ outcome = 0
          => served \/ interrupted

CliBase == CliTypeOK /\ FailureInv
CliInv == ProgressInv /\ LeavingInv /\ TruthInv

USE DEF Leaving

\* What its requests are to the API.
LEMMA CliMoves ==
    ASSUME CliBase, ProgressInv, LeavingInv, [CliNext]_world
    PROVE  [ApiNext]_everything
<1> USE CliAssumption DEF ProgressInv, LeavingInv
<1>0. ApiTypeOK /\ options \in Options
  BY DEF CliBase, CliTypeOK
<1>1. CASE PostsStart
  <2>1. PostStart(TheStart)
    BY <1>0, <1>1 DEF PostsStart, PostStart, Stopped, SupervisorState
  <2>2. QED
    BY <2>1 DEF ApiNext
<1>2. CASE PostsStop
  <2>1. PostStop(TheStop)
    BY <1>0, <1>2 DEF PostsStop, PostStop
  <2>2. QED
    BY <2>1 DEF ApiNext
<1>3. CASE Closes
  <2>1. CASE /\ cli = "closing" /\ options.embedded /\ stopping[TheShutdown] = "none"
             /\ StopRequested(TheShutdown)
    <3>1. ~ShutDown /\ ~Unanswered
      BY <2>1
    <3>2. options.embedded /\ ~options.detach
      BY <1>0, <2>1
    <3>3. \A s \in Starts : task[s] # "created"
      <4>1. ~TasksPending
        BY <2>1, <3>2, Zenon
      <4>2. QED
        BY <4>1
    <3>4. PostStop(TheShutdown)
      BY <2>1, <3>1, <3>3 DEF PostStop
    <3>5. QED
      BY <3>4 DEF ApiNext
  <2>2. QED
    BY <1>3, <2>1 DEF Closes
<1>4. CASE ServerStep \/ Outside
  BY <1>4 DEF ServerStep, Outside, ApiNext
<1>5. ASSUME NEW c \in Configs, Delete(c) /\ UNCHANGED apiVars PROVE ApiNext
  BY <1>5 DEF ApiNext
<1>6. CASE Subscribes \/ ReadsEvent \/ StopAnswered \/ Interrupted \/ Killed
           \/ UNCHANGED world
  BY <1>6 DEF Subscribes, ReadsEvent, StopAnswered, Interrupted, Killed
<1>7. QED
  BY <1>1, <1>2, <1>3, <1>4, <1>5, <1>6 DEF CliNext, CliStep

-----------------------------------------------------------------------------
(* Types *)

\* What is published is a state.
LEMMA PublishesStates ==
    ASSUME TypeOK', [ApiNext]_everything
    PROVE  event' # event => event' \in EngineState
<1>1. ASSUME NEW s \in Starts, GoFollows(s) PROVE event' # event => event' \in EngineState
  <2>1. state'[s] \in EngineState
    BY DEF TypeOK
  <2>2. QED
    BY <1>1, <2>1 DEF GoFollows
<1>2. ASSUME NEW k \in Stops, StopFollows(k) PROVE event' # event => event' \in EngineState
  BY <1>2 DEF StopFollows
<1>3. ASSUME NEW s \in Starts, PostStart(s) \/ GoCancelled(s) PROVE UNCHANGED event
  BY <1>3 DEF PostStart, StartConflicts, StartMissing, StartAccepted, GoCancelled
<1>4. ASSUME NEW k \in Stops, StopCancelsStart(k) \/ LoopEnds(k) PROVE UNCHANGED event
  BY <1>4 DEF StopCancelsStart, LoopEnds
<1>5. QED
  BY <1>1, <1>2, <1>3, <1>4
  DEF ApiNext, GoStep, GoBegins, GoProceeds, PostStop, StopRequested, StopRequestStep,
      StopProceeds

LEMMA CliBaseStep ==
    ASSUME CliBase, ProgressInv, LeavingInv, [CliNext]_world
    PROVE  CliBase' /\ ApiBase /\ ApiBase'
<1>1. [ApiNext]_everything
  BY CliMoves
<1>2. ApiBase /\ ApiBase'
  <2>1. ApiBase
    BY DEF CliBase, CliTypeOK, ApiBase, ManagerBase
  <2>2. QED
    BY <1>1, <2>1, ApiBaseStep
<1>3. options' \in Options /\ cli' \in CliPc /\ served' \in BOOLEAN /\ outcome' \in 0..1
         /\ interrupted' \in BOOLEAN
  <2>1. options \in Options /\ cli \in CliPc /\ served \in BOOLEAN /\ outcome \in 0..1
           /\ interrupted \in BOOLEAN
    BY DEF CliBase, CliTypeOK
  <2>2. CASE PostsStart \/ Subscribes \/ PostsStop \/ StopAnswered
    BY <2>1, <2>2 DEF PostsStart, Subscribes, PostsStop, StopAnswered
  <2>3. ASSUME NEW code \in 0..1, Settles(code) PROVE outcome' \in 0..1 /\ cli' \in CliPc
    BY <2>3 DEF Settles
  <2>4. CASE Interrupted
    BY <2>1, <2>3, <2>4 DEF Interrupted
  <2>5. CASE Killed
    BY <2>1, <2>5 DEF Killed
  <2>6. CASE ReadsEvent
    <3>1. 0 \in 0..1 /\ 1 \in 0..1
      OBVIOUS
    <3>2. \/ UNCHANGED <<cli, outcome>>
          \/ Settles(0)
          \/ Settles(1)
      BY <2>6 DEF ReadsEvent
    <3>3. outcome' \in 0..1 /\ cli' \in CliPc
      BY <2>1, <2>3, <3>1, <3>2
    <3>4. QED
      BY <2>1, <2>6, <3>3 DEF ReadsEvent
  <2>7. CASE Closes /\ UNCHANGED <<options, cliLocals>>
    BY <2>1, <2>7 DEF Closes
  <2>8. CASE UNCHANGED <<options, cli, cliLocals>>
    BY <2>1, <2>8
  <2>9. QED
    BY <2>2, <2>4, <2>5, <2>6, <2>7, <2>8 DEF CliNext, CliStep, ServerStep, Outside
<1>4. inbox' \in Seq(EngineState)
  <2>1. inbox \in Seq(EngineState)
    BY DEF CliBase, CliTypeOK
  <2>2. CASE Delivered
    <3>1. event' # event => event' \in EngineState
      BY <1>1, <1>2, PublishesStates DEF ApiBase, ManagerBase
    <3>2. QED
      BY <2>1, <2>2, <3>1 DEF Delivered
  <2>3. CASE ReadsEvent
    BY <2>1, <2>3 DEF ReadsEvent
  <2>4. CASE UNCHANGED inbox
    BY <2>1, <2>4
  <2>5. QED
    BY <2>2, <2>3, <2>4
    DEF CliNext, CliStep, PostsStart, Subscribes, PostsStop, StopAnswered, Interrupted,
        Killed, ServerStep, Outside
<1>5. QED
  BY <1>2, <1>3, <1>4 DEF CliBase, CliTypeOK, ApiBase, ManagerBase

-----------------------------------------------------------------------------
(* Progress *)

\* The command's own stop acts before that of its server's lifespan.
LEMMA StopEffects ==
    ASSUME CliBase, ApiBase, ApiInv, NEW k \in Stops,
           \/ StopRequested(k) /\ (stopping[k] # "none" \/ (~Unanswered /\ ~ShutDown))
           \/ StopProceeds(k)
    PROVE  /\ UNCHANGED <<task, leader>>
           /\ \A l \in Stops \ {k} : stopping'[l] = stopping[l]
           /\ k = TheStop => /\ stopping'[k] \in {"stopping", "answered"}
                             /\ stopping'[k] = "answered" => event' = "stopped" /\ ~TasksPending'
           /\ k = TheShutdown => UNCHANGED event
<1> USE CliAssumption
<1>0. TypeOK /\ ApiTypeOK /\ CallsInv
  BY DEF ApiBase, ManagerBase, ApiInv
<1>1. /\ UNCHANGED <<task, leader>>
      /\ \A l \in Stops \ {k} : stopping'[l] = stopping[l]
      /\ stopping'[k] \in {"stopping", "answered"}
      /\ k = TheShutdown => UNCHANGED event
  BY <1>0, StopBeginsMoves, StopProceedsMoves
  DEF ApiTypeOK, StopRequested, StopProceeds, StopFollows, OnlyStop
<1>2. ASSUME k = TheStop PROVE ~ShutDown'
  BY <1>0, <1>1, <1>2 DEF CallsInv, StopRequested, StopProceeds
<1>3. ASSUME k = TheStop, stopping'[k] = "answered" PROVE event' = "stopped" /\ ~TasksPending'
  <2>1. ~TasksPending /\ UNCHANGED task
    BY <1>0, <1>2, <1>3, StopActsAlone
  <2>2. event' = "stopped"
    BY <1>0, <1>2, <1>3, StopActsAlone
  <2>3. QED
    BY <2>1, <2>2
<1>4. QED
  BY <1>1, <1>3

LEMMA ProgressStep ==
    ASSUME CliBase, ApiBase, ApiInv, ProgressInv, LeavingInv, [CliNext]_world
    PROVE  ProgressInv'
<1> USE CliAssumption DEF ProgressInv
<1>0. TypeOK /\ ApiTypeOK /\ CallsInv
  BY DEF ApiBase, ManagerBase, ApiInv
<1>1. CASE PostsStart
  BY <1>0, <1>1 DEF ApiTypeOK, PostsStart, StartAccepted, StartMissing, StartConflicts
<1>2. CASE Subscribes \/ StopAnswered \/ Killed
  BY <1>2 DEF Subscribes, StopAnswered, Killed
<1>3. CASE ReadsEvent \/ Interrupted
  BY <1>3 DEF ReadsEvent, Interrupted, Settles
<1>4. CASE PostsStop
  <2>1. CASE StopCancelsStart(TheStop)
    BY <1>0, <1>4, <2>1 DEF ApiTypeOK, PostsStop, StopCancelsStart
  <2>2. CASE StopRequested(TheStop)
    BY <1>0, <1>4, <2>2, StopEffects DEF PostsStop
  <2>3. QED
    BY <1>4, <2>1, <2>2 DEF PostsStop
<1>5. CASE Closes /\ UNCHANGED <<options, cliLocals, inbox>>
  <2>1. CASE UNCHANGED everything
    BY <1>5, <2>1 DEF Closes
  <2>2. CASE StopRequested(TheShutdown) /\ cli = "closing" /\ cli' = "exiting"
                /\ stopping[TheShutdown] = "none"
    BY <1>0, <2>2, StopEffects
  <2>3. QED
    BY <1>5, <2>1, <2>2 DEF Closes
<1>6. CASE UNCHANGED <<options, cli, cliLocals>> /\ GoStep(TheStart)
  <2>1. TasksPending /\ UNCHANGED stopping
    BY <1>6 DEF GoStep, GoBegins, GoProceeds, GoCancelled, GoFollows
  <2>2. QED
    BY <1>6, <2>1
<1>7. ASSUME NEW k \in Stops, UNCHANGED <<options, cli, cliLocals>>, StopRequestStep(k)
      PROVE  ProgressInv'
  <2>1. (StopRequested(k) /\ stopping[k] # "none") \/ StopProceeds(k)
    BY <1>7 DEF StopRequestStep
  <2>2. /\ UNCHANGED <<task, leader>>
        /\ \A l \in Stops \ {k} : stopping'[l] = stopping[l]
        /\ k = TheStop => /\ stopping'[k] \in {"stopping", "answered"}
                          /\ stopping'[k] = "answered" => event' = "stopped" /\ ~TasksPending'
        /\ k = TheShutdown => UNCHANGED event
    BY <2>1, StopEffects
  <2>3. stopping[k] # "none"
    BY <1>7 DEF StopRequestStep
  <2>4. CASE k = TheStop
    <3>1. cli \notin {"posting", "watching", "subscribed", "stopping"}
      BY <2>3, <2>4
    <3>2. ~InFlight(TheStop)' \/ cli \notin Leaving
      BY <2>3, <2>4, <1>7 DEF StopRequestStep, StopRequested, StopProceeds
    <3>3. stopping'[TheShutdown] = stopping[TheShutdown]
      BY <2>2, <2>4
    <3>4. QED
      BY <1>7, <2>2, <2>4, <3>1, <3>2, <3>3
  <2>5. CASE k = TheShutdown
    <3>1. cli \in {"exiting", "exited", "killed"}
      BY <2>3, <2>5
    <3>2. stopping'[TheStop] = stopping[TheStop]
      BY <2>2, <2>5
    <3>3. QED
      BY <1>7, <2>2, <2>5, <3>1, <3>2
  <2>6. QED
    BY <2>4, <2>5
<1>8. ASSUME NEW k \in Stops, UNCHANGED <<options, cli, cliLocals>>, LoopEnds(k)
      PROVE  ProgressInv'
  BY <1>8 DEF LoopEnds
<1>9. CASE Outside
  <2>1. Background(TheStart) /\ UNCHANGED <<apiVars, cliVars>>
    BY <1>9 DEF Outside
  <2>2. UNCHANGED record
    BY <1>0, <2>1, BackgroundMoves
  <2>3. leader[TheStart] \notin Alive => leader'[TheStart] \notin Alive
    BY <1>0, <2>1, BackgroundEffects
  <2>4. QED
    BY <2>1, <2>2, <2>3
<1>10. ASSUME NEW c \in Configs, Delete(c), UNCHANGED <<apiVars, cliVars>> PROVE ProgressInv'
  BY <1>10 DEF Delete
<1>11. CASE UNCHANGED world
  BY <1>11
<1>12. QED
  BY <1>1, <1>2, <1>3, <1>4, <1>5, <1>6, <1>7, <1>8, <1>9, <1>10, <1>11
  DEF CliNext, CliStep, ServerStep

LEMMA LeavingStep ==
    ASSUME CliBase, ApiBase, ApiInv, ProgressInv, LeavingInv, [CliNext]_world
    PROVE  LeavingInv'
<1> USE CliAssumption DEF ProgressInv, LeavingInv
<1>0. TypeOK /\ ApiTypeOK /\ CallsInv
  BY DEF ApiBase, ManagerBase, ApiInv
<1>1. CASE PostsStart
  BY <1>0, <1>1 DEF PostsStart, StartAccepted, StartMissing, StartConflicts
<1>2. CASE Subscribes \/ ReadsEvent \/ Interrupted \/ Killed \/ PostsStop
  BY <1>2 DEF Subscribes, ReadsEvent, Interrupted, Killed, Settles, PostsStop
<1>3. CASE StopAnswered
  BY <1>3 DEF StopAnswered, ApiInv, EventInv
<1>4. CASE Closes /\ UNCHANGED <<options, cliLocals, inbox>>
  <2>1. CASE UNCHANGED everything
    BY <1>4, <2>1 DEF Closes
  <2>2. CASE StopRequested(TheShutdown) /\ cli = "closing" /\ stopping[TheShutdown] = "none"
    BY <1>0, <1>4, <2>2, StopEffects
  <2>3. QED
    BY <1>4, <2>1, <2>2 DEF Closes
<1>5. CASE UNCHANGED <<options, cli, cliLocals>> /\ GoStep(TheStart)
  <2>1. TasksPending
    BY <1>5 DEF GoStep, GoBegins, GoProceeds, GoCancelled
  <2>2. QED
    BY <1>5, <2>1
<1>6. ASSUME NEW k \in Stops, UNCHANGED <<options, cli, cliLocals>>, StopRequestStep(k)
      PROVE  LeavingInv'
  BY <1>0, <1>6, StopEffects DEF StopRequestStep
<1>7. ASSUME NEW k \in Stops, UNCHANGED <<options, cli, cliLocals>>, LoopEnds(k)
      PROVE  LeavingInv'
  BY <1>7 DEF LoopEnds
<1>8. CASE Outside
  BY <1>0, <1>8, BackgroundEffects DEF Outside
<1>9. ASSUME NEW c \in Configs, Delete(c), UNCHANGED <<apiVars, cliVars>> PROVE LeavingInv'
  BY <1>9 DEF Delete
<1>10. CASE UNCHANGED world
  BY <1>10
<1>11. QED
  BY <1>1, <1>2, <1>3, <1>4, <1>5, <1>6, <1>7, <1>8, <1>9, <1>10
  DEF CliNext, CliStep, ServerStep

-----------------------------------------------------------------------------
(* The verdict *)

\* A start does not forget that its engine was ready,
LEMMA StartKeepsReadiness ==
    ASSUME TypeOK, NEW t \in Starts, StartStep(t), NEW s \in Starts, readyAt[s]
    PROVE  readyAt'[s]
<1>1. CASE SpawnReturns(t) \/ PollsAgain(t) \/ StartTimesOut(t)
  BY <1>1 DEF SpawnReturns, PollsAgain, PollTurn, StartFails, StartTimesOut
<1>2. CASE HealthAnswers(t) \/ HealthMisses(t) \/ BecomesReady(t) \/ ClientCloses(t)
  BY <1>2 DEF TypeOK, HealthAnswers, HealthMisses, BecomesReady, ClientCloses
<1>3. CASE PollFindsNoHandle(t) \/ StartKills(t) \/ StartUnwinds(t)
  BY <1>3 DEF PollFindsNoHandle, StartKills, StartUnwinds
<1>4. QED
  BY <1>1, <1>2, <1>3 DEF StartStep

\* and nothing else does.
LEMMA ReadinessIsKept ==
    ASSUME TypeOK, [ManagerNext]_allVars, NEW s \in Starts, readyAt[s]
    PROVE  readyAt'[s]
<1>1. ASSUME NEW t \in Starts, StartStep(t) PROVE readyAt'[s]
  BY <1>1, StartKeepsReadiness
<1>2. CASE NothingReturns
  BY <1>2 DEF NothingReturns
<1>3. QED
  BY <1>1, <1>2, SupervisorMoves, OthersReturnNothing DEF Next, Internal

\* "ready" is published of an engine that is.
LEMMA ReadyIsPublishedOfTheReady ==
    ASSUME TypeOK', FailureInv', [ApiNext]_everything, event' # event, event' = "ready"
    PROVE  \E s \in Starts : readyAt'[s]
<1>1. ASSUME NEW s \in Starts, GoFollows(s) PROVE readyAt'[s]
  <2>1. state'[s] = "ready"
    BY <1>1 DEF GoFollows
  <2>2. QED
    BY <2>1 DEF FailureInv
<1>2. ASSUME NEW k \in Stops, StopFollows(k) PROVE FALSE
  BY <1>2 DEF StopFollows
<1>3. ASSUME NEW s \in Starts, PostStart(s) \/ GoCancelled(s) PROVE UNCHANGED event
  BY <1>3 DEF PostStart, StartConflicts, StartMissing, StartAccepted, GoCancelled
<1>4. ASSUME NEW k \in Stops, StopCancelsStart(k) \/ LoopEnds(k) PROVE UNCHANGED event
  BY <1>4 DEF StopCancelsStart, LoopEnds
<1>5. QED
  BY <1>1, <1>2, <1>3, <1>4
  DEF ApiNext, GoStep, GoBegins, GoProceeds, PostStop, StopRequested, StopRequestStep,
      StopProceeds

LEMMA TruthStep ==
    ASSUME CliBase, CliBase', ProgressInv, LeavingInv, TruthInv, [CliNext]_world
    PROVE  TruthInv'
<1> USE CliAssumption
<1> DEFINE Told == \A i \in 1..Len(inbox) : inbox[i] = "ready" => readyAt[TheStart]
           Verdict == cli \notin {"posting", "watching", "subscribed"} /\ outcome = 0
                          => served \/ interrupted
<1>0. /\ TypeOK /\ FailureInv /\ TypeOK' /\ FailureInv' /\ inbox \in Seq(EngineState)
      /\ (served => readyAt[TheStart]) /\ Told /\ Verdict
  BY DEF CliBase, CliTypeOK, TruthInv
<1>1. readyAt[TheStart] => readyAt'[TheStart]
  <2>1. [ManagerNext]_allVars
    BY CliMoves, ManagerMoves
  <2>2. QED
    BY <1>0, <2>1, ReadinessIsKept
<1> HIDE DEF Told, Verdict
<1>2. Told'
  <2>1. CASE Delivered
    <3>1. event' # event /\ event' = "ready" => readyAt'[TheStart]
      BY <1>0, CliMoves, ReadyIsPublishedOfTheReady
    <3>2. CASE inbox' = Append(inbox, event') /\ event' # event
      <4>1. ASSUME NEW i \in 1..Len(inbox'), inbox'[i] = "ready" PROVE readyAt'[TheStart]
        <5>1. CASE i = Len(inbox) + 1
          BY <1>0, <3>1, <3>2, <4>1, <5>1
        <5>2. CASE i \in 1..Len(inbox)
          <6>1. inbox[i] = "ready"
            BY <1>0, <3>2, <4>1, <5>2
          <6>2. QED
            BY <1>0, <1>1, <5>2, <6>1 DEF Told
        <5>3. QED
          BY <1>0, <3>2, <4>1, <5>1, <5>2
      <4>2. QED
        BY <4>1 DEF Told
    <3>3. CASE UNCHANGED inbox
      BY <1>0, <1>1, <3>3 DEF Told
    <3>4. QED
      BY <2>1, <3>2, <3>3 DEF Delivered
  <2>2. CASE ReadsEvent
    <3>1. inbox # <<>> /\ inbox' = Tail(inbox)
      BY <2>2 DEF ReadsEvent
    <3>2. ASSUME NEW i \in 1..Len(inbox'), inbox'[i] = "ready" PROVE readyAt'[TheStart]
      <4>1. i + 1 \in 1..Len(inbox) /\ inbox[i + 1] = "ready"
        BY <1>0, <3>1, <3>2
      <4>2. QED
        BY <1>0, <1>1, <4>1 DEF Told
    <3>3. QED
      BY <3>2 DEF Told
  <2>3. CASE UNCHANGED inbox
    BY <1>0, <1>1, <2>3 DEF Told
  <2>4. QED
    BY <2>1, <2>2, <2>3
    DEF CliNext, CliStep, PostsStart, Subscribes, PostsStop, StopAnswered, Interrupted,
        Killed, ServerStep, Outside
<1>3. (served' => readyAt'[TheStart]) /\ Verdict'
  <2>1. CASE PostsStart
    BY <1>0, <1>1, <2>1 DEF PostsStart, Verdict
  <2>2. CASE Subscribes \/ PostsStop \/ StopAnswered \/ Killed
    BY <1>0, <1>1, <2>2 DEF Subscribes, PostsStop, StopAnswered, Killed, Verdict
  <2>3. CASE ReadsEvent
    <3>1. Head(inbox) = "ready" => readyAt[TheStart]
      <4>1. 1 \in 1..Len(inbox) /\ Head(inbox) = inbox[1]
        BY <1>0, <2>3 DEF ReadsEvent
      <4>2. QED
        BY <1>0, <4>1 DEF Told
    <3>2. QED
      BY <1>0, <1>1, <2>3, <3>1 DEF ReadsEvent, Settles, Verdict
  <2>4. CASE Interrupted
    BY <1>0, <1>1, <2>4 DEF Interrupted, Settles, Verdict
  <2>5. CASE Closes /\ UNCHANGED <<options, cliLocals, inbox>>
    <3>1. cli \notin {"posting", "watching", "subscribed"}
      BY <2>5 DEF Closes
    <3>2. QED
      BY <1>0, <1>1, <2>5, <3>1 DEF Verdict
  <2>6. CASE UNCHANGED <<options, cli, cliLocals>>
    BY <1>0, <1>1, <2>6 DEF Verdict
  <2>7. QED
    BY <2>1, <2>2, <2>3, <2>4, <2>5, <2>6 DEF CliNext, CliStep, ServerStep, Outside
<1>4. QED
  BY <1>2, <1>3 DEF TruthInv, Told, Verdict

-----------------------------------------------------------------------------
(* The invariant, and what follows *)

LEMMA CliInvInit == CliInit => CliBase /\ ApiInv /\ CliInv
<1> SUFFICES ASSUME CliInit PROVE CliBase /\ ApiInv /\ CliInv
  OBVIOUS
<1> USE CliAssumption DEF CliInit
<1>1. ApiBase /\ ApiInv
  BY ApiInvInit
<1>2. inbox = <<>> /\ inbox \in Seq(EngineState)
  OBVIOUS
<1>3. CliBase
  <2>1. TypeOK /\ FailureInv /\ ManagerTypeOK /\ ApiTypeOK
    BY <1>1 DEF ApiBase, ManagerBase
  <2>2. options \in Options /\ cli \in CliPc /\ outcome \in 0..1
    BY DEF CliPc
  <2>3. QED
    BY <1>2, <2>1, <2>2 DEF CliBase, CliTypeOK
<1>4. ProgressInv /\ LeavingInv
  <2>1. /\ cli = "posting" /\ record = None /\ ~TasksPending
        /\ \A s \in Starts : leader[s] \notin Alive
        /\ \A k \in Stops : stopping[k] = "none"
    BY DEF ApiInit, ManagerInit, Init
  <2>2. QED
    BY <2>1 DEF ProgressInv, LeavingInv
<1>5. TruthInv
  BY <1>2 DEF TruthInv
<1>6. QED
  BY <1>1, <1>3, <1>4, <1>5 DEF CliInv

LEMMA CliInvStep ==
    ASSUME CliBase, ApiInv, CliInv, [CliNext]_world
    PROVE  CliBase' /\ ApiInv' /\ CliInv'
<1>1. CliBase' /\ ApiBase /\ ApiBase'
  BY CliBaseStep DEF CliInv
<1>2. ApiInv'
  BY <1>1, CliMoves, ApiInvStep, CliAssumption DEF CliInv
<1>3. ProgressInv' /\ LeavingInv' /\ TruthInv'
  BY <1>1, ProgressStep, LeavingStep, TruthStep DEF CliInv
<1>4. QED
  BY <1>1, <1>2, <1>3 DEF CliInv

LEMMA CliInvariant == CliSpec => [](CliBase /\ ApiInv /\ CliInv)
<1>1. CliBase /\ ApiInv /\ CliInv /\ [CliNext]_world => CliBase' /\ ApiInv' /\ CliInv'
  BY CliInvStep
<1>2. QED
  BY <1>1, CliInvInit, PTL DEF CliSpec

(* The types of the command and of the server it talks to.                   *)
THEOREM CliTypeCorrect == CliSpec => []CliTypeOK
<1>1. CliBase => CliTypeOK
  BY DEF CliBase
<1>2. QED
  BY <1>1, CliInvariant, PTL

(* The command is a client of the API: what it does to the server, the       *)
(* shutdown of a server of its own included, is behaviour of ApiSpec, so     *)
(* that all that is proved of a patient client's server holds of its server: *)
(* cli.py:259-310, serve.py.                                                 *)
THEOREM CommandIsAClient == CliSpec => ApiSpec
<1>1. CliInit => ApiInit
  BY DEF CliInit
<1>2. CliBase /\ CliInv /\ [CliNext]_world => [ApiNext]_everything
  BY CliMoves DEF CliInv
<1>3. QED
  BY <1>1, <1>2, CliInvariant, PTL DEF CliSpec, ApiSpec

(* A command that comes to its end leaves no engine, an interrupt in the     *)
(* middle of the start included, unless it was told to detach and its engine *)
(* was ready or it was interrupted: cli.py:292-310.                          *)
THEOREM CommandLeavesNothing == CliSpec => []NothingLeftBehind
<1>1. CliBase /\ CliInv => NothingLeftBehind
  BY CliAssumption
  DEF CliBase, CliTypeOK, TypeOK, CliInv, LeavingInv, TruthInv, NothingLeftBehind
<1>2. QED
  BY <1>1, CliInvariant, PTL

(* The exit code 0 is not given of an engine that was never ready, though    *)
(* the command only knows what the stream has told it: cli.py:233-256.       *)
THEOREM ExitCodeTellsTheTruth == CliSpec => []ExitCodeIsTrue
<1>1. CliInv => ExitCodeIsTrue
  BY DEF CliInv, TruthInv, ExitCodeIsTrue
<1>2. QED
  BY <1>1, CliInvariant, PTL

=============================================================================
