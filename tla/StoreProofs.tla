----------------------------- MODULE StoreProofs -----------------------------
(***************************************************************************)
(* Theorems about the store package.                                        *)
(*                                                                         *)
(* Store, for any number of processes and requests: the database stays      *)
(* intact, imports are complete, and what was answered is kept.  All rest   *)
(* on one fact: whoever writes has the latest state of the database to      *)
(* write from.                                                              *)
(*                                                                         *)
(* ShellImport and EngineConfig, for scripts of any lines and argument      *)
(* lists of any tokens: what a configuration is named, what environment it  *)
(* has, and that an edit of its flags is what the engine sees of it.        *)
(***************************************************************************)
EXTENDS Store, ShellImport, FiniteSetTheorems, SequenceTheorems, WellFoundedInduction,
        TLAPS

USE DEF storeVars, requestVars, vars

InCommit(r) == pc[r] \in {"committing", "closing"}

-----------------------------------------------------------------------------
(* Where requests are *)

\* s is the end of w.
Rest(s, w) ==
    /\ Len(s) <= Len(w)
    /\ \A j \in 1..Len(s) : s[j] = w[Len(w) - Len(s) + j]

\* What the place of a request says of its kind and of the names it has yet to
\* deal with, which are the last of those it wanted.
PlaceInv ==
    \A r \in Requests :
        /\ pc[r] \in {"looking", "adding"} => Kind[r] = "import"
        /\ pc[r] \in {"found", "writing"} => Kind[r] \in Referring
        /\ pc[r] \in {"serving", "closing"} => Kind[r] = "run"
        /\ pc[r] = "checking" => Kind[r] \in {"create", "rename"}
        /\ Kind[r] # "import" => todo[r] = Wanted[r]
        /\ Kind[r] = "import" /\ pc[r] \in {"adding", "committing"} => todo[r] # <<>>
        /\ Kind[r] = "import" /\ answer[r] = "ok" => todo[r] = <<>>
        /\ Rest(todo[r], Wanted[r])
        /\ answer[r] = "ok" => pc[r] = "answered"

\* One method at a time on a connection; while it writes, nobody else does.  Who
\* has a snapshot and is not outdated has the latest, and so has a transaction
\* whose statement has failed.
LockInv ==
    /\ \A q, r \in Requests : InMethod(q) /\ InMethod(r) /\ At[q] = At[r] => q = r
    /\ \A p, q \in Processes : conn[p] = "writing" /\ conn[q] = "writing" => p = q
    /\ \A r \in Requests : InCommit(r) => conn[At[r]] = "writing"
    /\ outdated \subseteq {p \in Processes : conn[p] = "reading"}
    /\ \A p \in Processes :
          conn[p] = "reading" /\ p \notin outdated => view[p] = db
    /\ \A p \in Processes :
          conn[p] = "writing" => view[p] = db \/ \E r \in Requests : InCommit(r) /\ At[r] = p

-----------------------------------------------------------------------------
(* Databases that are intact *)

\* The k-th last name of r has been dealt with, or is about to be committed.
Spent(r, k) ==
    /\ Kind[r] \in {"create", "import"}
    /\ \/ k > Len(todo[r])
       \/ k = Len(todo[r]) /\ pc[r] \in {"committing", "checking", "answered", "lost"}
Known(i) == \A r \in Requests, k \in Nat : i = <<r, k>> => Spent(r, k)

Consistent(d) ==
    /\ \A a, b \in d.configs : (a.id = b.id \/ a.name = b.name) => a = b
    /\ \A run \in d.runs : Has(d, run.config) /\ run.config = Ref[run.of]
Whole(d) == Consistent(d) /\ \A row \in d.configs : Known(row.id)

WholeInv == Whole(db) /\ \A p \in Processes : Whole(view[p])

-----------------------------------------------------------------------------
(* Names that stay *)

OnlyAdded == \A q \in Made : Kind[q] \notin {"delete", "rename", "update"}

\* An import has skipped or added all but the names it has yet to deal with.
Dealt(r, d) ==
    \A k \in 1..(Len(Wanted[r]) - Len(todo[r])) : Taken(d, Wanted[r][k])

NameInv ==
    OnlyAdded =>
        /\ \A r \in Requests : Kind[r] = "import" => Dealt(r, db)
        /\ \A r \in Requests : InCommit(r) =>
              /\ \A n \in Names : Taken(db, n) => Taken(view[At[r]], n)
              /\ Kind[r] = "import" => Taken(view[At[r]], Head(todo[r]))
        /\ \A p \in Processes : conn[p] = "reading" =>
              \A n \in Names : Taken(view[p], n) => Taken(db, n)

-----------------------------------------------------------------------------
(* Types and places *)

LEMMA FirstName ==
    ASSUME TypeOK, PlaceInv, NEW r \in Requests,
           \/ Kind[r] \in {"create", "rename", "update"}
           \/ Kind[r] = "import" /\ pc[r] \in {"adding", "committing"}
    PROVE  todo[r] # <<>> /\ Head(todo[r]) \in Names /\ Head(todo[r]) = todo[r][1]
<1>1. todo[r] \in Seq(Names) /\ todo[r] # <<>>
  BY StoreAssumption DEF TypeOK, PlaceInv
<1>2. QED
  BY <1>1

LEMMA SeesDatabase ==
    ASSUME TypeOK, NEW p \in Processes PROVE Sees(p) \in Database
  BY DEF TypeOK, Sees

\* What the statements make of a database.
AddedIn(d, r, n) == [d EXCEPT !.configs = @ \cup {Row(NewId(r), n)}]

LEMMA Added ==
    ASSUME TypeOK, NEW d \in Database, NEW r \in Requests, NEW n \in Names
    PROVE  AddedIn(d, r, n) \in Database
<1>1. NewId(r) \in Requests \X Nat
  BY DEF NewId, TypeOK
<1>2. QED
  BY <1>1 DEF AddedIn, Database, Row

LEMMA Renamed ==
    ASSUME NEW d \in Database, NEW i, NEW n \in Names
    PROVE  Named(d, i, n) \in Database
<1> DEFINE after == {IF row.id = i THEN Row(i, n) ELSE row : row \in d.configs}
           ids == (Requests \X Nat) \cup {row.id : row \in Initial}
<1>1. ASSUME NEW row \in d.configs
      PROVE  (IF row.id = i THEN Row(i, n) ELSE row) \in [id : ids, name : Names]
  <2>1. row \in [id : ids, name : Names]
    BY DEF Database
  <2> HIDE DEF ids
  <2>2. QED
    BY <2>1 DEF Row
<1>2. after \subseteq [id : ids, name : Names]
  BY <1>1
<1>3. Named(d, i, n) = [d EXCEPT !.configs = after]
  BY DEF Named, Database
<1> HIDE DEF after
<1>4. QED
  BY <1>2, <1>3 DEF Database

DeletedIn(d, i) ==
    [configs |-> {row \in d.configs : row.id # i},
     runs |-> {run \in d.runs : run.config # i}]

LEMMA Deleted == ASSUME NEW d \in Database, NEW i PROVE DeletedIn(d, i) \in Database
  BY DEF Database, DeletedIn

RecordedIn(d, r) == [d EXCEPT !.runs = @ \cup {RunRow(r, TRUE)}]

LEMMA Recorded ==
    ASSUME NEW d \in Database, NEW r \in Requests PROVE RecordedIn(d, r) \in Database
<1> DEFINE all == [of : Requests, config : {Ref[q] : q \in Requests}, open : BOOLEAN]
<1>1. d.runs \subseteq all /\ RunRow(r, TRUE) \in all
  BY DEF Database, RunRow
<1> HIDE DEF all
<1>2. d.runs \cup {RunRow(r, TRUE)} \subseteq all
  BY <1>1
<1>3. QED
  BY <1>2 DEF all, Database, RecordedIn

ClosedIn(d, r) ==
    [d EXCEPT !.runs = {IF run.of = r THEN RunRow(r, FALSE) ELSE run : run \in @}]

LEMMA Closed ==
    ASSUME NEW d \in Database, NEW r \in Requests PROVE ClosedIn(d, r) \in Database
<1> DEFINE after == {IF run.of = r THEN RunRow(r, FALSE) ELSE run : run \in d.runs}
           all == [of : Requests, config : {Ref[q] : q \in Requests}, open : BOOLEAN]
<1>1. d.runs \subseteq all /\ RunRow(r, FALSE) \in all
  BY DEF Database, RunRow
<1>2. after \subseteq all
  <2> HIDE DEF all
  <2>1. QED
    BY <1>1
<1>3. ClosedIn(d, r) = [d EXCEPT !.runs = after]
  BY DEF ClosedIn, Database
<1> HIDE DEF after
<1>4. QED
  BY <1>2, <1>3 DEF Database

LEMMA SelectsKeeps ==
    ASSUME TypeOK, NEW p \in Processes, Selects(p)
    PROVE  /\ db' \in Database /\ outdated' \subseteq Processes
           /\ conn' \in [Processes -> {"closed", "idle", "begun", "reading", "writing"}]
           /\ view' \in [Processes -> Database]
  BY DEF TypeOK, Selects

LEMMA TypeStep == ASSUME TypeOK, PlaceInv, [Next]_vars PROVE TypeOK'
<1> USE StoreAssumption DEF Goes, Answers, Executes, Violates, GivesUp, AtFirstStatement
<1>1. ASSUME NEW r \in Requests, Looks(r) \/ Requires(r) \/ Checks(r) PROVE TypeOK'
  BY <1>1, SelectsKeeps, ZenonT(30) DEF TypeOK, Looks, Requires, Checks
<1>2. ASSUME NEW r \in Requests, LooksForName(r) PROVE TypeOK'
  <2>1. Tail(todo[r]) \in Seq(Names)
    BY <1>2 DEF TypeOK, LooksForName
  <2>2. todo' \in [Requests -> Seq(Names)]
    BY <1>2, <2>1 DEF TypeOK, LooksForName
  <2>3. QED
    BY <1>2, <2>2, SelectsKeeps DEF TypeOK, LooksForName
<1>3. ASSUME NEW r \in Requests, ImportEnds(r) PROVE TypeOK'
  BY <1>3 DEF TypeOK, ImportEnds
<1>4. ASSUME NEW r \in Requests, Adds(r) PROVE TypeOK'
  <2>1. Sees(At[r]) \in Database /\ Head(todo[r]) \in Names
    BY <1>4, FirstName, SeesDatabase DEF Adds
  <2>2. AddedIn(Sees(At[r]), r, Head(todo[r])) \in Database
    BY <2>1, Added
  <2>3. QED
    BY <1>4, <2>1, <2>2, ZenonT(30) DEF AddedIn, TypeOK, Adds
<1>5. ASSUME NEW r \in Requests, Renames(r) PROVE TypeOK'
  <2>1. Sees(At[r]) \in Database /\ Head(todo[r]) \in Names
    BY <1>5, FirstName, SeesDatabase DEF Renames
  <2>2. Named(Sees(At[r]), Ref[r], Head(todo[r])) \in Database
    BY <2>1, Renamed
  <2>3. QED
    BY <1>5, <2>1, <2>2, ZenonT(30) DEF TypeOK, Renames
<1>6. ASSUME NEW r \in Requests, Deletes(r) PROVE TypeOK'
  <2>1. Sees(At[r]) \in Database
    BY SeesDatabase
  <2>2. DeletedIn(Sees(At[r]), Ref[r]) \in Database
    BY <2>1, Deleted
  <2>3. QED
    BY <1>6, <2>2 DEF DeletedIn, TypeOK, Deletes
<1>7. ASSUME NEW r \in Requests, Records(r) PROVE TypeOK'
  <2>1. Sees(At[r]) \in Database
    BY SeesDatabase
  <2>2. RecordedIn(Sees(At[r]), r) \in Database
    BY <2>1, Recorded
  <2>3. Executes(At[r], RecordedIn(Sees(At[r]), r)) \/ Executes(At[r], Sees(At[r]))
    <3> HIDE DEF Executes
    <3>1. QED
      BY <1>7 DEF RecordedIn, Records
  <2>4. QED
    <3>1. /\ view' \in [Processes -> Database] /\ db' = db /\ outdated' = outdated
          /\ conn' \in [Processes -> {"closed", "idle", "begun", "reading", "writing"}]
      BY <2>1, <2>2, <2>3 DEF TypeOK
    <3>2. QED
      BY <1>7, <3>1 DEF TypeOK, Records
<1>8. ASSUME NEW r \in Requests, ClosesRun(r) PROVE TypeOK'
  <2>1. Sees(At[r]) \in Database
    BY SeesDatabase
  <2>2. ClosedIn(Sees(At[r]), r) \in Database
    BY <2>1, Closed
  <2>3. QED
    BY <1>8, <2>2 DEF ClosedIn, TypeOK, ClosesRun
<1>9. ASSUME NEW r \in Requests, FindsLocked(r) PROVE TypeOK'
  BY <1>9 DEF TypeOK, FindsLocked
<1>10. ASSUME NEW r \in Requests, Commits(r) PROVE TypeOK'
  <2>1. Kind[r] = "import" => Tail(todo[r]) \in Seq(Names)
    BY <1>10, FirstName DEF TypeOK, Commits, PlaceInv
  <2>2. todo' \in [Requests -> Seq(Names)]
    BY <1>10, <2>1 DEF TypeOK, Commits
  <2>3. QED
    BY <1>10, <2>2 DEF TypeOK, Commits, Commit, Nothing, Database
<1>11. ASSUME NEW p \in Processes, Reads(p) PROVE TypeOK'
  BY <1>11, SelectsKeeps DEF TypeOK, Reads
<1>12. ASSUME NEW p \in Processes, Opens(p) PROVE TypeOK'
  BY <1>12 DEF TypeOK, Opens
<1>13. ASSUME NEW p \in Processes, Ends(p) PROVE TypeOK'
  BY <1>13 DEF TypeOK, Ends, Nothing, Database
<1>14. CASE UNCHANGED vars
  BY <1>14 DEF TypeOK
<1>15. QED
  BY <1>1, <1>2, <1>3, <1>4, <1>5, <1>6, <1>7, <1>8, <1>9, <1>10, <1>11, <1>12,
     <1>13, <1>14 DEF Next, Step

LEMMA RestOfRest ==
    ASSUME NEW s \in Seq(Names), NEW w \in Seq(Names), s # <<>>, Rest(s, w)
    PROVE  Rest(Tail(s), w)
<1>1. Len(Tail(s)) = Len(s) - 1 /\ \A j \in 1..(Len(s) - 1) : Tail(s)[j] = s[j + 1]
  OBVIOUS
<1>2. QED
  BY <1>1 DEF Rest

LEMMA PlaceStep == ASSUME TypeOK, PlaceInv, [Next]_vars PROVE PlaceInv'
<1> USE StoreAssumption DEF Goes, Answers, AtFirstStatement, Referring
<1>1. ASSUME NEW r \in Requests, Looks(r) \/ Requires(r) \/ Checks(r) PROVE PlaceInv'
  BY <1>1 DEF TypeOK, PlaceInv, Looks, Requires, Checks
<1>2. ASSUME NEW r \in Requests, LooksForName(r) PROVE PlaceInv'
  <2>1. Rest(Tail(todo[r]), Wanted[r])
    BY <1>2, RestOfRest DEF TypeOK, PlaceInv, LooksForName
  <2>2. \A q \in Requests : q # r =>
           pc'[q] = pc[q] /\ todo'[q] = todo[q] /\ answer'[q] = answer[q]
    BY <1>2 DEF TypeOK, LooksForName
  <2>3. /\ answer'[r] = answer[r] /\ Rest(todo'[r], Wanted[r])
        /\ pc'[r] = "looking" \/ (pc'[r] = "adding" /\ todo'[r] # <<>>)
    BY <1>2, <2>1 DEF TypeOK, PlaceInv, LooksForName
  <2>4. QED
    BY <1>2, <2>2, <2>3 DEF TypeOK, PlaceInv, LooksForName
<1>3. ASSUME NEW r \in Requests, ImportEnds(r) PROVE PlaceInv'
  BY <1>3 DEF TypeOK, PlaceInv, ImportEnds
<1>4. ASSUME NEW r \in Requests, Adds(r) PROVE PlaceInv'
  BY <1>4 DEF TypeOK, PlaceInv, Adds
<1>5. ASSUME NEW r \in Requests, Renames(r) \/ Deletes(r) \/ Records(r) \/ ClosesRun(r)
      PROVE  PlaceInv'
  BY <1>5 DEF TypeOK, PlaceInv, Renames, Deletes, Records, ClosesRun
<1>6. ASSUME NEW r \in Requests, FindsLocked(r) PROVE PlaceInv'
  BY <1>6 DEF TypeOK, PlaceInv, FindsLocked
<1>7. ASSUME NEW r \in Requests, Commits(r) PROVE PlaceInv'
  <2>1. Kind[r] = "import" => Rest(Tail(todo[r]), Wanted[r])
    BY <1>7, RestOfRest DEF TypeOK, PlaceInv, Commits
  <2>2. \A q \in Requests : q # r =>
           pc'[q] = pc[q] /\ todo'[q] = todo[q] /\ answer'[q] = answer[q]
    BY <1>7 DEF TypeOK, Commits
  <2>3. CASE Kind[r] = "import"
    BY <1>7, <2>1, <2>2, <2>3 DEF TypeOK, PlaceInv, Commits
  <2>4. CASE Kind[r] # "import"
    <3>1. todo' = todo
      BY <1>7, <2>4 DEF Commits
    <3>2. QED
      BY <1>7, <2>2, <2>4, <3>1 DEF TypeOK, PlaceInv, Commits, Kinds
  <2>5. QED
    BY <2>3, <2>4
<1>8. ASSUME NEW p \in Processes, Opens(p) \/ Ends(p) \/ Reads(p) PROVE PlaceInv'
  <2>1. UNCHANGED <<todo, answer>> /\ \A r \in Requests :
           pc'[r] = pc[r] \/ (pc'[r] = "lost" /\ pc[r] # "answered")
    BY <1>8 DEF TypeOK, Opens, Ends, Reads
  <2>2. QED
    BY <2>1 DEF TypeOK, PlaceInv
<1>9. CASE UNCHANGED vars
  BY <1>9 DEF PlaceInv
<1>10. QED
  BY <1>1, <1>2, <1>3, <1>4, <1>5, <1>6, <1>7, <1>8, <1>9 DEF Next, Step

-----------------------------------------------------------------------------
(* Locks and snapshots *)

\* r is about to execute a statement that writes.
MayWrite(r) == CanWrite(At[r]) /\ (pc[r] = "writing" \/ AtFirstStatement(r))

LEMMA SeesLatest ==
    ASSUME TypeOK, LockInv, NEW r \in Requests, MayWrite(r)
    PROVE  /\ Sees(At[r]) = db
           /\ \A q \in Requests : ~InCommit(q)
           /\ \A q \in Requests : q # r => ~(InMethod(q) /\ At[q] = At[r])
           /\ \A p \in Processes : conn[p] = "writing" => p = At[r]
           /\ At[r] \notin outdated
<1> USE StoreAssumption
<1>1. \A p \in Processes : conn[p] = "writing" => p = At[r]
  BY DEF MayWrite, CanWrite
<1>2. \A q \in Requests : q # r => ~(InMethod(q) /\ At[q] = At[r])
  BY DEF MayWrite, AtFirstStatement, Unlocked, LockInv, InMethod
<1>3. \A q \in Requests : ~InCommit(q)
  <2>1. ~InCommit(r)
    BY DEF MayWrite, AtFirstStatement, InCommit
  <2>2. ASSUME NEW q \in Requests, q # r PROVE ~InCommit(q)
    BY <1>1, <1>2, <2>2 DEF InCommit, InMethod, LockInv
  <2>3. QED
    BY <2>1, <2>2
<1>4. Sees(At[r]) = db
  BY <1>3 DEF Sees, LockInv, MayWrite, CanWrite
<1>5. QED
  BY <1>1, <1>2, <1>3, <1>4 DEF MayWrite, CanWrite

\* The two ways in which a statement that writes may come out.
Writes(r, e, to) ==
    MayWrite(r) /\ Executes(At[r], e) /\ Goes(r, to) /\ UNCHANGED todo
Fails(r, a) ==
    MayWrite(r) /\ Executes(At[r], db) /\ Answers(r, a) /\ UNCHANGED todo

\* Every statement, and what it makes of the latest database.
LEMMA AddsHow ==
    ASSUME TypeOK, LockInv, NEW r \in Requests, Adds(r)
    PROVE  \/ Fails(r, "taken") \/ Fails(r, "clash")
           \/ /\ ~Taken(db, Head(todo[r])) /\ Kind[r] \in {"create", "import"}
              /\ pc[r] \in {"new", "adding"}
              /\ Writes(r, AddedIn(db, r, Head(todo[r])), "committing")
<1>1. MayWrite(r) /\ Sees(At[r]) = db
  BY SeesLatest DEF Adds, MayWrite
<1>2. QED
  BY <1>1 DEF Adds, AddedIn, AtFirstStatement, Fails, Writes, Violates

LEMMA RenamesHow ==
    ASSUME TypeOK, LockInv, NEW r \in Requests, Renames(r)
    PROVE  \/ Fails(r, "taken") \/ Fails(r, "clash")
           \/ /\ Kind[r] \in {"rename", "update"} /\ pc[r] = "writing"
              /\ ~(Has(db, Ref[r]) /\ \E row \in db.configs :
                       row.name = Head(todo[r]) /\ row.id # Ref[r])
              /\ Writes(r, Named(db, Ref[r], Head(todo[r])), "committing")
<1>1. MayWrite(r) /\ Sees(At[r]) = db
  BY SeesLatest DEF Renames, MayWrite
<1>2. QED
  BY <1>1 DEF Renames, Fails, Writes, Violates

LEMMA DeletesHow ==
    ASSUME TypeOK, LockInv, NEW r \in Requests, Deletes(r)
    PROVE  /\ Kind[r] = "delete" /\ pc[r] = "writing"
           /\ Writes(r, DeletedIn(db, Ref[r]), "committing")
<1>1. MayWrite(r) /\ Sees(At[r]) = db
  BY SeesLatest DEF Deletes, MayWrite
<1>2. QED
  BY <1>1 DEF Deletes, DeletedIn, Writes

LEMMA RecordsHow ==
    ASSUME TypeOK, LockInv, NEW r \in Requests, Records(r)
    PROVE  \/ Fails(r, "gone")
           \/ /\ Kind[r] = "run" /\ pc[r] = "writing" /\ Has(db, Ref[r])
              /\ Writes(r, RecordedIn(db, r), "committing")
<1>1. MayWrite(r) /\ Sees(At[r]) = db
  BY SeesLatest DEF Records, MayWrite
<1>2. QED
  BY <1>1 DEF Records, RecordedIn, Fails, Writes, Violates

LEMMA ClosesHow ==
    ASSUME TypeOK, LockInv, NEW r \in Requests, ClosesRun(r)
    PROVE  /\ Kind[r] = "run" /\ pc[r] = "serving"
           /\ Writes(r, ClosedIn(db, r), "closing")
<1>1. MayWrite(r) /\ Sees(At[r]) = db
  BY SeesLatest DEF ClosesRun, MayWrite
<1>2. QED
  BY <1>1 DEF ClosesRun, ClosedIn, AtFirstStatement, Writes

(***************************************************************************)
(* Steps that change nothing in the database: a connection may get the      *)
(* latest snapshot, or begin a transaction without one.                     *)
(***************************************************************************)
Quiet ==
    /\ UNCHANGED <<db, outdated>>
    /\ \A p \in Processes :
          \/ conn'[p] = conn[p] /\ view'[p] = view[p]
          \/ conn[p] = "begun" /\ conn'[p] = "reading" /\ view'[p] = db
          \/ conn[p] = "idle" /\ conn'[p] = "begun" /\ view'[p] = view[p]

LEMMA SelectsQuietly == ASSUME TypeOK, NEW p \in Processes, Selects(p) PROVE Quiet
  BY DEF TypeOK, Selects, Quiet

LEMMA GivesUpQuietly == ASSUME TypeOK, NEW p \in Processes, GivesUp(p) PROVE Quiet
  BY DEF TypeOK, GivesUp, Quiet

LEMMA QuietLocks ==
    ASSUME TypeOK, LockInv, Quiet,
           \A q \in Requests : InCommit(q)' = InCommit(q),
           \A q, r \in Requests : InMethod(q)' /\ InMethod(r)' /\ At[q] = At[r] => q = r
    PROVE  LockInv'
<1> USE StoreAssumption DEF Quiet, LockInv
<1>1. \A p \in Processes : conn'[p] = "writing" <=> conn[p] = "writing"
  OBVIOUS
<1>2. \A p \in Processes : conn'[p] = "reading" /\ p \notin outdated' => view'[p] = db'
  OBVIOUS
<1>3. \A p \in Processes : conn'[p] = "writing" =>
         view'[p] = db' \/ \E q \in Requests : InCommit(q)' /\ At[q] = p
  OBVIOUS
<1>4. outdated' \subseteq {p \in Processes : conn'[p] = "reading"}
  <2>1. \A p \in outdated : p \in Processes /\ conn[p] = "reading"
    OBVIOUS
  <2>2. QED
    BY <2>1
<1>5. \A q \in Requests : InCommit(q)' => conn'[At[q]] = "writing"
  BY <1>1
<1>6. \A p, q \in Processes : conn'[p] = "writing" /\ conn'[q] = "writing" => p = q
  BY <1>1
<1>7. QED
  BY <1>2, <1>3, <1>4, <1>5, <1>6

\* A step of one request, which begins a method only when nobody is in one.
LEMMA QuietRequest ==
    ASSUME TypeOK, LockInv, Quiet, NEW r \in Requests,
           \A q \in Requests : q # r => pc'[q] = pc[q],
           ~InCommit(r) /\ ~InCommit(r)',
           InMethod(r)' => InMethod(r) \/ Unlocked(At[r])
    PROVE  LockInv'
<1>1. \A q \in Requests : InCommit(q)' = InCommit(q)
  BY DEF InCommit
<1>2. \A q \in Requests : q # r => InMethod(q)' = InMethod(q)
  BY DEF InMethod
<1>3. \A p, q \in Requests : InMethod(p)' /\ InMethod(q)' /\ At[p] = At[q] => p = q
  BY <1>2 DEF LockInv, Unlocked
<1>4. QED
  BY <1>1, <1>3, QuietLocks

LEMMA LockStep == ASSUME TypeOK, PlaceInv, LockInv, [Next]_vars PROVE LockInv'
<1> USE StoreAssumption DEF InCommit, InMethod
<1>1. ASSUME NEW r \in Requests,
             Looks(r) \/ LooksForName(r) \/ Requires(r) \/ Checks(r)
      PROVE  LockInv'
  <2>1. Unlocked(At[r]) /\ Selects(At[r]) /\ ~InMethod(r)
    BY <1>1 DEF Looks, LooksForName, Requires, Checks, Unlocked
  <2>2. /\ \A q \in Requests : q # r => pc'[q] = pc[q]
        /\ pc'[r] \notin {"committing", "closing"}
    BY <1>1 DEF TypeOK, Looks, LooksForName, Requires, Checks, Goes, Answers
  <2>3. QED
    BY <2>1, <2>2, SelectsQuietly, QuietRequest
<1>2. ASSUME NEW r \in Requests, ImportEnds(r) PROVE LockInv'
  <2>1. Quiet /\ pc[r] = "looking" /\ pc'[r] = "answered"
    BY <1>2 DEF TypeOK, Quiet, ImportEnds, Answers
  <2>2. \A q \in Requests : q # r => pc'[q] = pc[q]
    BY <1>2 DEF TypeOK, ImportEnds, Answers
  <2>3. QED
    BY <2>1, <2>2, QuietRequest
<1>3. ASSUME NEW r \in Requests, NEW e, NEW to \in {"committing", "closing"}, Writes(r, e, to)
      PROVE  LockInv'
  <2>1. \A q \in Requests : q # r => pc'[q] = pc[q]
    BY <1>3 DEF TypeOK, Writes, Goes
  <2>2. pc'[r] = to
    BY <1>3 DEF TypeOK, Writes, Goes
  <2>3. QED
    BY <1>3, <2>1, <2>2, SeesLatest DEF TypeOK, LockInv, Writes, Executes
<1>4. ASSUME NEW r \in Requests, NEW a, Fails(r, a) PROVE LockInv'
  <2>1. \A q \in Requests : q # r => pc'[q] = pc[q]
    BY <1>4 DEF TypeOK, Fails, Answers
  <2>2. pc'[r] = "answered"
    BY <1>4 DEF TypeOK, Fails, Answers
  <2>3. QED
    BY <1>4, <2>1, <2>2, SeesLatest DEF TypeOK, LockInv, Fails, Executes
<1>5. ASSUME NEW r \in Requests, FindsLocked(r) PROVE LockInv'
  <2>1. Quiet
    BY <1>5, GivesUpQuietly DEF FindsLocked
  <2>2. /\ \A q \in Requests : q # r => pc'[q] = pc[q]
        /\ ~InCommit(r) /\ ~InMethod(r)'
    BY <1>5 DEF TypeOK, FindsLocked, Answers, AtFirstStatement
  <2>3. QED
    BY <2>1, <2>2, QuietRequest
<1>6. ASSUME NEW r \in Requests, Commits(r) PROVE LockInv'
  <2>1. \A q \in Requests : q # r => pc'[q] = pc[q]
    BY <1>6 DEF TypeOK, Commits, Goes, Answers
  <2>2. ~InMethod(r)' /\ InCommit(r) /\ Commit(At[r])
    BY <1>6 DEF TypeOK, Commits, Goes, Answers
  <2>3. \A q \in Requests : InCommit(q) => q = r
    BY <2>2 DEF LockInv
  <2>4. \A p \in Processes : conn[p] = "writing" <=> p = At[r]
    BY <2>2 DEF LockInv
  <2>5. \A p \in Processes : conn'[p] # "writing" /\ (p # At[r] =>
           conn'[p] = conn[p] /\ view'[p] = view[p])
    BY <2>2, <2>4 DEF TypeOK, Commit
  <2>6. outdated' \subseteq {p \in Processes : conn'[p] = "reading"}
    <3>1. \A p \in outdated' : p \in Processes /\ conn[p] = "reading"
      BY <2>2 DEF Commit, LockInv
    <3>2. QED
      BY <2>4, <2>5, <3>1
  <2>7. \A p \in Processes : conn'[p] = "reading" /\ p \notin outdated' => view'[p] = db'
    BY <2>2, <2>4, <2>5 DEF TypeOK, LockInv, Commit
  <2>8. \A q \in Requests : ~InCommit(q)'
    BY <2>1, <2>2, <2>3
  <2>9. QED
    BY <2>1, <2>2, <2>5, <2>6, <2>7, <2>8, ZenonT(30) DEF LockInv
<1>7. ASSUME NEW p \in Processes, Reads(p) PROVE LockInv'
  <2>1. Quiet /\ pc' = pc
    BY <1>7, SelectsQuietly DEF Reads
  <2>2. QED
    BY <2>1, QuietLocks DEF LockInv
<1>8. ASSUME NEW p \in Processes, Opens(p) PROVE LockInv'
  BY <1>8 DEF TypeOK, LockInv, Opens
<1>9. ASSUME NEW p \in Processes, Ends(p) PROVE LockInv'
  BY <1>9 DEF TypeOK, LockInv, Ends
<1>10. CASE UNCHANGED vars
  BY <1>10 DEF LockInv
<1>11. QED
  BY <1>1, <1>2, <1>3, <1>4, <1>5, <1>6, <1>7, <1>8, <1>9, <1>10,
     AddsHow, RenamesHow, DeletesHow, RecordsHow, ClosesHow DEF Next, Step

-----------------------------------------------------------------------------
(* Intact *)

LEMMA AddedWhole ==
    ASSUME NEW d \in Database, NEW r \in Requests, NEW n \in Names,
           Consistent(d), ~Taken(d, n), ~Has(d, NewId(r))
    PROVE  Consistent(AddedIn(d, r, n))
<1>1. /\ AddedIn(d, r, n).configs = d.configs \cup {Row(NewId(r), n)}
      /\ AddedIn(d, r, n).runs = d.runs
  BY DEF AddedIn, Database
<1>2. \A a, b \in AddedIn(d, r, n).configs : (a.id = b.id \/ a.name = b.name) => a = b
  <2> DEFINE new == Row(NewId(r), n)
  <2>1. new.id = NewId(r) /\ new.name = n
    BY DEF Row
  <2>2. \A a \in d.configs : a.id # NewId(r) /\ a.name # n
    BY DEF Has, Taken
  <2>3. AddedIn(d, r, n).configs = d.configs \cup {new}
    BY <1>1
  <2> HIDE DEF new
  <2>4. QED
    BY <2>1, <2>2, <2>3 DEF Consistent
<1>3. \A run \in d.runs : Has(AddedIn(d, r, n), run.config) /\ run.config = Ref[run.of]
  BY <1>1 DEF Consistent, Has
<1>4. QED
  BY <1>1, <1>2, <1>3 DEF Consistent

LEMMA RenamedWhole ==
    ASSUME NEW d \in Database, NEW i, NEW n \in Names, Consistent(d),
           ~(Has(d, i) /\ \E row \in d.configs : row.name = n /\ row.id # i)
    PROVE  Consistent(Named(d, i, n))
<1>1. /\ Named(d, i, n).configs = {IF row.id = i THEN Row(i, n) ELSE row : row \in d.configs}
      /\ Named(d, i, n).runs = d.runs
  BY DEF Named, Database
<1>2. \A j : Has(d, j) => Has(Named(d, i, n), j)
  <2> SUFFICES ASSUME NEW row \in d.configs PROVE Has(Named(d, i, n), row.id)
    BY DEF Has
  <2> DEFINE now == IF row.id = i THEN Row(i, n) ELSE row
  <2>1. now \in Named(d, i, n).configs
    BY <1>1
  <2>2. now.id = row.id
    BY DEF Row
  <2> HIDE DEF now
  <2>3. QED
    BY <2>1, <2>2 DEF Has
<1>3. ASSUME NEW a \in Named(d, i, n).configs, NEW b \in Named(d, i, n).configs,
             a.id = b.id \/ a.name = b.name
      PROVE  a = b
  <2>1. PICK x \in d.configs : a = IF x.id = i THEN Row(i, n) ELSE x
    BY <1>1
  <2>2. PICK y \in d.configs : b = IF y.id = i THEN Row(i, n) ELSE y
    BY <1>1
  <2>3. QED
    BY <1>3, <2>1, <2>2 DEF Consistent, Has, Row
<1>4. QED
  BY <1>1, <1>2, <1>3 DEF Consistent

LEMMA DeletedWhole ==
    ASSUME NEW d \in Database, NEW i, Consistent(d) PROVE Consistent(DeletedIn(d, i))
  BY DEF DeletedIn, Consistent, Has

LEMMA RecordedWhole ==
    ASSUME NEW d \in Database, NEW r \in Requests, Consistent(d), Has(d, Ref[r])
    PROVE  Consistent(RecordedIn(d, r))
<1>1. /\ RecordedIn(d, r).configs = d.configs
      /\ RecordedIn(d, r).runs = d.runs \cup {RunRow(r, TRUE)}
  BY DEF RecordedIn, Database
<1>2. QED
  BY <1>1 DEF Consistent, Has, RunRow

LEMMA ClosedWhole ==
    ASSUME NEW d \in Database, NEW r \in Requests, Consistent(d)
    PROVE  Consistent(ClosedIn(d, r))
<1>1. /\ ClosedIn(d, r).configs = d.configs
      /\ ClosedIn(d, r).runs = {IF run.of = r THEN RunRow(r, FALSE) ELSE run : run \in d.runs}
  BY DEF ClosedIn, Database
<1>2. QED
  BY <1>1 DEF Consistent, Has, RunRow

\* A step of one request leaves the others where they are.
LEMMA Others ==
    ASSUME TypeOK, NEW r \in Requests, Step(r), NEW q \in Requests, q # r
    PROVE  pc'[q] = pc[q] /\ todo'[q] = todo[q] /\ answer'[q] = answer[q]
<1> USE DEF TypeOK, Goes, Answers
<1>1. CASE Looks(r) \/ Requires(r) \/ Checks(r)
  BY <1>1 DEF Looks, Requires, Checks
<1>2. CASE LooksForName(r)
  BY <1>2 DEF LooksForName
<1>3. CASE ImportEnds(r) \/ FindsLocked(r)
  BY <1>3 DEF ImportEnds, FindsLocked
<1>4. CASE Adds(r)
  BY <1>4 DEF Adds
<1>5. CASE Renames(r) \/ Deletes(r) \/ Records(r) \/ ClosesRun(r)
  BY <1>5 DEF Renames, Deletes, Records, ClosesRun
<1>6. CASE Commits(r)
  BY <1>6 DEF Commits
<1>7. QED
  BY <1>1, <1>2, <1>3, <1>4, <1>5, <1>6 DEF Step

LEMMA StillMade == ASSUME TypeOK, [Next]_vars PROVE Made \subseteq Made'
<1>1. ASSUME NEW r \in Requests, Step(r) PROVE pc'[r] # "new"
  BY <1>1 DEF Step, Looks, LooksForName, ImportEnds, Requires, Adds, Renames, Deletes,
         Records, ClosesRun, FindsLocked, Commits, Checks, Goes, Answers, TypeOK
<1>2. \A q \in Requests : pc[q] # "new" => pc'[q] # "new"
  BY <1>1, Others DEF Next, Opens, Ends, Reads, TypeOK
<1>3. QED
  BY <1>2 DEF Made

\* An id that is known is never given again.
LEMMA StillSpent ==
    ASSUME TypeOK, PlaceInv, NEW r \in Requests, Step(r), NEW k \in Nat, Spent(r, k)
    PROVE  Spent(r, k)'
<1> USE StoreAssumption DEF TypeOK, Goes, Answers, Spent
<1>1. todo[r] # <<>> => Len(Tail(todo[r])) = Len(todo[r]) - 1
  OBVIOUS
<1>2. CASE Looks(r) \/ Requires(r) \/ Checks(r)
  BY <1>2 DEF Looks, Requires, Checks, Referring, PlaceInv
<1>3. CASE LooksForName(r)
  BY <1>1, <1>3 DEF LooksForName
<1>4. CASE ImportEnds(r) \/ FindsLocked(r)
  BY <1>4 DEF ImportEnds, FindsLocked
<1>5. CASE Adds(r)
  BY <1>5 DEF Adds
<1>6. CASE Renames(r) \/ Deletes(r) \/ Records(r) \/ ClosesRun(r)
  BY <1>6 DEF Renames, Deletes, Records, ClosesRun
<1>7. CASE Commits(r)
  BY <1>1, <1>7 DEF Commits, PlaceInv
<1>8. QED
  BY <1>2, <1>3, <1>4, <1>5, <1>6, <1>7 DEF Step

LEMMA StillKnown ==
    ASSUME TypeOK, PlaceInv, [Next]_vars, NEW i, Known(i) PROVE Known(i)'
<1> SUFFICES ASSUME NEW r \in Requests, NEW k \in Nat, Spent(r, k) PROVE Spent(r, k)'
  BY DEF Known
<1>1. CASE Step(r)
  BY <1>1, StillSpent
<1>2. ASSUME NEW q \in Requests, q # r, Step(q) PROVE Spent(r, k)'
  BY <1>2, Others DEF Spent
<1>3. ASSUME NEW p \in Processes, Opens(p) \/ Reads(p) PROVE Spent(r, k)'
  BY <1>3 DEF Opens, Reads, Spent
<1>4. ASSUME NEW p \in Processes, Ends(p) PROVE Spent(r, k)'
  BY <1>4 DEF Ends, Spent, TypeOK
<1>5. CASE UNCHANGED vars
  BY <1>5 DEF Spent
<1>6. QED
  BY <1>1, <1>2, <1>3, <1>4, <1>5 DEF Next

LEMMA StillWhole ==
    ASSUME TypeOK, PlaceInv, [Next]_vars, NEW d, Whole(d)
    PROVE  Consistent(d) /\ \A row \in d.configs : Known(row.id)'
  BY StillKnown DEF Whole

\* The id of what is added is new, and known from then on.
LEMMA NewIdIsNew ==
    ASSUME TypeOK, Whole(db), NEW r \in Requests, pc[r] \in {"new", "adding"}
    PROVE  ~Has(db, NewId(r))
<1>1. Len(todo[r]) \in Nat
  BY DEF TypeOK
<1>2. ~Spent(r, Len(todo[r]))
  BY <1>1 DEF Spent
<1>3. ~Known(NewId(r))
  BY <1>1, <1>2 DEF Known, NewId
<1>4. QED
  BY <1>3 DEF Whole, Has

LEMMA NewIdIsKnown ==
    ASSUME TypeOK, NEW r \in Requests, Kind[r] \in {"create", "import"},
           pc'[r] = "committing", todo' = todo
    PROVE  Known(NewId(r))'
  BY DEF Known, Spent, NewId

(***************************************************************************)
(* What is written is made of the latest database, by a statement that the  *)
(* constraints have let pass.                                               *)
(***************************************************************************)
LEMMA WholeStep ==
    ASSUME TypeOK, PlaceInv, LockInv, WholeInv, [Next]_vars PROVE WholeInv'
<1> USE StoreAssumption
<1>0. /\ Consistent(db) /\ \A row \in db.configs : Known(row.id)'
      /\ \A p \in Processes : /\ Consistent(view[p])
                              /\ \A row \in view[p].configs : Known(row.id)'
  BY StillWhole DEF WholeInv
<1>1. ASSUME Quiet PROVE WholeInv'
  BY <1>0, <1>1 DEF Quiet, WholeInv, Whole
<1>2. ASSUME NEW r \in Requests, NEW e, NEW to, Writes(r, e, to),
             Consistent(e) /\ \A row \in e.configs : Known(row.id)'
      PROVE  WholeInv'
  BY <1>0, <1>2 DEF Writes, Executes, WholeInv, Whole, TypeOK
<1>3. ASSUME NEW r \in Requests, NEW a, Fails(r, a) PROVE WholeInv'
  BY <1>0, <1>3 DEF Fails, Executes, WholeInv, Whole, TypeOK
<1>4. ASSUME NEW r \in Requests,
             Looks(r) \/ LooksForName(r) \/ Requires(r) \/ Checks(r) \/ FindsLocked(r)
      PROVE  WholeInv'
  BY <1>1, <1>4, SelectsQuietly, GivesUpQuietly
     DEF Looks, LooksForName, Requires, Checks, FindsLocked
<1>5. ASSUME NEW r \in Requests, ImportEnds(r) PROVE WholeInv'
  BY <1>1, <1>5 DEF ImportEnds, Quiet
<1>6. ASSUME NEW r \in Requests, Adds(r) PROVE WholeInv'
  <2>1. Head(todo[r]) \in Names
    BY <1>6, FirstName DEF Adds, AtFirstStatement
  <2> DEFINE e == AddedIn(db, r, Head(todo[r]))
  <2>2. ASSUME ~Taken(db, Head(todo[r])), Kind[r] \in {"create", "import"},
               pc[r] \in {"new", "adding"}, Writes(r, e, "committing")
        PROVE  WholeInv'
    <3>1. Consistent(e)
      BY <1>0, <2>1, <2>2, AddedWhole, NewIdIsNew DEF TypeOK, WholeInv
    <3>2. pc'[r] = "committing" /\ todo' = todo
      BY <2>2 DEF Writes, Goes, TypeOK
    <3>3. Known(NewId(r))'
      BY <2>2, <3>2, NewIdIsKnown
    <3>4. e.configs = db.configs \cup {Row(NewId(r), Head(todo[r]))}
      BY DEF AddedIn, TypeOK, Database
    <3>5. NewId(r)' = NewId(r)
      BY <3>2 DEF NewId
    <3>6. \A row \in e.configs : Known(row.id)'
      BY <1>0, <3>3, <3>4, <3>5 DEF Row
    <3> HIDE DEF e
    <3>7. QED
      BY <1>2, <2>2, <3>1, <3>6
  <2>3. QED
    BY <1>3, <1>6, <2>2, AddsHow
<1>7. ASSUME NEW r \in Requests, Renames(r) PROVE WholeInv'
  <2>1. Head(todo[r]) \in Names
    BY <1>7, FirstName DEF Renames
  <2> DEFINE e == Named(db, Ref[r], Head(todo[r]))
  <2>2. ASSUME ~(Has(db, Ref[r]) /\ \E row \in db.configs :
                    row.name = Head(todo[r]) /\ row.id # Ref[r]),
               Writes(r, e, "committing")
        PROVE  WholeInv'
    <3>1. Consistent(e)
      BY <1>0, <2>1, <2>2, RenamedWhole DEF TypeOK
    <3>2. \A row \in e.configs : Has(db, row.id)
      BY DEF Named, TypeOK, Database, Has, Row
    <3>3. \A row \in e.configs : Known(row.id)'
      BY <1>0, <3>2 DEF Has
    <3> HIDE DEF e
    <3>4. QED
      BY <1>2, <2>2, <3>1, <3>3
  <2>3. QED
    BY <1>3, <1>7, <2>2, RenamesHow
<1>8. ASSUME NEW r \in Requests, Deletes(r) PROVE WholeInv'
  <2>1. Consistent(DeletedIn(db, Ref[r]))
    BY <1>0, DeletedWhole DEF TypeOK
  <2>2. DeletedIn(db, Ref[r]).configs \subseteq db.configs
    BY DEF DeletedIn
  <2>3. QED
    BY <1>0, <1>2, <1>8, <2>1, <2>2, DeletesHow
<1>9. ASSUME NEW r \in Requests, Records(r) PROVE WholeInv'
  <2>1. RecordedIn(db, r).configs = db.configs
    BY DEF RecordedIn, TypeOK, Database
  <2>2. Has(db, Ref[r]) => Consistent(RecordedIn(db, r))
    BY <1>0, RecordedWhole DEF TypeOK
  <2>3. QED
    BY <1>0, <1>2, <1>3, <1>9, <2>1, <2>2, RecordsHow
<1>10. ASSUME NEW r \in Requests, ClosesRun(r) PROVE WholeInv'
  <2>1. ClosedIn(db, r).configs = db.configs
    BY DEF ClosedIn, TypeOK, Database
  <2>2. Consistent(ClosedIn(db, r))
    BY <1>0, ClosedWhole DEF TypeOK
  <2>3. QED
    BY <1>0, <1>2, <1>10, <2>1, <2>2, ClosesHow
<1>11. ASSUME NEW r \in Requests, Commits(r) PROVE WholeInv'
  BY <1>0, <1>11 DEF Commits, Commit, WholeInv, Whole, Consistent, TypeOK, Nothing
<1>12. ASSUME NEW p \in Processes, Opens(p) \/ Ends(p) PROVE WholeInv'
  <2>1. db' = db /\ \A q \in Processes : view'[q] \in {view[q], Nothing}
    BY <1>12 DEF Opens, Ends, TypeOK
  <2>2. Nothing.configs = {} /\ Nothing.runs = {}
    BY DEF Nothing
  <2>3. Consistent(Nothing)
    BY <2>2 DEF Consistent
  <2>4. QED
    BY <1>0, <2>1, <2>2, <2>3 DEF WholeInv, Whole
<1>13. ASSUME NEW p \in Processes, Reads(p) PROVE WholeInv'
  BY <1>1, <1>13, SelectsQuietly DEF Reads
<1>14. CASE UNCHANGED vars
  BY <1>0, <1>14 DEF WholeInv, Whole
<1>15. QED
  BY <1>4, <1>5, <1>6, <1>7, <1>8, <1>9, <1>10, <1>11, <1>12, <1>13, <1>14 DEF Next, Step

-----------------------------------------------------------------------------
(* Imports *)

LEMMA OneMoreDealt ==
    ASSUME TypeOK, PlaceInv, NEW r \in Requests, NEW d, Dealt(r, d), todo[r] # <<>>,
           Taken(d, Head(todo[r]))
    PROVE  \A k \in 1..(Len(Wanted[r]) - Len(Tail(todo[r]))) : Taken(d, Wanted[r][k])
<1> USE StoreAssumption
<1> DEFINE all == Len(Wanted[r])
           left == Len(todo[r])
<1>1. /\ all \in Nat /\ left \in Nat /\ left > 0 /\ left <= all
      /\ Len(Tail(todo[r])) = left - 1 /\ Head(todo[r]) = todo[r][1]
  BY DEF TypeOK, PlaceInv, Rest
<1>2. \A j \in 1..left : todo[r][j] = Wanted[r][all - left + j]
  BY DEF PlaceInv, Rest
<1>3. \A k \in 1..(all - left) : Taken(d, Wanted[r][k])
  BY DEF Dealt
<1> HIDE DEF all, left
<1>4. Head(todo[r]) = Wanted[r][all - left + 1]
  BY <1>1, <1>2, SMTT(20)
<1>5. \A k \in 1..(all - (left - 1)) : k \in 1..(all - left) \/ k = all - left + 1
  BY <1>1
<1>6. QED
  BY <1>1, <1>3, <1>4, <1>5 DEF all

\* Nothing is read that is not there now, if nothing is ever taken away.
LEMMA SeesWhatIsThere ==
    ASSUME TypeOK, LockInv, NEW p \in Processes, Unlocked(p), NEW n \in Names,
           \A m \in Names : conn[p] = "reading" /\ Taken(view[p], m) => Taken(db, m),
           Taken(Sees(p), n)
    PROVE  Taken(db, n)
<1>1. conn[p] = "writing" => view[p] = db
  BY DEF LockInv, Unlocked, InCommit, InMethod
<1>2. QED
  BY <1>1 DEF Sees

LEMMA NameStep ==
    ASSUME TypeOK, PlaceInv, LockInv, NameInv, [Next]_vars PROVE NameInv'
<1> USE StoreAssumption
<1> SUFFICES ASSUME OnlyAdded'
             PROVE  /\ \A r \in Requests : Kind[r] = "import" => Dealt(r, db)'
                    /\ \A r \in Requests : InCommit(r)' =>
                          /\ \A n \in Names : Taken(db, n)' => Taken(view'[At[r]], n)
                          /\ Kind[r] = "import" => Taken(view'[At[r]], Head(todo'[r]))
                    /\ \A p \in Processes : conn'[p] = "reading" =>
                          \A n \in Names : Taken(view'[p], n) => Taken(db, n)'
  BY DEF NameInv, Taken
<1> DEFINE Goal ==
      /\ \A r \in Requests : Kind[r] = "import" => Dealt(r, db)'
      /\ \A r \in Requests : InCommit(r)' =>
            /\ \A n \in Names : Taken(db, n)' => Taken(view'[At[r]], n)
            /\ Kind[r] = "import" => Taken(view'[At[r]], Head(todo'[r]))
      /\ \A p \in Processes : conn'[p] = "reading" =>
            \A n \in Names : Taken(view'[p], n) => Taken(db, n)'
<1>1. \A q \in Requests : pc'[q] # "new" => Kind[q] \notin {"delete", "rename", "update"}
  BY DEF OnlyAdded, Made
<1>2. OnlyAdded
  BY <1>1, StillMade DEF OnlyAdded, Made
<1>3. /\ \A r \in Requests : Kind[r] = "import" => Dealt(r, db)
      /\ \A r \in Requests : InCommit(r) =>
            /\ \A n \in Names : Taken(db, n) => Taken(view[At[r]], n)
            /\ Kind[r] = "import" => Taken(view[At[r]], Head(todo[r]))
      /\ \A p \in Processes : conn[p] = "reading" =>
            \A n \in Names : Taken(view[p], n) => Taken(db, n)
  BY <1>2 DEF NameInv
<1>4. ASSUME Quiet, todo' = todo, \A q \in Requests : InCommit(q)' => InCommit(q)
      PROVE  Goal
  <2>1. \A q \in Requests : InCommit(q)' => view'[At[q]] = view[At[q]]
    BY <1>4 DEF LockInv, Quiet
  <2>2. db' = db
    BY <1>4 DEF Quiet
  <2>3. \A p \in Processes : conn'[p] = "reading" =>
           (conn[p] = "reading" /\ view'[p] = view[p]) \/ view'[p] = db
    BY <1>4 DEF Quiet
  <2>4. \A r \in Requests : Dealt(r, db)' <=> Dealt(r, db)
    BY <1>4, <2>2 DEF Dealt, Taken
  <2>5. \A n : Taken(db, n)' <=> Taken(db, n)
    BY <2>2 DEF Taken
  <2>6. QED
    BY <1>3, <1>4, <2>1, <2>3, <2>4, <2>5
<1>5. ASSUME NEW r \in Requests, NEW e, NEW to, Writes(r, e, to),
             \A n \in Names : Taken(db, n) => Taken(e, n),
             Kind[r] = "import" => Taken(e, Head(todo[r]))
      PROVE  Goal
  <2>1. /\ db' = db /\ todo' = todo /\ view' = [view EXCEPT ![At[r]] = e]
        /\ conn' = [conn EXCEPT ![At[r]] = "writing"]
        /\ \A q \in Requests : q # r => pc'[q] = pc[q]
    BY <1>5 DEF Writes, Executes, Goes, TypeOK
  <2>2. \A q \in Requests : InCommit(q)' => q = r
    BY <1>5, <2>1, SeesLatest DEF Writes, InCommit
  <2>3. view'[At[r]] = e /\ \A p \in Processes : conn'[p] = "reading" =>
           conn[p] = "reading" /\ view'[p] = view[p]
    BY <2>1 DEF TypeOK
  <2>4. \A q \in Requests : Dealt(q, db)' <=> Dealt(q, db)
    BY <2>1 DEF Dealt, Taken
  <2>5. \A n : Taken(db, n)' <=> Taken(db, n)
    BY <2>1 DEF Taken
  <2>6. QED
    BY <1>3, <1>5, <2>1, <2>2, <2>3, <2>4, <2>5
<1>6. ASSUME NEW r \in Requests, NEW a, Fails(r, a) PROVE Goal
  <2>1. /\ db' = db /\ todo' = todo /\ view' = [view EXCEPT ![At[r]] = db]
        /\ conn' = [conn EXCEPT ![At[r]] = "writing"]
        /\ pc' = [pc EXCEPT ![r] = "answered"]
    BY <1>6 DEF Fails, Executes, Answers
  <2>2. \A q \in Requests : ~InCommit(q)'
    BY <1>6, <2>1, SeesLatest DEF Fails, InCommit, TypeOK
  <2>3. \A p \in Processes : conn'[p] = "reading" =>
           conn[p] = "reading" /\ view'[p] = view[p]
    BY <2>1 DEF TypeOK
  <2>4. \A q \in Requests : Dealt(q, db)' <=> Dealt(q, db)
    BY <2>1 DEF Dealt, Taken
  <2>5. \A n : Taken(db, n)' <=> Taken(db, n)
    BY <2>1 DEF Taken
  <2>6. QED
    BY <1>3, <2>2, <2>3, <2>4, <2>5
<1>7. ASSUME NEW r \in Requests,
             Looks(r) \/ Requires(r) \/ Checks(r) \/ FindsLocked(r) \/ ImportEnds(r)
      PROVE  Goal
  <2>1. Quiet /\ todo' = todo
    BY <1>7, SelectsQuietly, GivesUpQuietly
       DEF Looks, Requires, Checks, FindsLocked, ImportEnds, Quiet
  <2>2. pc'[r] \notin {"committing", "closing"}
    BY <1>7 DEF Looks, Requires, Checks, FindsLocked, ImportEnds, Goes, Answers, TypeOK
  <2>3. \A q \in Requests : InCommit(q)' => InCommit(q)
    BY <1>7, <2>2, Others DEF InCommit, Step
  <2>4. QED
    BY <1>4, <2>1, <2>3
<1>8. ASSUME NEW r \in Requests, LooksForName(r) PROVE Goal
  <2>1. Quiet /\ pc'[r] \in {"looking", "adding"}
    BY <1>8, SelectsQuietly DEF LooksForName, Goes, TypeOK
  <2>2. \A q \in Requests : InCommit(q)' => InCommit(q)
    BY <1>8, <2>1, Others DEF InCommit, Step
  <2>3. CASE todo' = todo
    BY <1>4, <2>1, <2>2, <2>3
  <2>4. CASE todo' # todo
    <3>1. /\ todo[r] # <<>> /\ Taken(Sees(At[r]), Head(todo[r])) /\ Unlocked(At[r])
          /\ todo' = [todo EXCEPT ![r] = Tail(@)] /\ Kind[r] = "import"
      BY <1>8, <2>4 DEF LooksForName
    <3>2. Head(todo[r]) \in Names /\ todo'[r] = Tail(todo[r])
      BY <3>1 DEF TypeOK
    <3>3. Taken(db, Head(todo[r]))
      BY <1>3, <3>1, <3>2, SeesWhatIsThere
    <3>4. db' = db
      BY <2>1 DEF Quiet
    <3>5. Dealt(r, db)'
      BY <1>3, <3>1, <3>2, <3>3, <3>4, OneMoreDealt DEF Dealt
    <3>6. \A q \in Requests : q # r => (Dealt(q, db)' <=> Dealt(q, db))
      BY <3>1, <3>4 DEF Dealt, Taken, TypeOK
    <3>7. \A q \in Requests : InCommit(q)' => q # r /\ view'[At[q]] = view[At[q]]
                                              /\ todo'[q] = todo[q]
      BY <2>1, <2>2, <3>1 DEF LockInv, Quiet, InCommit, TypeOK
    <3>8. \A p \in Processes : conn'[p] = "reading" =>
             (conn[p] = "reading" /\ view'[p] = view[p]) \/ view'[p] = db
      BY <2>1 DEF Quiet
    <3>9. \A n : Taken(db, n)' <=> Taken(db, n)
      BY <3>4 DEF Taken
    <3>10. QED
      BY <1>3, <2>2, <3>5, <3>6, <3>7, <3>8, <3>9
  <2>5. QED
    BY <2>3, <2>4
<1>9. ASSUME NEW r \in Requests, Adds(r) PROVE Goal
  <2> DEFINE e == AddedIn(db, r, Head(todo[r]))
  <2>1. e.configs = db.configs \cup {Row(NewId(r), Head(todo[r]))}
    BY DEF AddedIn, TypeOK, Database
  <2>2. \A n \in Names : Taken(db, n) => Taken(e, n)
    BY <2>1 DEF Taken
  <2>3. Taken(e, Head(todo[r]))
    <3>1. Row(NewId(r), Head(todo[r])) \in e.configs
      BY <2>1
    <3>2. Row(NewId(r), Head(todo[r])).name = Head(todo[r])
      BY DEF Row
    <3> HIDE DEF e
    <3>3. QED
      BY <3>1, <3>2 DEF Taken
  <2> HIDE DEF e, Goal
  <2>4. QED
    BY <1>5, <1>6, <1>9, <2>2, <2>3, AddsHow DEF e
<1>10. ASSUME NEW r \in Requests, Renames(r) \/ Deletes(r) PROVE Goal
  <2>1. Kind[r] \in {"rename", "update", "delete"} /\ pc'[r] # "new"
    BY <1>10 DEF Renames, Deletes, Goes, Answers, TypeOK
  <2>2. QED
    BY <1>1, <2>1
<1>11. ASSUME NEW r \in Requests, Records(r) PROVE Goal
  <2>1. RecordedIn(db, r).configs = db.configs /\ Kind[r] = "run"
    BY <1>11 DEF RecordedIn, TypeOK, Database, Records
  <2>2. \A n : Taken(db, n) => Taken(RecordedIn(db, r), n)
    BY <2>1 DEF Taken
  <2> HIDE DEF Goal
  <2>3. QED
    BY <1>5, <1>6, <1>11, <2>1, <2>2, RecordsHow
<1>12. ASSUME NEW r \in Requests, ClosesRun(r) PROVE Goal
  <2>1. ClosedIn(db, r).configs = db.configs /\ Kind[r] = "run"
    BY <1>12 DEF ClosedIn, TypeOK, Database, ClosesRun
  <2>2. \A n : Taken(db, n) => Taken(ClosedIn(db, r), n)
    BY <2>1 DEF Taken
  <2> HIDE DEF Goal
  <2>3. QED
    BY <1>5, <1>12, <2>1, <2>2, ClosesHow
<1>13. ASSUME NEW r \in Requests, Commits(r) PROVE Goal
  <2>1. /\ InCommit(r) /\ db' = view[At[r]]
        /\ \A q \in Requests : ~InCommit(q)'
    <3>1. InCommit(r) /\ db' = view[At[r]]
      BY <1>13 DEF Commits, Commit, InCommit
    <3>2. pc'[r] \notin {"committing", "closing"}
      BY <1>13 DEF Commits, Goes, Answers, TypeOK
    <3>3. \A q \in Requests : q # r => ~InCommit(q) /\ pc'[q] = pc[q]
      BY <1>13, <3>1, Others DEF LockInv, InCommit, InMethod, Step
    <3>4. QED
      BY <3>1, <3>2, <3>3 DEF InCommit
  <2>2. \A n \in Names : Taken(db, n) => Taken(db, n)'
    BY <1>3, <2>1 DEF Taken
  <2>3. ASSUME NEW q \in Requests, Kind[q] = "import" PROVE Dealt(q, db)'
    <3>1. \A k \in 1..(Len(Wanted[q]) - Len(todo[q])) : Wanted[q][k] \in Names
      BY DEF TypeOK
    <3>2. Dealt(q, db')
      BY <1>3, <2>2, <2>3, <3>1 DEF Dealt, Taken
    <3>3. CASE q # r
      BY <1>13, <3>2, <3>3, Others DEF Dealt, Step
    <3>4. CASE q = r
      <4>1. todo[r] # <<>> /\ todo'[r] = Tail(todo[r])
        BY <1>13, <2>3, <3>4 DEF Commits, TypeOK, PlaceInv
      <4>2. Taken(db', Head(todo[r]))
        BY <1>3, <2>1, <2>3, <3>4
      <4>3. QED
        BY <3>2, <3>4, <4>1, <4>2, OneMoreDealt DEF Dealt
    <3>5. QED
      BY <3>3, <3>4
  <2>4. \A p \in Processes : conn'[p] = "reading" => conn[p] = "reading" /\ view'[p] = view[p]
    BY <1>13 DEF Commits, Commit, TypeOK
  <2>5. QED
    BY <1>3, <2>1, <2>2, <2>3, <2>4
<1>14. ASSUME NEW p \in Processes, Opens(p) \/ Ends(p) PROVE Goal
  <2>1. db' = db /\ todo' = todo
    BY <1>14 DEF Opens, Ends
  <2>2. \A q \in Requests : InCommit(q)' => InCommit(q) /\ At[q] # p
    BY <1>14 DEF Opens, Ends, InCommit, TypeOK, LockInv
  <2>3. \A q \in Processes : q # p => conn'[q] = conn[q] /\ view'[q] = view[q]
    BY <1>14 DEF Opens, Ends, TypeOK
  <2>4. conn'[p] # "reading"
    BY <1>14 DEF Opens, Ends, TypeOK
  <2>5. \A q \in Requests : Dealt(q, db)' <=> Dealt(q, db)
    BY <2>1 DEF Dealt, Taken
  <2>6. \A n : Taken(db, n)' <=> Taken(db, n)
    BY <2>1 DEF Taken
  <2>7. QED
    BY <1>3, <2>1, <2>2, <2>3, <2>4, <2>5, <2>6
<1>15. ASSUME NEW p \in Processes, Reads(p) PROVE Goal
  <2>1. Quiet /\ todo' = todo /\ pc' = pc
    BY <1>15, SelectsQuietly DEF Reads
  <2>2. QED
    BY <1>4, <2>1 DEF InCommit
<1>16. ASSUME UNCHANGED vars PROVE Goal
  BY <1>4, <1>16 DEF Quiet, InCommit
<1>17. QED
  <2> HIDE DEF Goal
  <2>1. ASSUME NEW r \in Requests, Step(r) PROVE Goal
    BY <1>7, <1>8, <1>9, <1>10, <1>11, <1>12, <1>13, <2>1 DEF Step
  <2>2. Goal
    BY <1>14, <1>15, <1>16, <2>1 DEF Next
  <2>3. QED
    BY <2>2 DEF Goal

-----------------------------------------------------------------------------
(* The theorems *)

LEMMA AtFirst == ASSUME Init PROVE TypeOK /\ PlaceInv /\ LockInv /\ WholeInv
<1> USE StoreAssumption DEF Init
<1>1. db.configs = Initial /\ db.runs = {} /\ DOMAIN db = {"configs", "runs"}
  BY DEF Nothing
<1>2. db \in Database
  <2> DEFINE rows == [id : (Requests \X Nat) \cup {row.id : row \in Initial}, name : Names]
  <2>1. \A row \in Initial : row \in rows
    OBVIOUS
  <2>2. Database = [configs : SUBSET rows, runs : SUBSET
                       [of : Requests, config : {Ref[r] : r \in Requests}, open : BOOLEAN]]
    BY DEF Database
  <2>3. db = [configs |-> Initial, runs |-> {}]
    BY DEF Nothing
  <2> HIDE DEF rows, Init
  <2>4. Initial \subseteq rows
    BY <2>1
  <2>5. QED
    BY <2>2, <2>3, <2>4
<1>3. Nothing \in Database
  BY DEF Nothing, Database
<1>4. TypeOK
  BY <1>2, <1>3 DEF TypeOK
<1>5. PlaceInv
  <2>1. \A r \in Requests : Rest(todo[r], Wanted[r])
    BY DEF Rest
  <2>2. QED
    BY <2>1 DEF PlaceInv
<1>6. LockInv
  BY DEF LockInv, InMethod, InCommit
<1>7. Whole(db)
  <2>1. ASSUME NEW row \in Initial PROVE Known(row.id)
    <3>1. row.id \notin Requests \X Nat
      OBVIOUS
    <3>2. ASSUME NEW r \in Requests, NEW k \in Nat PROVE row.id # <<r, k>>
      <4>1. <<r, k>> \in Requests \X Nat
        OBVIOUS
      <4>2. QED
        BY <3>1, <4>1
    <3>3. QED
      BY <3>2 DEF Known
  <2>2. QED
    BY <1>1, <2>1 DEF Whole, Consistent
<1>8. \A p \in Processes : Whole(view[p])
  BY DEF Whole, Consistent, Nothing
<1>9. QED
  BY <1>4, <1>5, <1>6, <1>7, <1>8 DEF WholeInv

LEMMA Invariants == Spec => [](TypeOK /\ PlaceInv /\ LockInv /\ WholeInv /\ NameInv)
<1>1. Init => NameInv
  <2> SUFFICES ASSUME Init PROVE NameInv
    OBVIOUS
  <2>1. \A r \in Requests : todo[r] = Wanted[r] /\ Len(Wanted[r]) \in Nat
    BY StoreAssumption DEF Init
  <2>2. \A r \in Requests : Dealt(r, db)
    BY <2>1 DEF Dealt
  <2>3. QED
    BY <2>2 DEF Init, NameInv, InCommit
<1>2. TypeOK /\ PlaceInv /\ LockInv /\ WholeInv /\ NameInv /\ [Next]_vars
        => (TypeOK /\ PlaceInv /\ LockInv /\ WholeInv /\ NameInv)'
  BY TypeStep, PlaceStep, LockStep, WholeStep, NameStep
<1>3. QED
  BY <1>1, <1>2, AtFirst, PTL DEF Spec

\* Every variable of the store, its connections and its callers has its type.
THEOREM TypeCorrect == Spec => []TypeOK
  BY Invariants, PTL

(***************************************************************************)
(* Names and ids stay distinct and every run has its configuration, however *)
(* many processes read and write (db.py:48, 59, 160).                       *)
(***************************************************************************)
THEOREM StaysIntact == Spec => []Intact
<1>1. WholeInv => Intact
  BY DEF WholeInv, Whole, Consistent, Intact
<1>2. QED
  BY <1>1, Invariants, PTL

\* An import that was answered has left out no name, if nothing else takes names
\* away (app.py:121-127).
THEOREM ImportsAreComplete == Spec => []ImportComplete
<1>1. TypeOK /\ PlaceInv /\ NameInv => ImportComplete
  <2> SUFFICES ASSUME TypeOK, PlaceInv, NameInv, NEW r \in Requests, OnlyAdded,
                      Kind[r] = "import", answer[r] = "ok"
               PROVE  \A k \in DOMAIN Wanted[r] : Taken(db, Wanted[r][k])
    BY DEF ImportComplete, OnlyAdded
  <2>1. todo[r] = <<>> /\ Dealt(r, db)
    BY DEF PlaceInv, NameInv
  <2>2. Wanted[r] \in Seq(Names)
    BY StoreAssumption
  <2>3. DOMAIN Wanted[r] = 1..(Len(Wanted[r]) - 0)
    BY <2>2
  <2>4. QED
    BY <2>1, <2>3 DEF Dealt
<1>2. QED
  BY <1>1, Invariants, PTL

-----------------------------------------------------------------------------
(***************************************************************************)
(* What has been answered is kept.  Between its look-up and its answer a    *)
(* request may be overtaken by others, of the same process or not; the      *)
(* invariant says what is left of its promise meanwhile, in the database    *)
(* and in the transaction of whoever is about to commit.                    *)
(***************************************************************************)

\* A configuration that was there is there, or a deletion has been asked for.
Lasts(i, d) == Has(d, i) \/ Touched(i, {"delete"})

\* What r has found or written is in d.
Unfinished(r, d) ==
    /\ pc[r] \in {"found", "writing"} => Lasts(Ref[r], d)
    /\ pc[r] = "serving" => Promise(r, d, TRUE)
    /\ pc[r] = "checking" \/ answer[r] = "ok" => Promise(r, d, FALSE)

\* No row of the database is missing from d without a reason.
Follows(d) == \A row \in db.configs : Lasts(row.id, d)

\* It refers to a configuration that it has found.
Refers(r) ==
    /\ Kind[r] \in Referring /\ pc[r] \notin {"new", "lost"}
    /\ pc[r] = "answered" => answer[r] = "ok"

KeepInv ==
    /\ \A r \in Requests : Unfinished(r, db)
    /\ \A r \in Requests : InCommit(r) =>
          /\ pc[r] = "committing" => Promise(r, view[At[r]], TRUE)
          /\ pc[r] = "closing" => Promise(r, view[At[r]], FALSE)
          /\ Follows(view[At[r]])
          /\ \A q \in Requests : q # r => Unfinished(q, view[At[r]])
    /\ \A r \in Requests : Refers(r) => Known(Ref[r])
    /\ \A p \in Processes : conn[p] = "reading" =>
          \A row \in view[p].configs : Lasts(row.id, db)

-----------------------------------------------------------------------------
(* Requests are only ever added *)

LEMMA StillTouched ==
    ASSUME TypeOK, [Next]_vars, NEW i, NEW by, Touched(i, by) PROVE Touched(i, by)'
  BY StillMade DEF Touched

LEMMA StillLasts ==
    ASSUME TypeOK, [Next]_vars, NEW i, NEW d, Lasts(i, d) PROVE Lasts(i, d)'
<1>1. Touched(i, {"delete"}) => Touched(i, {"delete"})'
  BY StillTouched
<1>2. QED
  BY <1>1 DEF Lasts

LEMMA StillPromised ==
    ASSUME TypeOK, [Next]_vars, NEW r \in Requests, NEW d, NEW o, Promise(r, d, o)
    PROVE  Promise(r, d, o)'
<1>1. \A i : Touched(i, {"delete"}) => Touched(i, {"delete"})'
  BY StillTouched
<1>2. QED
  BY <1>1, StillMade DEF Promise

\* Where a request stays, or is lost, nothing more is asked of it.
LEMMA StillUnfinished ==
    ASSUME TypeOK, PlaceInv, [Next]_vars, NEW r \in Requests, NEW d, Unfinished(r, d),
           answer'[r] = answer[r],
           pc'[r] = pc[r] \/ (pc'[r] = "lost" /\ pc[r] # "answered")
    PROVE  Unfinished(r, d)'
<1>1. Lasts(Ref[r], d) => Lasts(Ref[r], d)'
  BY StillLasts
<1>2. /\ Promise(r, d, TRUE) => Promise(r, d, TRUE)'
      /\ Promise(r, d, FALSE) => Promise(r, d, FALSE)'
  BY StillPromised
<1>3. QED
  BY <1>1, <1>2 DEF Unfinished, PlaceInv

LEMMA StillRefers ==
    ASSUME TypeOK, PlaceInv, KeepInv, [Next]_vars, NEW r \in Requests, Refers(r)' => Refers(r)
    PROVE  Refers(r)' => Known(Ref[r])'
  BY StillKnown DEF KeepInv

LEMMA SeesLasts ==
    ASSUME TypeOK, LockInv, KeepInv, NEW p \in Processes, Unlocked(p), NEW i,
           Has(Sees(p), i)
    PROVE  Lasts(i, db)
<1>1. conn[p] = "writing" => view[p] = db
  BY DEF LockInv, Unlocked, InCommit, InMethod
<1>2. QED
  BY <1>1 DEF Sees, Lasts, KeepInv, Has

LEMMA SeesKnown ==
    ASSUME TypeOK, WholeInv, NEW p \in Processes, NEW i, Has(Sees(p), i)
    PROVE  Known(i)
  BY DEF Sees, WholeInv, Whole, Has

-----------------------------------------------------------------------------
(* The steps *)

\* A step that leaves the database and the transactions to commit alone.
LEMMA CalmKeeps ==
    ASSUME TypeOK, PlaceInv, KeepInv, [Next]_vars, db' = db,
           \A q \in Requests : InCommit(q)' =>
              InCommit(q) /\ pc'[q] = pc[q] /\ view'[At[q]] = view[At[q]],
           \A p \in Processes : conn'[p] = "reading" =>
              view'[p] = db \/ (conn[p] = "reading" /\ view'[p] = view[p]),
           \A q \in Requests : \A d : Unfinished(q, d) /\ Follows(d) => Unfinished(q, d)',
           \A q \in Requests : Refers(q)' => Known(Ref[q])'
    PROVE  KeepInv'
<1>1. \A q \in Requests : Unfinished(q, db)'
  <2>1. Follows(db)
    BY DEF Follows, Lasts, Has
  <2>2. ASSUME NEW q \in Requests PROVE Unfinished(q, db)'
    <3>1. PICK d : d = db
      OBVIOUS
    <3>2. Unfinished(q, d)'
      BY <2>1, <3>1 DEF KeepInv
    <3>3. QED
      BY <3>1, <3>2 DEF Unfinished, Lasts, Promise
  <2>3. QED
    BY <2>2
<1>2. ASSUME NEW r \in Requests, InCommit(r)'
      PROVE  /\ pc'[r] = "committing" => Promise(r, view[At[r]], TRUE)'
             /\ pc'[r] = "closing" => Promise(r, view[At[r]], FALSE)'
             /\ Follows(view[At[r]])'
             /\ \A q \in Requests : q # r => Unfinished(q, view[At[r]])'
  <2>1. PICK d : d = view[At[r]]
    OBVIOUS
  <2>2. view'[At[r]] = d /\ InCommit(r) /\ pc'[r] = pc[r]
    BY <1>2, <2>1
  <2>3. /\ pc'[r] = "committing" => Promise(r, d, TRUE)'
        /\ pc'[r] = "closing" => Promise(r, d, FALSE)'
    <3>1. /\ pc[r] = "committing" => Promise(r, d, TRUE)
          /\ pc[r] = "closing" => Promise(r, d, FALSE)
      BY <2>1, <2>2 DEF KeepInv
    <3>2. QED
      BY <2>2, <3>1, StillPromised
  <2>4. Follows(d)
    BY <2>1, <2>2 DEF KeepInv
  <2>5. \A row \in db'.configs : Lasts(row.id, d)'
    BY <2>4, StillLasts DEF Follows
  <2>6. \A q \in Requests : q # r => Unfinished(q, d)'
    BY <2>1, <2>2, <2>4 DEF KeepInv
  <2>7. /\ pc'[r] = "committing" => Promise(r, view[At[r]], TRUE)'
        /\ pc'[r] = "closing" => Promise(r, view[At[r]], FALSE)'
    BY <2>2, <2>3 DEF Promise
  <2>8. Follows(view[At[r]])'
    BY <2>2, <2>5 DEF Follows, Lasts
  <2>9. ASSUME NEW q \in Requests, q # r PROVE Unfinished(q, view[At[r]])'
    <3>1. Unfinished(q, d)'
      BY <2>6, <2>9
    <3>2. QED
      BY <2>2, <3>1 DEF Unfinished, Lasts, Promise
  <2>10. QED
    BY <2>7, <2>8, <2>9
<1>3. ASSUME NEW p \in Processes, conn'[p] = "reading", NEW row \in view'[p].configs
      PROVE  Lasts(row.id, db)'
  <2>1. PICK d : d = db
    OBVIOUS
  <2>2. Lasts(row.id, d)
    BY <1>3, <2>1 DEF KeepInv, Lasts, Has
  <2>3. Lasts(row.id, d)'
    BY <2>2, StillLasts
  <2>4. QED
    BY <2>1, <2>3 DEF Lasts
<1>4. QED
  BY <1>1, <1>2, <1>3 DEF KeepInv

LEMMA RequestCalm ==
    ASSUME TypeOK, PlaceInv, LockInv, KeepInv, [Next]_vars, Quiet,
           NEW r \in Requests, Step(r), pc'[r] \notin {"committing", "closing"},
           \A d : Unfinished(r, d) /\ Follows(d) => Unfinished(r, d)',
           Refers(r)' => Known(Ref[r])'
    PROVE  KeepInv'
<1> USE StoreAssumption
<1>1. \A q \in Requests : q # r => pc'[q] = pc[q] /\ answer'[q] = answer[q]
  BY Others
<1>2. db' = db
  BY DEF Quiet
<1>3. ASSUME NEW q \in Requests, InCommit(q)'
      PROVE  InCommit(q) /\ pc'[q] = pc[q] /\ view'[At[q]] = view[At[q]]
  <2>1. q # r /\ InCommit(q) /\ pc'[q] = pc[q]
    BY <1>1, <1>3 DEF InCommit
  <2>2. conn[At[q]] = "writing"
    BY <2>1 DEF LockInv
  <2>3. QED
    BY <2>1, <2>2 DEF Quiet
<1>4. \A p \in Processes : conn'[p] = "reading" =>
         view'[p] = db \/ (conn[p] = "reading" /\ view'[p] = view[p])
  BY DEF Quiet
<1>5. \A q \in Requests : \A d : Unfinished(q, d) /\ Follows(d) => Unfinished(q, d)'
  BY <1>1, StillUnfinished
<1>6. \A q \in Requests : Refers(q)' => Known(Ref[q])'
  BY <1>1, StillRefers DEF Refers
<1>7. QED
  BY <1>2, <1>3, <1>4, <1>5, <1>6, CalmKeeps

\* What a request has found, it may refer to.
LEMMA FoundCalm ==
    ASSUME TypeOK, PlaceInv, LockInv, WholeInv, KeepInv, [Next]_vars,
           NEW r \in Requests, Looks(r) \/ Requires(r)
    PROVE  KeepInv'
<1> USE StoreAssumption
<1>1. Quiet /\ Unlocked(At[r])
  BY SelectsQuietly DEF Looks, Requires
<1>2. /\ pc'[r] \in {"found", "writing", "answered"} /\ answer[r] # "ok"
      /\ pc'[r] \in {"found", "writing"} => Has(Sees(At[r]), Ref[r]) /\ answer'[r] = answer[r]
      /\ pc'[r] = "answered" => answer'[r] # "ok"
  BY DEF Looks, Requires, Goes, Answers, TypeOK, PlaceInv
<1>3. pc'[r] \in {"found", "writing"} => Lasts(Ref[r], db) /\ Known(Ref[r])
  BY <1>1, <1>2, SeesLasts, SeesKnown
<1>4. ASSUME NEW d, Follows(d) PROVE Unfinished(r, d)'
  <2>1. Lasts(Ref[r], db) => Lasts(Ref[r], d)
    BY <1>4 DEF Follows, Lasts, Has
  <2>2. pc'[r] \in {"found", "writing"} => Lasts(Ref[r], d)'
    BY <1>3, <2>1, StillLasts
  <2>3. pc'[r] \notin {"serving", "checking"} /\ answer'[r] # "ok"
    BY <1>2
  <2>4. QED
    BY <2>2, <2>3 DEF Unfinished
<1>5. Refers(r)' => Known(Ref[r])'
  BY <1>2, <1>3, StillKnown DEF Refers
<1>6. QED
  BY <1>1, <1>2, <1>4, <1>5, RequestCalm DEF Step

LEMMA OtherCalm ==
    ASSUME TypeOK, PlaceInv, LockInv, KeepInv, [Next]_vars, NEW r \in Requests,
           LooksForName(r) \/ ImportEnds(r) \/ FindsLocked(r) \/ Checks(r)
    PROVE  KeepInv'
<1> USE StoreAssumption
<1>1. Quiet
  BY SelectsQuietly, GivesUpQuietly
     DEF LooksForName, ImportEnds, FindsLocked, Checks, Quiet
<1>2. pc'[r] \notin {"committing", "closing"}
  BY DEF LooksForName, ImportEnds, FindsLocked, Checks, Goes, Answers, TypeOK
<1>3. ASSUME NEW d, Unfinished(r, d) PROVE Unfinished(r, d)'
  <2>1. CASE LooksForName(r) \/ FindsLocked(r)
    <3>1. pc'[r] \in {"looking", "adding", "answered"} /\ answer'[r] # "ok"
      BY <2>1 DEF LooksForName, FindsLocked, Goes, Answers, TypeOK, PlaceInv
    <3>2. QED
      BY <3>1 DEF Unfinished
  <2>2. CASE ImportEnds(r)
    <3>1. pc'[r] = "answered" /\ Kind[r] = "import"
      BY <2>2 DEF ImportEnds, Answers, TypeOK
    <3>2. QED
      BY <3>1 DEF Unfinished, Promise
  <2>3. CASE Checks(r)
    <3>1. pc'[r] = "answered" /\ pc[r] = "checking"
      BY <2>3 DEF Checks, Answers, TypeOK
    <3>2. Promise(r, d, FALSE)'
      BY <1>3, <3>1, StillPromised DEF Unfinished
    <3>3. QED
      BY <3>1, <3>2 DEF Unfinished
  <2>4. QED
    BY <2>1, <2>2, <2>3
<1>4. Refers(r)' => Known(Ref[r])'
  <2>1. CASE LooksForName(r) \/ ImportEnds(r)
    BY <2>1 DEF LooksForName, ImportEnds, Refers, Referring
  <2>2. CASE FindsLocked(r)
    BY <2>2 DEF FindsLocked, Answers, Refers, TypeOK
  <2>3. CASE Checks(r)
    <3>1. pc[r] = "checking"
      BY <2>3 DEF Checks
    <3>2. Refers(r)' => Refers(r)
      BY <3>1 DEF Refers
    <3>3. QED
      BY <3>2, StillRefers
  <2>4. QED
    BY <2>1, <2>2, <2>3
<1>5. QED
  BY <1>1, <1>2, <1>3, <1>4, RequestCalm DEF Step

\* A statement that has failed leaves nothing to commit.
LEMMA FailCalm ==
    ASSUME TypeOK, PlaceInv, LockInv, KeepInv, [Next]_vars, NEW r \in Requests,
           Step(r), NEW a, Fails(r, a), a # "ok"
    PROVE  KeepInv'
<1> USE StoreAssumption
<1>1. \A q \in Requests : q # r => pc'[q] = pc[q] /\ answer'[q] = answer[q]
  BY Others
<1>2. /\ db' = db /\ view' = [view EXCEPT ![At[r]] = db]
      /\ conn' = [conn EXCEPT ![At[r]] = "writing"]
      /\ pc'[r] = "answered" /\ answer'[r] # "ok"
  BY DEF Fails, Executes, Answers, TypeOK
<1>3. \A q \in Requests : ~InCommit(q)'
  BY <1>1, <1>2, SeesLatest DEF Fails, InCommit
<1>4. \A p \in Processes : conn'[p] = "reading" =>
         conn[p] = "reading" /\ view'[p] = view[p]
  BY <1>2 DEF TypeOK
<1>5. \A d : Unfinished(r, d)'
  BY <1>2 DEF Unfinished
<1>6. \A q \in Requests : \A d : Unfinished(q, d) => Unfinished(q, d)'
  BY <1>1, <1>5, StillUnfinished
<1>7. \A q \in Requests : Refers(q)' => Known(Ref[q])'
  BY <1>1, <1>2, StillRefers DEF Refers
<1>8. QED
  BY <1>2, <1>3, <1>4, <1>6, <1>7, CalmKeeps

LEMMA ProcessCalm ==
    ASSUME TypeOK, PlaceInv, LockInv, KeepInv, [Next]_vars, NEW p \in Processes,
           Opens(p) \/ Ends(p) \/ Reads(p)
    PROVE  KeepInv'
<1> USE StoreAssumption
<1>1. db' = db /\ answer' = answer
  BY DEF Opens, Ends, Reads, Selects
<1>2. \A q \in Requests :
         pc'[q] = pc[q] \/ (pc'[q] = "lost" /\ pc[q] \notin {"new", "answered"})
  BY DEF Opens, Ends, Reads, TypeOK
<1>3. ASSUME NEW q \in Requests, InCommit(q)'
      PROVE  InCommit(q) /\ pc'[q] = pc[q] /\ view'[At[q]] = view[At[q]]
  <2>1. InCommit(q) /\ pc'[q] = pc[q] /\ conn[At[q]] = "writing"
    BY <1>2, <1>3 DEF InCommit, LockInv
  <2>2. CASE Opens(p) \/ Reads(p)
    BY <2>1, <2>2 DEF Opens, Reads, Selects, TypeOK
  <2>3. CASE Ends(p)
    BY <1>3, <2>1, <2>3 DEF Ends, TypeOK, InCommit
  <2>4. QED
    BY <2>1, <2>2, <2>3
<1>4. \A q \in Processes : conn'[q] = "reading" =>
         view'[q] = db \/ (conn[q] = "reading" /\ view'[q] = view[q])
  BY DEF Opens, Ends, Reads, Selects, TypeOK
<1>5. \A q \in Requests : \A d : Unfinished(q, d) => Unfinished(q, d)'
  BY <1>1, <1>2, StillUnfinished
<1>6. \A q \in Requests : Refers(q)' => Known(Ref[q])'
  BY <1>1, <1>2, StillRefers DEF Refers
<1>7. QED
  BY <1>1, <1>3, <1>4, <1>5, <1>6, CalmKeeps

\* A statement that has written: what it has made of the database must leave
\* nothing out that somebody else waits for.
LEMMA WriteKeeps ==
    ASSUME TypeOK, PlaceInv, LockInv, KeepInv, [Next]_vars, NEW r \in Requests, Step(r),
           NEW e, NEW to \in {"committing", "closing"}, Writes(r, e, to),
           to = "committing" => Promise(r, e, TRUE),
           to = "closing" => Promise(r, e, FALSE),
           Follows(e), \A q \in Requests : q # r => Unfinished(q, e),
           Kind[r] \in Referring => pc[r] \in {"writing", "serving"}
    PROVE  KeepInv'
<1> USE StoreAssumption
<1>1. \A q \in Requests : q # r => pc'[q] = pc[q] /\ answer'[q] = answer[q]
  BY Others
<1>2. /\ db' = db /\ view'[At[r]] = e
      /\ \A p \in Processes : conn'[p] = "reading" =>
            conn[p] = "reading" /\ view'[p] = view[p]
      /\ pc'[r] = to /\ answer'[r] # "ok"
  BY DEF Writes, Executes, Goes, TypeOK, PlaceInv, MayWrite, AtFirstStatement
<1>3. \A q \in Requests : InCommit(q)' => q = r
  BY <1>1, SeesLatest DEF Writes, InCommit
<1>4. ASSUME NEW q \in Requests PROVE Unfinished(q, db)'
  <2>1. PICK d : d = db
    OBVIOUS
  <2>2. Unfinished(q, d)
    BY <2>1 DEF KeepInv
  <2>3. Unfinished(q, d)'
    <3>1. CASE q # r
      BY <1>1, <2>2, <3>1, StillUnfinished
    <3>2. CASE q = r
      BY <1>2, <3>2 DEF Unfinished
    <3>3. QED
      BY <3>1, <3>2
  <2>4. QED
    BY <1>2, <2>1, <2>3 DEF Unfinished, Lasts, Promise
<1>5. /\ pc'[r] = "committing" => Promise(r, view[At[r]], TRUE)'
      /\ pc'[r] = "closing" => Promise(r, view[At[r]], FALSE)'
  <2>1. /\ pc'[r] = "committing" => Promise(r, e, TRUE)'
        /\ pc'[r] = "closing" => Promise(r, e, FALSE)'
    BY <1>2, StillPromised
  <2>2. QED
    BY <1>2, <2>1 DEF Promise
<1>6. Follows(view[At[r]])'
  <2>1. \A row \in db.configs : Lasts(row.id, e)'
    BY StillLasts DEF Follows
  <2>2. QED
    BY <1>2, <2>1 DEF Follows, Lasts
<1>7. ASSUME NEW q \in Requests, q # r PROVE Unfinished(q, view[At[r]])'
  <2>1. Unfinished(q, e)'
    BY <1>1, <1>7, StillUnfinished
  <2>2. QED
    BY <1>2, <2>1 DEF Unfinished, Lasts, Promise
<1>8. \A q \in Requests : Refers(q)' => Known(Ref[q])'
  <2>1. Refers(r)' => Refers(r)
    BY DEF Refers
  <2>2. \A q \in Requests : Refers(q)' => Refers(q)
    BY <1>1, <2>1 DEF Refers
  <2>3. QED
    BY <2>2, StillRefers
<1>9. ASSUME NEW p \in Processes, conn'[p] = "reading", NEW row \in view'[p].configs
      PROVE  Lasts(row.id, db)'
  <2>1. PICK d : d = db
    OBVIOUS
  <2>2. Lasts(row.id, d)'
    BY <1>2, <1>9, <2>1, StillLasts DEF KeepInv
  <2>3. QED
    BY <1>2, <2>1, <2>2 DEF Lasts
<1>10. QED
  BY <1>3, <1>4, <1>5, <1>6, <1>7, <1>8, <1>9 DEF KeepInv

\* An INSERT of a configuration: whoever has deleted one knew its id.
LEMMA AddsKeeps ==
    ASSUME TypeOK, PlaceInv, LockInv, WholeInv, KeepInv, [Next]_vars,
           NEW r \in Requests, Adds(r)
    PROVE  KeepInv'
<1> USE StoreAssumption
<1> DEFINE e == AddedIn(db, r, Head(todo[r]))
<1>1. CASE Fails(r, "taken") \/ Fails(r, "clash")
  BY <1>1, FailCalm DEF Step
<1>2. CASE /\ ~Taken(db, Head(todo[r])) /\ Kind[r] \in {"create", "import"}
           /\ pc[r] \in {"new", "adding"} /\ Writes(r, e, "committing")
  <2>1. e.configs = db.configs \cup {Row(NewId(r), Head(todo[r]))} /\ e.runs = db.runs
    BY DEF AddedIn, TypeOK, Database
  <2>2. Row(NewId(r), Head(todo[r])).id = NewId(r)
    BY DEF Row
  <2> HIDE DEF e
  <2>3. \A i : Has(e, i) <=> Has(db, i) \/ i = NewId(r)
    BY <2>1, <2>2 DEF Has
  <2>4. \A i : Lasts(i, db) => Lasts(i, e)
    BY <2>3 DEF Lasts
  <2>5. Promise(r, e, TRUE)
    <3>1. Kind[r] = "create" => NewId(r) = <<r, Len(Wanted[r])>>
      BY DEF NewId, PlaceInv
    <3>2. QED
      BY <1>2, <2>3, <3>1 DEF Promise
  <2>6. ~Known(NewId(r))
    <3>1. Len(todo[r]) \in Nat /\ ~Spent(r, Len(todo[r]))
      BY <1>2 DEF TypeOK, Spent
    <3>2. QED
      BY <3>1 DEF Known, NewId
  <2>7. Follows(e)
    BY <2>3 DEF Follows, Lasts, Has
  <2>8. ASSUME NEW q \in Requests, q # r PROVE Unfinished(q, e)
    <3>1. Unfinished(q, db)
      BY DEF KeepInv
    <3>2. ASSUME NEW o \in BOOLEAN, Promise(q, db, o), Kind[q] = "delete" => Known(Ref[q])
          PROVE  Promise(q, e, o)
      BY <2>1, <2>3, <2>6, <3>2 DEF Promise
    <3>3. /\ pc[q] = "serving" => Kind[q] = "run"
          /\ pc[q] = "checking" => Kind[q] # "delete"
          /\ answer[q] = "ok" /\ Kind[q] = "delete" => Known(Ref[q])
      BY DEF PlaceInv, KeepInv, Refers, Referring
    <3>4. QED
      BY <2>4, <3>1, <3>2, <3>3 DEF Unfinished
  <2>9. QED
    BY <1>2, <2>5, <2>7, <2>8, WriteKeeps DEF Step, Referring
<1>3. QED
  BY <1>1, <1>2, AddsHow

LEMMA RenamesKeeps ==
    ASSUME TypeOK, PlaceInv, LockInv, WholeInv, KeepInv, [Next]_vars,
           NEW r \in Requests, Renames(r)
    PROVE  KeepInv'
<1> USE StoreAssumption
<1> DEFINE i == Ref[r]
           n == Head(todo[r])
           e == Named(db, i, n)
<1>1. CASE Fails(r, "taken") \/ Fails(r, "clash")
  BY <1>1, FailCalm DEF Step
<1>2. CASE /\ Kind[r] \in {"rename", "update"} /\ pc[r] = "writing"
           /\ Writes(r, e, "committing")
  <2>1. /\ e.configs = {IF row.id = i THEN Row(i, n) ELSE row : row \in db.configs}
        /\ e.runs = db.runs
    BY DEF Named, TypeOK, Database
  <2> HIDE DEF e
  <2>2. ASSUME NEW row \in db.configs
        PROVE  /\ row.id = i => Row(i, n) \in e.configs
               /\ row.id # i => row \in e.configs
    BY <2>1, <2>2
  <2>3. Row(i, n).id = i
    BY DEF Row
  <2>4. \A j : Has(db, j) => Has(e, j)
    BY <2>2, <2>3 DEF Has
  <2>5. \A j : Has(e, j) => Has(db, j)
    BY <2>1, <2>3 DEF Has
  <2>6. \A j : Lasts(j, db) => Lasts(j, e)
    BY <2>4 DEF Lasts
  <2>7. r \in Made
    BY <1>2 DEF Made
  <2>8. Promise(r, e, TRUE)
    <3>1. n = Wanted[r][1]
      BY <1>2, FirstName DEF PlaceInv
    <3>2. Lasts(i, db)
      BY <1>2 DEF KeepInv, Unfinished
    <3>3. Has(db, i) => Row(i, n) \in e.configs
      BY <2>2 DEF Has
    <3>4. Touched(i, {"delete"}) =>
             \E q \in Made \ {r} : Kind[q] \in {"rename", "update", "delete"} /\ Ref[q] = i
      BY <1>2 DEF Touched
    <3>5. QED
      BY <1>2, <3>1, <3>2, <3>3, <3>4 DEF Promise, Lasts
  <2>9. Follows(e)
    BY <2>4 DEF Follows, Lasts, Has
  <2>10. ASSUME NEW q \in Requests, q # r PROVE Unfinished(q, e)
    <3>1. ASSUME NEW o \in BOOLEAN, Promise(q, db, o) PROVE Promise(q, e, o)
      <4> DEFINE j == Ref[q]
      <4>1. \A m : Row(j, m).id = j
        BY DEF Row
      <4>2. Row(j, Wanted[q][1]) \in db.configs =>
               Row(j, Wanted[q][1]) \in e.configs \/ j = i
        BY <2>2, <4>1
      <4>3. Kind[q] \in {"rename", "update"} =>
               \/ Row(j, Wanted[q][1]) \in e.configs
               \/ \E s \in Made \ {q} : Kind[s] \in {"rename", "update", "delete"}
                                          /\ Ref[s] = j
        BY <1>2, <2>7, <2>10, <3>1, <4>2 DEF Promise
      <4>4. QED
        BY <2>1, <2>4, <2>5, <3>1, <4>3 DEF Promise
    <3>2. QED
      BY <2>6, <3>1 DEF KeepInv, Unfinished
  <2>11. QED
    BY <1>2, <2>8, <2>9, <2>10, WriteKeeps DEF Step
<1>3. QED
  BY <1>1, <1>2, RenamesHow

LEMMA DeletesKeeps ==
    ASSUME TypeOK, PlaceInv, LockInv, WholeInv, KeepInv, [Next]_vars,
           NEW r \in Requests, Deletes(r)
    PROVE  KeepInv'
<1> USE StoreAssumption
<1> DEFINE i == Ref[r]
           e == DeletedIn(db, i)
<1>1. Kind[r] = "delete" /\ pc[r] = "writing" /\ Writes(r, e, "committing")
  BY DeletesHow
<1>2. /\ e.configs = {row \in db.configs : row.id # i}
      /\ e.runs = {run \in db.runs : run.config # i}
  BY DEF DeletedIn
<1> HIDE DEF e
<1>3. Touched(i, {"delete"})
  BY <1>1 DEF Touched, Made
<1>4. \A j : Has(e, j) <=> Has(db, j) /\ j # i
  BY <1>2 DEF Has
<1>5. \A j : Lasts(j, db) => Lasts(j, e)
  BY <1>3, <1>4 DEF Lasts
<1>6. Promise(r, e, TRUE)
  BY <1>1, <1>4 DEF Promise
<1>7. Follows(e)
  BY <1>5 DEF Follows, Lasts, Has
<1>8. ASSUME NEW q \in Requests, q # r PROVE Unfinished(q, e)
  <2>1. ASSUME NEW o \in BOOLEAN, Promise(q, db, o) PROVE Promise(q, e, o)
    <3> DEFINE j == Ref[q]
    <3>1. \A m : Row(j, m).id = j
      BY DEF Row
    <3>2. RunRow(q, o).config = j
      BY DEF RunRow
    <3>3. Kind[q] = "run" => RunRow(q, o) \in e.runs \/ Touched(j, {"delete"})
      BY <1>2, <1>3, <2>1, <3>2 DEF Promise
    <3>4. Row(j, Wanted[q][1]) \in db.configs =>
             Row(j, Wanted[q][1]) \in e.configs \/ j = i
      BY <1>2, <3>1
    <3>5. r \in Made \ {q}
      BY <1>1, <1>8 DEF Made
    <3>6. Kind[q] \in {"rename", "update"} =>
             \/ Row(j, Wanted[q][1]) \in e.configs
             \/ \E s \in Made \ {q} : Kind[s] \in {"rename", "update", "delete"}
                                        /\ Ref[s] = j
      BY <1>1, <2>1, <3>4, <3>5 DEF Promise
    <3>7. QED
      BY <1>3, <1>4, <2>1, <3>3, <3>6 DEF Promise
  <2>2. QED
    BY <1>5, <2>1 DEF KeepInv, Unfinished
<1>9. QED
  BY <1>1, <1>6, <1>7, <1>8, WriteKeeps DEF Step

\* What writes only its own run.
LEMMA RunsKeeps ==
    ASSUME TypeOK, PlaceInv, LockInv, WholeInv, KeepInv, [Next]_vars,
           NEW r \in Requests, Records(r) \/ ClosesRun(r)
    PROVE  KeepInv'
<1> USE StoreAssumption
<1>1. ASSUME NEW e, e.configs = db.configs, NEW q \in Requests, q # r,
             \A o \in BOOLEAN : RunRow(q, o) \in db.runs => RunRow(q, o) \in e.runs
      PROVE  Unfinished(q, e)
  <2>1. \A j : Has(e, j) <=> Has(db, j)
    BY <1>1 DEF Has
  <2>2. ASSUME NEW o \in BOOLEAN, Promise(q, db, o) PROVE Promise(q, e, o)
    BY <1>1, <2>1, <2>2 DEF Promise
  <2>3. QED
    BY <2>1, <2>2 DEF KeepInv, Unfinished, Lasts
<1>2. ASSUME NEW e, e.configs = db.configs PROVE Follows(e)
  BY <1>2 DEF Follows, Lasts, Has
<1>3. CASE Fails(r, "gone") /\ Records(r)
  BY <1>3, FailCalm DEF Step
<1>4. CASE Records(r) /\ ~Fails(r, "gone")
  <2> DEFINE e == RecordedIn(db, r)
  <2>1. e.configs = db.configs /\ e.runs = db.runs \cup {RunRow(r, TRUE)}
    BY DEF RecordedIn, TypeOK, Database
  <2>2. Kind[r] = "run" /\ pc[r] = "writing" /\ Writes(r, e, "committing")
    BY <1>4, RecordsHow
  <2> HIDE DEF e
  <2>3. Promise(r, e, TRUE)
    BY <2>1, <2>2 DEF Promise
  <2>4. \A q \in Requests : q # r => Unfinished(q, e)
    BY <1>1, <2>1
  <2>5. Follows(e)
    BY <1>2, <2>1
  <2>6. QED
    BY <1>4, <2>2, <2>3, <2>4, <2>5, WriteKeeps DEF Step
<1>5. CASE ClosesRun(r)
  <2> DEFINE e == ClosedIn(db, r)
  <2>1. /\ e.configs = db.configs
        /\ e.runs = {IF run.of = r THEN RunRow(r, FALSE) ELSE run : run \in db.runs}
    BY DEF ClosedIn, TypeOK, Database
  <2>2. Kind[r] = "run" /\ pc[r] = "serving" /\ Writes(r, e, "closing")
    BY <1>5, ClosesHow
  <2> HIDE DEF e
  <2>3. \A q \in Requests, o \in BOOLEAN : RunRow(q, o).of = q
    BY DEF RunRow
  <2>4. RunRow(r, TRUE) \in db.runs => RunRow(r, FALSE) \in e.runs
    BY <2>1, <2>3
  <2>5. Promise(r, e, FALSE)
    BY <2>2, <2>4 DEF KeepInv, Unfinished, Promise
  <2>6. ASSUME NEW q \in Requests, q # r PROVE Unfinished(q, e)
    <3>1. \A o \in BOOLEAN : RunRow(q, o) \in db.runs => RunRow(q, o) \in e.runs
      BY <2>1, <2>3, <2>6
    <3>2. QED
      BY <1>1, <2>1, <2>6, <3>1
  <2>7. Follows(e)
    BY <1>2, <2>1
  <2>8. QED
    BY <1>5, <2>2, <2>5, <2>6, <2>7, WriteKeeps DEF Step
<1>6. QED
  BY <1>3, <1>4, <1>5

\* What is committed is all there is from then on.
LEMMA CommitKeeps ==
    ASSUME TypeOK, PlaceInv, LockInv, KeepInv, [Next]_vars, NEW r \in Requests, Commits(r)
    PROVE  KeepInv'
<1> USE StoreAssumption
<1>1. PICK d : d = view[At[r]]
  OBVIOUS
<1>2. db' = d /\ InCommit(r)
  BY <1>1 DEF Commits, Commit, InCommit
<1>3. /\ pc[r] = "committing" => Promise(r, d, TRUE)
      /\ pc[r] = "closing" => Promise(r, d, FALSE)
      /\ Follows(d) /\ \A q \in Requests : q # r => Unfinished(q, d)
  BY <1>1, <1>2 DEF KeepInv
<1>4. \A q \in Requests : q # r => pc'[q] = pc[q] /\ answer'[q] = answer[q]
  BY Others DEF Step
<1>5. /\ pc'[r] \in {"checking", "looking", "serving", "answered"}
      /\ pc'[r] = "checking" => Kind[r] \in {"create", "rename"}
      /\ pc'[r] = "serving" => pc[r] = "committing"
      /\ pc[r] = "committing" /\ Kind[r] = "run" => pc'[r] = "serving"
      /\ pc'[r] # "answered" => answer'[r] # "ok"
  BY DEF Commits, Goes, Answers, TypeOK, PlaceInv
<1>6. \A q \in Requests : ~InCommit(q)'
  <2>1. \A q \in Requests : q # r => ~InCommit(q)
    BY <1>2 DEF LockInv, InCommit, InMethod
  <2>2. QED
    BY <1>4, <1>5, <2>1 DEF InCommit
<1>7. Unfinished(r, d)'
  <2>1. pc[r] = "committing" \/ pc[r] = "closing"
    BY <1>2 DEF InCommit
  <2>2. Kind[r] # "run" /\ Promise(r, d, TRUE) => Promise(r, d, FALSE)
    BY DEF Promise
  <2>3. /\ pc'[r] = "serving" => Promise(r, d, TRUE)
        /\ pc'[r] # "serving" => Promise(r, d, FALSE)
    BY <1>3, <1>5, <2>1, <2>2 DEF PlaceInv
  <2>4. /\ pc'[r] = "serving" => Promise(r, d, TRUE)'
        /\ pc'[r] # "serving" => Promise(r, d, FALSE)'
    BY <2>3, StillPromised
  <2>5. QED
    BY <1>5, <2>4 DEF Unfinished
<1>8. ASSUME NEW q \in Requests PROVE Unfinished(q, db)'
  <2>1. Unfinished(q, d)'
    BY <1>3, <1>4, <1>7, StillUnfinished
  <2>2. QED
    BY <1>2, <2>1 DEF Unfinished, Lasts, Promise
<1>9. \A q \in Requests : Refers(q)' => Known(Ref[q])'
  <2>1. Refers(r)' => Refers(r)
    BY <1>2 DEF Refers, InCommit
  <2>2. \A q \in Requests : Refers(q)' => Refers(q)
    BY <1>4, <2>1 DEF Refers
  <2>3. QED
    BY <2>2, StillRefers
<1>10. ASSUME NEW p \in Processes, conn'[p] = "reading", NEW row \in view'[p].configs
       PROVE  Lasts(row.id, db)'
  <2>1. conn[p] = "reading" /\ view'[p] = view[p]
    BY <1>10 DEF Commits, Commit, TypeOK
  <2>2. Lasts(row.id, db)
    BY <1>10, <2>1 DEF KeepInv
  <2>3. Lasts(row.id, d)
    BY <1>3, <2>2 DEF Follows, Lasts, Has
  <2>4. Lasts(row.id, d)'
    BY <2>3, StillLasts
  <2>5. QED
    BY <1>2, <2>4 DEF Lasts
<1>11. QED
  BY <1>6, <1>8, <1>9, <1>10 DEF KeepInv

LEMMA KeepStep ==
    ASSUME TypeOK, PlaceInv, LockInv, WholeInv, KeepInv, [Next]_vars PROVE KeepInv'
<1>1. ASSUME NEW r \in Requests, Step(r) PROVE KeepInv'
  BY <1>1, FoundCalm, OtherCalm, AddsKeeps, RenamesKeeps, DeletesKeeps, RunsKeeps,
     CommitKeeps DEF Step
<1>2. CASE UNCHANGED vars
  <2>1. \A q \in Requests : \A d : Unfinished(q, d) => Unfinished(q, d)'
    BY <1>2, StillUnfinished
  <2>2. \A q \in Requests : Refers(q)' => Known(Ref[q])'
    BY <1>2, StillRefers DEF Refers
  <2>3. QED
    BY <1>2, <2>1, <2>2, CalmKeeps DEF InCommit
<1>3. QED
  BY <1>1, <1>2, ProcessCalm DEF Next

(***************************************************************************)
(* Whatever was answered with success is in the database until a later      *)
(* request undoes it, whichever processes end and however requests overtake *)
(* each other (db.py:220-309).                                              *)
(***************************************************************************)
THEOREM PromisesAreKept == Spec => []PromisesKept
<1>1. Init => KeepInv
  BY StoreAssumption DEF Init, KeepInv, Unfinished, InCommit, Refers
<1>2. TypeOK /\ PlaceInv /\ LockInv /\ WholeInv /\ KeepInv /\ [Next]_vars => KeepInv'
  BY KeepStep
<1>3. KeepInv => PromisesKept
  BY DEF KeepInv, Unfinished, PromisesKept
<1>4. QED
  BY <1>1, <1>2, <1>3, Invariants, PTL DEF Spec

-----------------------------------------------------------------------------
(* Scripts: what the importer has read, and what it keeps of it *)

\* A set of naturals with a member has a least one.
LEMMA Least == ASSUME NEW T, T \subseteq Nat, T # {}
               PROVE  \E n \in T : \A m \in T : n <= m
<1>1. PICK n \in T : \A m \in T : ~(<<m, n>> \in OpToRel(<, Nat))
  BY WFMin, NatLessThanWellFounded, Zenon
<1>2. \A m \in T : ~(m < n)
  BY <1>1 DEF OpToRel
<1>3. QED
  BY <1>2

\* And a set of positions a last one.
LEMMA Greatest == ASSUME NEW n \in Nat, NEW T, T \subseteq 1..n, T # {}
                  PROVE  \E i \in T : \A j \in T : j <= i
<1> DEFINE D == {n - i : i \in T}
<1>1. D \subseteq Nat /\ D # {}
  <2>1. \A i \in T : n - i \in Nat
    OBVIOUS
  <2>2. QED
    BY <2>1
<1>2. PICK d \in D : \A m \in D : d <= m
  <2> HIDE DEF D
  <2>1. \E d \in D : \A m \in D : d <= m
    BY <1>1, Least
  <2>2. QED
    BY <2>1
<1>3. PICK i \in T : d = n - i
  BY <1>2
<1>4. ASSUME NEW j \in T PROVE j <= i
  <2>1. n - j \in D
    OBVIOUS
  <2>2. n - i <= n - j
    BY <1>2, <1>3, <2>1
  <2>3. i \in 1..n /\ j \in 1..n
    OBVIOUS
  <2>4. QED
    BY <2>2, <2>3
<1>5. QED
  BY <1>4

USE DEF parseVars

\* What names are made of.
Parts == {Slug[text][i] : text \in DOMAIN Slug, i \in Nat} \cup {Stem} \cup Nat

Base(c, at) == IF c = NoComment THEN <<Stem, at>> ELSE Slug[c]

LEMMA BaseType ==
    ASSUME NEW c \in DOMAIN Slug \cup {NoComment}, NEW at \in Nat
    PROVE  Base(c, at) \in Seq(Parts)
<1>1. CASE c = NoComment
  BY <1>1 DEF Base, Parts
<1>2. CASE c \in DOMAIN Slug /\ c # NoComment
  <2>1. Len(Slug[c]) \in Nat /\ Slug[c] = [i \in 1..Len(Slug[c]) |-> Slug[c][i]]
    BY <1>2, ShellAssumption
  <2>2. \A i \in 1..Len(Slug[c]) : Slug[c][i] \in Parts
    BY <1>2, <2>1 DEF Parts
  <2>3. Slug[c] \in Seq(Parts)
    BY <2>1, <2>2
  <2>4. QED
    BY <1>2, <2>3 DEF Base
<1>3. QED
  BY <1>1, <1>2

\* The n-th try for a name.
Try(base, lineno, n) == base \o [i \in 1..n |-> lineno]

LEMMA TryIs ==
    ASSUME NEW base \in Seq(Parts), NEW lineno \in Nat, NEW n \in Nat
    PROVE  /\ Try(base, lineno, n) \in Seq(Parts)
           /\ Len(Try(base, lineno, n)) = Len(base) + n
           /\ IsPrefix(base, Try(base, lineno, n))
<1>1. [i \in 1..n |-> lineno] \in Seq(Parts) /\ Len([i \in 1..n |-> lineno]) = n
  BY DEF Parts
<1> DEFINE tail == [i \in 1..n |-> lineno]
<1> HIDE DEF tail
<1>2. /\ base \o tail \in Seq(Parts)
      /\ Len(base \o tail) = Len(base) + n
      /\ \A i \in 1..Len(base) : (base \o tail)[i] = base[i]
  BY <1>1 DEF tail
<1>3. SubSeq(base, 1, Len(base)) = SubSeq(base \o tail, 1, Len(base))
  BY <1>1, <1>2
<1>4. QED
  BY <1>2, <1>3 DEF Try, IsPrefix, tail

\* One of as many tries as there are names, and one more, is not taken; Unused is
\* the first of them.
LEMMA UnusedIsNew ==
    ASSUME IsFiniteSet(seen), NEW base \in Seq(Parts), NEW lineno \in Nat
    PROVE  Unused(base, lineno) \notin seen /\ IsPrefix(base, Unused(base, lineno))
<1> DEFINE C == Cardinality(seen)
           T == {n \in 0..C : Try(base, lineno, n) \notin seen}
<1>1. C \in Nat
  BY FS_CardinalityType
<1> HIDE DEF C
<1>2. T # {}
  <2>1. SUFFICES ASSUME \A n \in 0..C : Try(base, lineno, n) \in seen PROVE FALSE
    OBVIOUS
  <2> DEFINE f == [n \in 0..C |-> Try(base, lineno, n)]
  <2>2. f \in [0..C -> seen]
    BY <2>1
  <2>3. IsFiniteSet(0..C) /\ Cardinality(0..C) = C + 1
    BY <1>1, FS_Interval
  <2>4. \E m, n \in 0..C : m # n /\ f[m] = f[n]
    <3>1. Cardinality(seen) < Cardinality(0..C)
      BY <1>1, <2>3 DEF C
    <3> HIDE DEF f
    <3>2. QED
      BY <3>1, <2>2, <2>3, FS_PigeonHole, Zenon
  <2>5. PICK m, n \in 0..C : m # n /\ f[m] = f[n]
    BY <2>4
  <2>6. m \in Nat /\ n \in Nat /\ Try(base, lineno, m) = Try(base, lineno, n)
    BY <1>1, <2>5
  <2>7. /\ Len(Try(base, lineno, m)) = Len(base) + m
        /\ Len(Try(base, lineno, n)) = Len(base) + n
    BY <2>6, TryIs, Zenon
  <2>8. Len(base) + m = Len(base) + n /\ Len(base) \in Nat
    BY <2>6, <2>7, LenProperties, Zenon
  <2>9. QED
    BY <2>5, <2>6, <2>8
<1>3. PICK n \in T : \A m \in T : n <= m
  <2>1. T \subseteq Nat
    BY <1>1
  <2> HIDE DEF T
  <2>2. QED
    BY <1>2, <2>1, Least, Zenon
<1> DEFINE tries == {Try(base, lineno, k) : k \in 0..C}
           First(name) == /\ name \notin seen
                          /\ \A t \in tries : Len(t) < Len(name) => t \in seen
<1>4. Try(base, lineno, n) \in tries /\ First(Try(base, lineno, n))
  <2>1. ASSUME NEW k \in 0..C, Len(Try(base, lineno, k)) < Len(Try(base, lineno, n))
        PROVE  Try(base, lineno, k) \in seen
    <3>1. k < n
      BY <1>1, <1>3, <2>1, TryIs
    <3>2. QED
      BY <1>1, <1>3, <3>1
  <2>2. QED
    BY <2>1, <1>3
<1>5. Unused(base, lineno) = CHOOSE name \in tries : First(name)
  BY Zenon DEF Unused, Try, C
<1>6. Unused(base, lineno) \in tries /\ First(Unused(base, lineno))
  BY <1>4, <1>5, Zenon
<1>7. PICK k \in 0..C : Unused(base, lineno) = Try(base, lineno, k)
  BY <1>6
<1>8. QED
  BY <1>1, <1>6, <1>7, TryIs

-----------------------------------------------------------------------------
\* The lines that have a say in the name of the next configuration.
Marks(line) == line.is \in {"serve", "banner"} \/ (line.is = "prose" /\ line.commented)

\* c is the comment that the first n lines leave for the next configuration.
Leaves(n, c) ==
    IF c = NoComment
    THEN \A j \in 1..n : Marks(script[j]) /\ (\A k \in (j + 1)..n : ~Marks(script[k])) =>
             script[j].is # "prose" \/ script[j].text = NoComment
    ELSE \E j \in 1..n : /\ script[j].is = "prose" /\ script[j].commented
                         /\ script[j].text = c
                         /\ \A k \in (j + 1)..n : ~Marks(script[k])

\* e is what the first n lines export, each variable as it was last exported.
Collects(n, e) ==
    /\ \A v : v \in DOMAIN e <=> \E j \in 1..n : Exports(script[j], v)
    /\ \A v : \A j \in 1..n :
          Exports(script[j], v) /\ (\A k \in (j + 1)..n : ~Exports(script[k], v)) =>
              e[v] = script[j].env[v]

\* What the names given so far are, and that they differ.
DistinctInv ==
    /\ IsFiniteSet(seen)
    /\ seen = {configs[i].name : i \in 1..Len(configs)}
    /\ \A i, j \in 1..Len(configs) : configs[i].name = configs[j].name => i = j

\* Where a configuration comes from, whatever was read after it.
ComesFrom(config) ==
    LET at == config.line
    IN  /\ at \in 1..Len(script) /\ script[at].is = "serve"
        /\ config.args = Portless(script[at].args)
        /\ \E e : Collects(at - 1, e) /\ config.env = Updated(e, script[at].env)
        /\ \E c \in DOMAIN Slug \cup {NoComment} :
              Leaves(at - 1, c) /\ IsPrefix(Base(c, at), config.name)

ParseInv ==
    /\ script \in Seq(Lines)
    /\ \E S : configs \in Seq(S)
    /\ comment \in DOMAIN Slug \cup {NoComment} /\ Leaves(Len(script), comment)
    /\ Collects(Len(script), exported)
    /\ DistinctInv
    /\ \A i \in 1..Len(configs) : ComesFrom(configs[i])

LEMMA ParseStarts == ParseInit => ParseInv
<1> SUFFICES ASSUME ParseInit PROVE ParseInv
  OBVIOUS
<1>1. script = <<>> /\ Len(script) = 0 /\ script \in Seq(Lines)
  BY DEF ParseInit
<1>2. configs = <<>> /\ Len(configs) = 0 /\ configs \in Seq(Nat)
  BY DEF ParseInit
<1>3. comment = NoComment /\ Leaves(Len(script), comment)
  BY <1>1 DEF ParseInit, Leaves
<1>4. Collects(Len(script), exported)
  <2>1. DOMAIN exported = {}
    BY DEF ParseInit
  <2>2. QED
    BY <1>1, <2>1 DEF Collects
<1>5. DistinctInv
  <2>1. seen = {}
    BY DEF ParseInit
  <2>2. QED
    BY <1>2, <2>1, FS_EmptySet DEF DistinctInv
<1>6. QED
  BY <1>1, <1>2, <1>3, <1>4, <1>5 DEF ParseInv

\* What was read stays as it was.
LEMMA PastStays ==
    ASSUME script \in Seq(Lines), NEW line \in Lines, script' = Append(script, line),
           NEW n \in Nat, n <= Len(script)
    PROVE  /\ \A c : Leaves(n, c)' <=> Leaves(n, c)
           /\ \A e : Collects(n, e)' <=> Collects(n, e)
<1>1. \A j \in 1..n : script'[j] = script[j]
  OBVIOUS
<1>2. \A j \in 1..n : \A k \in (j + 1)..n : k \in 1..n
  OBVIOUS
<1>3. ASSUME NEW c PROVE Leaves(n, c)' <=> Leaves(n, c)
  BY <1>1, <1>2, Zenon DEF Leaves
<1>4. ASSUME NEW e PROVE Collects(n, e)' <=> Collects(n, e)
  BY <1>1, <1>2, ZenonT(30) DEF Collects
<1>5. QED
  BY <1>3, <1>4

\* What one more line makes of them.
LEMMA OneMore ==
    ASSUME script \in Seq(Lines), NEW line \in Lines, script' = Append(script, line),
           NEW n \in Nat, n = Len(script)
    PROVE  /\ \A c : Leaves(n, c) /\ ~Marks(line) => Leaves(n + 1, c)'
           /\ \A c : Marks(line) /\ c = (IF line.is = "prose" THEN line.text ELSE NoComment)
                        => Leaves(n + 1, c)'
           /\ \A e : Collects(n, e) /\ (\A v : ~Exports(line, v)) => Collects(n + 1, e)'
           /\ \A e, u : /\ Collects(n, e) /\ u = Updated(e, line.env)
                        /\ \A v \in DOMAIN line.env : Exports(line, v)
                        => Collects(n + 1, u)'
<1>1. /\ \A j \in 1..n : script'[j] = script[j]
      /\ script'[n + 1] = line
      /\ \A j : j \in 1..(n + 1) <=> j \in 1..n \/ j = n + 1
      /\ \A j \in 1..n : \A k : k \in (j + 1)..(n + 1) <=> k \in (j + 1)..n \/ k = n + 1
      /\ \A j \in 1..n : \A k \in (j + 1)..n : k \in 1..n
      /\ \A k : k \notin (n + 1 + 1)..(n + 1)
      /\ n + 1 \notin 1..n
  OBVIOUS
<1>2. ASSUME NEW c, Leaves(n, c), ~Marks(line) PROVE Leaves(n + 1, c)'
  <2>1. CASE c = NoComment
    <3>1. ASSUME NEW j \in 1..(n + 1), Marks(script'[j]),
                 \A k \in (j + 1)..(n + 1) : ~Marks(script'[k])
          PROVE  script'[j].is # "prose" \/ script'[j].text = NoComment
      <4>1. j \in 1..n
        BY <1>1, <1>2, <3>1
      <4>2. \A k \in (j + 1)..n : ~Marks(script[k])
        BY <1>1, <3>1, <4>1
      <4>3. QED
        BY <1>1, <1>2, <2>1, <3>1, <4>1, <4>2, Zenon DEF Leaves
    <3>2. QED
      BY <3>1, <2>1, Zenon DEF Leaves, Marks
  <2>2. CASE c # NoComment
    <3>1. PICK j \in 1..n : /\ script[j].is = "prose" /\ script[j].commented
                            /\ script[j].text = c
                            /\ \A k \in (j + 1)..n : ~Marks(script[k])
      BY <1>2, <2>2, Zenon DEF Leaves
    <3>2. \A k \in (j + 1)..(n + 1) : ~Marks(script'[k])
      BY <1>1, <1>2, <3>1
    <3>3. j \in 1..(n + 1) /\ script'[j] = script[j]
      BY <1>1
    <3>4. QED
      BY <2>2, <3>1, <3>2, <3>3, Zenon DEF Leaves, Marks
  <2>3. QED
    BY <2>1, <2>2
<1>3. ASSUME NEW c, Marks(line), c = (IF line.is = "prose" THEN line.text ELSE NoComment)
      PROVE  Leaves(n + 1, c)'
  <2>1. CASE c = NoComment
    <3>1. ASSUME NEW j \in 1..(n + 1), \A k \in (j + 1)..(n + 1) : ~Marks(script'[k])
          PROVE  script'[j].is # "prose" \/ script'[j].text = NoComment
      <4>1. j = n + 1
        BY <1>1, <1>3, <3>1
      <4>2. QED
        BY <1>1, <1>3, <2>1, <4>1
    <3>2. QED
      BY <3>1, <2>1, Zenon DEF Leaves, Marks
  <2>2. CASE c # NoComment
    <3>1. line.is = "prose" /\ line.commented /\ line.text = c
      BY <1>3, <2>2 DEF Marks
    <3>2. n + 1 \in 1..(n + 1) /\ \A k \in (n + 1 + 1)..(n + 1) : ~Marks(script'[k])
      BY <1>1
    <3>3. QED
      BY <1>1, <2>2, <3>1, <3>2, Zenon DEF Leaves, Marks
  <2>3. QED
    BY <2>1, <2>2
<1>4. ASSUME NEW e, Collects(n, e), \A v : ~Exports(line, v) PROVE Collects(n + 1, e)'
  <2>1. ASSUME NEW v PROVE v \in DOMAIN e <=> \E j \in 1..(n + 1) : Exports(script'[j], v)
    BY <1>1, <1>4 DEF Collects
  <2>2. ASSUME NEW v, NEW j \in 1..(n + 1), Exports(script'[j], v),
               \A k \in (j + 1)..(n + 1) : ~Exports(script'[k], v)
        PROVE  e[v] = script'[j].env[v]
    <3>1. j \in 1..n
      BY <1>1, <1>4, <2>2
    <3>2. \A k \in (j + 1)..n : ~Exports(script[k], v)
      BY <1>1, <2>2, <3>1
    <3>3. QED
      BY <1>1, <1>4, <2>2, <3>1, <3>2 DEF Collects
  <2>3. (\A v : v \in DOMAIN e <=> \E j \in 1..(n + 1) : Exports(script[j], v))'
    BY <2>1, Zenon DEF Exports, Assigns
  <2>4. (\A v : \A j \in 1..(n + 1) :
            Exports(script[j], v) /\ (\A k \in (j + 1)..(n + 1) : ~Exports(script[k], v)) =>
                e[v] = script[j].env[v])'
    BY <2>2, Zenon DEF Exports, Assigns
  <2>5. QED
    BY <2>3, <2>4, Zenon DEF Collects
<1>5. ASSUME NEW e, Collects(n, e), \A v \in DOMAIN line.env : Exports(line, v),
             NEW u, u = Updated(e, line.env)
      PROVE  Collects(n + 1, u)'
  <2>a. /\ DOMAIN u = DOMAIN e \cup DOMAIN line.env
        /\ \A v \in DOMAIN line.env : u[v] = line.env[v]
        /\ \A v \in DOMAIN e \ DOMAIN line.env : u[v] = e[v]
    BY <1>5 DEF Updated
  <2>b. \A v : Exports(line, v) <=> v \in DOMAIN line.env
    BY <1>5 DEF Exports, Assigns
  <2>1. ASSUME NEW v PROVE v \in DOMAIN u <=> \E j \in 1..(n + 1) : Exports(script'[j], v)
    <3>1. v \in DOMAIN e <=> \E j \in 1..n : Exports(script[j], v)
      BY <1>5 DEF Collects
    <3>2. (\E j \in 1..(n + 1) : Exports(script'[j], v))
             <=> Exports(line, v) \/ \E j \in 1..n : Exports(script[j], v)
      <4>1. ASSUME NEW j \in 1..(n + 1), Exports(script'[j], v)
            PROVE  Exports(line, v) \/ \E i \in 1..n : Exports(script[i], v)
        <5>1. CASE j = n + 1
          BY <1>1, <4>1, <5>1
        <5>2. CASE j \in 1..n
          BY <1>1, <4>1, <5>2
        <5>3. QED
          BY <1>1, <5>1, <5>2
      <4>2. ASSUME NEW j \in 1..n, Exports(script[j], v)
            PROVE  j \in 1..(n + 1) /\ Exports(script'[j], v)
        BY <1>1, <4>2
      <4>3. n + 1 \in 1..(n + 1) /\ script'[n + 1] = line
        BY <1>1
      <4>4. QED
        BY <4>1, <4>2, <4>3, Zenon
    <3>3. QED
      BY <2>a, <2>b, <3>1, <3>2
  <2>2. ASSUME NEW v, NEW j \in 1..(n + 1), Exports(script'[j], v),
               \A k \in (j + 1)..(n + 1) : ~Exports(script'[k], v)
        PROVE  u[v] = script'[j].env[v]
    <3>1. CASE j = n + 1
      <4>1. script'[j] = line /\ Exports(line, v)
        BY <1>1, <2>2, <3>1
      <4>2. QED
        BY <2>a, <2>b, <4>1, Zenon
    <3>2. CASE j \in 1..n
      <4>1. ~Exports(line, v) /\ \A k \in (j + 1)..n : ~Exports(script[k], v)
        <5>1. n + 1 \in (j + 1)..(n + 1) /\ script'[n + 1] = line
          BY <1>1, <3>2
        <5>2. \A k \in (j + 1)..n : k \in (j + 1)..(n + 1) /\ script'[k] = script[k]
          BY <1>1, <3>2
        <5>3. QED
          BY <2>2, <5>1, <5>2, Zenon
      <4>2. v \in DOMAIN e /\ e[v] = script[j].env[v]
        BY <1>1, <1>5, <2>2, <3>2, <4>1 DEF Collects
      <4>3. QED
        BY <1>1, <2>a, <2>b, <3>2, <4>1, <4>2
    <3>3. QED
      BY <1>1, <3>1, <3>2
  <2>3. (\A v : v \in DOMAIN u <=> \E j \in 1..(n + 1) : Exports(script[j], v))'
    BY <2>1, Zenon DEF Exports, Assigns
  <2>4. (\A v : \A j \in 1..(n + 1) :
            Exports(script[j], v) /\ (\A k \in (j + 1)..(n + 1) : ~Exports(script[k], v)) =>
                u[v] = script[j].env[v])'
    BY <2>2, Zenon DEF Exports, Assigns
  <2>5. QED
    BY <2>3, <2>4, Zenon DEF Collects
<1>6. QED
  BY <1>2, <1>3, <1>4, <1>5

\* A configuration comes from where it came from.
LEMMA OriginStays ==
    ASSUME script \in Seq(Lines), NEW line \in Lines, script' = Append(script, line),
           NEW config, ComesFrom(config)
    PROVE  ComesFrom(config)'
<1> DEFINE at == config.line
<1>1. /\ at \in 1..Len(script) /\ at \in 1..Len(script') /\ script'[at] = script[at]
      /\ at - 1 \in Nat /\ at - 1 <= Len(script)
  BY DEF ComesFrom
<1>2. PICK e : Collects(at - 1, e) /\ config.env = Updated(e, script[at].env)
  BY DEF ComesFrom
<1>3. PICK c \in DOMAIN Slug \cup {NoComment} :
             Leaves(at - 1, c) /\ IsPrefix(Base(c, at), config.name)
  BY DEF ComesFrom
<1>4. Collects(at - 1, e)' /\ Leaves(at - 1, c)'
  BY <1>1, <1>2, <1>3, PastStays
<1>5. script[at].is = "serve" /\ config.args = Portless(script[at].args)
  BY DEF ComesFrom
<1>6. (\E d : Collects(at - 1, d) /\ config.env = Updated(d, script[at].env))'
  BY <1>1, <1>2, <1>4
<1>7. (\E d \in DOMAIN Slug \cup {NoComment} :
          Leaves(at - 1, d) /\ IsPrefix(Base(d, at), config.name))'
  BY <1>3, <1>4
<1>8. (at \in 1..Len(script) /\ script[at].is = "serve"
          /\ config.args = Portless(script[at].args))'
  BY <1>1, <1>5
<1>9. QED
  BY <1>6, <1>7, <1>8, Zenon DEF ComesFrom

\* Reading a line keeps the invariant.
LEMMA ParseStep == ParseInv /\ [ParseNext]_parseVars => ParseInv'
<1>1. ASSUME ParseInv, UNCHANGED parseVars PROVE ParseInv'
  <2>1. UNCHANGED <<script, comment, exported, seen, configs>>
    BY <1>1
  <2>2. \A n, c : Leaves(n, c)' <=> Leaves(n, c)
    BY <2>1 DEF Leaves
  <2>3. \A n, e : Collects(n, e)' <=> Collects(n, e)
    BY <2>1, Zenon DEF Collects
  <2>4. \A config : ComesFrom(config) => ComesFrom(config)'
    BY <2>1, <2>2, <2>3, Zenon DEF ComesFrom
  <2>5. DistinctInv'
    BY <1>1, <2>1 DEF ParseInv, DistinctInv
  <2>6. QED
    BY <1>1, <2>1, <2>2, <2>3, <2>4, <2>5 DEF ParseInv
<1>2. ASSUME ParseInv, NEW line \in Lines, ReadsLine(line) PROVE ParseInv'
  <2>1. PICK n \in Nat : n = Len(script)
    BY <1>2 DEF ParseInv
  <2>2. /\ script \in Seq(Lines) /\ script' = Append(script, line)
        /\ script' \in Seq(Lines) /\ Len(script') = n + 1
    BY <1>2, <2>1 DEF ParseInv, ReadsLine
  <2>3. PICK S : configs \in Seq(S)
    BY <1>2 DEF ParseInv
  <2>4. /\ comment \in DOMAIN Slug \cup {NoComment} /\ Leaves(n, comment)
        /\ Collects(n, exported) /\ DistinctInv
        /\ \A i \in 1..Len(configs) : ComesFrom(configs[i])
    BY <1>2, <2>1 DEF ParseInv
  <2>5. \A i \in 1..Len(configs) : \A config : config = configs[i] => ComesFrom(config)'
    BY <2>2, <2>4, OriginStays
  <2>6. CASE ~Invocation(line)
    <3>1. UNCHANGED <<seen, configs>>
      BY <1>2, <2>6 DEF ReadsLine, Banner, Prose, Passed, Assignment
    <3>2. \A i \in 1..Len(configs') : ComesFrom(configs[i])'
      BY <3>1, <2>5
    <3>3. DistinctInv'
      BY <3>1, <2>4 DEF DistinctInv
    <3>4. comment' \in DOMAIN Slug \cup {NoComment} /\ Leaves(n + 1, comment)'
      <4>1. PICK c : c = comment'
        OBVIOUS
      <4>2. c \in DOMAIN Slug \cup {NoComment} /\ Leaves(n + 1, c)'
        <5>1. CASE Marks(line)
          <6>1. line.is # "serve"
            BY <1>2, <2>6 DEF ReadsLine, Banner, Prose, Passed, Assignment
          <6>2. c = IF line.is = "prose" THEN line.text ELSE NoComment
            BY <1>2, <2>6, <4>1, <5>1, <6>1
               DEF Marks, ReadsLine, Banner, Prose, Passed, Assignment
          <6>3. c \in DOMAIN Slug \cup {NoComment}
            BY <5>1, <6>2, ShellAssumption DEF Marks
          <6>4. QED
            BY <2>1, <2>2, <5>1, <6>2, <6>3, OneMore
        <5>2. CASE ~Marks(line)
          <6>1. c = comment
            BY <1>2, <2>6, <4>1, <5>2
               DEF Marks, ReadsLine, Banner, Prose, Passed, Assignment
          <6>2. Leaves(n, c)
            BY <2>4, <6>1
          <6>3. QED
            BY <2>1, <2>2, <2>4, <5>2, <6>1, <6>2, OneMore
        <5>3. QED
          BY <5>1, <5>2
      <4>3. QED
        BY <4>1, <4>2 DEF Leaves
    <3>5. Collects(n + 1, exported)'
      <4>1. PICK e, u : e = exported /\ u = exported'
        OBVIOUS
      <4>2. Collects(n, e)
        BY <2>4, <4>1
      <4>3. Collects(n + 1, u)'
        <5>1. CASE line.is = "assignment" /\ line.exporting
          <6>1. u = Updated(e, line.env)
            BY <1>2, <2>6, <4>1, <5>1 DEF ReadsLine, Banner, Prose, Passed, Assignment
          <6>2. \A v \in DOMAIN line.env : Exports(line, v)
            BY <5>1, ShellAssumption DEF Exports, Assigns
          <6>3. QED
            BY <2>1, <2>2, <4>2, <6>1, <6>2, OneMore
        <5>2. CASE ~(line.is = "assignment" /\ line.exporting)
          <6>1. u = e
            BY <1>2, <2>6, <4>1, <5>2 DEF ReadsLine, Banner, Prose, Passed, Assignment
          <6>2. \A v : ~Exports(line, v)
            BY <5>2 DEF Exports, Assigns
          <6>3. QED
            BY <2>1, <2>2, <4>2, <6>1, <6>2, OneMore
        <5>3. QED
          BY <5>1, <5>2
      <4>4. QED
        BY <4>1, <4>3 DEF Collects
    <3>6. QED
      BY <2>2, <2>3, <3>1, <3>2, <3>3, <3>4, <3>5 DEF ParseInv
  <2>7. CASE Invocation(line)
    <3>1. PICK config : config = Configuration(line, n + 1)
      OBVIOUS
    <3>2. /\ line.is = "serve" /\ seen' = seen \cup {config.name}
          /\ configs' = Append(configs, config)
          /\ comment' = NoComment /\ exported' = exported
      BY <2>1, <2>7, <3>1 DEF Invocation
    <3>3. /\ config.line = n + 1 /\ config.name = Name(n + 1)
          /\ config.env = Updated(exported, line.env) /\ config.args = Portless(line.args)
      BY <3>1 DEF Configuration, Environment
    <3>4. config.name \notin seen /\ IsPrefix(Base(comment, n + 1), config.name)
      <4>1. Name(n + 1) = Unused(Base(comment, n + 1), n + 1)
        BY Zenon DEF Name, Base
      <4>2. Base(comment, n + 1) \in Seq(Parts)
        BY <2>4, BaseType
      <4>3. QED
        BY <2>4, <3>3, <4>1, <4>2, UnusedIsNew DEF DistinctInv
    <3>5. /\ configs' \in Seq(S \cup {config}) /\ Len(configs') = Len(configs) + 1
          /\ \A i \in 1..Len(configs) : configs'[i] = configs[i]
          /\ configs'[Len(configs) + 1] = config
          /\ Len(configs) \in Nat
      BY <2>3, <3>2
    <3>6. ComesFrom(config)'
      <4>1. /\ n + 1 \in 1..Len(script') /\ script'[n + 1] = line /\ n + 1 - 1 = n
        BY <2>1, <2>2
      <4>2. PICK e, c : e = exported /\ c = comment
        OBVIOUS
      <4>3. Collects(n, e)' /\ Leaves(n, c)'
        BY <2>1, <2>2, <2>4, <4>2, PastStays
      <4>4. c \in DOMAIN Slug \cup {NoComment} /\ IsPrefix(Base(c, n + 1), config.name)
        BY <2>4, <3>4, <4>2
      <4>5. config.env = Updated(e, line.env)
        BY <3>3, <4>2
      <4>6. QED
        BY <3>2, <3>3, <4>1, <4>3, <4>4, <4>5 DEF ComesFrom
    <3>7. \A i \in 1..Len(configs') : ComesFrom(configs[i])'
      <4>1. ASSUME NEW i \in 1..Len(configs') PROVE ComesFrom(configs[i])'
        <5>1. PICK d : d = configs'[i]
          OBVIOUS
        <5>2. ComesFrom(d)'
          <6>1. CASE i = Len(configs) + 1
            BY <3>5, <3>6, <5>1, <6>1
          <6>2. CASE i \in 1..Len(configs)
            BY <2>5, <3>5, <5>1, <6>2
          <6>3. QED
            BY <3>5, <6>1, <6>2
        <5>3. QED
          BY <5>1, <5>2 DEF ComesFrom
      <4>2. QED
        BY <4>1
    <3>8. DistinctInv'
      <4>1. IsFiniteSet(seen')
        BY <2>4, <3>2, FS_AddElement DEF DistinctInv
      <4>2. seen' = {configs'[i].name : i \in 1..Len(configs')}
        BY <2>4, <3>2, <3>5 DEF DistinctInv
      <4>3. ASSUME NEW i \in 1..Len(configs'), NEW j \in 1..Len(configs'),
                   configs'[i].name = configs'[j].name
            PROVE  i = j
        <5>1. \A k \in 1..Len(configs) : configs'[k].name # config.name
          BY <2>4, <3>4, <3>5 DEF DistinctInv
        <5>2. QED
          BY <2>4, <3>5, <4>3, <5>1 DEF DistinctInv
      <4>4. QED
        BY <4>1, <4>2, <4>3 DEF DistinctInv
    <3>9. comment' \in DOMAIN Slug \cup {NoComment} /\ Leaves(n + 1, comment)'
      <4>1. PICK c : c = comment'
        OBVIOUS
      <4>2. Marks(line) /\ c = NoComment /\ line.is # "prose"
        BY <3>2, <4>1 DEF Marks
      <4>3. Leaves(n + 1, c)'
        BY <2>1, <2>2, <4>2, OneMore
      <4>4. QED
        BY <4>1, <4>2, <4>3 DEF Leaves
    <3>10. Collects(n + 1, exported)'
      <4>1. PICK e : e = exported
        OBVIOUS
      <4>2. Collects(n, e) /\ \A v : ~Exports(line, v)
        BY <2>4, <3>2, <4>1 DEF Exports, Assigns
      <4>3. Collects(n + 1, e)'
        BY <2>1, <2>2, <4>2, OneMore
      <4>4. QED
        BY <3>2, <4>1, <4>3 DEF Collects
    <3>11. QED
      BY <2>2, <3>5, <3>7, <3>8, <3>9, <3>10 DEF ParseInv
  <2>8. QED
    BY <2>6, <2>7
<1>3. QED
  BY <1>1, <1>2 DEF ParseNext

-----------------------------------------------------------------------------
LEMMA ParseInvariant == ParseSpec => []ParseInv
<1>1. QED
  BY ParseStarts, ParseStep, PTL DEF ParseSpec

(* However many names collide, and with whatever line numbers, no two            *)
(* configurations of a script get the same name: shell.py:221-224.               *)
THEOREM NamesAreUnique == ParseSpec => []NamesUnique
<1>1. ParseInv => NamesUnique
  <2>1. SUFFICES ASSUME ParseInv PROVE NamesUnique
    OBVIOUS
  <2>2. PICK S : configs \in Seq(S)
    BY <2>1 DEF ParseInv
  <2>3. DOMAIN configs = 1..Len(configs)
    BY <2>2
  <2>4. QED
    BY <2>1, <2>3 DEF ParseInv, DistinctInv, NamesUnique
<1>2. QED
  BY <1>1, ParseInvariant, PTL

(* Of a script of any length, the name of a configuration begins with what the   *)
(* nearest comment makes, if no invocation and no banner is nearer:              *)
(* shell.py:149-151, 221-235.                                                    *)
THEOREM CommentsNameTheirOwn == ParseSpec => []NamedByItsComment
<1>1. ParseInv => NamedByItsComment
  <2>1. SUFFICES ASSUME ParseInv PROVE NamedByItsComment
    OBVIOUS
  <2>2. PICK S : configs \in Seq(S)
    BY <2>1 DEF ParseInv
  <2>3. ASSUME NEW i \in DOMAIN configs
        PROVE  LET at == configs[i].line
                   above == {j \in 1..(at - 1) : script[j].is \in {"serve", "banner"}
                                \/ (script[j].is = "prose" /\ script[j].commented)}
                   nearest == CHOOSE j \in above : \A k \in above : k <= j
                   named == above # {} /\ script[nearest].is = "prose"
                                /\ script[nearest].text # NoComment
               IN  IsPrefix(IF named THEN Slug[script[nearest].text] ELSE <<Stem, at>>,
                            configs[i].name)
    <3> DEFINE at == configs[i].line
               above == {j \in 1..(at - 1) : script[j].is \in {"serve", "banner"}
                            \/ (script[j].is = "prose" /\ script[j].commented)}
               Closest(j) == \A k \in above : k <= j
               nearest == CHOOSE j \in above : Closest(j)
               named == above # {} /\ script[nearest].is = "prose"
                            /\ script[nearest].text # NoComment
    <3>1. ComesFrom(configs[i])
      BY <2>1, <2>2, <2>3 DEF ParseInv
    <3>2. at \in Nat /\ at - 1 \in Nat
      BY <3>1 DEF ComesFrom
    <3>3. PICK c \in DOMAIN Slug \cup {NoComment} :
                 Leaves(at - 1, c) /\ IsPrefix(Base(c, at), configs[i].name)
      BY <3>1 DEF ComesFrom
    <3>4. \A j \in 1..(at - 1) : j \in above <=> Marks(script[j])
      BY DEF Marks
    <3>5. above \subseteq 1..(at - 1)
      OBVIOUS
    <3> HIDE DEF at, above
    <3>6. above # {} => \E j \in above : Closest(j)
      BY <3>2, <3>5, Greatest
    <3>7. above # {} => nearest \in above /\ Closest(nearest)
      BY <3>6, Zenon
    <3>8. ASSUME NEW j \in above, Closest(j) PROVE j = nearest
      <4>1. nearest \in above /\ j <= nearest /\ nearest <= j
        BY <3>7, <3>8
      <4>2. j \in 1..(at - 1) /\ nearest \in 1..(at - 1)
        BY <3>5, <3>8, <4>1
      <4>3. QED
        BY <3>2, <4>1, <4>2
    <3> HIDE DEF nearest
    <3>9. IF named THEN Slug[script[nearest].text] = Base(c, at)
          ELSE <<Stem, at>> = Base(c, at)
      <4>1. CASE c = NoComment
        <5>1. ~named
          <6>1. SUFFICES ASSUME above # {}
                         PROVE  script[nearest].is # "prose" \/ script[nearest].text = NoComment
            OBVIOUS
          <6>2. nearest \in 1..(at - 1) /\ Marks(script[nearest])
            BY <3>4, <3>5, <3>7, <6>1
          <6>3. \A k \in (nearest + 1)..(at - 1) : ~Marks(script[k])
            BY <3>2, <3>4, <3>7, <6>1, <6>2
          <6>4. QED
            BY <3>3, <4>1, <6>2, <6>3, Zenon DEF Leaves
        <5>2. QED
          BY <4>1, <5>1 DEF Base
      <4>2. CASE c # NoComment
        <5>1. PICK j \in 1..(at - 1) : /\ script[j].is = "prose" /\ script[j].commented
                                       /\ script[j].text = c
                                       /\ \A k \in (j + 1)..(at - 1) : ~Marks(script[k])
          BY <3>3, <4>2, Zenon DEF Leaves
        <5>2. j \in above
          BY <3>4, <5>1 DEF Marks
        <5>3. Closest(j)
          BY <3>2, <3>4, <3>5, <5>1
        <5>4. j = nearest
          BY <3>8, <5>2, <5>3
        <5>5. QED
          BY <4>2, <5>1, <5>2, <5>4 DEF Base
      <4>3. QED
        BY <4>1, <4>2
    <3>10. IsPrefix(IF named THEN Slug[script[nearest].text] ELSE <<Stem, at>>, configs[i].name)
      BY <3>3, <3>9
    <3>11. QED
      BY <3>10 DEF at, above, nearest
  <2>4. QED
    BY <2>3, Zenon DEF NamedByItsComment
<1>2. QED
  BY <1>1, ParseInvariant, PTL

\* The first n lines of the script export v, and what assigns or unsets it is not
\* left at that: the last line about v exports it.
LEMMA LastExport ==
    ASSUME NEW n \in Nat, NEW v, ~Reported(v, n),
           \E j \in 1..n : Exports(script[j], v)
    PROVE  \E j \in 1..n : /\ Exports(script[j], v)
                           /\ \A k \in (j + 1)..n : ~Assigns(script[k], v) /\ ~Unsets(script[k], v)
<1> DEFINE T == {j \in 1..n : Exports(script[j], v)}
<1>1. T \subseteq 1..n /\ T # {}
  OBVIOUS
<1>2. PICK j \in T : \A k \in T : k <= j
  <2> HIDE DEF T
  <2>1. \E j \in T : \A k \in T : k <= j
    BY <1>1, Greatest
  <2>2. QED
    BY <2>1
<1>3. ASSUME NEW k \in (j + 1)..n, Assigns(script[k], v) \/ Unsets(script[k], v) PROVE FALSE
  <2>1. k \in 1..n /\ j < k
    BY <1>2
  <2>2. PICK l \in k..n : Exports(script[l], v)
    BY <1>2, <1>3, <2>1, Zenon DEF Reported
  <2>3. l \in T
    BY <2>1, <2>2
  <2>4. QED
    BY <1>2, <2>1, <2>2, <2>3
<1>4. QED
  BY <1>2, <1>3

(* Of a script of any length, whatever it exports, assigns and unsets, a         *)
(* configuration has the environment that sh would have passed to the command,   *)
(* but for variables of which a line is reported: shell.py:16-22.                *)
THEOREM EnvironmentsAreTrue == ParseSpec => []EnvIsWhatShPasses
<1>1. ParseInv => EnvIsWhatShPasses
  <2>1. SUFFICES ASSUME ParseInv PROVE EnvIsWhatShPasses
    OBVIOUS
  <2>2. PICK S : configs \in Seq(S)
    BY <2>1 DEF ParseInv
  <2>3. ASSUME NEW i \in DOMAIN configs, NEW at, at = configs[i].line,
               NEW v \in DOMAIN configs[i].env \cup DOMAIN ShellPasses(at)
        PROVE  \/ v \notin DOMAIN script[at].env /\ Reported(v, at - 1)
               \/ /\ v \in DOMAIN configs[i].env \cap DOMAIN ShellPasses(at)
                  /\ configs[i].env[v] = ShellPasses(at)[v]
    <3>1. ComesFrom(configs[i])
      BY <2>1, <2>2, <2>3 DEF ParseInv
    <3>2. at \in Nat /\ at - 1 \in Nat
      BY <2>3, <3>1 DEF ComesFrom
    <3>3. PICK n \in Nat : n = at - 1
      BY <3>2
    <3>4. PICK e : Collects(n, e) /\ configs[i].env = Updated(e, script[at].env)
      BY <2>3, <3>1, <3>3 DEF ComesFrom
    <3> DEFINE assigned == UNION {DOMAIN script[j].env :
                                     j \in {k \in 1..n : script[k].is = "assignment"}}
               passed == {w \in assigned : \E j \in 1..n :
                              Exports(script[j], w)
                              /\ \A k \in (j + 1)..n : ~Unsets(script[k], w)}
               held == [w \in passed |-> script[LastAssigned(w, n)].env[w]]
    <3>5. ShellPasses(at) = Updated(held, script[at].env)
      BY <3>3 DEF ShellPasses
    <3>6. DOMAIN held = passed /\ \A w \in passed : held[w] = script[LastAssigned(w, n)].env[w]
      OBVIOUS
    <3>7. \A w : w \in passed => \E j \in 1..n : Exports(script[j], w)
      OBVIOUS
    <3>8. \A j \in 1..n : Exports(script[j], v) => v \in assigned
      BY DEF Exports, Assigns
    <3>9. v \in assigned /\ (\E j \in 1..n : Exports(script[j], v)
                              /\ \A k \in (j + 1)..n : ~Unsets(script[k], v)) => v \in passed
      OBVIOUS
    <3> HIDE DEF assigned, passed, held
    <3>10. CASE v \in DOMAIN script[at].env
      BY <3>4, <3>5, <3>10 DEF Updated
    <3>11. CASE v \notin DOMAIN script[at].env /\ ~Reported(v, n)
      <4>1. v \in DOMAIN e \/ v \in passed
        BY <2>3, <3>4, <3>5, <3>6, <3>11 DEF Updated
      <4>2. \E j \in 1..n : Exports(script[j], v)
        BY <3>4, <3>7, <4>1 DEF Collects
      <4>3. PICK j \in 1..n :
                   /\ Exports(script[j], v)
                   /\ \A k \in (j + 1)..n : ~Assigns(script[k], v) /\ ~Unsets(script[k], v)
        BY <3>11, <4>2, LastExport
      <4>4. v \in passed
        BY <3>8, <3>9, <4>3
      <4>5. LastAssigned(v, n) = j
        <5> DEFINE IsLast(k) == /\ Assigns(script[k], v)
                                /\ \A l \in (k + 1)..n : ~Assigns(script[l], v)
        <5>1. IsLast(j)
          BY <4>3 DEF Exports
        <5>2. ASSUME NEW k \in 1..n, IsLast(k) PROVE k = j
          <6>1. ~(k < j) /\ ~(j < k)
            BY <4>3, <5>1, <5>2
          <6>2. QED
            BY <6>1
        <5>3. LastAssigned(v, n) = CHOOSE k \in 1..n : IsLast(k)
          BY Zenon DEF LastAssigned
        <5> HIDE DEF IsLast
        <5>4. QED
          BY <5>1, <5>2, <5>3
      <4>6. v \in DOMAIN e /\ e[v] = script[j].env[v]
        <5>1. \A k \in (j + 1)..n : ~Exports(script[k], v)
          BY <4>3 DEF Exports
        <5>2. QED
          BY <3>4, <4>3, <5>1 DEF Collects
      <4>7. held[v] = script[j].env[v]
        BY <3>6, <4>4, <4>5
      <4>8. QED
        BY <3>4, <3>5, <3>6, <3>11, <4>4, <4>6, <4>7 DEF Updated
    <3>12. QED
      BY <3>3, <3>10, <3>11
  <2>4. QED
    BY <2>3, Zenon DEF EnvIsWhatShPasses
<1>2. QED
  BY <1>1, ParseInvariant, PTL

-----------------------------------------------------------------------------
(* Arguments: what is left of them, and what the engine takes *)

\* One step of the recursion that Without is.
Shortened(args, places, kept, n) ==
    IF n = 0 THEN <<>>
    ELSE IF n \in places THEN kept[n - 1]
    ELSE Append(kept[n - 1], args[n])

\* There is a function that satisfies it.
LEMMA ShortenedExists ==
    ASSUME NEW args, Len(args) \in Nat, NEW places
    PROVE  \E kept : kept = [n \in 0..Len(args) |-> Shortened(args, places, kept, n)]
<1> DEFINE Defined(k) == \E kept : kept = [n \in 0..k |-> Shortened(args, places, kept, n)]
           Undefined == {k \in Nat : ~Defined(k)}
<1>1. Undefined = {}
  <2>1. SUFFICES ASSUME Undefined # {} PROVE FALSE
    OBVIOUS
  <2>2. PICK k \in Undefined : \A m \in Undefined : k <= m
    BY <2>1, Least
  <2>3. CASE k = 0
    <3> DEFINE kept == [n \in 0..0 |-> <<>>]
    <3>1. kept = [n \in 0..0 |-> Shortened(args, places, kept, n)]
      BY DEF Shortened
    <3>2. QED
      BY <3>1, <2>2, <2>3, Zenon
  <2>4. CASE k # 0
    <3>1. k \in Nat /\ k - 1 \in Nat /\ k - 1 \notin Undefined
      BY <2>2, <2>4
    <3>2. PICK kept : kept = [n \in 0..k - 1 |-> Shortened(args, places, kept, n)]
      BY <3>1
    <3> DEFINE longer == [n \in 0..k |-> IF n = k THEN Shortened(args, places, kept, n)
                                         ELSE kept[n]]
    <3>3. \A n \in 0..k : longer[n] = Shortened(args, places, longer, n)
      <4>1. TAKE n \in 0..k
      <4>2. CASE n = 0
        BY <4>2, <3>1, <3>2, <2>4 DEF Shortened
      <4>3. CASE n # 0
        <5>1. n - 1 \in 0..k - 1 /\ longer[n - 1] = kept[n - 1]
          BY <4>3, <3>1
        <5>2. longer[n] = Shortened(args, places, kept, n)
          BY <3>1, <3>2
        <5>3. QED
          BY <5>1, <5>2 DEF Shortened
      <4>4. QED
        BY <4>2, <4>3
    <3>4. longer = [n \in 0..k |-> Shortened(args, places, longer, n)]
      BY <3>3, Zenon
    <3>5. QED
      BY <3>4, <2>2, Zenon
  <2>5. QED
    BY <2>3, <2>4
<1>2. QED
  BY <1>1

\* So Without is what its recursion says.
LEMMA WithoutIs ==
    ASSUME NEW args, Len(args) \in Nat, NEW places
    PROVE  \E kept : /\ Without(args, places) = kept[Len(args)]
                     /\ \A n \in 0..Len(args) : kept[n] = Shortened(args, places, kept, n)
<1> DEFINE kept == CHOOSE f : f = [n \in 0..Len(args) |->
               IF n = 0 THEN <<>>
               ELSE IF n \in places THEN f[n - 1]
               ELSE Append(f[n - 1], args[n])]
<1>1. Without(args, places) = kept[Len(args)]
  BY Zenon DEF Without
<1>2. \E f : f = [n \in 0..Len(args) |->
              IF n = 0 THEN <<>>
              ELSE IF n \in places THEN f[n - 1]
              ELSE Append(f[n - 1], args[n])]
  <2>1. \E f : f = [n \in 0..Len(args) |-> Shortened(args, places, f, n)]
    BY ShortenedExists, Zenon
  <2>2. QED
    BY <2>1, Zenon DEF Shortened
<1>3. kept = [n \in 0..Len(args) |->
              IF n = 0 THEN <<>>
              ELSE IF n \in places THEN kept[n - 1]
              ELSE Append(kept[n - 1], args[n])]
  BY <1>2, Zenon
<1>4. \A n \in 0..Len(args) : kept[n] = Shortened(args, places, kept, n)
  BY <1>3, Zenon DEF Shortened
<1>5. QED
  BY <1>1, <1>4, Zenon

\* out is what is left of args when the places are taken away; where says where
\* each of the others has gone.
Leftover(out, args, places, where) ==
    LET others == (1..Len(args)) \ places
    IN  /\ where \in [others -> 1..Len(out)]
        /\ \A i, j \in others : i < j => where[i] < where[j]
        /\ \A i \in others : out[where[i]] = args[i]
        /\ \A k \in 1..Len(out) : \E i \in others : where[i] = k

LEMMA WithoutKeeps ==
    ASSUME NEW S, NEW args \in Seq(S), NEW places, NEW out, out = Without(args, places)
    PROVE  out \in Seq(S) /\ \E where : Leftover(out, args, places, where)
<1>1. Len(args) \in Nat /\ \A n \in 1..Len(args) : args[n] \in S
  OBVIOUS
<1>2. PICK kept : /\ Without(args, places) = kept[Len(args)]
                  /\ \A n \in 0..Len(args) : kept[n] = Shortened(args, places, kept, n)
  BY <1>1, WithoutIs, Zenon
<1> DEFINE
    Upto(n) == (1..n) \ places
    Kept(n) == \A i \in Upto(n) : /\ Len(kept[i]) \in 1..Len(kept[n])
                                  /\ kept[n][Len(kept[i])] = args[i]
    Ordered(n) == \A i, j \in Upto(n) : i < j => Len(kept[i]) < Len(kept[j])
    Onto(n) == \A k \in 1..Len(kept[n]) : \E i \in Upto(n) : Len(kept[i]) = k
    Good(n) == kept[n] \in Seq(S) /\ Kept(n) /\ Ordered(n) /\ Onto(n)
    Bad == {n \in Nat : n <= Len(args) /\ ~Good(n)}
<1> HIDE DEF Good, Bad
<1>3. Bad = {}
  <2>1. SUFFICES ASSUME Bad # {} PROVE FALSE
    OBVIOUS
  <2>2. PICK n \in Bad : \A m \in Bad : n <= m
    <3>1. Bad \subseteq Nat
      BY DEF Bad
    <3>2. QED
      BY <2>1, <3>1, Least
  <2>3. n \in 0..Len(args) /\ ~Good(n)
    BY <2>2, <1>1 DEF Bad
  <2>4. CASE n = 0
    <3>1. kept[n] = <<>>
      BY <2>3, <2>4, <1>2 DEF Shortened
    <3>2. QED
      BY <2>3, <2>4, <3>1 DEF Good
  <2>5. CASE n # 0
    <3>1. n \in 1..Len(args) /\ n - 1 \in Nat /\ n - 1 <= Len(args) /\ n - 1 \notin Bad
      BY <2>2, <2>3, <2>5, <1>1
    <3>2. Good(n - 1)
      BY <3>1 DEF Bad
    <3>3. kept[n - 1] \in Seq(S) /\ Kept(n - 1) /\ Ordered(n - 1) /\ Onto(n - 1)
      BY <3>2 DEF Good
    <3>4. CASE n \in places
      <4>1. kept[n] = kept[n - 1]
        BY <3>4, <2>3, <2>5, <1>2 DEF Shortened
      <4>2. Upto(n) = Upto(n - 1)
        BY <3>1, <3>4
      <4>3. QED
        BY <2>3, <3>3, <4>1, <4>2, Zenon DEF Good
    <3>5. CASE n \notin places
      <4>1. kept[n] = Append(kept[n - 1], args[n])
        BY <3>5, <2>3, <2>5, <1>2 DEF Shortened
      <4>2. /\ kept[n] \in Seq(S) /\ Len(kept[n]) = Len(kept[n - 1]) + 1
            /\ Len(kept[n - 1]) \in Nat
            /\ \A k \in 1..Len(kept[n - 1]) : kept[n][k] = kept[n - 1][k]
            /\ kept[n][Len(kept[n])] = args[n]
        BY <1>1, <3>1, <3>3, <4>1
      <4>3. \A i : i \in Upto(n) <=> i \in Upto(n - 1) \/ i = n
        BY <3>1, <3>5
      <4>4. \A i \in Upto(n - 1) : i < n
        BY <3>1
      <4>5. Kept(n)
        <5>1. ASSUME NEW i \in Upto(n - 1)
              PROVE  Len(kept[i]) \in 1..Len(kept[n]) /\ kept[n][Len(kept[i])] = args[i]
          <6>1. Len(kept[i]) \in 1..Len(kept[n - 1]) /\ kept[n - 1][Len(kept[i])] = args[i]
            BY <3>3, <5>1, Zenon
          <6>2. 1..Len(kept[n - 1]) \subseteq 1..Len(kept[n])
            BY <4>2
          <6>3. QED
            BY <4>2, <6>1, <6>2, Zenon
        <5>2. Len(kept[n]) \in 1..Len(kept[n])
          BY <4>2
        <5>3. QED
          BY <4>2, <4>3, <5>1, <5>2
      <4>6. Ordered(n)
        <5>1. ASSUME NEW i \in Upto(n), NEW j \in Upto(n), i < j
              PROVE  Len(kept[i]) < Len(kept[j])
          <6>1. i \in Upto(n - 1)
            BY <3>1, <4>3, <4>4, <5>1
          <6>2. CASE j = n
            BY <3>3, <4>2, <6>1, <6>2
          <6>3. CASE j \in Upto(n - 1)
            BY <3>3, <5>1, <6>1, <6>3
          <6>4. QED
            BY <4>3, <6>2, <6>3
        <5>2. QED
          BY <5>1
      <4>7. Onto(n)
        <5>1. ASSUME NEW k \in 1..Len(kept[n]) PROVE \E i \in Upto(n) : Len(kept[i]) = k
          <6>1. CASE k = Len(kept[n])
            BY <4>3, <6>1
          <6>2. CASE k \in 1..Len(kept[n - 1])
            BY <3>3, <4>3, <6>2
          <6>3. QED
            BY <4>2, <6>1, <6>2
        <5>2. QED
          BY <5>1
      <4>8. QED
        BY <2>3, <4>2, <4>5, <4>6, <4>7, Zenon DEF Good
    <3>6. QED
      BY <3>4, <3>5
  <2>6. QED
    BY <2>4, <2>5
<1>4. Good(Len(args))
  BY <1>1, <1>3 DEF Bad
<1>5. out = kept[Len(args)]
  BY <1>2
<1> DEFINE where == [i \in Upto(Len(args)) |-> Len(kept[i])]
<1>6. where \in [Upto(Len(args)) -> 1..Len(out)]
  BY <1>4, <1>5 DEF Good
<1>7. Leftover(out, args, places, where)
  BY <1>4, <1>5, <1>6 DEF Good, Leftover
<1>8. QED
  BY <1>4, <1>5, <1>7 DEF Good

-----------------------------------------------------------------------------
\* The three kinds of tokens.
LEMMA TokenKinds ==
    ASSUME NEW arg \in Tokens
    PROVE  \/ arg.is = "option" /\ arg.flag \in Flags /\ arg = Opt(arg.flag) /\ arg.value = ""
           \/ arg.is = "option=" /\ arg.flag \in Flags /\ arg.value \in Values
           \/ arg.is = "value" /\ arg.value \in Values /\ arg = Val(arg.value)
<1>1. CASE \E f \in Flags : arg = Opt(f)
  <2>1. PICK f \in Flags : arg = Opt(f)
    BY <1>1
  <2>2. arg.is = "option" /\ arg.flag = f /\ arg.value = ""
    BY <2>1 DEF Opt
  <2>3. QED
    BY <2>1, <2>2
<1>2. CASE \E f \in Flags, v \in Values : arg = OptWith(f, v)
  <2>1. PICK f \in Flags, v \in Values : arg = OptWith(f, v)
    BY <1>2
  <2>2. arg.is = "option=" /\ arg.flag = f /\ arg.value = v
    BY <2>1 DEF OptWith
  <2>3. QED
    BY <2>2
<1>3. CASE \E v \in Values : arg = Val(v)
  <2>1. PICK v \in Values : arg = Val(v)
    BY <1>3
  <2>2. arg.is = "value" /\ arg.value = v
    BY <2>1 DEF Val
  <2>3. QED
    BY <2>1, <2>2
<1>4. \/ arg \in {Opt(f) : f \in Flags}
      \/ arg \in {OptWith(f, v) : f \in Flags, v \in Values}
      \/ arg \in {Val(v) : v \in Values}
  BY DEF Tokens
<1>5. (\E f \in Flags : arg = Opt(f)) \/ (\E f \in Flags, v \in Values : arg = OptWith(f, v))
      \/ \E v \in Values : arg = Val(v)
  BY <1>4
<1>6. QED
  BY <1>1, <1>2, <1>3, <1>5, Zenon

\* Of an option that is not spelt with "=", all the values that follow are taken.
LEMMA RunIsTaken ==
    ASSUME NEW S, NEW args \in Seq(S), NEW i \in 1..Len(args), args[i].is # "option=",
           NEW m \in Nat, i + m <= Len(args),
           \A k \in 1..m : ValueAt(args, i + k), ~ValueAt(args, i + m + 1)
    PROVE  TakenAt(args, i) = [k \in 1..m |-> args[i + k].value]
<1> DEFINE ends == {j \in i..Len(args) : \A k \in (i + 1)..j : ValueAt(args, k)}
           Final(j) == \A k \in ends : k <= j
           last == CHOOSE j \in ends : Final(j)
<1>1. i + m \in ends
  <2>1. i + m \in i..Len(args)
    OBVIOUS
  <2>2. ASSUME NEW k \in (i + 1)..(i + m) PROVE ValueAt(args, k)
    <3>1. k - i \in 1..m /\ i + (k - i) = k
      OBVIOUS
    <3>2. QED
      BY <3>1
  <2>3. QED
    BY <2>1, <2>2
<1>2. ASSUME NEW j \in ends PROVE j <= i + m
  <2>1. j \in i..Len(args) /\ \A k \in (i + 1)..j : ValueAt(args, k)
    OBVIOUS
  <2>2. i + m + 1 \notin (i + 1)..j
    BY <2>1
  <2>3. QED
    BY <2>1, <2>2
<1>3. ends \subseteq Nat
  OBVIOUS
<1>4. last = i + m
  <2> HIDE DEF ends
  <2>1. i + m \in ends /\ Final(i + m)
    BY <1>1, <1>2
  <2>2. last \in ends /\ Final(last)
    BY <2>1, Zenon
  <2>3. last <= i + m /\ i + m <= last /\ last \in Nat
    <3> HIDE DEF last
    <3>1. QED
      BY <1>3, <2>1, <2>2
  <2> HIDE DEF last
  <2>4. QED
    BY <2>3
<1>5. TakenAt(args, i) = [k \in 1..(last - i) |-> args[i + k].value]
  BY Zenon DEF TakenAt
<1> HIDE DEF last
<1>6. last - i = m
  BY <1>4
<1>7. QED
  BY <1>5, <1>6

\* There is such a number of values.
LEMMA RunExists ==
    ASSUME NEW args \in Seq(Tokens), NEW i \in 1..Len(args)
    PROVE  \E m \in Nat : /\ i + m <= Len(args)
                          /\ \A k \in 1..m : ValueAt(args, i + k)
                          /\ ~ValueAt(args, i + m + 1)
<1> DEFINE T == {j \in i..Len(args) : \A k \in (i + 1)..j : ValueAt(args, k)}
<1>1. T \subseteq 1..Len(args) /\ i \in T /\ Len(args) \in Nat
  OBVIOUS
<1>2. PICK j \in T : \A k \in T : k <= j
  <2> HIDE DEF T
  <2>1. \E j \in T : \A k \in T : k <= j
    BY <1>1, Greatest
  <2>2. QED
    BY <2>1
<1>3. j \in i..Len(args) /\ \A k \in (i + 1)..j : ValueAt(args, k)
  OBVIOUS
<1>4. ~ValueAt(args, j + 1)
  <2>1. SUFFICES ASSUME ValueAt(args, j + 1) PROVE FALSE
    OBVIOUS
  <2>2. j + 1 \in 1..Len(args)
    BY <2>1 DEF ValueAt
  <2>3. \A k \in (i + 1)..(j + 1) : k \in (i + 1)..j \/ k = j + 1
    BY <1>3
  <2>4. j + 1 \in T
    BY <1>3, <2>1, <2>2, <2>3
  <2>5. QED
    BY <1>2, <1>3, <2>4
<1>5. /\ j - i \in Nat /\ i + (j - i) = j
      /\ \A k \in 1..(j - i) : i + k \in (i + 1)..j
  BY <1>3
<1> DEFINE m == j - i
<1>6. m \in Nat /\ i + m <= Len(args) /\ i + m + 1 = j + 1
  BY <1>3
<1>7. \A k \in 1..m : ValueAt(args, i + k)
  BY <1>3, <1>5
<1>8. QED
  <2> HIDE DEF m
  <2>1. QED
    BY <1>4, <1>6, <1>7

\* The last occurrence counts for the engine, the first for flag().
LEMMA LastCounts ==
    ASSUME NEW S, NEW args \in Seq(S), NEW f
    PROVE  /\ (\A i \in 1..Len(args) : ~IsOf(args[i], f)) => TakenFor(args, f) = None
           /\ \A i \in 1..Len(args) :
                 IsOf(args[i], f) /\ (\A j \in (i + 1)..Len(args) : ~IsOf(args[j], f)) =>
                     TakenFor(args, f) = TakenAt(args, i)
<1> DEFINE I == {i \in 1..Len(args) : IsOf(args[i], f)}
           last == IF I # {} THEN Max(I) ELSE 0
<1>1. TakenFor(args, f) = IF last = 0 THEN None ELSE TakenAt(args, last)
  BY DEF TakenFor, SelectLastInSeq
<1>2. CASE I = {}
  <2>1. last = 0 /\ \A i \in 1..Len(args) : ~IsOf(args[i], f)
    BY <1>2
  <2>2. QED
    BY <1>1, <2>1
<1>3. ASSUME NEW i \in 1..Len(args), IsOf(args[i], f),
             \A j \in (i + 1)..Len(args) : ~IsOf(args[j], f)
      PROVE  TakenFor(args, f) = TakenAt(args, i)
  <2>1. i \in I /\ \A j \in I : i >= j
    BY <1>3
  <2>2. \A k \in I : (\A j \in I : k >= j) => k = i
    <3>1. I \subseteq Nat
      OBVIOUS
    <3> HIDE DEF I
    <3>2. QED
      BY <2>1, <3>1
  <2> HIDE DEF I
  <2>3. Max(I) = i
    BY <2>1, <2>2 DEF Max
  <2>4. last = i /\ i # 0
    BY <2>1, <2>3
  <2>5. QED
    BY <1>1, <2>4
<1>4. QED
  BY <1>1, <1>2, <1>3

LEMMA FirstCounts ==
    ASSUME NEW S, NEW args \in Seq(S), NEW f
    PROVE  /\ (\A i \in 1..Len(args) : ~IsOf(args[i], f)) => Flag(args, f) = None
           /\ \A i \in 1..Len(args) :
                 IsOf(args[i], f) /\ (\A j \in 1..(i - 1) : ~IsOf(args[j], f)) =>
                     Flag(args, f) = IF args[i] = Opt(f) /\ ValueAt(args, i + 1)
                                     THEN args[i + 1].value ELSE args[i].value
<1> DEFINE I == {i \in 1..Len(args) : IsOf(args[i], f)}
           first == IF I # {} THEN Min(I) ELSE 0
<1>1. Flag(args, f) = IF first = 0 THEN None
                      ELSE IF args[first] = Opt(f) /\ ValueAt(args, first + 1)
                           THEN args[first + 1].value
                      ELSE args[first].value
  BY DEF Flag, SelectInSeq
<1>2. CASE I = {}
  <2>1. first = 0 /\ \A i \in 1..Len(args) : ~IsOf(args[i], f)
    BY <1>2
  <2>2. QED
    BY <1>1, <2>1
<1>3. ASSUME NEW i \in 1..Len(args), IsOf(args[i], f),
             \A j \in 1..(i - 1) : ~IsOf(args[j], f)
      PROVE  Flag(args, f) = IF args[i] = Opt(f) /\ ValueAt(args, i + 1)
                             THEN args[i + 1].value ELSE args[i].value
  <2>1. i \in I /\ \A j \in I : i <= j
    BY <1>3
  <2>2. \A k \in I : (\A j \in I : k <= j) => k = i
    <3>1. I \subseteq Nat
      OBVIOUS
    <3> HIDE DEF I
    <3>2. QED
      BY <2>1, <3>1
  <2> HIDE DEF I
  <2>3. Min(I) = i
    BY <2>1, <2>2 DEF Min
  <2>4. first = i /\ i # 0
    BY <2>1, <2>3
  <2>5. QED
    BY <1>1, <2>4
<1>4. QED
  BY <1>1, <1>2, <1>3
-----------------------------------------------------------------------------
LEMMA OptionIsOf ==
    ASSUME NEW f PROVE IsOf(Opt(f), f) /\ Opt(f).is = "option"
BY DEF IsOf, Opt

\* The places that with_args() takes away are the options of the flag, and the
\* values that come right behind one that is spelt without "=".
LEMMA OccurrenceIs ==
    ASSUME NEW args \in Seq(Tokens), NEW f, NEW i \in 1..Len(args)
    PROVE  /\ IsOf(args[i], f) => i \in Occurrences(args, f)
           /\ args[i].is # "value" => (i \in Occurrences(args, f) => args[i].flag = f)
           /\ args[i].is = "value" =>
                (i \in Occurrences(args, f) <=> i - 1 \in 1..Len(args) /\ args[i - 1] = Opt(f))
<1> DEFINE Behind == {j \in DOMAIN args : args[j] = Opt(f) /\ ValueAt(args, j + 1)}
<1>1. DOMAIN args = 1..Len(args) /\ Len(args) \in Nat
  OBVIOUS
<1>2. i \in Occurrences(args, f) <=> IsOf(args[i], f) \/ i \in {j + 1 : j \in Behind}
  BY <1>1 DEF Occurrences
<1>3. i \in {j + 1 : j \in Behind} <=> i - 1 \in Behind
  BY <1>1
<1>4. i - 1 \in Behind <=>
        i - 1 \in 1..Len(args) /\ args[i - 1] = Opt(f) /\ args[i].is = "value"
  BY <1>1 DEF ValueAt
<1> HIDE DEF Behind
<1>5. QED
  BY <1>2, <1>3, <1>4, Zenon DEF IsOf

\* A value that stays is behind one that stays.
LEMMA ValuesFollow ==
    ASSUME NEW args \in Seq(Tokens), NEW f, SingleValued(args, f),
           NEW i \in 1..Len(args), i - 1 \in 1..Len(args),
           i \notin Occurrences(args, f), ValueAt(args, i)
    PROVE  i - 1 \notin Occurrences(args, f)
<1> DEFINE h == i - 1
<1>1. SUFFICES ASSUME h \in Occurrences(args, f) PROVE FALSE
  OBVIOUS
<1>2. /\ DOMAIN args = 1..Len(args) /\ h \in 1..Len(args) /\ h + 1 = i
      /\ h - 1 + 1 = h /\ h - 1 + 2 = i
  OBVIOUS
<1>3. args[i].is = "value" /\ args[h] # Opt(f)
  BY OccurrenceIs DEF ValueAt
<1>4. CASE args[h].is = "value"
  <2>1. h - 1 \in 1..Len(args) /\ args[h - 1] = Opt(f)
    BY <1>1, <1>2, <1>4, OccurrenceIs
  <2>2. IsOf(args[h - 1], f)
    BY <2>1, OptionIsOf, Zenon
  <2>3. ValueAt(args, h)
    BY <1>2, <1>4, Zenon DEF ValueAt
  <2> HIDE DEF h
  <2>4. ~ValueAt(args, i)
    BY <1>2, <2>1, <2>2, <2>3 DEF SingleValued
  <2>5. QED
    BY <2>4
<1>5. CASE args[h].is # "value"
  <2>1. IsOf(args[h], f)
    BY <1>1, <1>2, <1>5, OccurrenceIs DEF IsOf
  <2> HIDE DEF h
  <2>2. args[h] = Opt(f)
    BY <1>2, <2>1 DEF SingleValued
  <2>3. QED
    BY <1>3, <2>2
<1>6. QED
  BY <1>4, <1>5

\* A value behind an option that stays, or behind a value that does, stays.
LEMMA ValuesStay ==
    ASSUME NEW args \in Seq(Tokens), NEW f,
           NEW i \in 1..Len(args), i + 1 \in 1..Len(args),
           i \notin Occurrences(args, f), ValueAt(args, i + 1)
    PROVE  i + 1 \notin Occurrences(args, f)
<1>1. i + 1 - 1 = i
  OBVIOUS
<1>2. args[i + 1].is = "value"
  BY DEF ValueAt
<1>3. args[i] # Opt(f)
  <2>1. SUFFICES ASSUME args[i] = Opt(f) PROVE FALSE
    OBVIOUS
  <2>2. IsOf(args[i], f)
    BY <2>1, OptionIsOf, Zenon
  <2>3. QED
    BY <2>2, OccurrenceIs
<1>4. QED
  BY <1>1, <1>2, <1>3, OccurrenceIs

\* What was next to each other, is.
LEMMA NextPlace ==
    ASSUME NEW out, Len(out) \in Nat, NEW args, Len(args) \in Nat, NEW places, NEW where,
           Leftover(out, args, places, where),
           NEW i \in (1..Len(args)) \ places, i + 1 \in (1..Len(args)) \ places
    PROVE  where[i + 1] = where[i] + 1
<1> DEFINE others == (1..Len(args)) \ places
<1>1. /\ \A j \in others : where[j] \in 1..Len(out)
      /\ \A j, k \in others : j < k => where[j] < where[k]
      /\ \A k \in 1..Len(out) : \E j \in others : where[j] = k
  BY DEF Leftover
<1>2. i \in others /\ i + 1 \in others /\ others \subseteq Nat
  OBVIOUS
<1> HIDE DEF others
<1>3. where[i] < where[i + 1] /\ where[i] \in Nat /\ where[i + 1] \in Nat
  BY <1>1, <1>2
<1>4. ASSUME where[i] + 1 # where[i + 1] PROVE FALSE
  <2>1. where[i] + 1 \in 1..Len(out)
    BY <1>1, <1>2, <1>3, <1>4
  <2>2. PICK j \in others : where[j] = where[i] + 1
    BY <1>1, <2>1
  <2>3. CASE j <= i
    BY <1>1, <1>2, <1>3, <2>2, <2>3
  <2>4. CASE j >= i + 1
    BY <1>1, <1>2, <1>3, <1>4, <2>2, <2>4
  <2>5. QED
    BY <1>2, <2>3, <2>4
<1>5. QED
  BY <1>3, <1>4

-----------------------------------------------------------------------------
\* What is left, with or without the flag appended: the engine takes for another
\* flag what it took.
LEMMA OthersKeep ==
    ASSUME NEW args \in Seq(Tokens), NEW f, NEW g, g # f, SingleValued(args, f),
           NEW out \in Seq(Tokens), NEW where,
           Leftover(out, args, Occurrences(args, f), where),
           NEW edited \in Seq(Tokens), Len(out) <= Len(edited),
           \A k \in 1..Len(out) : edited[k] = out[k],
           ~ValueAt(edited, Len(out) + 1),
           \A k \in (Len(out) + 1)..Len(edited) : ~IsOf(edited[k], g)
    PROVE  TakenFor(edited, g) = TakenFor(args, g)
<1> DEFINE others == (1..Len(args)) \ Occurrences(args, f)
<1>1. /\ Len(args) \in Nat /\ Len(out) \in Nat /\ Len(edited) \in Nat
      /\ DOMAIN args = 1..Len(args) /\ DOMAIN edited = 1..Len(edited)
      /\ others \subseteq 1..Len(args) /\ others \subseteq Nat
  OBVIOUS
<1>2. /\ \A i \in others : where[i] \in 1..Len(out)
      /\ \A i, j \in others : i < j => where[i] < where[j]
      /\ \A i \in others : out[where[i]] = args[i]
      /\ \A k \in 1..Len(out) : \E i \in others : where[i] = k
  BY DEF Leftover
<1>3. /\ \A i \in others : where[i] \in 1..Len(edited) /\ edited[where[i]] = args[i]
      /\ \A k \in 1..Len(out) : \E i \in others : where[i] = k /\ edited[k] = args[i]
  <2>1. \A k \in 1..Len(out) : k \in 1..Len(edited) /\ edited[k] = out[k]
    BY <1>1
  <2>2. \A i \in others : where[i] \in 1..Len(edited) /\ edited[where[i]] = args[i]
    BY <1>2, <2>1, Zenon
  <2>3. ASSUME NEW k \in 1..Len(out)
        PROVE  \E i \in others : where[i] = k /\ edited[k] = args[i]
    <3>1. PICK i \in others : where[i] = k
      BY <1>2, Zenon
    <3>2. QED
      BY <2>2, <3>1, Zenon
  <2>4. QED
    BY <2>2, <2>3, Zenon
<1>4. ASSUME NEW i \in 1..Len(args), IsOf(args[i], g) PROVE i \in others
  <2>1. args[i].is # "value" /\ args[i].flag # f
    BY <1>4 DEF IsOf
  <2>2. QED
    BY <2>1, OccurrenceIs
<1>5. ASSUME NEW k \in 1..Len(edited), IsOf(edited[k], g)
      PROVE  \E i \in others : where[i] = k /\ IsOf(args[i], g)
  <2>1. k \in 1..Len(out)
    BY <1>1, <1>5
  <2>2. QED
    BY <1>3, <1>5, <2>1
<1>6. ASSUME NEW i \in others, i + 1 \in others PROVE where[i + 1] = where[i] + 1
  BY <1>1, <1>6, NextPlace
<1>7. ASSUME NEW i \in others, i > 1, ValueAt(args, i) PROVE i - 1 \in others
  BY <1>1, <1>7, ValuesFollow
<1>8. ASSUME NEW i \in others, ValueAt(args, i + 1) PROVE i + 1 \in others
  BY <1>1, <1>8, ValuesStay DEF ValueAt
<1> HIDE DEF others
<1>9. ASSUME NEW i \in others, NEW j \in others
      PROVE  (where[i] = where[j] => i = j) /\ (where[i] < where[j] => i < j)
  <2>1. i \in Nat /\ j \in Nat /\ where[i] \in Nat /\ where[j] \in Nat
    BY <1>1, <1>2
  <2>2. CASE i < j
    BY <1>2, <2>1, <2>2
  <2>3. CASE j < i
    BY <1>2, <2>1, <2>3
  <2>4. QED
    BY <2>1, <2>2, <2>3
<1>10. CASE \A i \in 1..Len(args) : ~IsOf(args[i], g)
  <2>1. \A k \in 1..Len(edited) : ~IsOf(edited[k], g)
    BY <1>1, <1>5, <1>10
  <2>2. QED
    BY <1>10, <2>1, LastCounts
<1>11. CASE \E i \in 1..Len(args) : IsOf(args[i], g)
  <2> DEFINE ofG == {i \in 1..Len(args) : IsOf(args[i], g)}
  <2>1. PICK i \in ofG : \A j \in ofG : j <= i
    <3>1. ofG \subseteq 1..Len(args) /\ ofG # {}
      BY <1>11
    <3> HIDE DEF ofG
    <3>2. QED
      BY <1>1, <3>1, Greatest
  <2>2. i \in 1..Len(args) /\ IsOf(args[i], g) /\ i \in others
    BY <1>4, <2>1
  <2>3. \A j \in (i + 1)..Len(args) : ~IsOf(args[j], g)
    BY <1>1, <2>1
  <2> DEFINE p == where[i]
  <2>4. p \in 1..Len(edited) /\ p \in Nat /\ edited[p] = args[i] /\ IsOf(edited[p], g)
    BY <1>3, <2>2
  <2>5. \A k \in (p + 1)..Len(edited) : ~IsOf(edited[k], g)
    <3>1. SUFFICES ASSUME NEW k \in (p + 1)..Len(edited), IsOf(edited[k], g) PROVE FALSE
      OBVIOUS
    <3>2. k \in 1..Len(edited) /\ k > p
      BY <1>1, <2>4
    <3>3. PICK j \in others : where[j] = k /\ IsOf(args[j], g)
      BY <1>5, <3>1, <3>2
    <3>4. j <= i
      BY <1>1, <2>1, <3>3
    <3>5. QED
      BY <1>1, <1>2, <2>2, <2>4, <3>2, <3>3, <3>4
  <2> HIDE DEF p, ofG
  <2>6. TakenFor(args, g) = TakenAt(args, i) /\ TakenFor(edited, g) = TakenAt(edited, p)
    BY <2>2, <2>3, <2>4, <2>5, LastCounts
  <2>7. CASE args[i].is = "option="
    BY <2>4, <2>6, <2>7, Zenon DEF TakenAt
  <2>8. CASE args[i].is # "option="
    <3>1. PICK m \in Nat : /\ i + m <= Len(args)
                           /\ \A k \in 1..m : ValueAt(args, i + k)
                           /\ ~ValueAt(args, i + m + 1)
      BY <2>2, RunExists
    <3> DEFINE Moved(k) == i + k \in others /\ where[i + k] = p + k
               Unmoved == {k \in Nat : k <= m /\ ~Moved(k)}
    <3>2. Unmoved = {}
      <4>1. SUFFICES ASSUME Unmoved # {} PROVE FALSE
        OBVIOUS
      <4>2. PICK k \in Unmoved : \A n \in Unmoved : k <= n
        <5>1. Unmoved \subseteq Nat
          OBVIOUS
        <5> HIDE DEF Unmoved
        <5>2. QED
          BY <4>1, <5>1, Least
      <4>3. k \in 0..m /\ ~Moved(k)
        BY <4>2
      <4>4. k # 0
        <5>1. i + 0 = i /\ p + 0 = p
          BY <2>2, <2>4
        <5>2. Moved(0)
          BY <2>2, <5>1 DEF p
        <5>3. QED
          BY <4>3, <5>2
      <4>5. k - 1 \in Nat /\ k - 1 <= m /\ k \in 1..m
        BY <4>3, <4>4
      <4>6. Moved(k - 1)
        <5>1. k - 1 \notin Unmoved
          <6>1. \A n \in Unmoved : n >= k
            BY <4>2
          <6> HIDE DEF Unmoved
          <6>2. QED
            BY <4>5, <6>1
        <5>2. QED
          BY <4>5, <5>1
      <4> DEFINE h == i + (k - 1)
      <4>7. h \in others /\ where[h] = p + (k - 1) /\ h + 1 = i + k /\ p + (k - 1) + 1 = p + k
        BY <2>2, <2>4, <4>5, <4>6
      <4>8. ValueAt(args, h + 1)
        BY <3>1, <4>5, <4>7
      <4> HIDE DEF h
      <4>9. h + 1 \in others /\ where[h + 1] = where[h] + 1
        BY <1>6, <1>8, <4>7, <4>8
      <4>10. QED
        BY <4>3, <4>7, <4>9
    <3>3. \A k \in 0..m : Moved(k)
      <4>1. \A k \in 0..m : k \in Nat /\ k <= m
        OBVIOUS
      <4>2. QED
        BY <3>2, <4>1, Zenon
    <3>4. \A k \in 0..m : /\ i + k \in others /\ where[i + k] = p + k
                          /\ p + k \in 1..Len(edited) /\ edited[p + k] = args[i + k]
      BY <1>3, <3>3
    <3>5. \A k \in 1..m : ValueAt(edited, p + k) /\ edited[p + k] = args[i + k]
      <4>1. TAKE k \in 1..m
      <4>2. k \in 0..m /\ ValueAt(args, i + k)
        BY <3>1
      <4>3. QED
        BY <1>1, <3>4, <4>2 DEF ValueAt
    <3>6. /\ m \in 0..m /\ i + m \in others /\ where[i + m] = p + m
          /\ p + m \in 1..Len(out) /\ p + m <= Len(edited)
      <4>1. m \in 0..m
        OBVIOUS
      <4>2. i + m \in others /\ where[i + m] = p + m
        BY <3>4, <4>1
      <4>3. p + m \in 1..Len(out)
        BY <1>2, <4>2
      <4>4. QED
        BY <1>1, <4>1, <4>2, <4>3
    <3>7. ~ValueAt(edited, p + m + 1)
      <4>1. SUFFICES ASSUME ValueAt(edited, p + m + 1) PROVE FALSE
        OBVIOUS
      <4>2. p + m # Len(out)
        BY <4>1
      <4>3. p + m + 1 \in 1..Len(out)
        BY <1>1, <2>4, <3>6, <4>2
      <4> DEFINE l == i + m
                 q == p + m
      <4>4. /\ l \in others /\ where[l] = q /\ l \in Nat /\ q \in Nat
            /\ q + 1 \in 1..Len(out) /\ ValueAt(edited, q + 1) /\ ~ValueAt(args, l + 1)
        <5>1. l \in Nat /\ q \in Nat
          BY <1>1, <2>2, <2>4
        <5>2. l \in others /\ where[l] = q
          BY <3>6
        <5>3. q + 1 \in 1..Len(out) /\ ValueAt(edited, q + 1)
          BY <4>1, <4>3
        <5>4. ~ValueAt(args, l + 1)
          BY <3>1
        <5>5. QED
          BY <5>1, <5>2, <5>3, <5>4, Zenon
      <4> HIDE DEF l, q
      <4>5. PICK j \in others : where[j] = q + 1 /\ edited[q + 1] = args[j]
        BY <1>3, <4>4
      <4>6. ValueAt(args, j) /\ j \in Nat
        BY <1>1, <4>4, <4>5 DEF ValueAt
      <4>7. l < j
        BY <1>9, <4>4, <4>5
      <4>8. j > 1 /\ j - 1 \in Nat /\ j - 1 + 1 = j
        BY <1>1, <4>4, <4>6, <4>7
      <4> DEFINE h == j - 1
      <4>9. h \in others /\ h + 1 = j
        BY <1>7, <4>6, <4>8
      <4> HIDE DEF h
      <4>10. q + 1 = where[h] + 1 /\ where[h] \in Nat
        <5>1. where[h + 1] = where[h] + 1
          BY <1>6, <4>9
        <5>2. where[h] \in 1..Len(out)
          BY <1>2, <4>9
        <5>3. QED
          BY <4>5, <4>9, <5>1, <5>2
      <4>11. where[h] = q
        BY <4>4, <4>10
      <4>12. h = l
        BY <1>9, <4>4, <4>9, <4>11
      <4>13. QED
        BY <4>4, <4>6, <4>9, <4>12
    <3>8. TakenAt(args, i) = [k \in 1..m |-> args[i + k].value]
      BY <2>2, <2>8, <3>1, RunIsTaken
    <3>9. TakenAt(edited, p) = [k \in 1..m |-> edited[p + k].value]
      <4>1. \A k \in 1..m : ValueAt(edited, p + k)
        BY <3>5
      <4>2. edited[p].is # "option=" /\ p + m <= Len(edited)
        BY <2>4, <2>8, <3>6
      <4>3. QED
        <5>1. edited \in Seq(Tokens) /\ m \in Nat /\ p \in 1..Len(edited)
          BY <2>4
        <5> HIDE DEF Moved, Unmoved
        <5>2. QED
          BY <3>7, <4>1, <4>2, <5>1, RunIsTaken
    <3>10. QED
      BY <2>6, <3>5, <3>8, <3>9
  <2>9. QED
    BY <2>7, <2>8
<1>12. QED
  BY <1>10, <1>11
\* A flag that is written once, with no more values than its spelling has room
\* for, reads as what the engine takes.
LEMMA OnceAgrees ==
    ASSUME NEW args \in Seq(Tokens), NEW f, SingleValued(args, f), WrittenOnce(args, f)
    PROVE  Agrees(args, f)
<1>1. DOMAIN args = 1..Len(args) /\ Len(args) \in Nat
  OBVIOUS
<1>2. \A v \in Values : v # None
  BY ConfigAssumption
<1>3. CASE \A i \in 1..Len(args) : ~IsOf(args[i], f)
  <2>1. Flag(args, f) = None /\ TakenFor(args, f) = None
    BY <1>3, FirstCounts, LastCounts
  <2>2. QED
    BY <2>1, ConfigAssumption DEF Agrees
<1>4. CASE \E i \in 1..Len(args) : IsOf(args[i], f)
  <2>1. PICK i \in 1..Len(args) : IsOf(args[i], f)
    BY <1>4
  <2>2. \A j \in 1..Len(args) : IsOf(args[j], f) => j = i
    BY <1>1, <2>1, Zenon DEF WrittenOnce
  <2>3. /\ Flag(args, f) = IF args[i] = Opt(f) /\ ValueAt(args, i + 1)
                           THEN args[i + 1].value ELSE args[i].value
        /\ TakenFor(args, f) = TakenAt(args, i)
    <3>1. /\ \A j \in 1..(i - 1) : ~IsOf(args[j], f)
          /\ \A j \in (i + 1)..Len(args) : ~IsOf(args[j], f)
      BY <1>1, <2>2
    <3>2. QED
      BY <2>1, <3>1, FirstCounts, LastCounts
  <2>4. ValueAt(args, i + 1) => args[i] = Opt(f) /\ ~ValueAt(args, i + 2)
    BY <1>1, <2>1 DEF SingleValued
  <2>5. args[i] \in Tokens /\ args[i].is # "value" /\ args[i].flag = f
    BY <2>1 DEF IsOf
  <2>6. CASE args[i].is = "option="
    <3>1. args[i].value \in Values
      BY <2>5, <2>6, TokenKinds
    <3>2. args[i] # Opt(f)
      BY <2>6, OptionIsOf
    <3>3. Flag(args, f) = args[i].value /\ TakenFor(args, f) = <<args[i].value>>
      BY <2>3, <2>6, <3>2, Zenon DEF TakenAt
    <3>4. QED
      BY <1>2, <3>1, <3>3 DEF Agrees
  <2>7. CASE args[i].is # "option="
    <3>1. args[i] = Opt(f) /\ args[i].value = ""
      BY <2>5, <2>7, TokenKinds
    <3>2. CASE ValueAt(args, i + 1)
      <4> DEFINE v == args[i + 1].value
      <4>1. v \in Values /\ i + 1 <= Len(args)
        <5>1. i + 1 \in 1..Len(args) /\ args[i + 1].is = "value"
          BY <1>1, <3>2 DEF ValueAt
        <5>2. args[i + 1] \in Tokens
          BY <5>1
        <5>3. args[i + 1].value \in Values
          BY <5>1, <5>2, TokenKinds, Zenon
        <5>4. QED
          BY <1>1, <5>1, <5>3
      <4>2. Flag(args, f) = v
        BY <2>3, <3>1, <3>2, Zenon
      <4>3. TakenAt(args, i) = [k \in 1..1 |-> args[i + k].value]
        <5>1. i + 1 + 1 = i + 2 /\ \A k \in 1..1 : k = 1
          OBVIOUS
        <5>2. ~ValueAt(args, i + 1 + 1) /\ \A k \in 1..1 : ValueAt(args, i + k)
          BY <2>4, <3>2, <5>1
        <5>3. QED
          BY <2>7, <4>1, <5>2, RunIsTaken
      <4>4. [k \in 1..1 |-> args[i + k].value] = <<v>>
        OBVIOUS
      <4>5. TakenFor(args, f) = <<v>>
        BY <2>3, <4>3, <4>4
      <4> HIDE DEF v
      <4>6. QED
        BY <1>2, <4>1, <4>2, <4>5 DEF Agrees
    <3>3. CASE ~ValueAt(args, i + 1)
      <4>1. Flag(args, f) = ""
        BY <2>3, <3>1, <3>3, Zenon
      <4>2. TakenAt(args, i) = [k \in 1..0 |-> args[i + k].value]
        <5>1. i + 0 + 1 = i + 1 /\ i + 0 <= Len(args) /\ 1..0 = {}
          BY <1>1
        <5>2. ~ValueAt(args, i + 0 + 1) /\ \A k \in 1..0 : ValueAt(args, i + k)
          BY <3>3, <5>1
        <5>3. QED
          BY <2>7, <5>1, <5>2, RunIsTaken
      <4>3. [k \in 1..0 |-> args[i + k].value] = <<>>
        OBVIOUS
      <4>4. TakenFor(args, f) = <<>>
        BY <2>3, <4>2, <4>3
      <4>5. None # ""
        BY ConfigAssumption
      <4>6. QED
        BY <4>1, <4>4, <4>5 DEF Agrees
    <3>4. QED
      BY <3>2, <3>3
  <2>8. QED
    BY <2>6, <2>7
<1>5. QED
  BY <1>3, <1>4

-----------------------------------------------------------------------------
\* Nothing that is left is of the flag.
LEMMA NoneLeft ==
    ASSUME NEW args \in Seq(Tokens), NEW f, NEW out \in Seq(Tokens), NEW where,
           Leftover(out, args, Occurrences(args, f), where)
    PROVE  \A k \in 1..Len(out) : ~IsOf(out[k], f)
<1>1. TAKE k \in 1..Len(out)
<1>2. PICK i \in (1..Len(args)) \ Occurrences(args, f) : where[i] = k /\ out[k] = args[i]
  <2>1. PICK i \in (1..Len(args)) \ Occurrences(args, f) : where[i] = k
    BY DEF Leftover
  <2>2. QED
    BY <2>1 DEF Leftover
<1>3. QED
  BY <1>2, OccurrenceIs

\* The tokens after an edit.
LEMMA EditedIs ==
    ASSUME NEW args \in Seq(Tokens), NEW f \in Flags, NEW v \in Values \cup {None},
           NEW out \in Seq(Tokens), out = Without(args, Occurrences(args, f)),
           NEW edited, edited = WithArgs(args, f, v)
    PROVE  /\ edited \in Seq(Tokens)
           /\ \A k \in 1..Len(out) : edited[k] = out[k]
           /\ v = None => edited = out
           /\ v # None => /\ Len(edited) = Len(out) + 2
                          /\ edited[Len(out) + 1] = Opt(f)
                          /\ edited[Len(out) + 2] = Val(v)
<1>1. CASE v = None
  <2>1. edited = out \o <<>>
    BY <1>1 DEF WithArgs
  <2>2. edited = out
    BY <2>1
  <2>3. QED
    BY <1>1, <2>2
<1>2. CASE v # None
  <2>1. edited = out \o <<Opt(f), Val(v)>>
    BY <1>2 DEF WithArgs
  <2>2. Opt(f) \in Tokens /\ Val(v) \in Tokens
    BY <1>2 DEF Tokens
  <2>3. <<Opt(f), Val(v)>> \in Seq(Tokens)
    BY <2>2
  <2> DEFINE o == Opt(f)
             w == Val(v)
  <2> HIDE DEF o, w
  <2>4. edited = out \o <<o, w>> /\ <<o, w>> \in Seq(Tokens)
    BY <2>1, <2>3 DEF o, w
  <2>5. /\ edited \in Seq(Tokens) /\ \A k \in 1..Len(out) : edited[k] = out[k]
        /\ Len(edited) = Len(out) + 2
        /\ edited[Len(out) + 1] = o /\ edited[Len(out) + 2] = w
    BY <2>4
  <2>6. QED
    BY <1>2, <2>5 DEF o, w
<1>3. QED
  BY <1>1, <1>2

\* with_args() writes the flag once, or not at all.
LEMMA EditedAgrees ==
    ASSUME NEW args \in Seq(Tokens), NEW f \in Flags, NEW v \in Values \cup {None},
           NEW edited, edited = WithArgs(args, f, v)
    PROVE  Flag(edited, f) = v /\ Agrees(edited, f)
<1> DEFINE out == Without(args, Occurrences(args, f))
<1>1. out \in Seq(Tokens) /\ \E where : Leftover(out, args, Occurrences(args, f), where)
  BY WithoutKeeps
<1>2. /\ edited \in Seq(Tokens)
      /\ \A k \in 1..Len(out) : edited[k] = out[k]
      /\ v = None => edited = out
      /\ v # None => /\ Len(edited) = Len(out) + 2
                     /\ edited[Len(out) + 1] = Opt(f)
                     /\ edited[Len(out) + 2] = Val(v)
  BY <1>1, EditedIs
<1>3. \A k \in 1..Len(out) : ~IsOf(edited[k], f)
  BY <1>1, <1>2, NoneLeft
<1> HIDE DEF out
<1>4. Len(out) \in Nat /\ DOMAIN edited = 1..Len(edited) /\ Len(edited) \in Nat
  BY <1>1, <1>2
<1>5. CASE v = None
  <2>1. \A k \in 1..Len(edited) : ~IsOf(edited[k], f)
    BY <1>2, <1>3, <1>5
  <2>2. SingleValued(edited, f) /\ WrittenOnce(edited, f)
    BY <1>4, <2>1, Zenon DEF SingleValued, WrittenOnce
  <2>3. Flag(edited, f) = None
    BY <1>2, <2>1, FirstCounts
  <2>4. QED
    BY <1>2, <1>5, <2>2, <2>3, OnceAgrees
<1>6. CASE v # None
  <2> DEFINE i == Len(out) + 1
  <2>1. i \in 1..Len(edited) /\ i + 1 \in 1..Len(edited) /\ i + 2 \notin 1..Len(edited)
    BY <1>2, <1>4, <1>6
  <2>2. /\ edited[i] = Opt(f) /\ IsOf(edited[i], f)
        /\ edited[i + 1].is = "value" /\ edited[i + 1].value = v /\ ~IsOf(edited[i + 1], f)
    <3>1. i + 1 = Len(out) + 2
      BY <1>4
    <3>2. edited[i] = Opt(f) /\ edited[i + 1] = Val(v)
      BY <1>2, <1>6, <3>1
    <3>3. Val(v).is = "value" /\ Val(v).value = v
      BY DEF Val
    <3>4. QED
      BY <3>2, <3>3, OptionIsOf, Zenon DEF IsOf
  <2>3. \A k \in 1..Len(edited) : k \in 1..Len(out) \/ k = i \/ k = i + 1
    BY <1>2, <1>4, <1>6
  <2>4. \A k \in 1..(i - 1) : k \in 1..Len(out)
    BY <1>4
  <2> HIDE DEF i
  <2>5. ValueAt(edited, i + 1) /\ ~ValueAt(edited, i + 2)
    BY <1>4, <2>1, <2>2, Zenon DEF ValueAt
  <2>6. \A k \in 1..Len(edited) : IsOf(edited[k], f) => k = i
    BY <1>3, <2>2, <2>3
  <2>7. SingleValued(edited, f)
    BY <1>4, <2>2, <2>5, <2>6, Zenon DEF SingleValued
  <2>8. WrittenOnce(edited, f)
    BY <1>4, <2>6, Zenon DEF WrittenOnce
  <2>9. \A k \in 1..(i - 1) : ~IsOf(edited[k], f)
    BY <1>3, <2>4
  <2>10. Flag(edited, f) = v
    BY <1>2, <2>1, <2>2, <2>5, <2>9, FirstCounts
  <2>11. QED
    BY <1>2, <2>7, <2>8, <2>10, OnceAgrees
<1>7. QED
  BY <1>5, <1>6

\* An edit of any argument list is what the engine sees of it: flag() reads a flag
\* that is written once as the engine takes it, with_args() leaves the flag with
\* the value it was given, as both read it, and every other flag with what the
\* engine took before (config.py:61-103).
THEOREM EditsMeanTheSame ==
    ASSUME NEW args \in Seq(Tokens), NEW f \in Flags PROVE EditsAgree(args, f)
<1>1. SUFFICES ASSUME SingleValued(args, f) PROVE EditsAgree(args, f)
  BY DEF EditsAgree
<1>2. WrittenOnce(args, f) => Agrees(args, f)
  BY <1>1, OnceAgrees
<1>3. ASSUME NEW v \in Values \cup {None}, NEW edited, edited = WithArgs(args, f, v)
      PROVE  Flag(edited, f) = v /\ Agrees(edited, f)
  BY <1>3, EditedAgrees
<1>4. ASSUME NEW v \in Values \cup {None}, NEW g \in Flags \ {f},
             NEW edited, edited = WithArgs(args, f, v)
      PROVE  TakenFor(edited, g) = TakenFor(args, g)
  <2> DEFINE out == Without(args, Occurrences(args, f))
  <2>1. out \in Seq(Tokens) /\ \E where : Leftover(out, args, Occurrences(args, f), where)
    BY WithoutKeeps
  <2>2. /\ edited \in Seq(Tokens)
        /\ \A k \in 1..Len(out) : edited[k] = out[k]
        /\ v = None => edited = out
        /\ v # None => /\ Len(edited) = Len(out) + 2
                       /\ edited[Len(out) + 1] = Opt(f)
                       /\ edited[Len(out) + 2] = Val(v)
    BY <1>4, <2>1, EditedIs
  <2> HIDE DEF out
  <2>3. PICK where : Leftover(out, args, Occurrences(args, f), where)
    BY <2>1
  <2>4. /\ Len(out) \in Nat /\ DOMAIN edited = 1..Len(edited) /\ Len(edited) \in Nat
        /\ Len(out) <= Len(edited)
    BY <2>1, <2>2
  <2>5. ~ValueAt(edited, Len(out) + 1)
    <3>1. CASE v = None
      <4>1. Len(out) + 1 \notin DOMAIN edited
        BY <2>2, <2>4, <3>1
      <4>2. QED
        BY <4>1 DEF ValueAt
    <3>2. CASE v # None
      <4>1. edited[Len(out) + 1].is = "option"
        BY <2>2, <3>2, OptionIsOf
      <4>2. QED
        BY <4>1 DEF ValueAt
    <3>3. QED
      BY <3>1, <3>2
  <2>6. ASSUME NEW k \in (Len(out) + 1)..Len(edited) PROVE ~IsOf(edited[k], g)
    <3>1. CASE v = None
      BY <2>2, <2>4, <3>1
    <3>2. CASE v # None
      <4>1. k = Len(out) + 1 \/ k = Len(out) + 2
        BY <2>2, <2>4, <3>2
      <4>2. ~IsOf(Opt(f), g) /\ ~IsOf(Val(v), g)
        <5>1. Opt(f).flag = f /\ Val(v).is = "value"
          BY DEF Opt, Val
        <5>2. QED
          BY <5>1, Zenon DEF IsOf
      <4>3. QED
        BY <2>2, <3>2, <4>1, <4>2
    <3>3. QED
      BY <3>1, <3>2
  <2>7. g # f /\ (\A k \in (Len(out) + 1)..Len(edited) : ~IsOf(edited[k], g))
    BY <2>6
  <2>8. /\ out \in Seq(Tokens) /\ edited \in Seq(Tokens) /\ Len(out) <= Len(edited)
        /\ \A k \in 1..Len(out) : edited[k] = out[k]
    BY <2>1, <2>2, <2>4, Zenon
  <2>9. QED
    BY <1>1, <2>3, <2>5, <2>7, <2>8, OthersKeep
<1>5. QED
  BY <1>1, <1>2, <1>3, <1>4 DEF EditsAgree

-----------------------------------------------------------------------------
LEMMA PortlessType ==
    ASSUME NEW args \in Seq(Tokens) PROVE Portless(args) \in Seq(Tokens)
<1> DEFINE j == SelectInSeq(args, LAMBDA arg : arg = Opt("port"))
           I == {i \in 1..Len(args) : args[i] = Opt("port")}
<1>1. Len(args) \in Nat /\ DOMAIN args = 1..Len(args) /\ \A i \in 1..Len(args) : args[i] \in Tokens
  OBVIOUS
<1>2. CASE I = {}
  <2>1. Portless(args) = args
    BY <1>1, <1>2 DEF Portless
  <2>2. QED
    BY <2>1
<1>3. CASE I # {}
  <2>1. j = Min(I)
    BY <1>3 DEF SelectInSeq
  <2>2. I \subseteq 1..Len(args) /\ I \subseteq Nat
    OBVIOUS
  <2>3. j \in I
    <3> HIDE DEF I, j
    <3>1. \E i \in I : \A k \in I : i <= k
      BY <1>3, <2>2, Least
    <3>2. Min(I) \in I
      BY <3>1 DEF Min
    <3>3. QED
      BY <2>1, <3>2
  <2>4. j \in 1..Len(args) /\ args[j] = Opt("port")
    BY <2>3
  <2>5. Portless(args) = SubSeq(args, 1, j - 1) \o SubSeq(args, j + 2, Len(args))
    <3>1. \E i \in DOMAIN args : args[i] = Opt("port")
      BY <1>1, <2>4
    <3>2. QED
      BY <3>1, Zenon DEF Portless
  <2> HIDE DEF j
  <2>6. SubSeq(args, 1, j - 1) \in Seq(Tokens)
    <3>1. 1 \in Int /\ j - 1 \in Int /\ \A i \in 1..(j - 1) : args[i] \in Tokens
      BY <1>1, <2>4
    <3>2. QED
      BY <3>1, SubSeqProperties
  <2>7. SubSeq(args, j + 2, Len(args)) \in Seq(Tokens)
    <3>1. /\ j + 2 \in Int /\ Len(args) \in Int
          /\ \A i \in (j + 2)..Len(args) : args[i] \in Tokens
      BY <1>1, <2>4
    <3>2. QED
      BY <3>1, SubSeqProperties
  <2>8. QED
    BY <2>5, <2>6, <2>7
<1>4. QED
  BY <1>2, <1>3

\* The arguments of a configuration are those of its line, the port taken away.
LEMMA Imported ==
    ASSUME ParseInv, NEW c \in Latest
    PROVE  /\ script[c.line].args \in Seq(Tokens) /\ c.args \in Seq(Tokens)
           /\ c.args = Portless(script[c.line].args)
<1>1. PICK S : configs \in Seq(S)
  BY DEF ParseInv
<1>2. PICK i \in 1..Len(configs) : configs[i] = c
  BY <1>1 DEF Latest, Range
<1>3. /\ c.line \in 1..Len(script) /\ script[c.line].is = "serve"
      /\ c.args = Portless(script[c.line].args)
  BY <1>2 DEF ParseInv, ComesFrom
<1>4. script[c.line] \in Lines
  BY <1>3 DEF ParseInv
<1>5. script[c.line].args \in Seq(Tokens)
  BY <1>3, <1>4, ShellAssumption
<1>6. QED
  BY <1>3, <1>5, PortlessType

\* In every configuration that is imported, flags mean the same to this program
\* and to the engine, and do so after any edit of one of them (config.py:61-103).
THEOREM FlagsMeanTheSame == ParseSpec => []FlagsAgree
<1>1. ParseInv => FlagsAgree
  <2>1. SUFFICES ASSUME ParseInv, NEW c \in Latest, NEW f \in Flags PROVE EditsAgree(c.args, f)
    BY DEF FlagsAgree
  <2>2. c.args \in Seq(Tokens)
    BY <2>1, Imported
  <2>3. QED
    BY <2>2, EditsMeanTheSame
<1>2. QED
  BY <1>1, ParseInvariant, PTL

-----------------------------------------------------------------------------
\* Of arguments that pin the port as "--port N", or do not pin it, what stays is
\* what is neither "--port" nor its value.
LEMMA PinIsCut ==
    ASSUME NEW args \in Seq(Tokens), PinnedOnce(args), ~PinnedInOne(args)
    PROVE  \E where : Leftover(Portless(args), args, Occurrences(args, "port"), where)
<1> DEFINE Pin(i) == args[i] = Opt("port")
<1>1. Len(args) \in Nat /\ DOMAIN args = 1..Len(args)
  OBVIOUS
<1>2. \A i \in 1..Len(args) : IsOf(args[i], "port") <=> Pin(i)
  BY <1>1, OptionIsOf DEF PinnedInOne
<1>3. \A i \in 1..Len(args) : Pin(i) => ValueAt(args, i + 1)
  BY <1>1, <1>2 DEF PinnedOnce
<1>4. \A i, j \in 1..Len(args) : Pin(i) /\ Pin(j) => i = j
  BY <1>1, <1>2, Zenon DEF PinnedOnce, WrittenOnce
<1>5. \A i \in 1..Len(args) : i \in Occurrences(args, "port")
        <=> Pin(i) \/ (i - 1 \in 1..Len(args) /\ Pin(i - 1))
  <2>1. TAKE i \in 1..Len(args)
  <2>2. CASE args[i].is = "value"
    <3>1. ~Pin(i)
      BY <2>2, OptionIsOf
    <3>2. QED
      BY <2>2, <3>1, OccurrenceIs
  <2>3. CASE args[i].is # "value"
    <3>1. i \in Occurrences(args, "port") <=> Pin(i)
      BY <1>2, <2>3, OccurrenceIs DEF IsOf
    <3>2. ~(i - 1 \in 1..Len(args) /\ Pin(i - 1))
      <4>1. i - 1 + 1 = i
        OBVIOUS
      <4>2. QED
        BY <1>3, <2>3, <4>1 DEF ValueAt
    <3>3. QED
      BY <3>1, <3>2
  <2>4. QED
    BY <2>2, <2>3
<1>6. CASE \A i \in 1..Len(args) : ~Pin(i)
  <2>1. Portless(args) = args
    BY <1>1, <1>6 DEF Portless
  <2>2. (1..Len(args)) \ Occurrences(args, "port") = 1..Len(args)
    BY <1>5, <1>6
  <2> DEFINE where == [i \in 1..Len(args) |-> i]
  <2>3. Leftover(args, args, Occurrences(args, "port"), where)
    BY <1>1, <2>2 DEF Leftover
  <2>4. QED
    BY <2>1, <2>3, Zenon
<1>7. CASE \E i \in 1..Len(args) : Pin(i)
  <2>1. PICK j \in 1..Len(args) : Pin(j)
    BY <1>7
  <2>2. \A i \in 1..Len(args) : Pin(i) <=> i = j
    BY <1>4, <2>1
  <2>3. j + 1 <= Len(args) /\ j \in Nat
    BY <1>1, <1>3, <2>1 DEF ValueAt
  <2> DEFINE n == Len(args)
             others == (1..n) \ Occurrences(args, "port")
             out == Portless(args)
             front == SubSeq(args, 1, j - 1)
             back == SubSeq(args, j + 2, n)
  <2>4. \A i : i \in others <=> i \in 1..n /\ i # j /\ i # j + 1
    BY <1>1, <1>5, <2>2, <2>3
  <2>5. out = front \o back
    <3>1. \E i \in DOMAIN args : Pin(i)
      BY <1>1, <2>1
    <3>2. SelectInSeq(args, LAMBDA arg : arg = Opt("port")) = j
      <4> DEFINE I == {i \in 1..Len(args) : Pin(i)}
      <4>1. I = {j}
        BY <2>2
      <4>2. SelectInSeq(args, LAMBDA arg : arg = Opt("port")) = IF I # {} THEN Min(I) ELSE 0
        BY DEF SelectInSeq
      <4>3. Min({j}) = j
        <5>1. \E x \in {j} : \A y \in {j} : x <= y
          BY <2>3
        <5>2. QED
          BY <5>1 DEF Min
      <4>4. QED
        BY <4>1, <4>2, <4>3
    <3>3. QED
      BY <3>1, <3>2, Zenon DEF Portless
  <2>6. /\ front \in Seq(Tokens) /\ Len(front) = j - 1
        /\ \A i \in 1..(j - 1) : front[i] = args[i]
        /\ back \in Seq(Tokens) /\ Len(back) = n - j - 1
        /\ \A i \in 1..(n - j - 1) : back[i] = args[i + j + 1]
    <3>1. \A i \in 1..n : args[i] \in Tokens
      OBVIOUS
    <3>2. \A i \in 1..(j - 1) : args[i] \in Tokens
      BY <1>1, <2>3, <3>1
    <3>3. \A i \in (j + 2)..n : args[i] \in Tokens
      BY <1>1, <2>3, <3>1
    <3>4. /\ 1 \in Int /\ j - 1 \in Int /\ j + 2 \in Int /\ n \in Int
          /\ j - 1 - 1 + 1 = j - 1 /\ n - (j + 2) + 1 = n - j - 1
          /\ \A i \in Int : 1 + i - 1 = i /\ j + 2 + i - 1 = i + j + 1
      BY <1>1, <2>3
    <3>5. /\ front \in Seq(Tokens)
          /\ Len(front) = IF 1 <= j - 1 THEN j - 1 - 1 + 1 ELSE 0
          /\ \A i \in 1..(j - 1 - 1 + 1) : front[i] = args[1 + i - 1]
      BY <3>2, <3>4, SubSeqProperties
    <3>6. /\ back \in Seq(Tokens)
          /\ Len(back) = IF j + 2 <= n THEN n - (j + 2) + 1 ELSE 0
          /\ \A i \in 1..(n - (j + 2) + 1) : back[i] = args[j + 2 + i - 1]
      BY <3>3, <3>4, SubSeqProperties
    <3> HIDE DEF front, back, n
    <3>7. Len(front) = j - 1 /\ Len(back) = n - j - 1
      <4>1. /\ 1 <= j - 1 => j - 1 - 1 + 1 = j - 1
            /\ ~(1 <= j - 1) => j - 1 = 0
            /\ ~(j + 2 <= n) => n - j - 1 = 0
        <5>1. j \in Nat /\ n \in Nat /\ j >= 1 /\ j + 1 <= n
          BY <1>1, <2>3 DEF n
        <5>2. QED
          BY <5>1
      <4>2. QED
        BY <3>4, <3>5, <3>6, <4>1
    <3>8. ASSUME NEW i \in 1..(j - 1) PROVE front[i] = args[i]
      <4>1. i \in 1..(j - 1 - 1 + 1) /\ 1 + i - 1 = i
        BY <2>3
      <4>2. QED
        BY <3>5, <4>1
    <3>9. ASSUME NEW i \in 1..(n - j - 1) PROVE back[i] = args[i + j + 1]
      <4>1. i \in 1..(n - (j + 2) + 1) /\ j + 2 + i - 1 = i + j + 1
        BY <2>3, <3>4
      <4>2. QED
        BY <3>6, <4>1
    <3>10. QED
      BY <3>5, <3>6, <3>7, <3>8, <3>9, Zenon
  <2>7. /\ Len(out) = n - 2 /\ n - 2 \in Nat
        /\ \A i \in 1..(j - 1) : out[i] = args[i]
        /\ \A i \in j..(n - 2) : out[i] = args[i + 2]
    <3> HIDE DEF front, back, n, out
    <3>1. n \in Nat /\ j + 1 <= n
      BY <1>1, <2>3 DEF n
    <3>2. /\ Len(out) = n - 2
          /\ \A i \in 1..(j - 1) : out[i] = front[i]
          /\ \A i \in j..(n - 2) : out[i] = back[i - j + 1]
      <4>1. /\ Len(out) = Len(front) + Len(back)
            /\ \A i \in 1..(Len(front) + Len(back)) :
                  out[i] = IF i <= Len(front) THEN front[i] ELSE back[i - Len(front)]
        BY <2>5, <2>6, ConcatProperties
      <4>2. \A i \in 1..(j - 1) : i \in 1..(j - 1 + (n - j - 1)) /\ i <= j - 1
        BY <2>3, <3>1
      <4>3. \A i \in j..(n - 2) : /\ i \in 1..(j - 1 + (n - j - 1))
                                  /\ ~(i <= j - 1) /\ i - (j - 1) = i - j + 1
        BY <2>3, <3>1
      <4>4. j - 1 + (n - j - 1) = n - 2
        BY <2>3, <3>1
      <4>5. QED
        BY <2>6, <4>1, <4>2, <4>3, <4>4
    <3>3. \A i \in j..(n - 2) : i - j + 1 \in 1..(n - j - 1) /\ i - j + 1 + j + 1 = i + 2
      BY <2>3, <3>1
    <3>4. QED
      BY <2>3, <2>6, <3>1, <3>2, <3>3
  <2> DEFINE where == [i \in others |-> IF i < j THEN i ELSE i - 2]
  <2> HIDE DEF others, out
  <2>8. \A i \in others : where[i] = IF i < j THEN i ELSE i - 2
    OBVIOUS
  <2>9. where \in [others -> 1..Len(out)]
    <3>1. \A i \in others : where[i] \in 1..Len(out)
      BY <1>1, <2>3, <2>4, <2>7, <2>8
    <3>2. QED
      BY <3>1
  <2> HIDE DEF where
  <2>10. \A i, k \in others : i < k => where[i] < where[k]
    BY <1>1, <2>3, <2>4, <2>8
  <2>11. \A i \in others : out[where[i]] = args[i]
    <3>1. TAKE i \in others
    <3>2. CASE i < j
      BY <1>1, <2>3, <2>4, <2>7, <2>8, <3>2
    <3>3. CASE i > j + 1
      <4>1. i - 2 \in j..(n - 2) /\ i - 2 + 2 = i /\ where[i] = i - 2
        BY <1>1, <2>3, <2>4, <2>8, <3>3
      <4>2. QED
        BY <2>7, <4>1
    <3>4. i \in Nat /\ i # j /\ i # j + 1
      BY <1>1, <2>4
    <3>5. i < j \/ i > j + 1
      BY <2>3, <3>4
    <3>6. QED
      BY <3>2, <3>3, <3>5
  <2>12. \A k \in 1..Len(out) : \E i \in others : where[i] = k
    <3>1. TAKE k \in 1..Len(out)
    <3>2. CASE k < j
      <4>1. k \in others /\ where[k] = k
        BY <1>1, <2>3, <2>4, <2>7, <2>8, <3>2
      <4>2. QED
        BY <4>1
    <3>3. CASE k >= j
      <4>1. k + 2 \in others /\ where[k + 2] = k
        BY <1>1, <2>3, <2>4, <2>7, <2>8, <3>3
      <4>2. QED
        BY <4>1
    <3>4. QED
      BY <2>3, <3>2, <3>3
  <2>13. Leftover(out, args, Occurrences(args, "port"), where)
    BY <2>9, <2>10, <2>11, <2>12 DEF Leftover, others
  <2>14. QED
    BY <2>13 DEF out
<1>8. QED
  BY <1>6, <1>7

\* The port that the supervisor gives comes first, before arguments that do not
\* begin with a value and have no port of their own.
LEMMA AssignedIsTaken ==
    ASSUME NEW args \in Seq(Tokens), ~ValueAt(args, 1),
           \A k \in 1..Len(args) : ~IsOf(args[k], "port"), NEW port
    PROVE  TakenFor(Argv(args, port), "port") = <<port>>
<1> DEFINE o == Opt("port")
           w == Val(port)
           S == Tokens \cup {o, w}
           argv == Argv(args, port)
<1>1. argv = <<o, w>> \o args
  BY DEF Argv
<1>2. IsOf(o, "port") /\ o.is = "option" /\ w.is = "value" /\ w.value = port
  BY OptionIsOf DEF Val
<1> HIDE DEF o, w, argv
<1>3. args \in Seq(S) /\ <<o, w>> \in Seq(S)
  OBVIOUS
<1> HIDE DEF S
<1>4. /\ argv \in Seq(S) /\ Len(argv) = Len(args) + 2 /\ argv[1] = o /\ argv[2] = w
      /\ \A k \in 3..Len(argv) : argv[k] = args[k - 2]
  BY <1>1, <1>3
<1>5. Len(args) \in Nat /\ DOMAIN argv = 1..Len(argv) /\ DOMAIN args = 1..Len(args)
  BY <1>4
<1>6. \A k \in 2..Len(argv) : ~IsOf(argv[k], "port")
  <2>1. TAKE k \in 2..Len(argv)
  <2>2. CASE k = 2
    BY <1>2, <1>4, <2>2 DEF IsOf
  <2>3. CASE k \in 3..Len(argv)
    <3>1. k - 2 \in 1..Len(args)
      BY <1>4, <1>5, <2>3
    <3>2. QED
      BY <1>4, <2>3, <3>1
  <2>4. QED
    BY <1>5, <2>2, <2>3
<1>7. TakenFor(argv, "port") = TakenAt(argv, 1)
  <2>1. 1 \in 1..Len(argv) /\ 1 + 1 = 2
    BY <1>4, <1>5
  <2>2. QED
    BY <1>2, <1>4, <1>6, <2>1, LastCounts
<1>8. TakenAt(argv, 1) = [k \in 1..1 |-> argv[1 + k].value]
  <2>1. /\ 1 \in 1..Len(argv) /\ 1 + 1 <= Len(argv) /\ 1 \in Nat /\ 1 + 1 + 1 = 3
        /\ \A k \in 1..1 : 1 + k = 2
    BY <1>4, <1>5
  <2>2. \A k \in 1..1 : ValueAt(argv, 1 + k)
    BY <1>2, <1>4, <1>5, <2>1 DEF ValueAt
  <2>3. ~ValueAt(argv, 3)
    <3>1. 3 \in 1..Len(argv) => 1 \in 1..Len(args) /\ argv[3] = args[1]
      BY <1>4, <1>5
    <3>2. QED
      BY <1>5, <3>1 DEF ValueAt
  <2>4. argv[1].is # "option="
    BY <1>2, <1>4
  <2>5. QED
    BY <1>4, <2>1, <2>2, <2>3, <2>4, RunIsTaken
<1>9. [k \in 1..1 |-> argv[1 + k].value] = <<port>>
  BY <1>2, <1>4
<1>10. QED
  BY <1>7, <1>8, <1>9 DEF argv

\* Of arguments that pin the port as "--port=N", nothing is cut.
LEMMA PinInOneStays ==
    ASSUME NEW args \in Seq(Tokens), PinnedOnce(args), PinnedInOne(args)
    PROVE  Portless(args) = args
<1>1. DOMAIN args = 1..Len(args)
  OBVIOUS
<1>2. PICK at \in 1..Len(args) : IsOf(args[at], "port") /\ args[at] # Opt("port")
  BY <1>1 DEF PinnedInOne
<1>3. \A i \in 1..Len(args) : args[i] # Opt("port")
  BY <1>1, <1>2, OptionIsOf DEF PinnedOnce, WrittenOnce
<1>4. QED
  BY <1>1, <1>3 DEF Portless

\* It is what the engine takes, for it comes behind the one that is assigned.
LEMMA PinInOneIsTaken ==
    ASSUME NEW args \in Seq(Tokens), PinnedOnce(args), PinnedInOne(args), NEW port \in Values
    PROVE  TakenFor(Argv(args, port), "port") = TakenFor(args, "port")
<1>1. Len(args) \in Nat /\ DOMAIN args = 1..Len(args) /\ \A i \in 1..Len(args) : args[i] \in Tokens
  OBVIOUS
<1>2. PICK at \in 1..Len(args) : IsOf(args[at], "port") /\ args[at] # Opt("port")
  BY <1>1 DEF PinnedInOne
<1>3. \A i \in 1..Len(args) : IsOf(args[i], "port") => i = at
  BY <1>1, <1>2 DEF PinnedOnce, WrittenOnce
<1>4. TakenFor(args, "port") = TakenAt(args, at)
  BY <1>1, <1>2, <1>3, LastCounts
<1> DEFINE o == Opt("port")
           w == Val(port)
           S == Tokens \cup {o, w}
           argv == Argv(args, port)
<1>5. argv = <<o, w>> \o args
  BY DEF Argv
<1> HIDE DEF o, w, argv
<1>6. args \in Seq(S) /\ <<o, w>> \in Seq(S)
  OBVIOUS
<1> HIDE DEF S
<1>7. /\ argv \in Seq(S) /\ Len(argv) = Len(args) + 2
      /\ \A k \in 1..Len(args) : argv[k + 2] = args[k]
  BY <1>1, <1>5, <1>6
<1>8. at + 2 \in 1..Len(argv) /\ argv[at + 2] = args[at]
  BY <1>1, <1>2, <1>7
<1>9. ASSUME NEW k \in (at + 2 + 1)..Len(argv) PROVE ~IsOf(argv[k], "port")
  <2>1. k - 2 \in 1..Len(args) /\ k - 2 # at /\ (k - 2) + 2 = k
    BY <1>1, <1>2, <1>7
  <2>2. QED
    BY <1>3, <1>7, <2>1
<1>10. TakenFor(argv, "port") = TakenAt(argv, at + 2)
  BY <1>2, <1>7, <1>8, <1>9, LastCounts
<1>11. args[at].is = "option="
  <2>1. args[at] \in Tokens
    BY <1>1
  <2>2. \/ \E f \in Flags : args[at] = Opt(f)
        \/ \E f \in Flags, v \in Values : args[at] = OptWith(f, v)
        \/ \E v \in Values : args[at] = Val(v)
    BY <2>1 DEF Tokens
  <2>3. args[at].is # "value" /\ args[at].flag = "port"
    BY <1>2 DEF IsOf
  <2>4. ASSUME NEW f, args[at] = Opt(f) PROVE FALSE
    <3>1. f = "port"
      <4>1. Opt(f).flag = f
        BY DEF Opt
      <4>2. QED
        BY <2>3, <2>4, <4>1, Zenon
    <3>2. QED
      BY <1>2, <2>4, <3>1, Zenon
  <2>5. \A v : Val(v).is = "value"
    BY DEF Val
  <2>6. \A f, v : OptWith(f, v).is = "option="
    BY DEF OptWith
  <2>7. QED
    BY <2>2, <2>3, <2>4, <2>5, <2>6, Zenon
<1>12. TakenAt(args, at) = <<args[at].value>> /\ TakenAt(argv, at + 2) = <<args[at].value>>
  BY <1>8, <1>11 DEF TakenAt
<1>13. QED
  BY <1>4, <1>10, <1>12 DEF argv

\* In every configuration that is imported from a script that pins its port once,
\* the engine takes the port it is assigned if the script spells it "--port N", and
\* the script's if it spells it "--port=N"; for every other flag it takes what the
\* script said (shell.py:213-219, config.py:39-42).
THEOREM PortsAreAssigned == ParseSpec => []PortIsAssigned
<1>1. ParseInv => PortIsAssigned
  <2>1. SUFFICES ASSUME ParseInv, NEW c \in Latest, PinnedOnce(script[c.line].args)
                 PROVE  /\ \A port \in Values : TakenFor(Argv(c.args, port), "port") =
                              IF PinnedInOne(script[c.line].args)
                              THEN TakenFor(script[c.line].args, "port") ELSE <<port>>
                        /\ \A f \in Flags \ {"port"} :
                              TakenFor(c.args, f) = TakenFor(script[c.line].args, f)
    BY DEF PortIsAssigned
  <2> DEFINE args == script[c.line].args
             out == c.args
  <2>2. args \in Seq(Tokens) /\ out \in Seq(Tokens) /\ out = Portless(args)
    BY <2>1, Imported
  <2>3. PinnedOnce(args)
    BY <2>1
  <2> HIDE DEF args, out
  <2>4. CASE PinnedInOne(args)
    <3>1. out = args
      BY <2>2, <2>3, <2>4, PinInOneStays
    <3>2. QED
      BY <2>2, <2>3, <2>4, <3>1, PinInOneIsTaken DEF args, out
  <2>5. CASE ~PinnedInOne(args)
    <3>1. PICK where : Leftover(out, args, Occurrences(args, "port"), where)
      BY <2>2, <2>3, <2>5, PinIsCut
    <3>2. \A k \in 1..Len(out) : ~IsOf(out[k], "port")
      BY <2>2, <3>1, NoneLeft
    <3>3. SingleValued(args, "port") /\ ~ValueAt(args, 1)
      BY <2>3 DEF PinnedOnce
    <3>4. ~ValueAt(out, 1)
      <4>1. SUFFICES ASSUME ValueAt(out, 1) PROVE FALSE
        OBVIOUS
      <4>2. 1 \in 1..Len(out) /\ out[1].is = "value"
        BY <2>2, <4>1 DEF ValueAt
      <4> DEFINE others == (1..Len(args)) \ Occurrences(args, "port")
      <4>3. /\ \A i, j \in others : i < j => where[i] < where[j]
            /\ \A i \in others : where[i] \in 1..Len(out) /\ out[where[i]] = args[i]
            /\ \E i \in others : where[i] = 1
        BY <3>1, <4>2 DEF Leftover
      <4>4. PICK i \in others : where[i] = 1
        BY <4>3
      <4>5. ValueAt(args, i) /\ i \in 1..Len(args)
        BY <2>2, <4>2, <4>3, <4>4 DEF ValueAt
      <4>6. i # 1
        BY <3>3, <4>5
      <4>7. i - 1 \in 1..Len(args) /\ i - 1 < i
        BY <2>2, <4>5, <4>6
      <4>8. i - 1 \in others
        BY <2>2, <3>3, <4>4, <4>5, <4>7, ValuesFollow
      <4> HIDE DEF others
      <4>9. where[i - 1] < 1 /\ where[i - 1] \in 1..Len(out)
        BY <4>3, <4>4, <4>7, <4>8
      <4>10. QED
        BY <4>9
    <3>5. \A port \in Values : TakenFor(Argv(out, port), "port") = <<port>>
      BY <2>2, <3>2, <3>4, AssignedIsTaken
    <3>6. ASSUME NEW f \in Flags \ {"port"} PROVE TakenFor(out, f) = TakenFor(args, f)
      <4>1. /\ Len(out) <= Len(out) /\ Len(out) + 1 \notin DOMAIN out
            /\ \A k \in (Len(out) + 1)..Len(out) : ~IsOf(out[k], f)
        BY <2>2
      <4>2. ~ValueAt(out, Len(out) + 1) /\ "port" # f
        BY <4>1 DEF ValueAt
      <4>3. QED
        BY <2>2, <3>1, <3>3, <4>1, <4>2, OthersKeep
    <3>7. QED
      BY <2>5, <3>5, <3>6 DEF args, out
  <2>6. QED
    BY <2>4, <2>5
<1>2. QED
  BY <1>1, ParseInvariant, PTL

=============================================================================
