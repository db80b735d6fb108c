------------------------------- MODULE Store -------------------------------
(***************************************************************************)
(* The Store of store/db.py, opened by several processes at once (a manager *)
(* that serves, commands that bring their own server), and those who call   *)
(* it: the configuration endpoints of api/app.py, the Manager's ledger, and *)
(* tests.  Each process has one connection, and its threads take turns at   *)
(* it: a method holds the store's lock from its first statement to its      *)
(* commit.  Between the statements of one process come those of others.     *)
(*                                                                         *)
(* sqlite, as this code uses it: a writing statement begins a transaction,  *)
(* which only commit() ends; one that violates a constraint, or gives up    *)
(* waiting for another process's lock, raises and leaves it open.  A read   *)
(* in a transaction has a snapshot, and a snapshot that is not the latest   *)
(* cannot be written from.                                                  *)
(*                                                                         *)
(* Abstracted: documents, timestamps, outcomes (see Manager), the several   *)
(* SELECTs of one look-up, and the events that are published (EventBus).  A *)
(* reference is an id; an id says which request made it, and for which of   *)
(* its names.                                                               *)
(***************************************************************************)
EXTENDS Naturals, Sequences, FiniteSets

CONSTANTS Processes, Requests, Names,
          Kind, At,     \* what each request is, and the process it is made to
          Ref,          \* the id it refers to
          Wanted,       \* the names it brings, in order
          Initial,      \* the configurations there are at first
          MaxRequests   \* how many of the requests are made (bound)

Kinds == {"create", "import", "rename", "update", "delete", "run"}
Referring == {"rename", "update", "delete", "run"}

ASSUME StoreAssumption ==
    /\ Kind \in [Requests -> Kinds]
    /\ At \in [Requests -> Processes]
    /\ DOMAIN Ref = Requests
    /\ Wanted \in [Requests -> Seq(Names)]
    /\ \A r \in Requests : Kind[r] \in {"create", "rename", "update"} => Wanted[r] # <<>>
    /\ \A row \in Initial : row.id \notin Requests \X Nat /\ row.name \in Names
                               /\ row = [id |-> row.id, name |-> row.name]
    /\ \A a, b \in Initial : (a.id = b.id \/ a.name = b.name) => a = b

VARIABLES
    db,         \* what is committed: rows of configs and of runs
    conn,       \* the connection of each process
    view,       \* what it sees, if it has a snapshot or has written
    outdated,   \* the processes whose snapshot is not the latest
    pc,         \* where each request is
    todo,       \* the names it has yet to deal with
    answer

storeVars == <<db, conn, view, outdated>>
requestVars == <<pc, todo, answer>>
vars == <<storeVars, requestVars>>

Nothing == [configs |-> {}, runs |-> {}]
Row(i, n) == [id |-> i, name |-> n]
RunRow(r, isOpen) == [of |-> r, config |-> Ref[r], open |-> isOpen]

\* The id of what a request adds for the first of the names it has yet to deal with.
NewId(r) == <<r, Len(todo[r])>>

Has(d, i) == \E row \in d.configs : row.id = i
Taken(d, n) == \E row \in d.configs : row.name = n

Init ==
    /\ db = [Nothing EXCEPT !.configs = Initial]
    /\ conn = [p \in Processes |-> "closed"]
    /\ view = [p \in Processes |-> Nothing]
    /\ outdated = {}
    /\ pc = [r \in Requests |-> "new"]
    /\ todo = Wanted
    /\ answer = [r \in Requests |-> "none"]

\* Somebody is between the first statement of a method and its end.
InMethod(r) == pc[r] \in {"writing", "committing", "closing"}
Unlocked(p) == \A r \in Requests : At[r] = p => ~InMethod(r)

-----------------------------------------------------------------------------
(* The connections *)

Sees(p) == IF conn[p] \in {"reading", "writing"} THEN view[p] ELSE db

\* A read outside a transaction leaves nothing behind; in one, it has a snapshot
\* from the first read on.
Selects(p) ==
    /\ conn[p] # "closed"
    /\ UNCHANGED <<db, outdated>>
    /\ IF conn[p] = "begun"
       THEN /\ conn' = [conn EXCEPT ![p] = "reading"]
            /\ view' = [view EXCEPT ![p] = db]
       ELSE UNCHANGED <<conn, view>>

\* The one write lock of the database can be had.
CanWrite(p) ==
    /\ conn[p] # "closed"
    /\ \A q \in Processes \ {p} : conn[q] # "writing"
    /\ p \notin outdated

\* A statement that succeeds, or violates a constraint: either way it has begun a
\* transaction, and has the lock.
Executes(p, after) ==
    /\ conn' = [conn EXCEPT ![p] = "writing"]
    /\ view' = [view EXCEPT ![p] = after]
    /\ UNCHANGED <<db, outdated>>
Violates(p) == Executes(p, Sees(p))

\* It has waited for five seconds, or found its snapshot outdated.
GivesUp(p) ==
    /\ conn[p] # "closed" /\ ~CanWrite(p)
    /\ conn' = IF conn[p] = "idle" THEN [conn EXCEPT ![p] = "begun"] ELSE conn
    /\ UNCHANGED <<db, view, outdated>>

\* Mutant: the method returns without.
Uncommitted(p) == UNCHANGED storeVars

Commit(p) ==
    /\ db' = view[p]
    /\ conn' = [conn EXCEPT ![p] = "idle"]
    /\ view' = [view EXCEPT ![p] = Nothing]
    /\ outdated' = IF db' = db THEN outdated
                   ELSE outdated \cup {q \in Processes : conn[q] = "reading"}

Goes(r, to) ==
    pc' = [pc EXCEPT ![r] = to] /\ UNCHANGED answer
Answers(r, with) ==
    /\ pc' = [pc EXCEPT ![r] = "answered"]
    /\ answer' = [answer EXCEPT ![r] = with]

-----------------------------------------------------------------------------
(* Before a method that writes *)

\* _require(app, ref) of a handler, and the get() of Manager.start: 404.
Looks(r) ==
    /\ Kind[r] \in Referring \ {"update"} /\ pc[r] = "new"
    /\ Unlocked(At[r]) /\ Selects(At[r])
    /\ IF Has(Sees(At[r]), Ref[r]) THEN Goes(r, "found") ELSE Answers(r, "missing")
    /\ UNCHANGED todo

\* import_sh: a configuration whose name is there is skipped.
LooksForName(r) ==
    /\ Kind[r] = "import" /\ pc[r] \in {"new", "looking"} /\ todo[r] # <<>>
    /\ Unlocked(At[r]) /\ Selects(At[r])
    /\ IF Taken(Sees(At[r]), Head(todo[r]))
       THEN Goes(r, "looking") /\ todo' = [todo EXCEPT ![r] = Tail(@)]
       ELSE Goes(r, "adding") /\ UNCHANGED todo

ImportEnds(r) ==
    /\ Kind[r] = "import" /\ pc[r] = "looking" /\ todo[r] = <<>>
    /\ Answers(r, "ok")
    /\ UNCHANGED <<storeVars, todo>>

\* The method's own _require; its KeyError is nobody's business: 500.
Requires(r) ==
    /\ Kind[r] \in Referring
    /\ pc[r] = IF Kind[r] = "update" THEN "new" ELSE "found"
    /\ Unlocked(At[r]) /\ Selects(At[r])
    /\ IF Has(Sees(At[r]), Ref[r]) THEN Goes(r, "writing") ELSE Answers(r, "gone")
    /\ UNCHANGED todo

-----------------------------------------------------------------------------
(* The writing statements *)

\* An add() has none before its INSERT, nor close_run before its UPDATE.
AtFirstStatement(r) ==
    /\ \/ Kind[r] = "create" /\ pc[r] = "new"
       \/ Kind[r] = "import" /\ pc[r] = "adding"
       \/ Kind[r] = "run" /\ pc[r] = "serving"
    /\ Unlocked(At[r])

\* add(): the ValueError is a 409 to create_config, and to import_sh a 500.
Adds(r) ==
    /\ Kind[r] \in {"create", "import"} /\ AtFirstStatement(r) /\ CanWrite(At[r])
    /\ LET name == Head(todo[r])
           d == Sees(At[r])
       IN  IF Taken(d, name)
           THEN /\ Violates(At[r])
                /\ Answers(r, IF Kind[r] = "create" THEN "taken" ELSE "clash")
           ELSE /\ Executes(At[r], [d EXCEPT !.configs = @ \cup {Row(NewId(r), name)}])
                /\ Goes(r, "committing")
    /\ UNCHANGED todo

Named(d, i, n) ==
    [d EXCEPT !.configs = {IF row.id = i THEN Row(i, n) ELSE row : row \in @}]

\* rename() and update(), of no row if it is gone.  rename's ValueError is a 409;
\* update leaves the IntegrityError as it is.
Renames(r) ==
    /\ Kind[r] \in {"rename", "update"} /\ pc[r] = "writing" /\ CanWrite(At[r])
    /\ LET name == Head(todo[r])
           d == Sees(At[r])
       IN  IF Has(d, Ref[r]) /\ \E row \in d.configs : row.name = name /\ row.id # Ref[r]
           THEN /\ Violates(At[r])
                /\ Answers(r, IF Kind[r] = "rename" THEN "taken" ELSE "clash")
           ELSE Executes(At[r], Named(d, Ref[r], name)) /\ Goes(r, "committing")
    /\ UNCHANGED todo

\* Its runs go with a configuration.
Deletes(r) ==
    /\ Kind[r] = "delete" /\ pc[r] = "writing" /\ CanWrite(At[r])
    /\ LET d == Sees(At[r])
       IN  Executes(At[r], [configs |-> {row \in d.configs : row.id # Ref[r]},
                            runs |-> {run \in d.runs : run.config # Ref[r]}])
    /\ Goes(r, "committing")
    /\ UNCHANGED todo

\* Mutant: without PRAGMA foreign_keys, no INSERT is too late.
RecordsAnyway(r) ==
    /\ Kind[r] = "run" /\ pc[r] = "writing" /\ CanWrite(At[r])
    /\ LET d == Sees(At[r])
       IN  Executes(At[r], [d EXCEPT !.runs = @ \cup {RunRow(r, TRUE)}])
    /\ Goes(r, "committing")
    /\ UNCHANGED todo

\* record_run(), with the foreign keys that __init__ has switched on: 500.
Records(r) ==
    /\ Kind[r] = "run" /\ pc[r] = "writing" /\ CanWrite(At[r])
    /\ LET d == Sees(At[r])
       IN  IF Has(d, Ref[r])
           THEN /\ Executes(At[r], [d EXCEPT !.runs = @ \cup {RunRow(r, TRUE)}])
                /\ Goes(r, "committing")
           ELSE Violates(At[r]) /\ Answers(r, "gone")
    /\ UNCHANGED todo

\* close_run(), of no row if the run went with its configuration.
ClosesRun(r) ==
    /\ Kind[r] = "run" /\ AtFirstStatement(r) /\ CanWrite(At[r])
    /\ LET d == Sees(At[r])
       IN  Executes(At[r], [d EXCEPT !.runs =
               {IF run.of = r THEN RunRow(r, FALSE) ELSE run : run \in @}])
    /\ Goes(r, "closing")
    /\ UNCHANGED todo

\* Mutant: waits as long as it takes.
NeverGivesUp(r) ==
    /\ pc[r] = "writing" \/ AtFirstStatement(r)
    /\ At[r] \in outdated /\ GivesUp(At[r])
    /\ Answers(r, "locked")
    /\ UNCHANGED todo

\* Mutant: an import takes any error for a name that is there.
SkipsLocked(r) ==
    /\ pc[r] = "writing" \/ AtFirstStatement(r)
    /\ GivesUp(At[r])
    /\ IF Kind[r] = "import"
       THEN Goes(r, "looking") /\ todo' = [todo EXCEPT ![r] = Tail(@)]
       ELSE Answers(r, "locked") /\ UNCHANGED todo

\* sqlite3.OperationalError: database is locked.  500, whatever the request.
FindsLocked(r) ==
    /\ pc[r] = "writing" \/ AtFirstStatement(r)
    /\ GivesUp(At[r])
    /\ Answers(r, "locked")
    /\ UNCHANGED todo

Commits(r) ==
    /\ pc[r] \in {"committing", "closing"}
    /\ Commit(At[r])
    /\ \/ Kind[r] \in {"create", "rename"} /\ Goes(r, "checking")
       \/ Kind[r] = "import" /\ Goes(r, "looking")
       \/ Kind[r] = "run" /\ pc[r] = "committing" /\ Goes(r, "serving")
       \/ Kind[r] \in {"update", "delete"} /\ Answers(r, "ok")
       \/ pc[r] = "closing" /\ Answers(r, "ok")
    /\ todo' = IF Kind[r] = "import" THEN [todo EXCEPT ![r] = Tail(@)] ELSE todo

\* The configuration as the answer shows it; if it is gone by now: 500.
Checks(r) ==
    /\ pc[r] = "checking"
    /\ Unlocked(At[r]) /\ Selects(At[r])
    /\ LET i == IF Kind[r] = "create" THEN NewId(r) ELSE Ref[r]
       IN  Answers(r, IF Has(Sees(At[r]), i) THEN "ok" ELSE "gone")
    /\ UNCHANGED todo

-----------------------------------------------------------------------------
(* The processes *)

\* __init__ writes the schema's version, and has to have the lock for it.
Opens(p) ==
    /\ conn[p] = "closed"
    /\ \A q \in Processes : conn[q] # "writing"
    /\ conn' = [conn EXCEPT ![p] = "idle"]
    /\ UNCHANGED <<db, view, outdated, requestVars>>

\* close(), or the process is killed: what was not committed is rolled back.
Ends(p) ==
    /\ conn[p] # "closed"
    /\ conn' = [conn EXCEPT ![p] = "closed"]
    /\ view' = [view EXCEPT ![p] = Nothing]
    /\ outdated' = outdated \ {p}
    /\ pc' = [r \in Requests |->
                IF At[r] = p /\ pc[r] \notin {"new", "answered"} THEN "lost" ELSE pc[r]]
    /\ UNCHANGED <<db, todo, answer>>

\* GET /configs, /configs/{ref}, /configs/{ref}/runs and /lint.
Reads(p) == Unlocked(p) /\ Selects(p) /\ UNCHANGED requestVars

Made == {r \in Requests : pc[r] # "new"}
MayStep(r) == pc[r] = "new" => Cardinality(Made) < MaxRequests

Step(r) ==
    \/ Looks(r) \/ LooksForName(r) \/ ImportEnds(r) \/ Requires(r)
    \/ Adds(r) \/ Renames(r) \/ Deletes(r) \/ Records(r) \/ ClosesRun(r)
    \/ FindsLocked(r) \/ Commits(r) \/ Checks(r)

Next ==
    \/ \E r \in Requests : MayStep(r) /\ Step(r)
    \/ \E p \in Processes : Opens(p) \/ Ends(p) \/ Reads(p)

Spec == Init /\ [][Next]_vars

\* As long as a request that was made can go on, one of them does; an engine may
\* serve for ever.
Resting == {"new", "serving", "answered", "lost"}
Fairness == WF_vars(\E r \in Requests : pc[r] \notin Resting /\ Step(r))
FairSpec == Spec /\ Fairness

-----------------------------------------------------------------------------
Database ==
    [configs : SUBSET [id : (Requests \X Nat) \cup {row.id : row \in Initial}, name : Names],
     runs : SUBSET [of : Requests, config : {Ref[r] : r \in Requests}, open : BOOLEAN]]

TypeOK ==
    /\ db \in Database
    /\ conn \in [Processes -> {"closed", "idle", "begun", "reading", "writing"}]
    /\ view \in [Processes -> Database]
    /\ outdated \subseteq Processes
    /\ pc \in [Requests -> {"new", "found", "looking", "adding", "writing", "committing",
                            "serving", "closing", "checking", "answered", "lost"}]
    /\ todo \in [Requests -> Seq(Names)]
    /\ answer \in [Requests -> {"none", "ok", "missing", "gone", "taken", "clash", "locked"}]

\* A request of one of these kinds has been made that refers to i.
Touched(i, by) == \E q \in Made : Kind[q] \in by /\ Ref[q] = i

\* What the request r has asked for is in d, or a later request has undone it; a
\* run is open until it is closed.
Promise(r, d, isOpen) ==
    LET i == IF Kind[r] = "create" THEN <<r, Len(Wanted[r])>> ELSE Ref[r]
    IN  /\ Kind[r] = "delete" => ~Has(d, i)
        /\ Kind[r] = "create" => Has(d, i) \/ Touched(i, {"delete"})
        /\ Kind[r] \in {"rename", "update"} =>
              \/ Row(i, Wanted[r][1]) \in d.configs
              \/ \E q \in Made \ {r} : Kind[q] \in {"rename", "update", "delete"}
                                        /\ Ref[q] = i
        /\ Kind[r] = "run" => RunRow(r, isOpen) \in d.runs \/ Touched(i, {"delete"})

(***************************************************************************)
(* What a successful answer has reported is in the database, whichever      *)
(* process ends when, until a later request undoes it: the commit is in     *)
(* every method, db.py:220-309; "survive a crash mid-write", 162.           *)
(***************************************************************************)
PromisesKept == \A r \in Requests : answer[r] = "ok" => Promise(r, db, FALSE)

\* An import that was answered has left none of its names out, skipped ones
\* included, even if what it read was outdated: they are all there unless
\* something has been deleted or renamed (app.py:121-127).
ImportComplete ==
    \A r \in Requests :
        Kind[r] = "import" /\ answer[r] = "ok" =>
            \/ \E q \in Made : Kind[q] \in {"delete", "rename", "update"}
            \/ \A k \in DOMAIN Wanted[r] : Taken(db, Wanted[r][k])

\* Names stay distinct, and every run has its configuration, though look-ups and
\* writes of several processes interleave (db.py:48, 59, 160).
Intact ==
    /\ \A a, b \in db.configs : (a.id = b.id \/ a.name = b.name) => a = b
    /\ \A run \in db.runs : Has(db, run.config)

\* Every request is answered, or its process ends: a lock that nobody will
\* release is not waited for for ever (db.py:158, 94-98).
RequestsAnswered == <>[](\A r \in Requests : pc[r] \in Resting)

=============================================================================
