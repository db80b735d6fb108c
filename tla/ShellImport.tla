---------------------------- MODULE ShellImport ----------------------------
(***************************************************************************)
(* parse_text of store/shell.py: one pass over the lines of a script, which *)
(* turns the `vllm serve` invocations in it, commented out or not, into     *)
(* configurations.  A step reads one line; the script is any sequence of    *)
(* Lines, its lines being given as what they turn out to be once stripped   *)
(* and tokenized.                                                          *)
(*                                                                         *)
(* Abstracted: texts and names (Slug gives the name a comment makes, as a   *)
(* sequence of its dash-separated parts, of which a line number may be the  *)
(* last; NoComment stands for a comment that makes none, too), the model    *)
(* argument and its path, warnings and notes, ~.                            *)
(***************************************************************************)
EXTENDS EngineConfig, FiniteSets

CONSTANTS Lines,    \* what a line can be
          Slug,     \* the name that each comment makes
          Stem,     \* the name of the script without its extension
          NoComment,
          MaxLines  \* length of the script (bound)

\* `export` is looked for in lines that are not commented out.
ASSUME ShellAssumption ==
    /\ MaxLines \in Nat
    /\ \A text \in DOMAIN Slug : Len(Slug[text]) \in Nat
           /\ Slug[text] = [i \in 1..Len(Slug[text]) |-> Slug[text][i]]
    /\ NoComment \notin DOMAIN Slug
    /\ \A line \in Lines :
           \/ line.is \in {"banner", "blank", "unset"}
           \/ line.is = "prose"
              /\ (line.commented => line.text \in DOMAIN Slug \cup {NoComment})
           \/ line.is = "assignment" /\ (line.commented => ~line.exporting)
           \/ line.is = "serve" /\ line.args \in Seq(Tokens)

VARIABLES
    script,     \* the lines read
    comment,    \* the comment that names the next invocation, or NoComment
    exported,   \* the exported variables, and their values
    seen,       \* the names given so far
    configs     \* the configurations found

parseVars == <<script, comment, exported, seen, configs>>

ParseInit ==
    /\ script = <<>>
    /\ comment = NoComment
    /\ exported = <<>>
    /\ seen = {}
    /\ configs = <<>>

-----------------------------------------------------------------------------
\* Mutant: the name is what the comment makes.
Slugged(base, lineno) == base

\* The line number is appended as long as the name is taken.
Unused(base, lineno) ==
    LET tries == {base \o [i \in 1..n |-> lineno] : n \in 0..Cardinality(seen)}
    IN  CHOOSE name \in tries : name \notin seen /\ \A t \in tries :
            Len(t) < Len(name) => t \in seen

Name(lineno) ==
    Unused(IF comment = NoComment THEN <<Stem, lineno>> ELSE Slug[comment], lineno)

\* Mutant: the option goes, its value stays.
PortValueLeft(args) == Without(args, {i \in DOMAIN args : args[i] = Opt("port")})

\* `del args[j : j + 2]` at the first "--port": what
\* is spelt "--port=N" stays.
Portless(args) ==
    IF \E i \in DOMAIN args : args[i] = Opt("port")
    THEN LET j == SelectInSeq(args, LAMBDA arg : arg = Opt("port"))
         IN  SubSeq(args, 1, j - 1) \o SubSeq(args, j + 2, Len(args))
    ELSE args

\* dict.update(), as a value: what `env` has wins.
Updated(base, env) ==
    [v \in DOMAIN base \cup DOMAIN env |-> IF v \in DOMAIN env THEN env[v] ELSE base[v]]

\* A prefix on the command line wins.
Environment(line) == Updated(exported, line.env)

Banner(line) ==
    /\ line.is = "banner"
    /\ comment' = NoComment
    /\ UNCHANGED <<exported, seen, configs>>

\* A comment that is no invocation and no assignment.
Prose(line) ==
    /\ line.is = "prose"
    /\ comment' = IF line.commented THEN line.text ELSE comment
    /\ UNCHANGED <<exported, seen, configs>>

\* Nothing is made of a blank line, and nothing but a warning of an `unset`.
Passed(line) ==
    /\ line.is \in {"blank", "unset"}
    /\ UNCHANGED <<comment, exported, seen, configs>>

\* Mutant: an assignment is an export.
AssignmentExported(line) ==
    /\ line.is = "assignment"
    /\ exported' = Updated(exported, line.env)
    /\ UNCHANGED <<comment, seen, configs>>

\* Assignments and nothing else; without `export` they are only reported.
Assignment(line) ==
    /\ line.is = "assignment"
    /\ exported' = IF line.exporting THEN Updated(exported, line.env) ELSE exported
    /\ UNCHANGED <<comment, seen, configs>>

Configuration(line, lineno) ==
    [line |-> lineno, name |-> Name(lineno),
     env |-> Environment(line), args |-> Portless(line.args)]

\* Mutant: the comment goes on to the next one.
InvocationKeepsComment(line) ==
    LET config == Configuration(line, Len(script) + 1)
    IN  /\ line.is = "serve"
        /\ seen' = seen \cup {config.name}
        /\ configs' = Append(configs, config)
        /\ UNCHANGED <<comment, exported>>

Invocation(line) ==
    LET config == Configuration(line, Len(script) + 1)
    IN  /\ line.is = "serve"
        /\ seen' = seen \cup {config.name}
        /\ configs' = Append(configs, config)
        /\ comment' = NoComment
        /\ UNCHANGED exported

ReadsLine(line) ==
    /\ Len(script) < MaxLines
    /\ script' = Append(script, line)
    /\ \/ Banner(line) \/ Prose(line) \/ Passed(line)
       \/ Assignment(line) \/ Invocation(line)

ParseNext == \E line \in Lines : ReadsLine(line)

ParseSpec == ParseInit /\ [][ParseNext]_parseVars

-----------------------------------------------------------------------------
\* No two configurations of a script get the same name, whatever the comments
\* and line numbers make of each other (shell.py:221-224).
NamesUnique ==
    \A i, j \in DOMAIN configs : configs[i].name = configs[j].name => i = j

\* An invocation is named by a comment above it only if no other invocation and
\* no banner stands in between (shell.py:149-151, 221-235).
NamedByItsComment ==
    \A i \in DOMAIN configs :
        LET at == configs[i].line
            above == {j \in 1..(at - 1) : script[j].is \in {"serve", "banner"}
                         \/ (script[j].is = "prose" /\ script[j].commented)}
            nearest == CHOOSE j \in above : \A k \in above : k <= j
            named == above # {} /\ script[nearest].is = "prose"
                         /\ script[nearest].text # NoComment
        IN  IsPrefix(IF named THEN Slug[script[nearest].text] ELSE <<Stem, at>>,
                     configs[i].name)

\* sh itself: what a line does to the variables.
Assigns(line, v) == line.is = "assignment" /\ ~line.commented /\ v \in DOMAIN line.env
Exports(line, v) == Assigns(line, v) /\ line.exporting
Unsets(line, v) == line.is = "unset" /\ line.variable = v

\* The last of the first n lines that assigns a variable.
LastAssigned(v, n) ==
    CHOOSE j \in 1..n : Assigns(script[j], v) /\ \A k \in (j + 1)..n : ~Assigns(script[k], v)

\* What sh has for the command on line n: the variables of its prefix, and those
\* that have been exported and not unset since, as they were last assigned.
ShellPasses(n) ==
    LET assigned == UNION {DOMAIN script[j].env :
                              j \in {k \in 1..(n - 1) : script[k].is = "assignment"}}
        passed == {v \in assigned : \E j \in 1..(n - 1) :
                       Exports(script[j], v)
                       /\ \A k \in (j + 1)..(n - 1) : ~Unsets(script[k], v)}
    IN  Updated([v \in passed |-> script[LastAssigned(v, n - 1)].env[v]], script[n].env)

\* The variables that are assigned without export, or unset, after they were last
\* exported; parse_text reports such lines, and leaves the environment as it was.
Reported(v, n) ==
    \E i, j \in 1..n : /\ i < j /\ Exports(script[i], v)
                       /\ Assigns(script[j], v) \/ Unsets(script[j], v)
                       /\ \A k \in j..n : ~Exports(script[k], v)

\* What a configuration adds to the environment is what sh would pass to the
\* command on its line, prefixes and exports above it included and no more
\* (shell.py:16-22), save for variables that are reported (159-162, 191-196).
EnvIsWhatShPasses ==
    \A i \in DOMAIN configs :
        LET at == configs[i].line
            passes == ShellPasses(at)
            env == configs[i].env
        IN  \A v \in DOMAIN env \cup DOMAIN passes :
                \/ v \notin DOMAIN script[at].env /\ Reported(v, at - 1)
                \/ v \in DOMAIN env \cap DOMAIN passes /\ env[v] = passes[v]

-----------------------------------------------------------------------------
Latest == {c \in Range(configs) : c.line = Len(script)}

\* In the configuration that was imported last, flags mean the same to this
\* program and to the engine, before an edit and after it.
FlagsAgree == \A c \in Latest : \A f \in Flags : EditsAgree(c.args, f)

\* A port is given at most once, in either spelling, with one value behind "--port".
PinnedOnce(args) ==
    /\ ~ValueAt(args, 1)
    /\ WrittenOnce(args, "port") /\ SingleValued(args, "port")
    /\ \A i \in DOMAIN args : args[i] = Opt("port") => ValueAt(args, i + 1)

\* It is spelt "--port=N".
PinnedInOne(args) == \E i \in DOMAIN args : IsOf(args[i], "port") /\ args[i] # Opt("port")

\* A port that a script pins as "--port N" is not in the supervisor's way; one that
\* it pins as "--port=N" is the one the engine takes, and not the supervisor's.
\* What the other flags mean is what the script said (shell.py:213-219,
\* config.py:39-42).
PortIsAssigned ==
    \A c \in Latest :
        LET pinned == script[c.line].args
        IN  PinnedOnce(pinned) =>
                /\ \A port \in Values : TakenFor(Argv(c.args, port), "port") =
                       IF PinnedInOne(pinned) THEN TakenFor(pinned, "port") ELSE <<port>>
                /\ \A f \in Flags \ {"port"} : TakenFor(c.args, f) = TakenFor(pinned, f)

=============================================================================
