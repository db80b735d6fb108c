---------------------------- MODULE EngineConfig ----------------------------
(***************************************************************************)
(* The arguments of an EngineConfig (engine/config.py), which flag() reads  *)
(* and with_args() rewrites, against what the engine's own parser takes     *)
(* from them.  Arguments are tokens: "--f", "--f=v", and values, which are  *)
(* those that do not begin with a dash.                                     *)
(***************************************************************************)
EXTENDS Naturals, SequencesExt

CONSTANTS Flags, Values, None

ASSUME ConfigAssumption == None \notin Values \cup {""}

Opt(f) == [is |-> "option", flag |-> f, value |-> ""]
OptWith(f, v) == [is |-> "option=", flag |-> f, value |-> v]
Val(v) == [is |-> "value", flag |-> "", value |-> v]

Tokens == {Opt(f) : f \in Flags} \cup {OptWith(f, v) : f \in Flags, v \in Values}
             \cup {Val(v) : v \in Values}

IsOf(arg, f) == arg.is # "value" /\ arg.flag = f
ValueAt(args, i) == i \in DOMAIN args /\ args[i].is = "value"

\* The launcher and the model, which come first, take no part.
Argv(args, port) == <<Opt("port"), Val(port)>> \o args

\* flag(): the first occurrence counts.
Flag(args, f) ==
    LET i == SelectInSeq(args, LAMBDA arg : IsOf(arg, f))
    IN  IF i = 0 THEN None
        ELSE IF args[i] = Opt(f) /\ ValueAt(args, i + 1) THEN args[i + 1].value
        ELSE args[i].value

\* Mutant: one spelling only.
SpeltOut(args, f) ==
    {i \in DOMAIN args : args[i] = Opt(f)}
    \cup {i + 1 : i \in {j \in DOMAIN args : args[j] = Opt(f) /\ ValueAt(args, j + 1)}}

\* Every occurrence in either syntax, with the one value that follows "--f".
Occurrences(args, f) ==
    {i \in DOMAIN args : IsOf(args[i], f)}
    \cup {i + 1 : i \in {j \in DOMAIN args : args[j] = Opt(f) /\ ValueAt(args, j + 1)}}

\* The arguments without those at some places.
Without(args, places) ==
    LET kept[n \in 0..Len(args)] ==
          IF n = 0 THEN <<>>
          ELSE IF n \in places THEN kept[n - 1]
          ELSE Append(kept[n - 1], args[n])
    IN  kept[Len(args)]

\* with_args(): v is None to remove the flag.
WithArgs(args, f, v) ==
    Without(args, Occurrences(args, f)) \o (IF v = None THEN <<>> ELSE <<Opt(f), Val(v)>>)

-----------------------------------------------------------------------------
(* The engine's parser (vLLM's argparse): of several occurrences the last    *)
(* counts, and takes all the values up to the next option.                   *)

TakenAt(args, i) ==
    IF args[i].is = "option=" THEN <<args[i].value>>
    ELSE LET ends == {j \in i..Len(args) : \A k \in (i + 1)..j : ValueAt(args, k)}
             last == CHOOSE j \in ends : \A k \in ends : k <= j
         IN  [k \in 1..(last - i) |-> args[i + k].value]

TakenFor(args, f) ==
    LET i == SelectLastInSeq(args, LAMBDA arg : IsOf(arg, f))
    IN  IF i = 0 THEN None ELSE TakenAt(args, i)

\* No occurrence of the flag has more values than its spelling has room for.
SingleValued(args, f) ==
    \A i \in DOMAIN args : IsOf(args[i], f) /\ ValueAt(args, i + 1) =>
        args[i] = Opt(f) /\ ~ValueAt(args, i + 2)

WrittenOnce(args, f) ==
    \A i, j \in DOMAIN args : IsOf(args[i], f) /\ IsOf(args[j], f) => i = j

\* flag() says what the parser takes; "" is what it says of no value, too.
Agrees(args, f) ==
    CASE Flag(args, f) = None -> TakenFor(args, f) = None
      [] Flag(args, f) = "" -> TakenFor(args, f) \in {<<>>, <<"">>}
      [] OTHER -> TakenFor(args, f) = <<Flag(args, f)>>

(***************************************************************************)
(* Flags mean the same to this program and to the engine, whatever their    *)
(* spelling: one that is written once reads as what the engine takes        *)
(* (config.py:61-76, the linter's rules); after with_args() so does the one *)
(* that was set, however often it was written before, and the others are as *)
(* they were (78-103).                                                      *)
(***************************************************************************)
EditsAgree(args, f) ==
    SingleValued(args, f) =>
        /\ WrittenOnce(args, f) => Agrees(args, f)
        /\ \A v \in Values \cup {None} :
              LET edited == WithArgs(args, f, v)
              IN  /\ Flag(edited, f) = v /\ Agrees(edited, f)
                  /\ \A g \in Flags \ {f} : TakenFor(edited, g) = TakenFor(args, g)

=============================================================================
