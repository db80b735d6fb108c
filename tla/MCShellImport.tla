--------------------------- MODULE MCShellImport ---------------------------
(* ShellImport over scripts of MaxLines lines. *)
EXTENDS ShellImport

Serve(commented, env, args) ==
    [is |-> "serve", commented |-> commented, env |-> env, args |-> args]
Assign(exporting, variable, value) ==
    [is |-> "assignment", commented |-> FALSE, exporting |-> exporting,
     env |-> variable :> value]
ProseOf(text) == [is |-> "prose", commented |-> TRUE, text |-> text]

\* The second comment makes the name that line 3 has for want of a comment.
MCSlug == "tight" :> <<"tight">> @@ "script 3" :> <<"script", 3>>

MCArgs == {
    <<Opt("x")>>,
    <<Opt("port"), Val("8000"), Opt("x"), Val("1")>>,
    <<Opt("x"), Val("1"), OptWith("port", "8000"), OptWith("x", "2"), Opt("y")>>,
    <<OptWith("x", "1"), Opt("x"), Val("2"), Opt("y"), Val("1"), Val("2")>>,
    <<Opt("y"), Opt("x"), Val("1"), Opt("port"), Val("8000")>>,
    <<Opt("x"), Opt("x"), Val("2"), OptWith("y", "")>> }

MCLines ==
    {[is |-> "banner"], [is |-> "blank"], [is |-> "unset", variable |-> "A"]}
    \cup {[is |-> "prose", commented |-> FALSE]}
    \cup {ProseOf(text) : text \in DOMAIN MCSlug \cup {NoComment}}
    \cup {Assign(TRUE, "A", value) : value \in {1, 2}}
    \cup {Assign(FALSE, variable, 3) : variable \in {"A", "B"}}
    \cup {Serve(TRUE, <<>>, <<Opt("x")>>), Serve(FALSE, "A" :> 4, <<Opt("x")>>)}
    \cup {Serve(FALSE, <<>>, args) : args \in MCArgs}

=============================================================================
