------------------------------ MODULE MCStore ------------------------------
(* Store with a long-lived manager and a command that brings its own server. *)
EXTENDS Store, TLC

CONSTANTS manager, command, create, import, rename, update, delete, run, stored

MCKind == create :> "create" @@ import :> "import" @@ rename :> "rename"
          @@ update :> "update" @@ delete :> "delete" @@ run :> "run"
MCAt == [r \in Requests |-> IF r \in {create, import, delete} THEN command ELSE manager]

\* Requests refer to the configuration that is there, named "a".
MCInitial == {Row(stored, "a")}
MCRef == [r \in Requests |-> stored]
MCWanted == create :> <<"b">> @@ import :> <<"a", "c">> @@ rename :> <<"c">>
            @@ update :> <<"b">> @@ delete :> <<>> @@ run :> <<>>

=============================================================================
