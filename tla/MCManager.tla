----------------------------- MODULE MCManager -----------------------------
(* Manager with one configuration, of which every start is. *)
EXTENDS Manager

CONSTANTS s1, s2, a

MCConfigOf == [s \in Starts |-> a]

=============================================================================
