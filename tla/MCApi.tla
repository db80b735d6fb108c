------------------------------- MODULE MCApi -------------------------------
(* Api with one configuration, of which every start is. *)
EXTENDS Api

CONSTANTS s1, s2, a

MCConfigOf == [s \in Starts |-> a]

=============================================================================
