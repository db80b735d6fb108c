------------------------------ MODULE MCCliRun ------------------------------
(* CliRun with one configuration. *)
EXTENDS CliRun

CONSTANTS s1, k1, k2, a

MCConfigOf == [s \in Starts |-> a]

=============================================================================
