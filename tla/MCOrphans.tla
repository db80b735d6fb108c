------------------------------ MODULE MCOrphans ------------------------------
(* Orphans with two managers of one store and one of another. *)
EXTENDS Orphans

CONSTANTS m1, m2, m3, e1, e2

\* What runs as another user: e2, whose environment m2 may not read and which m1 may
\* not signal.
MCMayRead == (Managers \X Engines) \ {<<m2, e2>>}
MCMayKill == (Managers \X Engines) \ {<<m1, e2>>}

MCOwner == [m \in Managers |-> IF m = m3 THEN "theirs" ELSE "ours"]

=============================================================================
