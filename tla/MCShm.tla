------------------------------- MODULE MCShm -------------------------------
(* Shm with a manager that retries a configuration, and another manager. *)
EXTENDS Shm, TLC

CONSTANTS m1, m2, first, retry, other, f1, f2, r1, r2, o1, o2, ia, ib

MCOwner == first :> m1 @@ retry :> m1 @@ other :> m2
MCEngineOf == f1 :> first @@ f2 :> first @@ r1 :> retry @@ r2 :> retry
              @@ o1 :> other @@ o2 :> other
MCId == first :> ia @@ retry :> ia @@ other :> ib

\* The workers of one engine do the same.
MCSymmetry == Permutations({f1, f2}) \cup Permutations({r1, r2}) \cup Permutations({o1, o2})

ASSUME OwnIds

=============================================================================
