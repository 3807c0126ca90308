------------------------- MODULE MCDistributedJobs -------------------------
(* An instance of DistributedJobs for TLC. *)
EXTENDS DistributedJobs, TLC

CONSTANTS j1, j2, j3, s1, s2

(* The third job wants the slug of the first; the second has nothing to do. *)
Slugs == (j1 :> s1) @@ (j2 :> s2) @@ (j3 :> s1)
Targets == (j1 :> 2) @@ (j2 :> 0) @@ (j3 :> 2)
Counts == {-1, 1, 2}
Symmetry == Permutations(Claims)
=============================================================================
