----------------------------- MODULE MCRunQueue -----------------------------
(* Instances of RunQueue for TLC. *)
EXTENDS RunQueue, TLC

CONSTANTS e1, e2

(* e2 is a build that does not know a capability that request 2 requires. *)
OldBuild == {<<e2, 2>>}
=============================================================================
