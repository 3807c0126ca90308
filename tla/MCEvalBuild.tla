---------------------------- MODULE MCEvalBuild ----------------------------
(* An instance of EvalBuild for TLC. *)
EXTENDS EvalBuild, TLC

CONSTANTS b1, b2, b3

(* Two rolling builds, a day apart in what they select, and one by date. *)
Asked == (b1 :> {1, 2, 3}) @@ (b2 :> {2, 3}) @@ (b3 :> {1, 2, 3})
=============================================================================
