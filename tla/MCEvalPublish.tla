--------------------------- MODULE MCEvalPublish ---------------------------
(* Instances of EvalPublish for TLC. *)
EXTENDS EvalPublish

(* Artifact 1 is the metric and profile, read twice; artifact 2 is a module   *)
(* tree, whose first version fails.                                         *)
FirstFails == {<<2, 0>>}
=============================================================================
