----------------------------- MODULE MCArmPool -----------------------------
(* Instances of ArmPool for TLC. *)
EXTENDS ArmPool, TLC

(* A local arm that is spawned, one that is reused, a gateway arm with one   *)
(* work item (a calibration arm).                                          *)
ThreeArms == <<4, 2, 1>>

Symmetry == Permutations(Workers)
=============================================================================
