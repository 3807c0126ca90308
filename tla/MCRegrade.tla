----------------------------- MODULE MCRegrade -----------------------------
(* Instances of Regrade for TLC. *)
EXTENDS Regrade, TLC

CONSTANTS x, g1, g2, t1, t2

OneTraced == {<<x, t1>>}
AllTraced == {<<x, t1>>, <<x, t2>>}
AnyRun == [g \in Regraders |-> None]

(* The second regrade is asked for one task. *)
OneTask == (g1 :> Tasks) @@ (g2 :> {t1})
EveryTask == (g1 :> Tasks)

OldTask == {<<x, t2>>}
NoneOld == {}

VersionVerifier == (t1 :> {"version"}) @@ (t2 :> {"verifier"})
Environment == (t1 :> {"env"})
=============================================================================
