----------------------------- MODULE MCSidecar -----------------------------
(* Instances of Sidecar for TLC. *)
EXTENDS Sidecar, TLC

CONSTANTS desktop, repair, stop, r1, r2, s1, desktopToken

Kinds ==
  (desktop :> "start") @@ (repair :> "repair") @@ (stop :> "stop")
Tokens ==
  (desktop :> desktopToken) @@ (repair :> None) @@ (stop :> None)
OneSession == (r1 :> s1) @@ (r2 :> s1)
=============================================================================
