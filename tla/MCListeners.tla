------------------------------ MODULE MCListeners -------------------------------
(* A port with implicit TLS and one without. *)
EXTENDS Listeners, TLC

TwoDefaults == 465 :> "tls" @@ 25 :> "plain"
=============================================================================
