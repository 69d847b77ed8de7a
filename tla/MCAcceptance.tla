----------------------------- MODULE MCAcceptance -----------------------------
(* Model values and bounds for checking Acceptance. *)
EXTENDS Acceptance, TLC

Instants == 0 .. 1
=============================================================================
