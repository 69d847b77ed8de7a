----------------------------- MODULE MCStoreLock ------------------------------
(* Model values and bounds for checking StoreLock. *)
EXTENDS StoreLock, TLC

Instants == 0 .. 1
=============================================================================
