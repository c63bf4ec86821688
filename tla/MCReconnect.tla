----------------------------- MODULE MCReconnect -----------------------------
(* Two callers; three connections let a retry fail and another call dial.  *)
EXTENDS Reconnect
=============================================================================
