---------------------------- MODULE MCHeartbeat ------------------------------
(***************************************************************************)
(* An instance of Heartbeat for TLC; the values are in the configuration.  *)
(***************************************************************************)
EXTENDS Heartbeat
=============================================================================
