-------------------------- MODULE MCHealthMonitor --------------------------
(***************************************************************************)
(* The instance of HealthMonitor for TLC: two identities, so that a health *)
(* check may be created before the last one has ended, if connect did not  *)
(* prevent it.                                                             *)
(***************************************************************************)
EXTENDS HealthMonitor
=============================================================================
