---------------------------- MODULE MCScheduler ----------------------------
(* The scheduler with few processes and short shares, for TLC. *)
EXTENDS Scheduler
=============================================================================
