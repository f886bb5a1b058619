---------------------------- MODULE MCProcTable ----------------------------
(* The process table with a few slots and two CPUs, for TLC. *)
EXTENDS ProcTable
=============================================================================
