------------------------------- MODULE MCLog -------------------------------
(* The log with few processes, blocks, calls and crashes, for TLC. *)
EXTENDS Log
=============================================================================
