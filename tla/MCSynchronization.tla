------------------------- MODULE MCSynchronization -------------------------
(* Three processes on two CPUs make system calls, the reentrant lock's among *)
(* them.                                                                     *)
EXTENDS Syscalls, TLC

Symmetry == Permutations(Proc)
=============================================================================
