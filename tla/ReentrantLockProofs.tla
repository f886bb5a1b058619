------------------------ MODULE ReentrantLockProofs ------------------------
(***************************************************************************)
(* Proofs about the reentrant lock, for any set of processes, any number   *)
(* of CPUs and any depth of recursion.                                     *)
(*                                                                         *)
(* Neither mutual exclusion nor the count is inductive: that nobody else   *)
(* is inside is a fact about rlock.lock, and that a process which finds    *)
(* itself in rlock.owner is inside is a fact about the order in which      *)
(* releasereentrantlock() gives the lock up.  IInv has both.               *)
(***************************************************************************)
EXTENDS ReentrantLock, FiniteSetTheorems, TLAPS

\* The spinlock is held exactly from its acquire() to its release().
HolderInv ==
  \A p \in Proc : holder = p <=> level[p] > 0 \/ pc[p] \in {"set_owner", "unlock"}

\* Where a process is tells whether it is inside.
LevelInv ==
  \A p \in Proc :
    /\ pc[p] \in {"out", "set_owner", "unlock", "clear_owner"} => level[p] = 0
    /\ pc[p] = "release" => level[p] > 0

\* rlock.owner is stale only until the process it names has cleared it.
OwnerInv ==
  \A p \in Proc : owner = p => level[p] > 0 \/ pc[p] \in {"unlock", "clear_owner"}

IInv == TypeOK /\ HolderInv /\ LevelInv /\ OwnerInv /\ RecursionIsLevel

LEMMA InitIInv == Init => IInv
  BY LockConstants DEF Init, IInv, TypeOK, HolderInv, LevelInv, OwnerInv,
     RecursionIsLevel, Inside, Label

\* Every step of a process, and every decision of a scheduler, keeps IInv.
LEMMA NextIInv == IInv /\ [Next]_vars => IInv'
<1> SUFFICES ASSUME IInv, [Next]_vars PROVE IInv'
  OBVIOUS
<1> USE LockConstants DEF IInv, TypeOK, HolderInv, LevelInv, OwnerInv,
                          RecursionIsLevel, Inside, At, Goto, Label
<1>1. ASSUME NEW p \in Proc, reentrantlock_test(p) PROVE IInv'
  BY <1>1 DEF reentrantlock_test
<1>2. ASSUME NEW p \in Proc, acquire_reentered(p) PROVE IInv'
  BY <1>2 DEF acquire_reentered, Acquired
<1>3. ASSUME NEW p \in Proc, acquire_other(p) PROVE IInv'
  BY <1>3 DEF acquire_other
<1>4. ASSUME NEW p \in Proc, acquire(p) PROVE IInv'
  BY <1>4 DEF acquire
<1>5. ASSUME NEW p \in Proc, set_owner(p) PROVE IInv'
  BY <1>5 DEF set_owner, Acquired
<1>6. ASSUME NEW p \in Proc, releasereentrantlock(p) PROVE IInv'
  BY <1>6 DEF releasereentrantlock
<1>7. ASSUME NEW p \in Proc, unlock(p) PROVE IInv'
  BY <1>7 DEF unlock
<1>8. ASSUME NEW p \in Proc, clear_owner(p) PROVE IInv'
  BY <1>8 DEF clear_owner
<1>9. ASSUME NEW p \in Proc, Dispatch(p) \/ Preempt(p) PROVE IInv'
  BY <1>9 DEF Dispatch, Preempt
<1>10. CASE UNCHANGED vars
  BY <1>10 DEF vars
<1> QED
  BY <1>1, <1>2, <1>3, <1>4, <1>5, <1>6, <1>7, <1>8, <1>9, <1>10 DEF Next, Step

\* IInv is an invariant; type correctness is its first conjunct.
THEOREM Invariance == Spec => []IInv
  BY InitIInv, NextIInv, PTL DEF Spec

\* The variables of the lock and of its users always have their types.
THEOREM TypeCorrect == Spec => []TypeOK
<1>1. IInv => TypeOK
  BY DEF IInv
<1> QED
  BY Invariance, <1>1, PTL

\* Two processes are never both between acquirereentrantlock() and the
\* matching releasereentrantlock(), although the owner is tested without the
\* spinlock and cleared after it is released.
THEOREM Exclusion == Spec => []MutualExclusion
<1>1. IInv => MutualExclusion
  BY DEF IInv, HolderInv, MutualExclusion, Inside
<1> QED
  BY Invariance, <1>1, PTL

\* rlock.recursion is the number of acquires of the process that is inside.
THEOREM CountIsExact == Spec => []RecursionIsLevel
<1>1. IInv => RecursionIsLevel
  BY DEF IInv
<1> QED
  BY Invariance, <1>1, PTL

\* The holder of rlock.lock keeps its CPU: it is never preempted, so those who
\* spin on the lock do not keep it from running.
THEOREM HolderRuns == Spec => []HolderHasCpu
<1>1. Init => HolderHasCpu
  BY DEF Init, HolderHasCpu
<1>2. HolderHasCpu /\ [Next]_vars => HolderHasCpu'
  BY LockConstants DEF HolderHasCpu, Next, Step, vars, At, reentrantlock_test,
     acquire_reentered, acquire_other, acquire, set_owner, releasereentrantlock,
     unlock, clear_owner, Dispatch, Preempt
<1> QED
  BY <1>1, <1>2, PTL DEF Spec
-----------------------------------------------------------------------------
(* One CPU *)

\* With one CPU nobody clears rlock.owner while another process is inside,
\* because the process inside keeps the CPU.
OneCpuInv ==
  /\ IsFiniteSet(running)
  /\ \A p, q \in running : p = q
  /\ \A p \in Proc : level[p] > 0 => owner = p
  /\ \A p \in Proc : pc[p] = "spin" => level[p] = 0
  /\ HolderHasCpu
  /\ NoPanic

\* With one CPU every step keeps OneCpuInv.
LEMMA NextOneCpu == NCPU = 1 /\ IInv /\ OneCpuInv /\ [Next]_vars => OneCpuInv'
<1> SUFFICES ASSUME NCPU = 1, IInv, OneCpuInv, [Next]_vars PROVE OneCpuInv'
  OBVIOUS
<1> USE LockConstants DEF IInv, TypeOK, HolderInv, LevelInv, RecursionIsLevel,
          Inside, OneCpuInv, HolderHasCpu, NoPanic, At, Goto
<1>1. ASSUME NEW p \in Proc, reentrantlock_test(p) PROVE OneCpuInv'
  BY <1>1 DEF reentrantlock_test
<1>2. ASSUME NEW p \in Proc, acquire_reentered(p) PROVE OneCpuInv'
  BY <1>2 DEF acquire_reentered, Acquired
<1>3. ASSUME NEW p \in Proc, acquire_other(p) PROVE OneCpuInv'
  BY <1>3 DEF acquire_other
<1>4. ASSUME NEW p \in Proc, acquire(p) PROVE OneCpuInv'
  BY <1>4 DEF acquire
<1>5. ASSUME NEW p \in Proc, set_owner(p) PROVE OneCpuInv'
  BY <1>5 DEF set_owner, Acquired
<1>6. ASSUME NEW p \in Proc, releasereentrantlock(p) PROVE OneCpuInv'
  BY <1>6 DEF releasereentrantlock
<1>7. ASSUME NEW p \in Proc, unlock(p) PROVE OneCpuInv'
  BY <1>7 DEF unlock
<1>8. ASSUME NEW p \in Proc, clear_owner(p) PROVE OneCpuInv'
  <2>1. \A q \in Proc : level[q] = 0
    BY <1>8 DEF clear_owner
  <2> QED
    BY <1>8, <2>1 DEF clear_owner
<1>9. ASSUME NEW p \in Proc, Dispatch(p) PROVE OneCpuInv'
  <2>1. running = {}
    BY <1>9, FS_EmptySet, FS_CardinalityType DEF Dispatch
  <2>2. running' = {p} /\ IsFiniteSet(running')
    BY <1>9, <2>1, FS_AddElement DEF Dispatch
  <2> QED
    BY <1>9, <2>1, <2>2 DEF Dispatch
<1>10. ASSUME NEW p \in Proc, Preempt(p) PROVE OneCpuInv'
  <2>1. IsFiniteSet(running')
    BY <1>10, FS_RemoveElement DEF Preempt
  <2> QED
    BY <1>10, <2>1 DEF Preempt
<1>11. CASE UNCHANGED vars
  BY <1>11 DEF vars
<1> QED
  BY <1>1, <1>2, <1>3, <1>4, <1>5, <1>6, <1>7, <1>8, <1>9, <1>10, <1>11
     DEF Next, Step

\* On one CPU, as many processes as there may be use the lock to any depth
\* and none runs into the panic() of acquire() or of releasereentrantlock().
THEOREM OneCpuIsSafe == NCPU = 1 => (Spec => []NoPanic)
<1> SUFFICES ASSUME NCPU = 1 PROVE Spec => []NoPanic
  OBVIOUS
<1>1. Init => OneCpuInv
  BY LockConstants, FS_EmptySet DEF Init, OneCpuInv, HolderHasCpu, NoPanic
<1>2. IInv /\ OneCpuInv /\ [Next]_vars => OneCpuInv'
  BY NextOneCpu
<1>3. OneCpuInv => NoPanic
  BY DEF OneCpuInv
<1> QED
  BY Invariance, <1>1, <1>2, <1>3, PTL DEF Spec
=============================================================================
