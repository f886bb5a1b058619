--------------------------- MODULE ReentrantLock ---------------------------
(***************************************************************************)
(* The reentrant lock `rlock' of proc.c, built from a spinlock, an owner   *)
(* and a recursion count, used the way reentrantlock_test() uses it:       *)
(* acquire it Depth times recursively and release it as often.             *)
(*                                                                         *)
(* A CPU that holds the spinlock has interrupts off, so its process is not *)
(* preempted; everywhere else it may be.  Each read or write of rlock that *)
(* another CPU can see on its own is a step.                               *)
(***************************************************************************)
EXTENDS Integers, FiniteSets

CONSTANTS Proc, None,
          NCPU,   \* processors
          Depth   \* depth of the recursion (5 in reentrantlock_test())

ASSUME LockConstants ==
  /\ None \notin Proc
  /\ NCPU \in Nat \ {0}
  /\ Depth \in Nat \ {0}

VARIABLES holder,     \* rlock.lock: the process whose CPU holds it
          owner,      \* rlock.owner
          recursion,  \* rlock.recursion
          level,      \* acquires a process has made and not released
          pc,         \* where each process is
          running     \* processes on a CPU

vars == <<holder, owner, recursion, level, pc, running>>

Label == {"out", "acquire", "spin", "set_owner", "release", "unlock",
          "clear_owner", "panic"}

Init ==
  /\ holder = None
  /\ owner = None
  /\ recursion = 0
  /\ level = [p \in Proc |-> 0]
  /\ pc = [p \in Proc |-> "out"]
  /\ running = {}

At(p, l) == p \in running /\ pc[p] = l
Goto(p, l) == pc' = [pc EXCEPT ![p] = l]

\* reentrantlock_test() recurses until the depth is reached, then unwinds.
Acquired(p) ==
  /\ level' = [level EXCEPT ![p] = @ + 1]
  /\ Goto(p, IF level[p] + 1 < Depth THEN "acquire" ELSE "release")

\* A scheduler puts p on an idle CPU, or takes it off one where interrupts
\* are on; a CPU in panic() or spinning in acquire() has them off.
Dispatch(p) ==
  /\ p \notin running
  /\ Cardinality(running) < NCPU
  /\ running' = running \union {p}
  /\ UNCHANGED <<holder, owner, recursion, level, pc>>

\* Mutant of Preempt: interrupts stay on while the spinlock is held.
Preempt_interruptible(p) ==
  /\ p \in running
  /\ pc[p] \notin {"spin", "panic"}
  /\ running' = running \ {p}
  /\ UNCHANGED <<holder, owner, recursion, level, pc>>

Preempt(p) ==
  /\ p \in running
  /\ holder # p
  /\ pc[p] \notin {"spin", "panic"}
  /\ running' = running \ {p}
  /\ UNCHANGED <<holder, owner, recursion, level, pc>>

reentrantlock_test(p) ==
  /\ At(p, "out")
  /\ Goto(p, "acquire")
  /\ UNCHANGED <<holder, owner, recursion, level, running>>

\* Mutant of acquire_reentered: the recursion is not counted.
acquire_reentered_uncounted(p) ==
  /\ At(p, "acquire")
  /\ owner = p
  /\ Acquired(p)
  /\ UNCHANGED <<holder, owner, recursion, running>>

\* acquirereentrantlock(): rlock.owner is read without rlock.lock.
acquire_reentered(p) ==
  /\ At(p, "acquire")
  /\ owner = p
  /\ recursion' = recursion + 1
  /\ Acquired(p)
  /\ UNCHANGED <<holder, owner, running>>

acquire_other(p) ==
  /\ At(p, "acquire")
  /\ owner # p
  /\ Goto(p, "spin")
  /\ UNCHANGED <<holder, owner, recursion, level, running>>

\* acquire(&rlock.lock), which panics if this CPU holds the lock already.
acquire(p) ==
  /\ At(p, "spin")
  /\ \/ /\ holder = p
        /\ Goto(p, "panic")
        /\ UNCHANGED holder
     \/ /\ holder = None
        /\ holder' = p
        /\ Goto(p, "set_owner")
  /\ UNCHANGED <<owner, recursion, level, running>>

set_owner(p) ==
  /\ At(p, "set_owner")
  /\ owner' = p
  /\ recursion' = 1
  /\ Acquired(p)
  /\ UNCHANGED <<holder, running>>

\* Mutant of releasereentrantlock: the first release lets go of the lock.
releasereentrantlock_early(p) ==
  /\ At(p, "release")
  /\ owner = p
  /\ recursion' = recursion - 1
  /\ level' = [level EXCEPT ![p] = @ - 1]
  /\ Goto(p, "unlock")
  /\ UNCHANGED <<holder, owner, running>>

\* releasereentrantlock(), up to the test of rlock.recursion.
releasereentrantlock(p) ==
  /\ At(p, "release")
  /\ \/ /\ owner # p
        /\ Goto(p, "panic")
        /\ UNCHANGED <<recursion, level>>
     \/ /\ owner = p
        /\ recursion' = recursion - 1
        /\ level' = [level EXCEPT ![p] = @ - 1]
        /\ Goto(p, IF recursion' = 0 THEN "unlock" ELSE "release")
  /\ UNCHANGED <<holder, owner, running>>

\* release(&rlock.lock), and only then rlock.owner = 0.
unlock(p) ==
  /\ At(p, "unlock")
  /\ holder' = None
  /\ Goto(p, "clear_owner")
  /\ UNCHANGED <<owner, recursion, level, running>>

clear_owner(p) ==
  /\ At(p, "clear_owner")
  /\ owner' = None
  /\ Goto(p, "out")
  /\ UNCHANGED <<holder, recursion, level, running>>

Step(p) ==
  \/ reentrantlock_test(p) \/ acquire_reentered(p) \/ acquire_other(p)
  \/ acquire(p) \/ set_owner(p) \/ releasereentrantlock(p) \/ unlock(p)
  \/ clear_owner(p)

Next == \E p \in Proc : Step(p) \/ Dispatch(p) \/ Preempt(p)

Spec == Init /\ [][Next]_vars
-----------------------------------------------------------------------------
(* Properties *)

\* The owner, the recursion count and the threads have their types.
TypeOK ==
  /\ holder \in Proc \union {None}
  /\ owner \in Proc \union {None}
  /\ recursion \in Nat
  /\ level \in [Proc -> Nat]
  /\ pc \in [Proc -> Label]
  /\ running \in SUBSET Proc

\* A process is inside the lock from its first acquire to its last release.
Inside(p) == level[p] > 0

\* Two processes are never inside the reentrant lock together.
MutualExclusion == \A p, q \in Proc : Inside(p) /\ Inside(q) => p = q

\* While a process is inside, rlock.recursion counts its own acquires: no
\* other process disturbs the count, however the owner field is overwritten.
RecursionIsLevel == \A p \in Proc : Inside(p) => recursion = level[p]

\* A process is preempted only outside the lock: it never waits for a CPU
\* while the processes that have one spin on the lock it holds.
HolderHasCpu == holder # None => holder \in running

\* A process that acquires and releases the lock in matching pairs never
\* panics: it is recognised as the owner every time it comes back.
NoPanic == \A p \in Proc : pc[p] # "panic"
=============================================================================
