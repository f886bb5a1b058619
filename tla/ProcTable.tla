----------------------------- MODULE ProcTable -----------------------------
(***************************************************************************)
(* The process table of proc.c: allocproc(), fork(), exit(), wait(),       *)
(* kill(), sleep(), wakeup() and the hand-over of ptable.lock between the  *)
(* scheduler of a CPU and the process it runs, together with sys_sleep()   *)
(* and the timer interrupt of trap.c, which sleep and wake with tickslock. *)
(*                                                                         *)
(* Which RUNNABLE process a scheduler picks, and when a quantum ends, is   *)
(* left open here: module Scheduler is about that.  A process is named by  *)
(* its slot in the table.  `pc' is where its kernel thread is.             *)
(***************************************************************************)
EXTENDS Integers, FiniteSets

CONSTANTS NPROC,      \* slots of the process table
          NCPU,       \* processors, numbered from 0
          Pages,      \* pages kalloc() can hand out
          TickMod,    \* number of values of `ticks' (2^32 in the code)
          SleepArgs,  \* arguments user programs pass to sleep()
          Sleepers,   \* the slots whose programs call sleep()
          KillArgs,   \* arguments user programs pass to kill()
          MaxPid      \* bound: no fork() once nextpid is beyond it

ASSUME ProcConstants ==
  /\ NPROC \in Nat \ {0} /\ NCPU \in Nat \ {0} /\ Pages \in Nat /\ Pages >= 2
  /\ TickMod \in Nat \ {0} /\ SleepArgs \subseteq 1 .. TickMod - 1
  /\ MaxPid \in Nat /\ KillArgs \subseteq Nat /\ Sleepers \subseteq 1 .. NPROC

Slot == 1 .. NPROC
CPU == 0 .. NCPU - 1
Nobody == 0     \* a null struct proc pointer
Free == -1      \* nobody holds the lock
initproc == 1

VARIABLES
  state, pid, parent, chan, killed,  \* fields of struct proc
  kstack, pgdir,  \* whether the slot owns a kernel stack, an address space
  nextpid,
  free,           \* pages on the free list of kalloc.c
  proc,           \* c->proc of each CPU
  lock,           \* the CPU that holds ptable.lock
  tickslock,      \* the CPU that holds tickslock
  ticks,
  pc,             \* where the kernel thread of each process is
  saved,          \* where it was when the timer interrupt made it yield
  np,             \* local variable of fork()
  ticks0, n,      \* local variables of sys_sleep()
  intr            \* what the timer interrupt of each CPU is doing

table == <<state, pid, parent, chan, killed, kstack, pgdir, nextpid, free>>
locals == <<np, ticks0, n>>
clock == <<tickslock, ticks, intr>>
vars == <<table, proc, lock, clock, pc, saved, locals>>

TICKS == NPROC + 1  \* the channel &ticks; other channels are slots
States == {"UNUSED", "EMBRYO", "SLEEPING", "RUNNABLE", "RUNNING", "ZOMBIE"}

\* Labels of a thread about to swtch(), still holding ptable.lock, and those
\* of a thread that has, by the call of sched() it is in.
Leaving == {"yield1", "wait1", "sleep1", "exit1"}
Left == [l \in Leaving |-> CASE l = "yield1" -> "yield2" [] l = "wait1" -> "wait2"
                             [] l = "sleep1" -> "sleep2" [] l = "exit1" -> "exit2"]
Label == Leaving \union {Left[l] : l \in Leaving} \union
         {"none", "user", "forkret", "fork_kstack", "fork_copyuvm", "fork_run",
          "sleep_check", "sleep_relock", "panic"}

Goto(p, l) == pc' = [pc EXCEPT ![p] = l]
FreeSlots == {q \in Slot : state[q] = "UNUSED"}
Children(p) == {q \in Slot : parent[q] = p}
Zombies(p) == {q \in Children(p) : state[q] = "ZOMBIE"}

\* q is what a loop over the table finds first in the set S of slots.
IsFirst(q, S) == \A r \in S : q <= r

\* The first process (initcode, then init) once userinit() is done.
Init ==
  /\ state = [q \in Slot |-> IF q = initproc THEN "RUNNABLE" ELSE "UNUSED"]
  /\ pid = [q \in Slot |-> IF q = initproc THEN 1 ELSE 0]
  /\ parent = [q \in Slot |-> Nobody]
  /\ chan = [q \in Slot |-> Nobody]
  /\ killed = [q \in Slot |-> FALSE]
  /\ kstack = [q \in Slot |-> q = initproc]
  /\ pgdir = [q \in Slot |-> q = initproc]
  /\ nextpid = 2
  /\ free = Pages - 2
  /\ proc = [c \in CPU |-> Nobody]
  /\ lock = Free
  /\ tickslock = Free
  /\ ticks = 0
  /\ pc = [q \in Slot |-> IF q = initproc THEN "forkret" ELSE "none"]
  /\ saved = [q \in Slot |-> "none"]
  /\ np = [q \in Slot |-> Nobody]
  /\ ticks0 = [q \in Slot |-> 0]
  /\ n = [q \in Slot |-> 0]
  /\ intr = [c \in CPU |-> "none"]
-----------------------------------------------------------------------------
(* scheduler() and sched() *)

\* CPU c executes the kernel thread of p, at label l, not an interrupt handler.
At(c, p, l) == proc[c] = p /\ p # Nobody /\ pc[p] = l /\ intr[c] = "none"

\* run_process_on_cpu() up to its swtch(): ptable.lock stays held and it is
\* the thread of p that will release it.
run_process_on_cpu(c, p) ==
  /\ proc[c] = Nobody /\ intr[c] = "none"
  /\ lock = Free
  /\ state[p] = "RUNNABLE"
  /\ lock' = c
  /\ proc' = [proc EXCEPT ![c] = p]
  /\ state' = [state EXCEPT ![p] = "RUNNING"]
  /\ UNCHANGED <<pid, parent, chan, killed, kstack, pgdir, nextpid, free, clock,
                 pc, saved, locals>>

\* sched() leaves the thread of p for the scheduler of CPU c, which clears
\* c->proc and releases the lock p took.
sched(c, p) ==
  /\ proc[c] = p /\ p # Nobody /\ pc[p] \in Leaving
  /\ lock = c
  /\ Goto(p, Left[pc[p]])
  /\ proc' = [proc EXCEPT ![c] = Nobody]
  /\ lock' = Free
  /\ UNCHANGED <<table, clock, saved, locals>>

\* The first time a child runs, and the return from yield(): release the lock
\* the scheduler took.
forkret(c, p) ==
  /\ At(c, p, "forkret")
  /\ lock = c
  /\ lock' = Free
  /\ Goto(p, "user")
  /\ UNCHANGED <<table, proc, clock, saved, locals>>

yield_return(c, p) ==
  /\ At(c, p, "yield2")
  /\ lock = c
  /\ lock' = Free
  /\ Goto(p, saved[p])
  /\ saved' = [saved EXCEPT ![p] = "none"]
  /\ UNCHANGED <<table, proc, clock, locals>>
-----------------------------------------------------------------------------
(* fork() *)

\* A system call from user space; a killed process exits instead.
Enter(c, p) == At(c, p, "user") /\ ~killed[p]

\* allocproc() as far as its release of ptable.lock.
allocproc(c, p) ==
  /\ Enter(c, p)
  /\ lock = Free
  /\ nextpid <= MaxPid
  /\ \E q \in FreeSlots :
       /\ IsFirst(q, FreeSlots)
       /\ state' = [state EXCEPT ![q] = "EMBRYO"]
       /\ pid' = [pid EXCEPT ![q] = nextpid]
       /\ np' = [np EXCEPT ![p] = q]
  /\ nextpid' = nextpid + 1
  /\ Goto(p, "fork_kstack")
  /\ UNCHANGED <<parent, chan, killed, kstack, pgdir, free, proc, lock, clock,
                 saved, ticks0, n>>

\* fork() gives the slot back without ptable.lock, and without clearing pid.
ForkFails(p) ==
  /\ state' = [state EXCEPT ![np[p]] = "UNUSED"]
  /\ np' = [np EXCEPT ![p] = Nobody]
  /\ Goto(p, "user")

fork_kstack(c, p) ==
  /\ At(c, p, "fork_kstack")
  /\ \/ /\ free = 0
        /\ ForkFails(p)
        /\ UNCHANGED <<kstack, free>>
     \/ /\ free > 0
        /\ free' = free - 1
        /\ kstack' = [kstack EXCEPT ![np[p]] = TRUE]
        /\ Goto(p, "fork_copyuvm")
        /\ UNCHANGED <<state, np>>
  /\ UNCHANGED <<pid, parent, chan, killed, pgdir, nextpid, proc, lock, clock,
                 saved, ticks0, n>>

\* Mutant of fork_copyuvm: a failure does not free the kernel stack.
fork_copyuvm_leak(c, p) ==
  /\ At(c, p, "fork_copyuvm")
  /\ \/ /\ free = 0
        /\ kstack' = [kstack EXCEPT ![np[p]] = FALSE]
        /\ ForkFails(p)
        /\ UNCHANGED <<pgdir, parent, free>>
     \/ /\ free > 0
        /\ free' = free - 1
        /\ pgdir' = [pgdir EXCEPT ![np[p]] = TRUE]
        /\ parent' = [parent EXCEPT ![np[p]] = p]
        /\ Goto(p, "fork_run")
        /\ UNCHANGED <<kstack, state, np>>
  /\ UNCHANGED <<pid, chan, killed, nextpid, proc, lock, clock, saved, ticks0, n>>

\* copyuvm(), and the fields fork() fills in while nobody else looks at an
\* EMBRYO; an address space is one page here.
fork_copyuvm(c, p) ==
  /\ At(c, p, "fork_copyuvm")
  /\ \/ /\ free = 0
        /\ free' = free + 1
        /\ kstack' = [kstack EXCEPT ![np[p]] = FALSE]
        /\ ForkFails(p)
        /\ UNCHANGED <<pgdir, parent>>
     \/ /\ free > 0
        /\ free' = free - 1
        /\ pgdir' = [pgdir EXCEPT ![np[p]] = TRUE]
        /\ parent' = [parent EXCEPT ![np[p]] = p]
        /\ Goto(p, "fork_run")
        /\ UNCHANGED <<kstack, state, np>>
  /\ UNCHANGED <<pid, chan, killed, nextpid, proc, lock, clock, saved, ticks0, n>>

fork_run(c, p) ==
  /\ At(c, p, "fork_run")
  /\ lock = Free
  /\ state' = [state EXCEPT ![np[p]] = "RUNNABLE"]
  /\ pc' = [pc EXCEPT ![p] = "user", ![np[p]] = "forkret"]
  /\ np' = [np EXCEPT ![p] = Nobody]
  /\ UNCHANGED <<pid, parent, chan, killed, kstack, pgdir, nextpid, free, proc,
                 lock, clock, saved, ticks0, n>>
-----------------------------------------------------------------------------
(* exit(), wait() and kill() *)

\* Mutant of wakeup1: only the first sleeper of the table is woken.
wakeup1_one(chans) ==
  LET sleepers == {q \in Slot : state[q] = "SLEEPING" /\ chan[q] \in chans}
  IN  [q \in Slot |-> IF q \in sleepers /\ IsFirst(q, sleepers) THEN "RUNNABLE" ELSE state[q]]

\* The table after wakeup1(ch) for every ch in chans.
wakeup1(chans) ==
  [q \in Slot |-> IF state[q] = "SLEEPING" /\ chan[q] \in chans
                  THEN "RUNNABLE" ELSE state[q]]

\* Mutants of ExitLocked: the parent is not woken; the children keep their
\* parent.
ExitLocked_silent(c, p) ==
  /\ lock = Free
  /\ lock' = c
  /\ state' = [state EXCEPT ![p] = "ZOMBIE"]
  /\ parent' = [q \in Slot |-> IF parent[q] = p THEN initproc ELSE parent[q]]
  /\ Goto(p, "exit1")

ExitLocked_orphans(c, p) ==
  /\ lock = Free
  /\ lock' = c
  /\ state' = [wakeup1({parent[p]}) EXCEPT ![p] = "ZOMBIE"]
  /\ Goto(p, "exit1")
  /\ UNCHANGED parent

\* exit() from its acquire(&ptable.lock) to its sched().
ExitLocked(c, p) ==
  /\ lock = Free
  /\ lock' = c
  /\ LET orphanedZombie == \E q \in Children(p) : state[q] = "ZOMBIE"
         woken == {parent[p]} \union (IF orphanedZombie THEN {initproc} ELSE {})
     IN  state' = [wakeup1(woken) EXCEPT ![p] = "ZOMBIE"]
  /\ parent' = [q \in Slot |-> IF parent[q] = p THEN initproc ELSE parent[q]]
  /\ Goto(p, "exit1")

\* exit(): init must not, and stops its CPU in panic().
Exit(c, p) ==
  /\ \/ /\ p = initproc
        /\ Goto(p, "panic")
        /\ UNCHANGED <<state, parent, lock>>
     \/ p # initproc /\ ExitLocked(c, p)
  /\ UNCHANGED <<pid, chan, killed, kstack, pgdir, nextpid, free, proc, tickslock,
                 ticks, saved, locals>>

\* sys_exit(), or the system call of a killed process.
exit(c, p) ==
  /\ At(c, p, "user")
  /\ Exit(c, p)
  /\ UNCHANGED intr

\* One round of the loop of wait(), with ptable.lock held by c: it reaps the
\* first zombie, has nothing to wait for, or sleeps.
wait_reap(p) ==
  /\ \E q \in Zombies(p) :
       /\ IsFirst(q, Zombies(p))
       /\ kstack' = [kstack EXCEPT ![q] = FALSE]
       /\ pgdir' = [pgdir EXCEPT ![q] = FALSE]
       /\ pid' = [pid EXCEPT ![q] = 0]
       /\ parent' = [parent EXCEPT ![q] = Nobody]
       /\ killed' = [killed EXCEPT ![q] = FALSE]
       /\ state' = [state EXCEPT ![q] = "UNUSED"]
       /\ pc' = [pc EXCEPT ![p] = "user", ![q] = "none"]
  /\ free' = free + 2
  /\ chan' = [chan EXCEPT ![p] = Nobody]
  /\ lock' = Free

wait_fails(p) ==
  /\ Zombies(p) = {}
  /\ Children(p) = {} \/ killed[p]
  /\ chan' = [chan EXCEPT ![p] = Nobody]
  /\ lock' = Free
  /\ Goto(p, "user")
  /\ UNCHANGED <<state, pid, parent, killed, kstack, pgdir, free>>

wait_sleep(c, p) ==
  /\ Zombies(p) = {}
  /\ Children(p) # {} /\ ~killed[p]
  /\ chan' = [chan EXCEPT ![p] = p]
  /\ state' = [state EXCEPT ![p] = "SLEEPING"]
  /\ lock' = c
  /\ Goto(p, "wait1")
  /\ UNCHANGED <<pid, parent, killed, kstack, pgdir, free>>

wait(c, p) ==
  /\ \/ Enter(c, p) /\ lock = Free
     \/ At(c, p, "wait2") /\ lock = c
  /\ wait_reap(p) \/ wait_fails(p) \/ wait_sleep(c, p)
  /\ UNCHANGED <<nextpid, proc, clock, saved, locals>>

kill(c, p, target) ==
  /\ Enter(c, p)
  /\ lock = Free
  /\ LET found == {q \in Slot : pid[q] = target} IN
       \E q \in found :
         /\ IsFirst(q, found)
         /\ killed' = [killed EXCEPT ![q] = TRUE]
         /\ state' = [state EXCEPT ![q] = IF @ = "SLEEPING" THEN "RUNNABLE" ELSE @]
  /\ UNCHANGED <<pid, parent, chan, kstack, pgdir, nextpid, free, proc, lock,
                 clock, pc, saved, locals>>
-----------------------------------------------------------------------------
(* sys_sleep(), which calls sleep() with a lock other than ptable.lock *)

sys_sleep(c, p) ==
  /\ Enter(c, p) /\ p \in Sleepers
  /\ tickslock = Free
  /\ tickslock' = c
  /\ ticks0' = [ticks0 EXCEPT ![p] = ticks]
  /\ \E k \in SleepArgs : n' = [n EXCEPT ![p] = k]
  /\ Goto(p, "sleep_check")
  /\ UNCHANGED <<table, proc, lock, ticks, intr, saved, np>>

\* ticks - ticks0 < n, in unsigned arithmetic.
TooEarly(p) == (ticks - ticks0[p]) % TickMod < n[p]

sys_sleep_return(c, p) ==
  /\ At(c, p, "sleep_check")
  /\ ~TooEarly(p) \/ killed[p]
  /\ tickslock' = Free
  /\ ticks0' = [ticks0 EXCEPT ![p] = 0]
  /\ n' = [n EXCEPT ![p] = 0]
  /\ Goto(p, "user")
  /\ UNCHANGED <<table, proc, lock, ticks, intr, saved, np>>

\* sleep(&ticks, &tickslock) up to its sched(): take ptable.lock, and only
\* then release tickslock.
sleep(c, p) ==
  /\ At(c, p, "sleep_check")
  /\ TooEarly(p) /\ ~killed[p]
  /\ lock = Free
  /\ lock' = c
  /\ tickslock' = Free
  /\ chan' = [chan EXCEPT ![p] = TICKS]
  /\ state' = [state EXCEPT ![p] = "SLEEPING"]
  /\ Goto(p, "sleep1")
  /\ UNCHANGED <<pid, parent, killed, kstack, pgdir, nextpid, free, proc, ticks,
                 intr, saved, locals>>

\* The rest of sleep(): tidy up and release ptable.lock, then take tickslock.
sleep_return(c, p) ==
  /\ At(c, p, "sleep2")
  /\ lock = c
  /\ lock' = Free
  /\ chan' = [chan EXCEPT ![p] = Nobody]
  /\ Goto(p, "sleep_relock")
  /\ UNCHANGED <<state, pid, parent, killed, kstack, pgdir, nextpid, free, proc,
                 clock, saved, locals>>

sleep_relock(c, p) ==
  /\ At(c, p, "sleep_relock")
  /\ tickslock = Free
  /\ tickslock' = c
  /\ Goto(p, "sleep_check")
  /\ UNCHANGED <<table, proc, lock, ticks, intr, saved, locals>>
-----------------------------------------------------------------------------
(* The timer interrupt, in trap() *)

\* Interrupts are off on a CPU that holds a spinlock, handles an interrupt or
\* is in panic().
InterruptsOn(c) ==
  /\ intr[c] = "none"
  /\ lock # c /\ tickslock # c
  /\ proc[c] # Nobody => pc[proc[c]] # "panic"

SetIntr(c, i) == intr' = [intr EXCEPT ![c] = i]

timer(c) ==
  /\ InterruptsOn(c)
  /\ SetIntr(c, IF c = 0 THEN "tick" ELSE "tail")
  /\ UNCHANGED <<table, proc, lock, tickslock, ticks, pc, saved, locals>>

tick(c) ==
  /\ intr[c] = "tick"
  /\ tickslock = Free
  /\ tickslock' = c
  /\ ticks' = (ticks + 1) % TickMod
  /\ SetIntr(c, "wakeup")
  /\ UNCHANGED <<table, proc, lock, pc, saved, locals>>

tick_wakeup(c) ==
  /\ intr[c] = "wakeup"
  /\ lock = Free
  /\ state' = wakeup1({TICKS})
  /\ tickslock' = Free
  /\ SetIntr(c, "tail")
  /\ UNCHANGED <<pid, parent, chan, killed, kstack, pgdir, nextpid, free, proc,
                 lock, ticks, pc, saved, locals>>

\* The end of trap() after a timer interrupt.
MustExit(p) == killed[p] /\ pc[p] = "user"

trap_exit(c) ==
  /\ intr[c] = "tail"
  /\ proc[c] # Nobody
  /\ MustExit(proc[c])
  /\ Exit(c, proc[c])
  /\ SetIntr(c, "none")

trap_return(c) ==
  /\ intr[c] = "tail"
  /\ proc[c] # Nobody => ~MustExit(proc[c])
  /\ SetIntr(c, "none")
  /\ UNCHANGED <<table, proc, lock, tickslock, ticks, pc, saved, locals>>

\* Mutant of yield: ptable.lock is released before sched().
yield_unlocked(c, p) ==
  /\ intr[c] = "tail"
  /\ proc[c] = p /\ p # Nobody
  /\ ~MustExit(p)
  /\ state[p] = "RUNNING"
  /\ lock = Free
  /\ state' = [state EXCEPT ![p] = "RUNNABLE"]
  /\ saved' = [saved EXCEPT ![p] = pc[p]]
  /\ Goto(p, "yield1")
  /\ SetIntr(c, "none")
  /\ UNCHANGED <<pid, parent, chan, killed, kstack, pgdir, nextpid, free, proc,
                 lock, tickslock, ticks, locals>>

yield(c, p) ==
  /\ intr[c] = "tail"
  /\ proc[c] = p /\ p # Nobody
  /\ ~MustExit(p)
  /\ state[p] = "RUNNING"
  /\ lock = Free
  /\ lock' = c
  /\ state' = [state EXCEPT ![p] = "RUNNABLE"]
  /\ saved' = [saved EXCEPT ![p] = pc[p]]
  /\ Goto(p, "yield1")
  /\ SetIntr(c, "none")
  /\ UNCHANGED <<pid, parent, chan, killed, kstack, pgdir, nextpid, free, proc,
                 tickslock, ticks, locals>>
-----------------------------------------------------------------------------
Interrupt(c) ==
  timer(c) \/ tick(c) \/ tick_wakeup(c) \/ trap_exit(c) \/ trap_return(c)

Step(c, p) ==
  \/ run_process_on_cpu(c, p) \/ sched(c, p) \/ forkret(c, p) \/ yield_return(c, p)
  \/ allocproc(c, p) \/ fork_kstack(c, p) \/ fork_copyuvm(c, p) \/ fork_run(c, p)
  \/ exit(c, p) \/ wait(c, p)
  \/ \E target \in KillArgs : kill(c, p, target)
  \/ sys_sleep(c, p) \/ sys_sleep_return(c, p)
  \/ sleep(c, p) \/ sleep_return(c, p) \/ sleep_relock(c, p)
  \/ yield(c, p)

Next == \E c \in CPU : Interrupt(c) \/ \E p \in Slot : Step(c, p)

Spec == Init /\ [][Next]_vars
-----------------------------------------------------------------------------
(* Properties *)

\* Every field of the process table and every kernel thread has its type.
TypeOK ==
  /\ state \in [Slot -> States]
  /\ pid \in [Slot -> Nat]
  /\ parent \in [Slot -> Slot \union {Nobody}]
  /\ chan \in [Slot -> Slot \union {TICKS, Nobody}]
  /\ killed \in [Slot -> BOOLEAN]
  /\ kstack \in [Slot -> BOOLEAN]
  /\ pgdir \in [Slot -> BOOLEAN]
  /\ nextpid \in Nat
  /\ free \in 0 .. Pages
  /\ proc \in [CPU -> Slot \union {Nobody}]
  /\ lock \in CPU \union {Free}
  /\ tickslock \in CPU \union {Free}
  /\ ticks \in 0 .. TickMod - 1
  /\ pc \in [Slot -> Label]
  /\ saved \in [Slot -> Label]
  /\ np \in [Slot -> Slot \union {Nobody}]
  /\ ticks0 \in [Slot -> 0 .. TickMod - 1]
  /\ n \in [Slot -> 0 .. TickMod - 1]
  /\ intr \in [CPU -> {"none", "tick", "wakeup", "tail"}]

\* No two CPUs ever execute on the kernel stack of the same process, although
\* yield() makes a process RUNNABLE before it has left its stack.  A process
\* that the table calls RUNNING is on a CPU, and a CPU outside the hand-over of
\* ptable.lock runs a process that the table calls RUNNING.
OneCpuPerProcess ==
  /\ \A c, d \in CPU : proc[c] = proc[d] /\ proc[c] # Nobody => c = d
  /\ \A p \in Slot : state[p] = "RUNNING" => \E c \in CPU : proc[c] = p
  /\ \A c \in CPU : proc[c] # Nobody /\ lock # c => state[proc[c]] = "RUNNING"

\* The wakeup1(parent) of exit() is never lost: once exit() has released
\* ptable.lock, no process sleeps in wait() while it has a zombie to reap.
NoLostExit ==
  lock = Free =>
    \A p, q \in Slot : state[p] = "SLEEPING" /\ chan[p] = p /\ parent[q] = p =>
                         state[q] # "ZOMBIE"

\* The wakeup(&ticks) of the timer interrupt is never lost: a process sleeps in
\* sys_sleep() only while its time has not come, except until the interrupt
\* that made it come reaches its wakeup(&ticks).
NoLostTick ==
  \A p \in Slot : state[p] = "SLEEPING" /\ chan[p] = TICKS =>
    TooEarly(p) \/ \E c \in CPU : intr[c] = "wakeup"

\* exit() leaves no orphan: the parent of a process in the table is a process
\* that has not exited, so somebody can still reap it.
ParentIsAlive ==
  \A q \in Slot : parent[q] # Nobody =>
    /\ state[q] # "UNUSED"
    /\ state[parent[q]] \notin {"UNUSED", "EMBRYO", "ZOMBIE"}

\* Whatever fails half-way through fork(), every page is on the free list or
\* belongs to a slot in use, a free slot owns none, and no slot is stuck as an
\* EMBRYO: a process is still in fork() for it.  Every variable keeps its type.
NothingLeaks ==
  /\ TypeOK
  /\ free + Cardinality({q \in Slot : kstack[q]})
          + Cardinality({q \in Slot : pgdir[q]}) = Pages
  /\ \A q \in Slot : state[q] = "UNUSED" => ~kstack[q] /\ ~pgdir[q]
  /\ \A q \in Slot : state[q] = "EMBRYO" =>
       \E p \in Slot : np[p] = q /\ state[p] \in {"RUNNING", "RUNNABLE"}
=============================================================================
