--------------------------- MODULE ProcTableSteps ---------------------------
(***************************************************************************)
(* The inductive invariant of the process table, the steps sorted by what  *)
(* they disturb, and the proof that every step keeps the first two parts   *)
(* of the invariant, the types and the hand-over of ptable.lock.           *)
(*                                                                         *)
(* What makes it inductive is who holds ptable.lock.  A thread that a      *)
(* scheduler has just switched to, or that is about to switch away, is on  *)
(* the CPU that holds the lock (CpuInv); and the slot that fork() works on *)
(* with the lock released is an EMBRYO nobody else works on (ForkInv) and  *)
(* owns what fork() has got for it so far (OwnInv).                        *)
(*                                                                         *)
(* Most of the 25 actions disturb little.  What a step leaves alone is     *)
(* stated once, as a shape (Awakens, Moves, Light...); the actions are     *)
(* matched with the shapes, and the invariants are proved from these.      *)
(***************************************************************************)
EXTENDS ProcTable, TLAPS

\* The labels at which a thread continues when a scheduler switches to it.
Back == {"forkret", "yield2", "wait2", "sleep2"}

\* Where the thread of p is in its own code, a yield() of the timer apart.
Where(p) == IF pc[p] \in {"yield1", "yield2"} THEN saved[p] ELSE pc[p]

Forking == {"fork_kstack", "fork_copyuvm", "fork_run"}

\* TypeOK, but for the bound on `free', which follows from PageInv.
TypeInv ==
  /\ state \in [Slot -> States]
  /\ pid \in [Slot -> Nat]
  /\ parent \in [Slot -> Slot \union {Nobody}]
  /\ chan \in [Slot -> Slot \union {TICKS, Nobody}]
  /\ killed \in [Slot -> BOOLEAN]
  /\ kstack \in [Slot -> BOOLEAN]
  /\ pgdir \in [Slot -> BOOLEAN]
  /\ nextpid \in Nat
  /\ free \in Nat
  /\ proc \in [CPU -> Slot \union {Nobody}]
  /\ lock \in CPU \union {Free}
  /\ tickslock \in CPU \union {Free}
  /\ ticks \in 0 .. TickMod - 1
  /\ pc \in [Slot -> Label]
  /\ saved \in [Slot -> Label]
  /\ np \in [Slot -> Slot \union {Nobody}]
  /\ ticks0 \in [Slot -> 0 .. TickMod - 1]
  /\ n \in [Slot -> 0 .. TickMod - 1]
  /\ intr \in [CPU -> {"none", "tick", "wakeup", "tail"}]

\* A CPU that holds ptable.lock is in a hand-over; any other one executes a
\* RUNNING process outside of it; and a process that waits for a CPU continues
\* in a hand-over.
CpuInv ==
  /\ \A c, d \in CPU : proc[c] = proc[d] /\ proc[c] # Nobody => c = d
  /\ \A c \in CPU : lock = c =>
       /\ proc[c] # Nobody
       /\ \/ pc[proc[c]] = "exit1" /\ state[proc[c]] = "ZOMBIE"
          \/ pc[proc[c]] \in Leaving \ {"exit1"}
             /\ state[proc[c]] \in {"RUNNABLE", "SLEEPING"}
          \/ pc[proc[c]] \in Back /\ state[proc[c]] = "RUNNING"
  /\ \A c \in CPU : lock # c /\ proc[c] # Nobody =>
       state[proc[c]] = "RUNNING" /\ pc[proc[c]] \notin Leaving \union Back
  /\ \A p \in Slot : state[p] = "RUNNING" => \E c \in CPU : proc[c] = p
  /\ \A p \in Slot : state[p] \in {"RUNNABLE", "SLEEPING"} =>
       pc[p] \in Back \/ \E c \in CPU : proc[c] = p
  /\ \A p \in Slot : pc[p] \in {"yield1", "yield2"} => saved[p] \notin Leaving \union Back

\* The slots that fork() works on.
ForkInv ==
  /\ \A p \in Slot : np[p] # Nobody => state[np[p]] = "EMBRYO"
  /\ \A p, q \in Slot : np[p] = np[q] /\ np[p] # Nobody => p = q
  /\ \A p \in Slot : np[p] # Nobody <=> Where(p) \in Forking
  /\ \A p \in Slot : Where(p) \in {"fork_kstack", "fork_copyuvm"} => parent[np[p]] = Nobody
  /\ \A p \in Slot : np[p] # Nobody => state[p] \in {"RUNNING", "RUNNABLE"}

\* init has no parent and is always there, and nobody is its own parent.
ParentInv ==
  /\ ParentIsAlive
  /\ parent[initproc] = Nobody
  /\ state[initproc] \notin {"UNUSED", "EMBRYO", "ZOMBIE"}
  /\ \A q \in Slot : parent[q] # q

\* NoLostExit also while ptable.lock is held.
ExitInv ==
  \A p, q \in Slot : state[p] = "SLEEPING" /\ chan[p] = p /\ parent[q] = p =>
                       state[q] # "ZOMBIE"

\* Which slots own pages: a slot in use has both, a free one none, and an
\* EMBRYO what the process that is in fork() for it has got so far.
OwnInv ==
  /\ \A q \in Slot : state[q] = "UNUSED" => ~kstack[q] /\ ~pgdir[q]
  /\ \A q \in Slot : state[q] \notin {"UNUSED", "EMBRYO"} => kstack[q] /\ pgdir[q]
  /\ \A q \in Slot : state[q] = "EMBRYO" => \E p \in Slot : np[p] = q
  /\ \A p \in Slot : Where(p) \in Forking =>
       /\ kstack[np[p]] <=> Where(p) # "fork_kstack"
       /\ pgdir[np[p]] <=> Where(p) = "fork_run"

\* Every page is on the free list or owned.
Owned(f) == Cardinality({q \in Slot : f[q]})

PageInv == free + Owned(kstack) + Owned(pgdir) = Pages

IInv ==
  /\ TypeInv /\ CpuInv /\ ForkInv /\ ParentInv /\ ExitInv /\ NoLostTick
  /\ OwnInv /\ PageInv
-----------------------------------------------------------------------------
\* The facts about the constants that the proofs use.
LEMMA Names ==
  /\ Free \notin CPU /\ Nobody \notin Slot /\ TICKS \notin Slot /\ TICKS # Nobody
  /\ initproc \in Slot
  BY ProcConstants DEF Free, CPU, Nobody, Slot, TICKS, initproc

\* Where a thread continues after its sched().
LEMMA LeftLabels ==
  /\ Left["yield1"] = "yield2" /\ Left["wait1"] = "wait2"
  /\ Left["sleep1"] = "sleep2" /\ Left["exit1"] = "exit2"
  BY DEF Left, Leaving

\* All the places where a thread can be.
LEMMA Labels ==
  Label = {"yield1", "wait1", "sleep1", "exit1", "yield2", "wait2", "sleep2", "exit2",
           "none", "user", "forkret", "fork_kstack", "fork_copyuvm", "fork_run",
           "sleep_check", "sleep_relock", "panic"}
  BY LeftLabels DEF Label, Leaving

\* What wait() finds on every round of its loop, and what it does with the
\* zombie q.
Waits(c, p) ==
  /\ proc[c] = p /\ pc[p] \in {"user", "wait2"} /\ intr[c] = "none"
  /\ lock = Free \/ lock = c
  /\ UNCHANGED <<nextpid, proc, clock, saved, locals>>

Reaps(p, q) ==
  /\ q # p /\ parent[q] = p /\ state[q] = "ZOMBIE"
  /\ kstack' = [kstack EXCEPT ![q] = FALSE]
  /\ pgdir' = [pgdir EXCEPT ![q] = FALSE]
  /\ pid' = [pid EXCEPT ![q] = 0]
  /\ parent' = [parent EXCEPT ![q] = Nobody]
  /\ killed' = [killed EXCEPT ![q] = FALSE]
  /\ state' = [state EXCEPT ![q] = "UNUSED"]
  /\ pc' = [pc EXCEPT ![p] = "user", ![q] = "none"]
  /\ free' = free + 2
  /\ chan' = [chan EXCEPT ![p] = Nobody]
  /\ lock' = Free

\* exit() is called by a system call or at the end of an interrupt.
Exits(c, p) ==
  /\ proc[c] = p /\ pc[p] = "user"
  /\ intr[c] \in {"none", "tail"} /\ intr' \in {intr, [intr EXCEPT ![c] = "none"]}
  /\ UNCHANGED <<pid, chan, killed, kstack, pgdir, nextpid, free, proc, tickslock,
                 ticks, saved, locals>>

Panics(p) == p = initproc /\ Goto(p, "panic") /\ UNCHANGED <<state, parent, lock>>

\* allocproc() for the slot q.
Allocs(c, p, q) ==
  /\ proc[c] = p /\ pc[p] = "user" /\ intr[c] = "none" /\ lock = Free
  /\ state[q] = "UNUSED"
  /\ state' = [state EXCEPT ![q] = "EMBRYO"]
  /\ pid' = [pid EXCEPT ![q] = nextpid]
  /\ np' = [np EXCEPT ![p] = q]
  /\ nextpid' = nextpid + 1
  /\ pc' = [pc EXCEPT ![p] = "fork_kstack"]
  /\ UNCHANGED <<parent, chan, killed, kstack, pgdir, free, proc, lock, clock,
                 saved, ticks0, n>>

\* What fork() finds at each of its steps for the slot q, and how these end.
Forks(c, p, q, l) ==
  /\ proc[c] = p /\ pc[p] = l /\ intr[c] = "none"
  /\ np[p] = q /\ state[q] = "EMBRYO"
  /\ UNCHANGED <<pid, chan, killed, nextpid, proc, lock, clock, saved, ticks0, n>>

FailsFor(p, q) ==
  /\ state' = [state EXCEPT ![q] = "UNUSED"]
  /\ np' = [np EXCEPT ![p] = Nobody]
  /\ pc' = [pc EXCEPT ![p] = "user"]
  /\ UNCHANGED <<pgdir, parent>>

KstackFails(p, q) == FailsFor(p, q) /\ UNCHANGED <<kstack, free>>

KstackDone(p, q) ==
  /\ free' \in Nat /\ free = free' + 1
  /\ kstack' = [kstack EXCEPT ![q] = TRUE]
  /\ pc' = [pc EXCEPT ![p] = "fork_copyuvm"]
  /\ UNCHANGED <<pgdir, parent, state, np>>

CopyFails(p, q) ==
  /\ FailsFor(p, q)
  /\ free' = free + 1
  /\ kstack' = [kstack EXCEPT ![q] = FALSE]

CopyDone(p, q) ==
  /\ free' \in Nat /\ free = free' + 1
  /\ pgdir' = [pgdir EXCEPT ![q] = TRUE]
  /\ parent' = [parent EXCEPT ![q] = p]
  /\ pc' = [pc EXCEPT ![p] = "fork_run"]
  /\ UNCHANGED <<kstack, state, np>>

RunsChild(p, q) ==
  /\ lock = Free
  /\ state' = [state EXCEPT ![q] = "RUNNABLE"]
  /\ pc' = [pc EXCEPT ![p] = "user", ![q] = "forkret"]
  /\ np' = [np EXCEPT ![p] = Nobody]
  /\ UNCHANGED <<parent, kstack, pgdir, free>>

-----------------------------------------------------------------------------
(* The steps, sorted *)

\* Steps of a process that leave parents, pages and the slots of fork() alone.
Ordinary(c, p) ==
  \/ run_process_on_cpu(c, p) \/ sched(c, p) \/ forkret(c, p) \/ yield_return(c, p)
  \/ Waits(c, p) /\ (wait_fails(p) \/ wait_sleep(c, p))
  \/ \E target \in KillArgs : kill(c, p, target)
  \/ Exits(c, p) /\ Panics(p)
  \/ sys_sleep(c, p) \/ sys_sleep_return(c, p)
  \/ sleep(c, p) \/ sleep_return(c, p) \/ sleep_relock(c, p) \/ yield(c, p)

\* Steps of an interrupt handler other than exit().
Handler(c) == timer(c) \/ tick(c) \/ tick_wakeup(c) \/ trap_return(c)

\* Steps that work on the slot q: those of fork(), and wait() with a zombie.
OnSlot(c, p, q) ==
  \/ Allocs(c, p, q)
  \/ Forks(c, p, q, "fork_kstack") /\ (KstackFails(p, q) \/ KstackDone(p, q))
  \/ Forks(c, p, q, "fork_copyuvm") /\ (CopyFails(p, q) \/ CopyDone(p, q))
  \/ Forks(c, p, q, "fork_run") /\ RunsChild(p, q)
  \/ Waits(c, p) /\ Reaps(p, q)

\* The locked part of exit(), called by a process other than init.
Ends(c, p) == Exits(c, p) /\ p # initproc /\ ExitLocked(c, p)

\* Every step is one of these.
LEMMA StepCases ==
  ASSUME TypeInv, ForkInv, ParentInv, [Next]_vars
  PROVE  \/ \E c \in CPU, p \in Slot : \/ Ordinary(c, p) \/ Ends(c, p)
                                       \/ \E q \in Slot : OnSlot(c, p, q)
         \/ \E c \in CPU : Handler(c)
         \/ UNCHANGED vars
<1>1. ASSUME NEW c \in CPU, NEW p \in Slot, allocproc(c, p)
      PROVE  \E q \in Slot : Allocs(c, p, q)
  <2>1. PICK q \in FreeSlots : /\ state' = [state EXCEPT ![q] = "EMBRYO"]
                              /\ pid' = [pid EXCEPT ![q] = nextpid]
                              /\ np' = [np EXCEPT ![p] = q]
    BY Zenon, <1>1 DEF allocproc
  <2>2. q \in Slot /\ Allocs(c, p, q)
    BY Zenon, <1>1, <2>1 DEF allocproc, Allocs, Enter, At, FreeSlots, Goto
  <2> QED
    BY <2>2
<1>2. ASSUME NEW c \in CPU, NEW p \in Slot,
             fork_kstack(c, p) \/ fork_copyuvm(c, p) \/ fork_run(c, p)
      PROVE  OnSlot(c, p, np[p]) /\ np[p] \in Slot
  <2>1. np[p] \in Slot /\ state[np[p]] = "EMBRYO" /\ free \in Nat
    BY <1>2 DEF TypeInv, ForkInv, Where, Forking, fork_kstack, fork_copyuvm, fork_run, At
  <2>2. CASE fork_kstack(c, p)
    BY <2>1, <2>2 DEF fork_kstack, ForkFails, Goto, At, OnSlot, Forks, FailsFor,
       KstackFails, KstackDone
  <2>3. CASE fork_copyuvm(c, p)
    BY <2>1, <2>3 DEF fork_copyuvm, ForkFails, Goto, At, OnSlot, Forks, FailsFor,
       CopyFails, CopyDone
  <2>4. CASE fork_run(c, p)
    BY <2>1, <2>4 DEF fork_run, At, OnSlot, Forks, RunsChild
  <2> QED
    BY <1>2, <2>1, <2>2, <2>3, <2>4
<1>3. ASSUME NEW c \in CPU, NEW p \in Slot, wait(c, p)
      PROVE  Ordinary(c, p) \/ \E q \in Slot : OnSlot(c, p, q)
  <2>1. Waits(c, p) /\ (wait_reap(p) \/ wait_fails(p) \/ wait_sleep(c, p))
    BY <1>3 DEF Waits, wait, Enter, At
  <2>2. ASSUME wait_reap(p) PROVE \E q \in Slot : Reaps(p, q)
    <3>1. PICK q \in Zombies(p) :
                /\ kstack' = [kstack EXCEPT ![q] = FALSE]
                /\ pgdir' = [pgdir EXCEPT ![q] = FALSE]
                /\ pid' = [pid EXCEPT ![q] = 0]
                /\ parent' = [parent EXCEPT ![q] = Nobody]
                /\ killed' = [killed EXCEPT ![q] = FALSE]
                /\ state' = [state EXCEPT ![q] = "UNUSED"]
                /\ pc' = [pc EXCEPT ![p] = "user", ![q] = "none"]
      BY Zenon, <2>2 DEF wait_reap
    <3>2. q \in Slot /\ parent[q] = p /\ state[q] = "ZOMBIE" /\ q # p
      BY DEF Zombies, Children, ParentInv
    <3>3. Reaps(p, q)
      BY Zenon, <2>2, <3>1, <3>2 DEF wait_reap, Reaps
    <3> QED
      BY <3>2, <3>3
  <2> QED
    BY <2>1, <2>2 DEF Ordinary, OnSlot
<1>4. ASSUME NEW c \in CPU, NEW p \in Slot, exit(c, p) PROVE Ordinary(c, p) \/ Ends(c, p)
  <2>1. Exits(c, p) /\ (Panics(p) \/ (p # initproc /\ ExitLocked(c, p)))
    BY <1>4 DEF Exits, Panics, exit, Exit, At
  <2> QED
    BY <2>1 DEF Ordinary, Ends
<1>5. ASSUME NEW c \in CPU, trap_exit(c)
      PROVE  \E p \in Slot : Ordinary(c, p) \/ Ends(c, p)
  <2>1. proc[c] \in Slot
    BY <1>5 DEF trap_exit, TypeInv
  <2>2. /\ Exits(c, proc[c])
        /\ Panics(proc[c]) \/ (proc[c] # initproc /\ ExitLocked(c, proc[c]))
    BY <1>5 DEF Exits, Panics, trap_exit, MustExit, SetIntr, Exit
  <2> QED
    BY <2>1, <2>2 DEF Ordinary, Ends
<1>6. ASSUME NEW c \in CPU, Interrupt(c)
      PROVE  Handler(c) \/ \E p \in Slot : Ordinary(c, p) \/ Ends(c, p)
  BY <1>5, <1>6 DEF Interrupt, Handler
<1>7. ASSUME NEW c \in CPU, NEW p \in Slot, Step(c, p)
      PROVE  Ordinary(c, p) \/ Ends(c, p) \/ \E q \in Slot : OnSlot(c, p, q)
  <2>1. CASE allocproc(c, p)
    BY <1>1, <2>1 DEF OnSlot
  <2>2. CASE fork_kstack(c, p) \/ fork_copyuvm(c, p) \/ fork_run(c, p)
    BY <1>2, <2>2
  <2>3. CASE wait(c, p) \/ exit(c, p)
    BY <1>3, <1>4, <2>3
  <2> QED
    BY <1>7, <2>1, <2>2, <2>3 DEF Step, Ordinary
<1> QED
  BY <1>6, <1>7 DEF Next
-----------------------------------------------------------------------------
(* CpuInv *)

\* A process on a CPU that is not about to leave it is RUNNING, and outside of
\* a hand-over the CPU does not hold ptable.lock.
LEMMA Executing ==
  ASSUME TypeInv, CpuInv, NEW c \in CPU, NEW p \in Slot, proc[c] = p, pc[p] \notin Leaving
  PROVE  state[p] = "RUNNING" /\ (pc[p] \notin Back => lock # c)
  BY Names DEF CpuInv, Leaving

\* Nothing changes but that some sleepers are woken.
Awakens ==
  /\ UNCHANGED <<proc, lock, pc, saved>>
  /\ \A q \in Slot : state'[q] = state[q] \/ (state[q] = "SLEEPING" /\ state'[q] = "RUNNABLE")

\* A process moves on in its own code without ptable.lock; slots that are not
\* in use may change.
Moves(c, p, l) ==
  /\ proc[c] = p /\ lock # c /\ l \notin Leaving \union Back
  /\ UNCHANGED <<proc, lock, saved>>
  /\ pc' = [pc EXCEPT ![p] = l]
  /\ \A q \in Slot : \/ state'[q] = state[q]
                     \/ {state[q], state'[q]} \subseteq {"UNUSED", "EMBRYO"}

\* A process releases ptable.lock, which it took or was handed; it may have
\* reaped a zombie.
Releases(c, p) ==
  /\ proc[c] = p /\ lock \in {c, Free} /\ lock' = Free /\ proc' = proc
  /\ state[p] = "RUNNING" /\ state'[p] = "RUNNING" /\ pc'[p] \notin Leaving \union Back
  /\ \A q \in Slot \ {p} :
       \/ pc'[q] = pc[q] /\ saved'[q] = saved[q] /\ state'[q] = state[q]
       \/ state[q] = "ZOMBIE" /\ state'[q] = "UNUSED" /\ pc'[q] = "none"

\* A process takes ptable.lock and is about to leave its CPU; it may have woken
\* others.
Departs(c, p) ==
  /\ proc[c] = p /\ lock \in {c, Free} /\ lock' = c /\ proc' = proc
  /\ state[p] = "RUNNING"
  /\ \/ pc'[p] = "exit1" /\ state'[p] = "ZOMBIE"
     \/ pc'[p] \in {"wait1", "sleep1"} /\ state'[p] = "SLEEPING"
     \/ pc'[p] = "yield1" /\ state'[p] = "RUNNABLE" /\ saved'[p] \notin Leaving \union Back
  /\ \A q \in Slot \ {p} :
       /\ pc'[q] = pc[q] /\ saved'[q] = saved[q]
       /\ state'[q] = state[q] \/ (state[q] = "SLEEPING" /\ state'[q] = "RUNNABLE")

\* Each of these keeps CpuInv.
LEMMA AwakensKeeps == ASSUME TypeInv, CpuInv, Awakens PROVE CpuInv'
  BY Names DEF TypeInv, CpuInv, Awakens

\* A move outside of a hand-over keeps CpuInv.
LEMMA MovesKeeps ==
  ASSUME TypeInv, CpuInv, NEW c \in CPU, NEW p \in Slot, NEW l, Moves(c, p, l)
  PROVE  CpuInv'
<1>1. \A q \in Slot : q # p => pc'[q] = pc[q]
  BY DEF Moves, TypeInv
<1>2. pc'[p] = l /\ state[p] = "RUNNING" /\ state'[p] = "RUNNING"
  BY Names DEF Moves, TypeInv, CpuInv
<1>3. \A q \in Slot : state'[q] \in {"RUNNING", "RUNNABLE", "SLEEPING", "ZOMBIE"} => state'[q] = state[q]
  BY DEF Moves
<1>4. \A q \in Slot : state[q] \in {"RUNNING", "RUNNABLE", "SLEEPING", "ZOMBIE"} => state'[q] = state[q]
  BY DEF Moves
<1>5. UNCHANGED <<proc, lock, saved>> /\ proc[c] = p /\ lock # c /\ l \notin Leaving \union Back
  BY DEF Moves
<1>6. proc \in [CPU -> Slot \union {Nobody}]
  BY DEF TypeInv
<1> QED
  BY <1>1, <1>2, <1>3, <1>4, <1>5, <1>6, Names DEF CpuInv, Leaving, Back

\* The end of a hand-over keeps CpuInv.
LEMMA ReleasesKeeps ==
  ASSUME TypeInv, CpuInv, NEW c \in CPU, NEW p \in Slot, Releases(c, p)
  PROVE  CpuInv'
<1>1. proc \in [CPU -> Slot \union {Nobody}]
  BY DEF TypeInv
<1>2. \A d \in CPU : d # c => lock # d /\ proc[d] # p
  BY Names DEF Releases, CpuInv
<1>3. \A d \in CPU : d # c /\ proc[d] # Nobody =>
        /\ state[proc[d]] = "RUNNING" /\ pc[proc[d]] \notin Leaving \union Back
        /\ state'[proc[d]] = "RUNNING" /\ pc'[proc[d]] = pc[proc[d]]
  BY <1>1, <1>2 DEF Releases, CpuInv
<1> QED
  BY <1>1, <1>2, <1>3, Names DEF Releases, CpuInv, Leaving, Back

\* The beginning of a hand-over keeps CpuInv.
LEMMA DepartsKeeps ==
  ASSUME TypeInv, CpuInv, NEW c \in CPU, NEW p \in Slot, Departs(c, p)
  PROVE  CpuInv'
<1>1. proc \in [CPU -> Slot \union {Nobody}]
  BY DEF TypeInv
<1>2. \A d \in CPU : d # c => lock # d /\ proc[d] # p
  BY Names DEF Departs, CpuInv
<1>3. \A d \in CPU : d # c /\ proc[d] # Nobody =>
        /\ state[proc[d]] = "RUNNING" /\ pc[proc[d]] \notin Leaving \union Back
        /\ state'[proc[d]] = "RUNNING" /\ pc'[proc[d]] = pc[proc[d]]
  BY <1>1, <1>2 DEF Departs, CpuInv
<1> QED
  BY <1>1, <1>2, <1>3, Names DEF Departs, CpuInv, Leaving, Back

\* Every step is of one of these shapes, or begins a hand-over in a scheduler,
\* ends it in one, or adds a child.
LEMMA CpuStep == ASSUME IInv, [Next]_vars PROVE CpuInv'
<1>0. TypeInv /\ CpuInv /\ ForkInv /\ ParentInv
  BY DEF IInv
<1>1. ASSUME NEW c \in CPU, NEW p \in Slot, run_process_on_cpu(c, p) PROVE CpuInv'
  <2>1. /\ proc[c] = Nobody /\ lock = Free /\ state[p] = "RUNNABLE" /\ lock' = c
        /\ proc' = [proc EXCEPT ![c] = p] /\ state' = [state EXCEPT ![p] = "RUNNING"]
        /\ UNCHANGED <<pc, saved>>
    BY <1>1 DEF run_process_on_cpu
  <2>2. \A d \in CPU : proc[d] # Nobody =>
          state[proc[d]] = "RUNNING" /\ pc[proc[d]] \notin Leaving \union Back
    BY <1>0, <2>1, Names DEF CpuInv
  <2>3. pc[p] \in Back /\ \A d \in CPU : proc[d] # p
    BY <1>0, <2>1, <2>2, Names DEF CpuInv
  <2> QED
    BY <1>0, <2>1, <2>2, <2>3, Names DEF TypeInv, CpuInv, Leaving, Back
<1>2. ASSUME NEW c \in CPU, NEW p \in Slot, sched(c, p) PROVE CpuInv'
  <2>1. /\ proc[c] = p /\ lock = c /\ lock' = Free /\ pc[p] \in Leaving
        /\ proc' = [proc EXCEPT ![c] = Nobody] /\ pc' = [pc EXCEPT ![p] = Left[pc[p]]]
        /\ UNCHANGED <<state, saved>>
    BY <1>2 DEF sched, Goto, table
  <2>2. /\ Left[pc[p]] \in Back \union {"exit2"} /\ (pc[p] # "exit1" => Left[pc[p]] \in Back)
        /\ (Left[pc[p]] = "yield2" => pc[p] = "yield1") /\ Left[pc[p]] # "yield1"
    BY <2>1, LeftLabels DEF Leaving, Back
  <2>3. /\ \A d \in CPU \ {c} : lock # d /\ proc[d] # p
        /\ state[p] # "RUNNING" /\ (pc[p] = "exit1" => state[p] = "ZOMBIE")
    BY <1>0, <2>1, Names DEF CpuInv, Leaving, Back
  <2> QED
    BY <1>0, <2>1, <2>2, <2>3, Names DEF TypeInv, CpuInv
<1>3. ASSUME NEW c \in CPU, NEW p \in Slot, Ordinary(c, p) PROVE CpuInv'
  <2>1. CASE (\E target \in KillArgs : kill(c, p, target))
    <3>1. Awakens
      BY <1>0, <2>1 DEF kill, Awakens, TypeInv
    <3> QED
      BY <1>0, <3>1, AwakensKeeps
  <2>2. CASE (Exits(c, p) /\ Panics(p))
    <3>1. Moves(c, p, "panic")
      BY <1>0, <2>2, Executing DEF Exits, Panics, Goto, Moves, Leaving, Back
    <3> QED
      BY <1>0, <3>1, MovesKeeps
  <2>3. CASE sys_sleep(c, p) \/ sleep_relock(c, p)
    <3>1. Moves(c, p, "sleep_check")
      BY <1>0, <2>3, Executing DEF sys_sleep, sleep_relock, Enter, At, Goto, table, Moves,
         Leaving, Back
    <3> QED
      BY <1>0, <3>1, MovesKeeps
  <2>4. CASE sys_sleep_return(c, p)
    <3>1. Moves(c, p, "user")
      BY <1>0, <2>4, Executing DEF sys_sleep_return, At, Goto, table, Moves, Leaving, Back
    <3> QED
      BY <1>0, <3>1, MovesKeeps
  <2>5. CASE forkret(c, p) \/ sleep_return(c, p)
    <3>1. Releases(c, p)
      BY <1>0, <2>5, Executing DEF forkret, sleep_return, At, Goto, table, Releases,
         Leaving, Back, TypeInv
    <3> QED
      BY <1>0, <3>1, ReleasesKeeps
  <2>6. CASE yield_return(c, p)
    <3>1. saved[p] \notin Leaving \union Back
      BY <1>0, <2>6 DEF yield_return, At, CpuInv
    <3>2. Releases(c, p)
      BY <1>0, <2>6, <3>1, Executing DEF yield_return, At, Goto, table, Releases, Leaving,
         TypeInv
    <3> QED
      BY <1>0, <3>2, ReleasesKeeps
  <2>7. CASE Waits(c, p) /\ wait_fails(p)
    <3>1. Releases(c, p)
      BY <1>0, <2>7, Executing DEF Waits, wait_fails, Goto, Releases, Leaving, Back, TypeInv
    <3> QED
      BY <1>0, <3>1, ReleasesKeeps
  <2>8. CASE Waits(c, p) /\ wait_sleep(c, p)
    <3>1. Departs(c, p)
      BY <1>0, <2>8, Executing DEF Waits, wait_sleep, Goto, Departs, Leaving, TypeInv
    <3> QED
      BY <1>0, <3>1, DepartsKeeps
  <2>9. CASE sleep(c, p)
    <3>1. Departs(c, p)
      BY <1>0, <2>9, Executing DEF sleep, At, Goto, Departs, Leaving, TypeInv
    <3> QED
      BY <1>0, <3>1, DepartsKeeps
  <2>10. CASE yield(c, p)
    <3>1. pc[p] \notin Leaving \union Back
      BY <1>0, <2>10, Names DEF yield, CpuInv
    <3>2. Departs(c, p)
      BY <1>0, <2>10, <3>1 DEF yield, Goto, Departs, TypeInv
    <3> QED
      BY <1>0, <3>2, DepartsKeeps
  <2> QED
    BY ONLY <1>1, <1>2, <1>3, <2>1, <2>2, <2>3, <2>4, <2>5, <2>6, <2>7, <2>8, <2>9, <2>10
       DEF Ordinary
<1>4. ASSUME NEW c \in CPU, NEW p \in Slot, NEW q \in Slot, OnSlot(c, p, q) PROVE CpuInv'
  <2>1. CASE Allocs(c, p, q)
    <3>1. Moves(c, p, "fork_kstack")
      BY <1>0, <2>1, Names DEF Allocs, Moves, Leaving, Back, TypeInv
    <3> QED
      BY <1>0, <3>1, MovesKeeps
  <2>2. ASSUME NEW l \in Forking, Forks(c, p, q, l)
        PROVE  /\ state[p] = "RUNNING" /\ lock # c /\ q # p
               /\ proc[c] = p /\ UNCHANGED <<proc, lock, saved>>
    <3>1. proc[c] = p /\ pc[p] \in Forking /\ state[q] = "EMBRYO" /\ UNCHANGED <<proc, lock, saved>>
      BY ONLY <2>2 DEF Forks
    <3>2. pc[p] \notin Leaving \union Back
      BY ONLY <3>1 DEF Forking, Leaving, Back
    <3>3. state[p] = "RUNNING" /\ lock # c
      BY <1>0, <3>1, <3>2, Executing
    <3> QED
      BY ONLY <3>1, <3>3
  <2>3. CASE Forks(c, p, q, "fork_kstack") /\ (KstackFails(p, q) \/ KstackDone(p, q))
    <3>1. \E l : Moves(c, p, l)
      <4>1. "fork_kstack" \in Forking
        BY DEF Forking
      <4>2. CASE KstackFails(p, q)
        <5>1. Moves(c, p, "user")
          BY <1>0, <2>2, <2>3, <4>1, <4>2 DEF Forks, KstackFails, FailsFor, Moves, Leaving,
             Back, TypeInv
        <5> QED
          BY ONLY <5>1
      <4>3. CASE KstackDone(p, q)
        <5>1. Moves(c, p, "fork_copyuvm")
          BY <2>2, <2>3, <4>1, <4>3 DEF KstackDone, Moves, Leaving, Back
        <5> QED
          BY ONLY <5>1
      <4> QED
        BY ONLY <2>3, <4>2, <4>3
    <3> QED
      BY <1>0, <3>1, MovesKeeps
  <2>4. CASE Forks(c, p, q, "fork_copyuvm") /\ (CopyFails(p, q) \/ CopyDone(p, q))
    <3>1. \E l : Moves(c, p, l)
      <4>1. "fork_copyuvm" \in Forking
        BY DEF Forking
      <4>2. CASE CopyFails(p, q)
        <5>1. Moves(c, p, "user")
          BY <1>0, <2>2, <2>4, <4>1, <4>2 DEF Forks, CopyFails, FailsFor, Moves, Leaving,
             Back, TypeInv
        <5> QED
          BY ONLY <5>1
      <4>3. CASE CopyDone(p, q)
        <5>1. Moves(c, p, "fork_run")
          BY <2>2, <2>4, <4>1, <4>3 DEF CopyDone, Moves, Leaving, Back
        <5> QED
          BY ONLY <5>1
      <4> QED
        BY ONLY <2>4, <4>2, <4>3
    <3> QED
      BY <1>0, <3>1, MovesKeeps
  <2>5. CASE Forks(c, p, q, "fork_run") /\ RunsChild(p, q)
    <3>1. /\ state[q] = "EMBRYO" /\ lock = Free
          /\ state' = [state EXCEPT ![q] = "RUNNABLE"]
          /\ pc' = [pc EXCEPT ![p] = "user", ![q] = "forkret"]
      BY ONLY <2>5 DEF Forks, RunsChild
    <3>2. state[p] = "RUNNING" /\ q # p /\ proc[c] = p /\ UNCHANGED <<proc, lock, saved>>
      BY <2>2, <2>5 DEF Forking
    <3>3. \A d \in CPU : lock # d /\ proc[d] # q
      BY <1>0, <3>1, Names DEF CpuInv
    <3> QED
      BY <1>0, <3>1, <3>2, <3>3, Names DEF TypeInv, CpuInv, Leaving, Back
  <2>6. CASE Waits(c, p) /\ Reaps(p, q)
    <3>1. /\ proc[c] = p /\ pc[p] \in {"user", "wait2"} /\ lock \in {c, Free}
          /\ state[q] = "ZOMBIE" /\ q # p /\ lock' = Free /\ UNCHANGED <<proc, saved>>
          /\ state' = [state EXCEPT ![q] = "UNUSED"]
          /\ pc' = [pc EXCEPT ![p] = "user", ![q] = "none"]
      BY ONLY <2>6 DEF Waits, Reaps
    <3>2. state[p] = "RUNNING"
      BY <1>0, <3>1, Executing DEF Leaving
    <3>3. Releases(c, p)
      BY <1>0, <3>1, <3>2 DEF Releases, Leaving, Back, TypeInv
    <3> QED
      BY <1>0, <3>3, ReleasesKeeps
  <2> QED
    BY ONLY <1>4, <2>1, <2>3, <2>4, <2>5, <2>6 DEF OnSlot
<1>5. ASSUME NEW c \in CPU, NEW p \in Slot, Ends(c, p) PROVE CpuInv'
  <2>1. Departs(c, p)
    BY <1>0, <1>5, Executing DEF Ends, Exits, ExitLocked, wakeup1, Goto, Departs, Leaving,
       TypeInv
  <2> QED
    BY <1>0, <2>1, DepartsKeeps
<1>6. ASSUME NEW c \in CPU, Handler(c) PROVE CpuInv'
  <2>1. Awakens
    BY <1>6 DEF Handler, timer, tick, tick_wakeup, trap_return, wakeup1, table, Awakens
  <2> QED
    BY <1>0, <2>1, AwakensKeeps
<1>7. UNCHANGED vars => Awakens
  BY DEF vars, table, Awakens
<1> QED
  BY ONLY <1>0, <1>3, <1>4, <1>5, <1>6, <1>7, [Next]_vars, StepCases, AwakensKeeps
-----------------------------------------------------------------------------
(* TypeInv *)

\* A thread is sent only to places that exist.
LEMMA TypeStep == ASSUME IInv, [Next]_vars PROVE TypeInv'
<1>0. TypeInv /\ ForkInv /\ ParentInv
  BY DEF IInv
<1> USE DEF Goto, clock, locals, table
<1>1. ASSUME NEW c \in CPU, NEW p \in Slot,
             run_process_on_cpu(c, p) \/ forkret(c, p) \/ yield_return(c, p)
      PROVE  TypeInv'
  BY <1>0, <1>1, Labels DEF TypeInv, States, run_process_on_cpu, forkret, yield_return
<1>2. ASSUME NEW c \in CPU, NEW p \in Slot, sched(c, p) PROVE TypeInv'
  <2>1. Left[pc[p]] \in Label
    BY <1>2, LeftLabels, Labels DEF sched, Leaving
  <2> QED
    BY <1>0, <1>2, <2>1 DEF TypeInv, sched
<1>3. ASSUME NEW c \in CPU, NEW p \in Slot, Waits(c, p), wait_fails(p) \/ wait_sleep(c, p)
      PROVE  TypeInv'
  BY <1>0, <1>3, Labels DEF TypeInv, States, Waits, wait_fails, wait_sleep
<1>4. ASSUME NEW c \in CPU, NEW p \in Slot, NEW target \in KillArgs, kill(c, p, target)
      PROVE  TypeInv'
  BY <1>0, <1>4 DEF TypeInv, States, kill
<1>5. ASSUME NEW c \in CPU, NEW p \in Slot, Exits(c, p), Panics(p) \/ ExitLocked(c, p)
      PROVE  TypeInv'
  <2>1. intr' \in [CPU -> {"none", "tick", "wakeup", "tail"}]
    BY <1>0, <1>5 DEF TypeInv, Exits
  <2>2. CASE Panics(p)
    BY <1>0, <1>5, <2>1, <2>2, Labels DEF TypeInv, Exits, Panics
  <2>3. CASE ExitLocked(c, p)
    <3>1. state' \in [Slot -> States]
      BY <1>0, <2>3 DEF TypeInv, States, ExitLocked, wakeup1
    <3>2. parent' \in [Slot -> Slot \union {Nobody}]
      BY <1>0, <2>3, Names DEF TypeInv, ExitLocked
    <3>3. pc' \in [Slot -> Label] /\ lock' \in CPU
      BY <1>0, <2>3, Labels DEF TypeInv, ExitLocked
    <3> QED
      BY <1>0, <1>5, <2>1, <3>1, <3>2, <3>3 DEF TypeInv, Exits
  <2> QED
    BY ONLY <1>5, <2>2, <2>3
<1>6. ASSUME NEW c \in CPU, NEW p \in Slot, sys_sleep(c, p) \/ sys_sleep_return(c, p)
      PROVE  TypeInv'
  <2>1. SleepArgs \subseteq 0 .. TickMod - 1 /\ 0 \in 0 .. TickMod - 1
    BY ProcConstants
  <2> QED
    BY <1>0, <1>6, <2>1, Labels DEF TypeInv, sys_sleep, sys_sleep_return
<1>7. ASSUME NEW c \in CPU, NEW p \in Slot,
             sleep(c, p) \/ sleep_return(c, p) \/ sleep_relock(c, p)
      PROVE  TypeInv'
  BY <1>0, <1>7, Labels DEF TypeInv, States, sleep, sleep_return, sleep_relock
<1>8. ASSUME NEW c \in CPU, NEW p \in Slot, yield(c, p) PROVE TypeInv'
  BY <1>0, <1>8, Labels DEF TypeInv, States, yield, SetIntr
<1>9. ASSUME NEW c \in CPU, Handler(c) PROVE TypeInv'
  <2>1. (ticks + 1) % TickMod \in 0 .. TickMod - 1
    BY <1>0, ProcConstants DEF TypeInv
  <2> QED
    BY <1>0, <1>9, <2>1 DEF TypeInv, States, Handler, timer, tick, tick_wakeup, trap_return,
       wakeup1, SetIntr
<1>10. ASSUME NEW c \in CPU, NEW p \in Slot, NEW q \in Slot, Allocs(c, p, q)
       PROVE  TypeInv'
  BY <1>0, <1>10, Labels DEF TypeInv, States, Allocs
<1>11. ASSUME NEW c \in CPU, NEW p \in Slot, NEW q \in Slot, NEW l, Forks(c, p, q, l),
              KstackFails(p, q) \/ KstackDone(p, q) \/ CopyFails(p, q) \/ CopyDone(p, q)
       PROVE  TypeInv'
  <2>1. CASE KstackFails(p, q)
    BY <1>0, <1>11, <2>1, Labels DEF TypeInv, States, Forks, FailsFor, KstackFails
  <2>2. CASE KstackDone(p, q)
    BY <1>0, <1>11, <2>2, Labels DEF TypeInv, Forks, KstackDone
  <2>3. CASE CopyFails(p, q)
    BY <1>0, <1>11, <2>3, Labels DEF TypeInv, States, Forks, FailsFor, CopyFails
  <2>4. CASE CopyDone(p, q)
    BY <1>0, <1>11, <2>4, Labels DEF TypeInv, Forks, CopyDone
  <2> QED
    BY ONLY <1>11, <2>1, <2>2, <2>3, <2>4
<1>12. ASSUME NEW c \in CPU, NEW p \in Slot, NEW q \in Slot,
              Forks(c, p, q, "fork_run"), RunsChild(p, q)
       PROVE  TypeInv'
  BY <1>0, <1>12, Labels DEF TypeInv, States, Forks, RunsChild
<1>13. ASSUME NEW c \in CPU, NEW p \in Slot, NEW q \in Slot, Waits(c, p), Reaps(p, q)
       PROVE  TypeInv'
  BY <1>0, <1>13, Labels DEF TypeInv, States, Waits, Reaps
<1>14. ASSUME UNCHANGED vars PROVE TypeInv'
  BY <1>0, <1>14 DEF TypeInv, vars
<1> QED
  BY ONLY <1>0, <1>1, <1>2, <1>3, <1>4, <1>5, <1>6, <1>7, <1>8, <1>9, <1>10, <1>11, <1>12,
     <1>13, <1>14, [Next]_vars, StepCases DEF Ordinary, OnSlot, Ends
=============================================================================
