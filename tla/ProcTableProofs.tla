-------------------------- MODULE ProcTableProofs --------------------------
(***************************************************************************)
(* Theorems about the process table, for any number of slots, CPUs and     *)
(* pages and any ticks counter: no two CPUs run one process, no exit() and *)
(* no tick is missed by a sleeper, no process is orphaned, and no page and *)
(* no slot is lost when fork() fails half-way.                             *)
(***************************************************************************)
EXTENDS ProcTableForks, FiniteSetTheorems

(* ParentInv, ExitInv and NoLostTick *)

\* A step that sets no parent frees no child, and no parent exits.
SameParents ==
  /\ parent' = parent
  /\ \A q \in Slot :
       /\ state'[q] = "UNUSED" => state[q] = "UNUSED" \/ parent[q] = Nobody
       /\ state'[q] \in {"UNUSED", "EMBRYO", "ZOMBIE"} =>
            state[q] \in {"UNUSED", "EMBRYO", "ZOMBIE"}

\* It keeps ParentInv.
LEMMA SameParentsKeeps == ASSUME TypeInv, ParentInv, SameParents PROVE ParentInv'
  BY Names DEF TypeInv, ParentInv, ParentIsAlive, SameParents

\* Only the end of fork(), wait() and exit() set parents; exit() gives the
\* children to init.
LEMMA ParentStep == ASSUME IInv, [Next]_vars PROVE ParentInv'
<1>0. TypeInv /\ CpuInv /\ ForkInv /\ ParentInv
  BY DEF IInv
<1>1. ASSUME NEW c \in CPU, NEW p \in Slot, Ordinary(c, p) \/ Handler(c) \/ UNCHANGED vars
      PROVE  ParentInv'
  <2>1. Light
    BY ONLY IInv, <1>1, LightSteps
  <2>2. SameParents
    BY ONLY <2>1 DEF Light, SameParents
  <2> QED
    BY ONLY <1>0, <2>2, SameParentsKeeps
<1>2. ASSUME NEW c \in CPU, NEW p \in Slot, Ends(c, p) PROVE ParentInv'
  <2>1. /\ p # initproc
        /\ parent' = [q \in Slot |-> IF parent[q] = p THEN initproc ELSE parent[q]]
    BY ONLY <1>2 DEF Ends, ExitLocked
  <2>2. \A q \in Slot : q # p => \/ state'[q] = state[q]
                                 \/ state[q] = "SLEEPING" /\ state'[q] = "RUNNABLE"
    BY <1>0, <1>2 DEF TypeInv, Ends, ExitLocked, wakeup1
  <2>3. state'[p] = "ZOMBIE"
    BY <1>0, <1>2 DEF TypeInv, Ends, ExitLocked, wakeup1
  <2>4. \A q \in Slot : /\ parent'[q] # p /\ (parent'[q] = parent[q] \/ parent'[q] = initproc)
                        /\ parent'[q] # Nobody => parent[q] # Nobody
    BY <2>1, Names
  <2>5. ParentIsAlive'
    BY <1>0, <2>2, <2>3, <2>4, Names DEF TypeInv, ParentInv, ParentIsAlive
  <2> QED
    BY <1>0, <2>1, <2>2, <2>5, Names DEF TypeInv, ParentInv
<1>3. ASSUME NEW c \in CPU, NEW p \in Slot, NEW q \in Slot, OnSlot(c, p, q)
      PROVE  ParentInv'
  <2>1. CASE Allocs(c, p, q)
    <3>1. SameParents
      BY <1>0, <2>1 DEF TypeInv, Allocs, SameParents
    <3> QED
      BY ONLY <1>0, <3>1, SameParentsKeeps
  <2>2. CASE Forks(c, p, q, "fork_kstack") /\ (KstackFails(p, q) \/ KstackDone(p, q))
    <3>1. state[q] = "EMBRYO" /\ parent[q] = Nobody
      BY <1>0, <2>2 DEF ForkInv, Forks, Where
    <3>2. SameParents
      BY <1>0, <2>2, <3>1 DEF TypeInv, KstackFails, KstackDone, FailsFor, SameParents
    <3> QED
      BY ONLY <1>0, <3>2, SameParentsKeeps
  <2>3. CASE Forks(c, p, q, "fork_copyuvm") /\ CopyFails(p, q)
    <3>1. state[q] = "EMBRYO" /\ parent[q] = Nobody
      BY <1>0, <2>3 DEF ForkInv, Forks, Where
    <3>2. SameParents
      BY <1>0, <2>3, <3>1 DEF TypeInv, CopyFails, FailsFor, SameParents
    <3> QED
      BY ONLY <1>0, <3>2, SameParentsKeeps
  <2>4. CASE Forks(c, p, q, "fork_copyuvm") /\ CopyDone(p, q)
    <3>1. /\ proc[c] = p /\ pc[p] = "fork_copyuvm" /\ state[q] = "EMBRYO" /\ state' = state
          /\ parent' = [parent EXCEPT ![q] = p]
      BY ONLY <2>4 DEF Forks, CopyDone
    <3>2. state[p] = "RUNNING" /\ p # q
      BY <1>0, <3>1, Executing DEF Leaving
    <3> QED
      BY <1>0, <3>1, <3>2, Names DEF TypeInv, ParentInv, ParentIsAlive
  <2>5. CASE Forks(c, p, q, "fork_run") /\ RunsChild(p, q)
    <3>1. SameParents
      BY <1>0, <2>5 DEF TypeInv, RunsChild, SameParents
    <3> QED
      BY ONLY <1>0, <3>1, SameParentsKeeps
  <2>6. CASE Waits(c, p) /\ Reaps(p, q)
    <3>1. /\ state[q] = "ZOMBIE" /\ state' = [state EXCEPT ![q] = "UNUSED"]
          /\ parent' = [parent EXCEPT ![q] = Nobody]
      BY ONLY <2>6 DEF Reaps
    <3>2. \A r \in Slot : parent[r] # q
      BY <1>0, <3>1, Names DEF ParentInv, ParentIsAlive
    <3> QED
      BY <1>0, <3>1, <3>2, Names DEF TypeInv, ParentInv, ParentIsAlive
  <2> QED
    BY ONLY <1>3, <2>1, <2>2, <2>3, <2>4, <2>5, <2>6 DEF OnSlot
<1>4. \E c \in CPU : c \in CPU
  BY ProcConstants DEF CPU
<1>5. initproc \in Slot
  BY Names
<1> QED
  BY ONLY <1>0, <1>1, <1>2, <1>3, <1>4, <1>5, [Next]_vars, StepCases

\* A process sleeps in wait() only when it has seen that it has no zombie child
\* and before ptable.lock is released, and exit() wakes the parent, or init if
\* the caller leaves a zombie to it, before it releases ptable.lock.
LEMMA ExitStep == ASSUME IInv, [Next]_vars PROVE ExitInv'
<1>0. TypeInv /\ CpuInv /\ ForkInv /\ ParentInv /\ ExitInv
  BY DEF IInv
<1>1. ASSUME NoNewSleeper,
             \A q \in Slot : state'[q] = "ZOMBIE" => state[q] = "ZOMBIE" /\ parent'[q] = parent[q]
      PROVE  ExitInv'
  BY <1>0, <1>1 DEF ExitInv, NoNewSleeper
<1>2. ASSUME NEW c \in CPU, NEW p \in Slot, Waits(c, p), wait_sleep(c, p) PROVE ExitInv'
  <2>1. /\ state' = [state EXCEPT ![p] = "SLEEPING"] /\ chan' = [chan EXCEPT ![p] = p]
        /\ parent' = parent /\ \A q \in Slot : parent[q] = p => state[q] # "ZOMBIE"
    BY ONLY <1>2 DEF wait_sleep, Zombies, Children
  <2> QED
    BY <1>0, <2>1 DEF TypeInv, ExitInv
<1>3. ASSUME NEW c \in CPU, NEW p \in Slot, sleep(c, p) PROVE ExitInv'
  <2>1. /\ state' = [state EXCEPT ![p] = "SLEEPING"] /\ chan' = [chan EXCEPT ![p] = TICKS]
        /\ parent' = parent
    BY ONLY <1>3 DEF sleep
  <2> QED
    BY <1>0, <2>1, Names DEF TypeInv, ExitInv
<1>4. ASSUME NEW c \in CPU, NEW p \in Slot, Ends(c, p) PROVE ExitInv'
  <2> SUFFICES ASSUME NEW r \in Slot, NEW q \in Slot,
                      state'[r] = "SLEEPING", chan'[r] = r, parent'[q] = r
               PROVE  state'[q] # "ZOMBIE"
    BY DEF ExitInv
  <2>1. state[r] = "SLEEPING" /\ chan[r] = r /\ r # p /\ r # parent[p]
    BY <1>0, <1>4 DEF TypeInv, Ends, Exits, ExitLocked, wakeup1
  <2>2. CASE q = p
    BY <1>0, <1>4, <2>1, <2>2 DEF Ends, ExitLocked, ParentInv
  <2>3. CASE q # p /\ parent[q] = p
    BY <1>0, <1>4, <2>1, <2>3 DEF TypeInv, Ends, ExitLocked, wakeup1, Children
  <2>4. CASE q # p /\ parent[q] # p
    BY <1>0, <1>4, <2>1, <2>4 DEF TypeInv, Ends, ExitLocked, wakeup1, ExitInv
  <2> QED
    BY <2>2, <2>3, <2>4
<1>5. ASSUME NEW c \in CPU, NEW p \in Slot, Ordinary(c, p) \/ Handler(c) \/ UNCHANGED vars
      PROVE  ExitInv'
  <2>1. Light
    BY ONLY IInv, <1>5, LightSteps
  <2>2. \A q \in Slot : state'[q] = "ZOMBIE" => state[q] = "ZOMBIE" /\ parent'[q] = parent[q]
    BY ONLY <2>1 DEF Light
  <2> QED
    BY ONLY IInv, <1>1, <1>2, <1>3, <1>5, <2>2, Sleeping
<1>6. ASSUME NEW c \in CPU, NEW p \in Slot, NEW q \in Slot, OnSlot(c, p, q) PROVE ExitInv'
  <2>1. \A r \in Slot : state'[r] = "ZOMBIE" => state[r] = "ZOMBIE" /\ parent'[r] = parent[r]
    <3>1. CASE Waits(c, p) /\ Reaps(p, q)
      BY <1>0, <3>1 DEF TypeInv, Reaps
    <3>2. CASE Allocs(c, p, q)
      BY <1>0, <3>2 DEF TypeInv, Allocs
    <3>3. ASSUME NEW l, Forks(c, p, q, l),
                 \/ KstackFails(p, q) \/ KstackDone(p, q) \/ CopyFails(p, q)
                 \/ CopyDone(p, q) \/ RunsChild(p, q)
          PROVE  \A r \in Slot :
                   state'[r] = "ZOMBIE" => state[r] = "ZOMBIE" /\ parent'[r] = parent[r]
      BY <1>0, <3>3 DEF TypeInv, Forks, KstackFails, KstackDone, CopyFails, CopyDone,
         RunsChild, FailsFor
    <3> QED
      BY ONLY <1>6, <3>1, <3>2, <3>3 DEF OnSlot
  <2> QED
    BY ONLY IInv, <1>1, <1>2, <1>3, <1>6, <2>1, Sleeping
<1>7. \E c \in CPU : c \in CPU
  BY ProcConstants DEF CPU
<1>8. initproc \in Slot
  BY Names
<1> QED
  BY ONLY <1>0, <1>4, <1>5, <1>6, <1>7, <1>8, [Next]_vars, StepCases

\* A process goes to sleep on &ticks under ptable.lock and before it releases
\* tickslock, so too early, and whoever moves the clock has yet to wake it.
LEMMA TickStep == ASSUME IInv, [Next]_vars PROVE NoLostTick'
<1>0. TypeInv /\ CpuInv /\ ForkInv /\ ParentInv /\ NoLostTick
  BY DEF IInv
<1>1. ASSUME NoNewSleeper, ticks' = ticks,
             \A c \in CPU : intr[c] = "wakeup" => intr'[c] = "wakeup"
      PROVE  NoLostTick'
  BY <1>0, <1>1 DEF NoLostTick, NoNewSleeper, TooEarly
<1>2. ASSUME NEW c \in CPU, NEW p \in Slot, Waits(c, p), wait_sleep(c, p) PROVE NoLostTick'
  <2>1. /\ state' = [state EXCEPT ![p] = "SLEEPING"] /\ chan' = [chan EXCEPT ![p] = p]
        /\ UNCHANGED <<ticks, intr, ticks0, n>>
    BY ONLY <1>2 DEF Waits, wait_sleep, clock, locals
  <2> QED
    BY <1>0, <2>1, Names DEF TypeInv, NoLostTick, TooEarly
<1>3. ASSUME NEW c \in CPU, NEW p \in Slot, sleep(c, p) PROVE NoLostTick'
  <2>1. /\ state' = [state EXCEPT ![p] = "SLEEPING"] /\ chan' = [chan EXCEPT ![p] = TICKS]
        /\ UNCHANGED <<ticks, intr, ticks0, n>> /\ TooEarly(p)
    BY ONLY <1>3 DEF sleep, locals
  <2> QED
    BY <1>0, <2>1 DEF TypeInv, NoLostTick, TooEarly
<1>4. ASSUME NEW c \in CPU, tick(c) PROVE NoLostTick'
  <2>1. intr'[c] = "wakeup"
    BY <1>0, <1>4 DEF TypeInv, tick, SetIntr
  <2> QED
    BY <2>1 DEF NoLostTick
<1>5. ASSUME NEW c \in CPU, tick_wakeup(c) PROVE NoLostTick'
  BY <1>0, <1>5 DEF TypeInv, tick_wakeup, wakeup1, NoLostTick
<1>6. ASSUME NEW c \in CPU, timer(c) \/ trap_return(c)
      PROVE  ticks' = ticks /\ \A d \in CPU : intr[d] = "wakeup" => intr'[d] = "wakeup"
  BY <1>0, <1>6 DEF TypeInv, timer, trap_return, InterruptsOn, SetIntr
<1>7. ASSUME NEW c \in CPU, NEW p \in Slot,
             Ordinary(c, p) \/ Ends(c, p) \/ \E q \in Slot : OnSlot(c, p, q)
      PROVE  ticks' = ticks /\ \A d \in CPU : intr[d] = "wakeup" => intr'[d] = "wakeup"
  <2>1. CASE yield(c, p)
    BY <1>0, <2>1 DEF TypeInv, yield, SetIntr
  <2>2. CASE Exits(c, p)
    BY <1>0, <2>2 DEF TypeInv, Exits
  <2>3. CASE UNCHANGED <<ticks, intr>>
    BY ONLY <2>3
  <2>4. CASE Ordinary(c, p)
    <3>1. \/ UNCHANGED <<ticks, intr>> \/ yield(c, p) \/ Exits(c, p)
      BY ONLY <2>4, Zenon DEF Ordinary, run_process_on_cpu, sched, forkret, yield_return, Waits, kill,
         sys_sleep, sys_sleep_return, sleep, sleep_return, sleep_relock, clock
    <3> QED
      BY ONLY <2>1, <2>2, <2>3, <3>1
  <2>5. CASE (\E q \in Slot : OnSlot(c, p, q))
    <3>1. UNCHANGED <<ticks, intr>>
      BY ONLY <2>5, Zenon DEF OnSlot, Allocs, Forks, Waits, clock
    <3> QED
      BY ONLY <2>3, <3>1
  <2> QED
    BY ONLY <1>7, <2>2, <2>4, <2>5 DEF Ends
<1>8. ASSUME NEW c \in CPU, NEW p \in Slot,
             Ordinary(c, p) \/ Ends(c, p) \/ \E q \in Slot : OnSlot(c, p, q)
      PROVE  NoLostTick'
  BY ONLY IInv, <1>1, <1>2, <1>3, <1>7, <1>8, Sleeping
<1>9. ASSUME NEW c \in CPU, timer(c) \/ trap_return(c) PROVE NoLostTick'
  <2>1. NoNewSleeper
    BY ONLY <1>9, Zenon DEF timer, trap_return, table, locals, NoNewSleeper
  <2> QED
    BY ONLY <1>1, <1>6, <1>9, <2>1
<1>10. ASSUME UNCHANGED vars PROVE NoLostTick'
  <2>1. NoNewSleeper /\ UNCHANGED <<ticks, intr>>
    BY ONLY <1>10, Zenon DEF vars, clock, table, locals, NoNewSleeper
  <2> QED
    BY ONLY <1>1, <2>1
<1> QED
  BY ONLY <1>0, <1>4, <1>5, <1>8, <1>9, <1>10, [Next]_vars, StepCases DEF Handler
-----------------------------------------------------------------------------
(* PageInv *)

\* The number of slots with a flag is a number.
LEMMA Counts == ASSUME NEW f PROVE IsFiniteSet({q \in Slot : f[q]}) /\ Owned(f) \in Nat
<1>1. IsFiniteSet(Slot)
  BY ProcConstants, FS_Interval DEF Slot
<1>2. IsFiniteSet({q \in Slot : f[q]})
  BY <1>1, FS_Subset
<1> QED
  BY <1>2, FS_CardinalityType DEF Owned

\* Setting a flag that is off adds one to the number of slots that have it.
LEMMA CountOn ==
  ASSUME NEW f \in [Slot -> BOOLEAN], NEW x \in Slot, ~f[x]
  PROVE  Owned(f) \in Nat /\ Owned([f EXCEPT ![x] = TRUE]) = Owned(f) + 1
<1> DEFINE S == {q \in Slot : f[q]}
<1>2. IsFiniteSet(S)
  BY Counts
<1>3. {q \in Slot : [f EXCEPT ![x] = TRUE][q]} = S \union {x}
  BY Zenon
<1>4. x \notin S
  OBVIOUS
<1> QED
  BY Zenon, <1>2, <1>3, <1>4, FS_AddElement, FS_CardinalityType DEF Owned

\* Clearing a flag that is on takes one from it.
LEMMA CountOff ==
  ASSUME NEW f \in [Slot -> BOOLEAN], NEW x \in Slot, f[x]
  PROVE  /\ Owned([f EXCEPT ![x] = FALSE]) \in Nat
         /\ Owned(f) = Owned([f EXCEPT ![x] = FALSE]) + 1
<1> DEFINE g == [f EXCEPT ![x] = FALSE]
<1>1. g \in [Slot -> BOOLEAN] /\ ~g[x] /\ [g EXCEPT ![x] = TRUE] = f
  BY Zenon
<1> HIDE DEF g
<1> QED
  BY <1>1, CountOn DEF g

\* Every step keeps the account of the pages: only fork() and wait() touch it.
LEMMA PageStep == ASSUME IInv, [Next]_vars PROVE PageInv'
<1>0. TypeInv /\ ForkInv /\ ParentInv /\ OwnInv /\ PageInv
  BY DEF IInv
<1>1. free \in Nat /\ kstack \in [Slot -> BOOLEAN] /\ pgdir \in [Slot -> BOOLEAN]
  BY <1>0 DEF TypeInv
<1> DEFINE K == Owned(kstack)
           G == Owned(pgdir)
<1>2. /\ free \in Nat /\ K \in Nat /\ G \in Nat /\ free + K + G = Pages
      /\ K' \in Nat /\ G' \in Nat
  BY Zenon, <1>0, <1>1, Counts DEF PageInv
<1>3. ASSUME UNCHANGED <<kstack, pgdir, free>> PROVE PageInv'
  BY <1>0, <1>3 DEF PageInv, Owned
<1>4. ASSUME NEW c \in CPU, NEW p \in Slot, NEW q \in Slot,
             Forks(c, p, q, "fork_kstack"), KstackDone(p, q)
      PROVE  PageInv'
  <2>1. ~kstack[q]
    BY <1>0, <1>4 DEF Forks, OwnInv, Where, Forking
  <2>2. free' \in Nat /\ free = free' + 1 /\ K' = K + 1 /\ G' = G
    BY Zenon, <1>1, <1>4, <2>1, CountOn DEF KstackDone
  <2> HIDE DEF K, G
  <2>3. free' + K' + G' = Pages
    BY ONLY <1>2, <2>2
  <2> QED
    BY ONLY <2>3 DEF PageInv, K, G
<1>5. ASSUME NEW c \in CPU, NEW p \in Slot, NEW q \in Slot,
             Forks(c, p, q, "fork_copyuvm"), CopyFails(p, q)
      PROVE  PageInv'
  <2>1. kstack[q]
    BY <1>0, <1>5 DEF Forks, OwnInv, Where, Forking
  <2>2. free' = free + 1 /\ K = K' + 1 /\ G' = G
    BY Zenon, <1>1, <1>5, <2>1, CountOff DEF CopyFails, FailsFor
  <2> HIDE DEF K, G
  <2>3. free' + K' + G' = Pages
    BY ONLY <1>2, <2>2
  <2> QED
    BY ONLY <2>3 DEF PageInv, K, G
<1>6. ASSUME NEW c \in CPU, NEW p \in Slot, NEW q \in Slot,
             Forks(c, p, q, "fork_copyuvm"), CopyDone(p, q)
      PROVE  PageInv'
  <2>1. ~pgdir[q]
    BY <1>0, <1>6 DEF Forks, OwnInv, Where, Forking
  <2>2. free' \in Nat /\ free = free' + 1 /\ K' = K /\ G' = G + 1
    BY Zenon, <1>1, <1>6, <2>1, CountOn DEF CopyDone
  <2> HIDE DEF K, G
  <2>3. free' + K' + G' = Pages
    BY ONLY <1>2, <2>2
  <2> QED
    BY ONLY <2>3 DEF PageInv, K, G
<1>7. ASSUME NEW c \in CPU, NEW p \in Slot, NEW q \in Slot, Waits(c, p), Reaps(p, q)
      PROVE  PageInv'
  <2>1. kstack[q] /\ pgdir[q]
    BY <1>0, <1>7 DEF Reaps, OwnInv
  <2>2. free' = free + 2 /\ K = K' + 1 /\ G = G' + 1
    BY Zenon, <1>1, <1>7, <2>1, CountOff DEF Reaps
  <2> HIDE DEF K, G
  <2>3. free' + K' + G' = Pages
    BY ONLY <1>2, <2>2
  <2> QED
    BY ONLY <2>3 DEF PageInv, K, G
<1>8. ASSUME NEW c \in CPU, NEW p \in Slot, NEW q \in Slot, OnSlot(c, p, q) PROVE PageInv'
  BY ONLY <1>3, <1>4, <1>5, <1>6, <1>7, <1>8 DEF OnSlot, Allocs, KstackFails, FailsFor, RunsChild
<1>9. ASSUME NEW c \in CPU, NEW p \in Slot, Ordinary(c, p) \/ Handler(c) \/ UNCHANGED vars
      PROVE  PageInv'
  BY ONLY IInv, <1>3, <1>9, LightSteps DEF Light
<1>10. ASSUME NEW c \in CPU, NEW p \in Slot, Ends(c, p) PROVE PageInv'
  BY ONLY <1>3, <1>10 DEF Ends, Exits
<1>11. \E c \in CPU : c \in CPU
  BY ProcConstants DEF CPU
<1>12. initproc \in Slot
  BY Names
<1> QED
  BY ONLY <1>0, <1>8, <1>9, <1>10, <1>11, <1>12, [Next]_vars, StepCases

\* The state after userinit() satisfies the invariant: init owns two pages.
LEMMA InitIInv == Init => IInv
<1> SUFFICES ASSUME Init PROVE IInv
  OBVIOUS
<1> USE Names DEF Init
<1>1. TypeInv
  BY ProcConstants, Labels DEF TypeInv, States
<1>2. CpuInv /\ ForkInv /\ ParentInv /\ ExitInv /\ NoLostTick
  <2>1. CpuInv
    BY DEF CpuInv, Back
  <2>2. ForkInv
    BY DEF ForkInv, Where, Forking
  <2>3. ParentInv /\ ExitInv /\ NoLostTick
    BY DEF ParentInv, ParentIsAlive, ExitInv, NoLostTick
  <2> QED
    BY ONLY <2>1, <2>2, <2>3
<1>3. OwnInv
  BY Zenon DEF OwnInv, Where, Forking
<1>4. PageInv
  <2>1. {q \in Slot : kstack[q]} = {initproc} /\ {q \in Slot : pgdir[q]} = {initproc}
    BY Zenon
  <2>2. Cardinality({initproc}) = 1
    BY Zenon, FS_Singleton
  <2>3. Owned(kstack) = 1 /\ Owned(pgdir) = 1
    BY ONLY <2>1, <2>2 DEF Owned
  <2>4. free = Pages - 2
    OBVIOUS
  <2> QED
    BY ONLY <2>3, <2>4, ProcConstants DEF PageInv
<1> QED
  BY <1>1, <1>2, <1>3, <1>4 DEF IInv

\* The inductive invariant holds throughout.
LEMMA Invariant == Spec => []IInv
<1>1. IInv /\ [Next]_vars => IInv'
  <2> SUFFICES ASSUME IInv, [Next]_vars PROVE IInv'
    OBVIOUS
  <2> QED
    BY TypeStep, CpuStep, ForkStep, ParentStep, ExitStep, TickStep, PageStep DEF IInv
<1> QED
  BY InitIInv, <1>1, PTL DEF Spec
-----------------------------------------------------------------------------
\* For any number of CPUs, no two of them run one process, and the table and
\* the CPUs agree on who is RUNNING outside a hand-over of ptable.lock.
THEOREM OneCpu == Spec => []OneCpuPerProcess
<1>1. IInv => OneCpuPerProcess
  BY DEF IInv, CpuInv, OneCpuPerProcess
<1> QED
  BY Invariant, <1>1, PTL

\* No wake-up of exit() is lost: no parent sleeps in wait() next to a zombie.
THEOREM NoExitIsLost == Spec => []NoLostExit
<1>1. IInv => NoLostExit
  BY DEF IInv, ExitInv, NoLostExit
<1> QED
  BY Invariant, <1>1, PTL

\* No wake-up of the timer is lost by a process in sys_sleep(), for any number
\* of values of `ticks', which wraps.
THEOREM NoTickIsLost == Spec => []NoLostTick
<1>1. IInv => NoLostTick
  BY DEF IInv
<1> QED
  BY Invariant, <1>1, PTL

\* exit() never leaves an orphan.
THEOREM NoOrphans == Spec => []ParentIsAlive
<1>1. IInv => ParentIsAlive
  BY DEF IInv, ParentInv
<1> QED
  BY Invariant, <1>1, PTL

\* Whatever allocation of fork() fails, and for any number of pages, no page
\* and no slot is lost.
THEOREM NoLeak == Spec => []NothingLeaks
<1>1. IInv => NothingLeaks
  <2> SUFFICES ASSUME IInv PROVE NothingLeaks
    OBVIOUS
  <2>1. TypeInv /\ ForkInv /\ OwnInv /\ PageInv
    BY DEF IInv
  <2>3. Owned(kstack) \in Nat /\ Owned(pgdir) \in Nat
    BY Zenon, Counts
  <2>4. free \in 0 .. Pages
    BY <2>1, <2>3, ProcConstants DEF TypeInv, PageInv
  <2>5. TypeOK
    BY <2>1, <2>4 DEF TypeInv, TypeOK
  <2>6. \A q \in Slot : state[q] = "EMBRYO" =>
          \E p \in Slot : np[p] = q /\ state[p] \in {"RUNNING", "RUNNABLE"}
    <3> SUFFICES ASSUME NEW q \in Slot, state[q] = "EMBRYO"
                 PROVE  \E p \in Slot : np[p] = q /\ state[p] \in {"RUNNING", "RUNNABLE"}
      OBVIOUS
    <3>1. PICK p \in Slot : np[p] = q
      BY <2>1 DEF OwnInv
    <3>2. state[p] \in {"RUNNING", "RUNNABLE"}
      BY <2>1, <3>1, Names DEF ForkInv
    <3> QED
      BY <3>1, <3>2
  <2> QED
    BY <2>1, <2>5, <2>6 DEF OwnInv, PageInv, Owned, NothingLeaks
<1> QED
  BY Invariant, <1>1, PTL
=============================================================================
