--------------------------- MODULE ProcTableForks ---------------------------
(***************************************************************************)
(* The steps that leave parents, pages and fork() alone, those that put a  *)
(* process to sleep, and the proof that every step keeps what fork() needs *)
(* while it works on a slot without ptable.lock (ForkInv and OwnInv).      *)
(***************************************************************************)
EXTENDS ProcTableSteps

(* Light steps, and new sleepers *)

\* A step that leaves pages, parents and the slots of fork() alone; a process
\* that is in fork() does not fall asleep.
Light ==
  /\ UNCHANGED <<parent, kstack, pgdir, free, np>>
  /\ \A q \in Slot :
       \/ state'[q] = state[q]
       \/ /\ {state[q], state'[q]} \subseteq {"SLEEPING", "RUNNABLE", "RUNNING"}
          /\ state'[q] = "SLEEPING" => Where(q) \notin Forking

\* Where a process is in fork() does not change.
SameWhere(q) == Where(q)' = Where(q) \/ (Where(q) \notin Forking /\ Where(q)' \notin Forking)

\* Every sleeper slept before, on the same channel and for the same time.
NoNewSleeper ==
  \A q \in Slot : state'[q] = "SLEEPING" =>
    /\ state[q] = "SLEEPING" /\ chan'[q] = chan[q]
    /\ ticks0'[q] = ticks0[q] /\ n'[q] = n[q]

\* A thread that goes from one place outside of fork() and yield() to another.
LEMMA StaysOut ==
  ASSUME TypeInv, NEW p \in Slot, NEW l, pc' = [pc EXCEPT ![p] = l], saved' = saved,
         pc[p] \notin Forking \union {"yield1", "yield2"},
         l \notin Forking \union {"yield1", "yield2"}
  PROVE  \A q \in Slot : SameWhere(q)
  BY DEF TypeInv, SameWhere, Where

\* Most steps are light.
LEMMA LightSteps ==
  ASSUME IInv, NEW c \in CPU, NEW p \in Slot,
         Ordinary(c, p) \/ Handler(c) \/ UNCHANGED vars
  PROVE  Light /\ \A q \in Slot : SameWhere(q)
<1>0. TypeInv /\ CpuInv
  BY DEF IInv
<1>1. CASE run_process_on_cpu(c, p)
  BY ONLY <1>0, <1>1 DEF TypeInv, run_process_on_cpu, locals, Light, SameWhere, Where
<1>2. CASE sched(c, p)
  <2>1. pc[p] \in Leaving /\ pc' = [pc EXCEPT ![p] = Left[pc[p]]] /\ saved' = saved
    BY ONLY <1>2 DEF sched, Goto
  <2>2. \A q \in Slot : SameWhere(q)
    BY ONLY <1>0, <2>1, LeftLabels DEF TypeInv, SameWhere, Where, Leaving, Forking
  <2>3. Light
    BY ONLY <1>2 DEF sched, locals, table, Light
  <2> QED
    BY ONLY <2>2, <2>3
<1>3. CASE forkret(c, p) \/ sys_sleep(c, p) \/ sys_sleep_return(c, p) \/ sleep_return(c, p)
             \/ sleep_relock(c, p)
  <2>1. /\ Light /\ saved' = saved
        /\ \E l \in {"user", "sleep_check", "sleep_relock"} : pc' = [pc EXCEPT ![p] = l]
        /\ pc[p] \in {"forkret", "user", "sleep_check", "sleep2", "sleep_relock"}
    BY ONLY <1>3 DEF forkret, sys_sleep, sys_sleep_return, sleep_return,
       sleep_relock, Enter, At, Goto, locals, table, Light
  <2>2. PICK l \in {"user", "sleep_check", "sleep_relock"} : pc' = [pc EXCEPT ![p] = l]
    BY ONLY <2>1, Zenon
  <2>3. pc[p] \notin Forking \union {"yield1", "yield2"} /\ l \notin Forking \union {"yield1", "yield2"}
    BY ONLY <2>1, l \in {"user", "sleep_check", "sleep_relock"} DEF Forking
  <2> QED
    BY ONLY <1>0, <2>1, <2>2, <2>3, p \in Slot, StaysOut, Zenon
<1>4. CASE yield_return(c, p)
  <2>1. /\ pc[p] = "yield2" /\ pc' = [pc EXCEPT ![p] = saved[p]]
        /\ saved' = [saved EXCEPT ![p] = "none"]
    BY ONLY <1>4 DEF yield_return, At, Goto
  <2>2. saved[p] \notin {"yield1", "yield2"}
    BY ONLY <1>0, <2>1, p \in Slot DEF CpuInv, Leaving, Back
  <2>3. \A q \in Slot : SameWhere(q)
    BY ONLY <1>0, <2>1, <2>2 DEF TypeInv, SameWhere, Where
  <2>4. Light
    BY ONLY <1>4 DEF yield_return, locals, table, Light
  <2> QED
    BY ONLY <2>3, <2>4
<1>5. CASE Waits(c, p) /\ (wait_fails(p) \/ wait_sleep(c, p))
  <2>1. /\ saved' = saved /\ pc[p] \in {"user", "wait2"} /\ proc[c] = p
        /\ \E l \in {"user", "wait1"} : pc' = [pc EXCEPT ![p] = l]
        /\ state' = state \/ state' = [state EXCEPT ![p] = "SLEEPING"]
        /\ UNCHANGED <<parent, kstack, pgdir, free, np>>
    BY ONLY <1>5 DEF Waits, wait_fails, wait_sleep, Goto, locals
  <2>2. PICK l \in {"user", "wait1"} : pc' = [pc EXCEPT ![p] = l]
    BY ONLY <2>1, Zenon
  <2>3. pc[p] \notin Forking \union {"yield1", "yield2"} /\ l \notin Forking \union {"yield1", "yield2"}
    BY ONLY <2>1, l \in {"user", "wait1"} DEF Forking
  <2>4. \A q \in Slot : SameWhere(q)
    BY ONLY <1>0, <2>1, <2>2, <2>3, p \in Slot, StaysOut, Zenon
  <2>5. Where(p) \notin Forking
    BY ONLY <2>1 DEF Forking, Where
  <2>6. state[p] = "RUNNING"
    BY ONLY <1>0, <2>1, c \in CPU, p \in Slot, Executing DEF Leaving
  <2> QED
    BY ONLY <1>0, <2>1, <2>4, <2>5, <2>6 DEF TypeInv, Light
<1>6. CASE (\E target \in KillArgs : kill(c, p, target))
  BY ONLY <1>0, <1>6 DEF TypeInv, kill, locals, Light, SameWhere, Where
<1>7. CASE Exits(c, p) /\ Panics(p)
  <2>1. Light /\ saved' = saved /\ pc' = [pc EXCEPT ![p] = "panic"] /\ pc[p] = "user"
    BY ONLY <1>7 DEF Exits, Panics, Goto, locals, Light
  <2>2. /\ "user" \notin Forking \union {"yield1", "yield2"}
        /\ "panic" \notin Forking \union {"yield1", "yield2"}
    BY ONLY DEF Forking
  <2> QED
    BY ONLY <1>0, <2>1, <2>2, p \in Slot, StaysOut, Zenon
<1>8. CASE sleep(c, p)
  <2>1. /\ saved' = saved /\ pc[p] = "sleep_check" /\ proc[c] = p
        /\ pc' = [pc EXCEPT ![p] = "sleep1"] /\ state' = [state EXCEPT ![p] = "SLEEPING"]
        /\ UNCHANGED <<parent, kstack, pgdir, free, np>>
    BY ONLY <1>8 DEF sleep, At, Goto, locals
  <2>2. /\ "sleep_check" \notin Forking \union {"yield1", "yield2"}
        /\ "sleep1" \notin Forking \union {"yield1", "yield2"}
    BY ONLY DEF Forking
  <2>3. \A q \in Slot : SameWhere(q)
    BY ONLY <1>0, <2>1, <2>2, p \in Slot, StaysOut, Zenon
  <2>4. Where(p) \notin Forking
    BY ONLY <2>1 DEF Forking, Where
  <2>5. state[p] = "RUNNING"
    BY ONLY <1>0, <2>1, c \in CPU, p \in Slot, Executing DEF Leaving
  <2> QED
    BY ONLY <1>0, <2>1, <2>3, <2>4, <2>5 DEF TypeInv, Light
<1>9. CASE yield(c, p)
  <2>1. /\ pc' = [pc EXCEPT ![p] = "yield1"] /\ saved' = [saved EXCEPT ![p] = pc[p]]
        /\ state[p] = "RUNNING" /\ state' = [state EXCEPT ![p] = "RUNNABLE"]
        /\ proc[c] = p /\ lock = Free /\ UNCHANGED <<parent, kstack, pgdir, free, np>>
    BY ONLY <1>9 DEF yield, Goto, locals
  <2>2. pc[p] \notin {"yield1", "yield2"}
    BY ONLY <1>0, <2>1, c \in CPU, p \in Slot, Names DEF CpuInv, Leaving, Back
  <2>3. \A q \in Slot : SameWhere(q)
    BY ONLY <1>0, <2>1, <2>2 DEF TypeInv, SameWhere, Where
  <2> QED
    BY ONLY <1>0, <2>1, <2>3 DEF TypeInv, Light
<1>10. CASE Handler(c)
  BY ONLY <1>10 DEF Handler, timer, tick, tick_wakeup, trap_return, wakeup1, locals,
     table, Light, SameWhere, Where
<1>11. CASE UNCHANGED vars
  BY ONLY <1>11, Zenon DEF vars, locals, table, Light, SameWhere, Where
<1> QED
  BY ONLY <1>1, <1>2, <1>3, <1>4, <1>5, <1>6, <1>7, <1>8, <1>9, <1>10, <1>11,
     Ordinary(c, p) \/ Handler(c) \/ UNCHANGED vars DEF Ordinary

\* Only wait() and sleep() put a process to sleep.
LEMMA Sleeping ==
  ASSUME IInv, NEW c \in CPU, NEW p \in Slot,
         \/ Ordinary(c, p) \/ Handler(c) \/ UNCHANGED vars \/ Ends(c, p)
         \/ \E q \in Slot : OnSlot(c, p, q)
  PROVE  NoNewSleeper \/ (Waits(c, p) /\ wait_sleep(c, p)) \/ sleep(c, p)
<1>0. TypeInv /\ CpuInv
  BY DEF IInv
<1>1. CASE run_process_on_cpu(c, p) \/ sched(c, p) \/ forkret(c, p) \/ yield_return(c, p)
             \/ yield(c, p) \/ sleep_relock(c, p)
  BY ONLY <1>0, <1>1 DEF TypeInv, run_process_on_cpu, sched, forkret, yield_return, yield,
     sleep_relock, locals, table, NoNewSleeper
<1>2. CASE Waits(c, p) /\ wait_fails(p)
  BY ONLY <1>0, <1>2, c \in CPU, p \in Slot, Executing DEF TypeInv, Waits, wait_fails, locals,
     Leaving, NoNewSleeper
<1>3. CASE (\E target \in KillArgs : kill(c, p, target))
  BY ONLY <1>0, <1>3 DEF TypeInv, kill, locals, NoNewSleeper
<1>4. CASE Exits(c, p) /\ Panics(p)
  BY ONLY <1>4 DEF Exits, Panics, locals, NoNewSleeper
<1>5. CASE sys_sleep(c, p) \/ sys_sleep_return(c, p) \/ sleep_return(c, p)
  <2>1. proc[c] = p /\ pc[p] \in {"user", "sleep_check", "sleep2"}
    BY ONLY <1>5 DEF sys_sleep, sys_sleep_return, sleep_return, Enter, At
  <2>2. state[p] = "RUNNING"
    BY ONLY <1>0, <2>1, c \in CPU, p \in Slot, Executing DEF Leaving
  <2> QED
    BY ONLY <1>0, <1>5, <2>2 DEF TypeInv, sys_sleep, sys_sleep_return, sleep_return, locals,
       table, NoNewSleeper
<1>6. CASE Handler(c)
  BY ONLY <1>6 DEF Handler, timer, tick, tick_wakeup, trap_return, wakeup1, locals, table,
     NoNewSleeper
<1>7. CASE UNCHANGED vars
  BY ONLY <1>7, Zenon DEF vars, locals, table, NoNewSleeper
<1>8. CASE Ends(c, p)
  BY ONLY <1>0, <1>8 DEF TypeInv, Ends, Exits, ExitLocked, wakeup1, locals, NoNewSleeper
<1>9. ASSUME NEW q \in Slot, Waits(c, p), Reaps(p, q) PROVE NoNewSleeper
  BY ONLY <1>0, <1>9, c \in CPU, p \in Slot, Executing DEF TypeInv, Waits, Reaps, locals,
     Leaving, NoNewSleeper
<1>10. ASSUME NEW q \in Slot, Allocs(c, p, q) PROVE NoNewSleeper
  BY ONLY <1>0, <1>10 DEF TypeInv, Allocs, NoNewSleeper
<1>11. ASSUME NEW q \in Slot, NEW l, Forks(c, p, q, l),
              \/ KstackFails(p, q) \/ KstackDone(p, q) \/ CopyFails(p, q) \/ CopyDone(p, q)
              \/ RunsChild(p, q)
       PROVE  NoNewSleeper
  BY ONLY <1>0, <1>11 DEF TypeInv, Forks, KstackFails, KstackDone, CopyFails, CopyDone, RunsChild,
     FailsFor, NoNewSleeper
<1> QED
  BY <1>1, <1>2, <1>3, <1>4, <1>5, <1>6, <1>7, <1>8, <1>9, <1>10, <1>11 DEF Ordinary, OnSlot
-----------------------------------------------------------------------------
(* ForkInv and OwnInv *)

\* A step outside of fork() leaves its slots, and the states of the processes
\* that are in it, alone.
SameForks ==
  /\ UNCHANGED <<np, kstack, pgdir>>
  /\ \A q \in Slot :
       /\ SameWhere(q)
       /\ parent[q] = Nobody => parent'[q] = Nobody
       /\ \/ state'[q] = state[q]
          \/ /\ {state[q], state'[q]} \subseteq {"SLEEPING", "RUNNABLE", "RUNNING", "ZOMBIE"}
             /\ state'[q] \in {"RUNNABLE", "RUNNING"} \/ Where(q) \notin Forking

\* A step of the RUNNING process p on the slot q concerns no other slot and no
\* other fork().
OnlyForks(p, q) ==
  /\ p # q /\ state[p] = "RUNNING" /\ np[q] = Nobody /\ np[p] \in {q, Nobody}
  /\ \A r \in Slot : r # p => np'[r] = np[r] /\ np[r] # q /\ SameWhere(r)
  /\ \A r \in Slot : r # q => /\ state'[r] = state[r] /\ parent'[r] = parent[r]
                              /\ kstack'[r] = kstack[r] /\ pgdir'[r] = pgdir[r]

\* The slot q as fork() of p has it, is done with it, or wait() has freed it.
RightFor(p, q) ==
  /\ np[p] \in {q, Nobody}
  /\ np[p] = q <=> Where(p) \in Forking
  /\ np[p] = q <=> state[q] = "EMBRYO"
  /\ np[p] = q => /\ kstack[q] <=> Where(p) # "fork_kstack"
                  /\ pgdir[q] <=> Where(p) = "fork_run"
                  /\ Where(p) # "fork_run" => parent[q] = Nobody
  /\ state[q] = "UNUSED" => ~kstack[q] /\ ~pgdir[q]
  /\ state[q] \notin {"UNUSED", "EMBRYO"} => kstack[q] /\ pgdir[q]

\* Both kinds of step keep the invariants of fork().
LEMMA SameForksKeeps ==
  ASSUME TypeInv, ForkInv, OwnInv, SameForks PROVE ForkInv' /\ OwnInv'
<1>1. \A p \in Slot : np'[p] = np[p] /\ np[p] \in Slot \union {Nobody}
  BY DEF TypeInv, SameForks
<1>2. \A p \in Slot : Where(p)' \in Forking => Where(p)' = Where(p)
  BY DEF SameForks, SameWhere
<1>3. \A p \in Slot : Where(p) \in Forking => Where(p)' = Where(p)
  BY DEF SameForks, SameWhere
<1>4. \A q \in Slot : (state'[q] = "EMBRYO" <=> state[q] = "EMBRYO")
                      /\ (state'[q] = "UNUSED" <=> state[q] = "UNUSED")
  BY DEF SameForks
<1>5. ForkInv'
  <2>1. \A p \in Slot : Where(p) \in {"fork_kstack", "fork_copyuvm"} =>
          np[p] # Nobody /\ parent[np[p]] = Nobody
    BY DEF ForkInv, Forking
  <2>2. \A p \in Slot : Where(p)' \in {"fork_kstack", "fork_copyuvm"} => Where(p)' = Where(p)
    BY <1>2 DEF Forking
  <2> QED
    BY <1>1, <1>2, <1>3, <1>4, <2>1, <2>2, Names DEF ForkInv, SameForks
<1>6. OwnInv'
  BY <1>1, <1>2, <1>4, Names DEF OwnInv, ForkInv, SameForks
<1> QED
  BY <1>5, <1>6

\* Half of RightFor is about fork(), the other half about pages.
LEMMA OnlyForksKeeps ==
  ASSUME TypeInv, ForkInv, OwnInv, NEW p \in Slot, NEW q \in Slot,
         OnlyForks(p, q), RightFor(p, q)'
  PROVE  ForkInv' /\ OwnInv'
<1>1. \A r \in Slot : np[r] \in Slot \union {Nobody}
  BY DEF TypeInv
<1>2. \A r \in Slot : r # p => /\ np'[r] = np[r] /\ np[r] # q
                               /\ Where(r)' \in Forking => Where(r)' = Where(r)
                               /\ Where(r) \in Forking => Where(r)' = Where(r)
  BY DEF OnlyForks, SameWhere
<1>3. ForkInv'
  <2>1. \A r \in Slot : np'[r] # Nobody => state'[np'[r]] = "EMBRYO"
    BY <1>1, <1>2, Names DEF ForkInv, OnlyForks, RightFor
  <2>2. \A r, s \in Slot : np'[r] = np'[s] /\ np'[r] # Nobody => r = s
    BY <1>1, <1>2, Names DEF ForkInv, RightFor
  <2>3. \A r \in Slot : np'[r] # Nobody <=> Where(r)' \in Forking
    BY <1>1, <1>2, Names DEF ForkInv, RightFor
  <2>4. \A r \in Slot : Where(r)' \in {"fork_kstack", "fork_copyuvm"} =>
                          parent'[np'[r]] = Nobody
    <3> SUFFICES ASSUME NEW r \in Slot, Where(r)' \in {"fork_kstack", "fork_copyuvm"}
                 PROVE  parent'[np'[r]] = Nobody
      OBVIOUS
    <3>1. Where(r)' \in Forking
      BY DEF Forking
    <3>2. CASE r = p
      BY <3>1, <3>2 DEF RightFor
    <3>3. CASE r # p
      <4>1. Where(r)' = Where(r) /\ np'[r] = np[r] /\ np[r] # q
        BY <1>2, <3>1, <3>3
      <4>2. np[r] \in Slot /\ parent[np[r]] = Nobody
        BY <1>1, <3>1, <4>1 DEF ForkInv
      <4> QED
        BY <4>1, <4>2 DEF OnlyForks
    <3> QED
      BY <3>2, <3>3
  <2>5. \A r \in Slot : np'[r] # Nobody => state'[r] \in {"RUNNING", "RUNNABLE"}
    BY <1>2 DEF ForkInv, OnlyForks
  <2> QED
    BY <2>1, <2>2, <2>3, <2>4, <2>5 DEF ForkInv
<1>4. OwnInv'
  <2>1. \A r \in Slot : state'[r] = "UNUSED" => ~kstack'[r] /\ ~pgdir'[r]
    BY DEF OwnInv, OnlyForks, RightFor
  <2>2. \A r \in Slot : state'[r] \notin {"UNUSED", "EMBRYO"} => kstack'[r] /\ pgdir'[r]
    BY DEF OwnInv, OnlyForks, RightFor
  <2>3. \A r \in Slot : state'[r] = "EMBRYO" => \E s \in Slot : np'[s] = r
    <3> SUFFICES ASSUME NEW r \in Slot, state'[r] = "EMBRYO" PROVE \E s \in Slot : np'[s] = r
      OBVIOUS
    <3>1. CASE r = q
      BY <3>1 DEF RightFor
    <3>2. CASE r # q
      <4>1. PICK s \in Slot : np[s] = r
        BY <3>2 DEF OwnInv, OnlyForks
      <4>2. s # p
        BY <3>2, <4>1, Names DEF OnlyForks
      <4> QED
        BY <1>2, <4>1, <4>2
    <3> QED
      BY <3>1, <3>2
  <2>4. \A r \in Slot : Where(r)' \in Forking =>
          /\ kstack'[np'[r]] <=> Where(r)' # "fork_kstack"
          /\ pgdir'[np'[r]] <=> Where(r)' = "fork_run"
    <3> SUFFICES ASSUME NEW r \in Slot, Where(r)' \in Forking
                 PROVE  /\ kstack'[np'[r]] <=> Where(r)' # "fork_kstack"
                        /\ pgdir'[np'[r]] <=> Where(r)' = "fork_run"
      OBVIOUS
    <3>1. CASE r = p
      BY <3>1 DEF RightFor
    <3>2. CASE r # p
      <4>1. Where(r)' = Where(r) /\ np'[r] = np[r] /\ np[r] # q
        BY <1>2, <3>2
      <4>2. np[r] \in Slot
        BY <1>1, <4>1 DEF ForkInv
      <4> QED
        BY <4>1, <4>2 DEF OnlyForks, OwnInv
    <3> QED
      BY <3>1, <3>2
  <2> QED
    BY <2>1, <2>2, <2>3, <2>4 DEF OwnInv
<1> QED
  BY <1>3, <1>4

\* The thread of p goes to l, and that of q may be sent to a place outside of
\* fork().
Sends(p, q, l) ==
  /\ saved' = saved /\ pc'[p] = l
  /\ \A r \in Slot : r # p => pc'[r] = pc[r] \/ (r = q /\ pc'[r] \in {"forkret", "none"})

\* Then the thread of p is there, and no other one leaves or enters fork().
LEMMA SendsTo ==
  ASSUME NEW p \in Slot, NEW q \in Slot, Where(q) \notin Forking, NEW l,
         l \notin {"yield1", "yield2"}, Sends(p, q, l)
  PROVE  Where(p)' = l /\ \A r \in Slot : r # p => SameWhere(r)
  BY DEF Sends, Where, SameWhere, Forking

\* Every step keeps the invariants of fork().
LEMMA ForkStep == ASSUME IInv, [Next]_vars PROVE ForkInv' /\ OwnInv'
<1>0. TypeInv /\ CpuInv /\ ForkInv /\ ParentInv /\ OwnInv
  BY DEF IInv
<1>1. ASSUME NEW c \in CPU, NEW p \in Slot, Ordinary(c, p) \/ Handler(c) \/ UNCHANGED vars
      PROVE  ForkInv' /\ OwnInv'
  <2>1. Light /\ \A q \in Slot : SameWhere(q)
    BY ONLY IInv, <1>1, LightSteps
  <2>2. SameForks
    BY ONLY <2>1 DEF Light, SameForks
  <2> QED
    BY ONLY <1>0, <2>2, SameForksKeeps
<1>2. ASSUME NEW c \in CPU, NEW p \in Slot, Ends(c, p) PROVE ForkInv' /\ OwnInv'
  <2>1. /\ proc[c] = p /\ pc[p] = "user" /\ pc' = [pc EXCEPT ![p] = "exit1"] /\ saved' = saved
        /\ UNCHANGED <<np, kstack, pgdir>>
    BY ONLY <1>2 DEF Ends, Exits, ExitLocked, Goto, locals
  <2>2. /\ "user" \notin Forking \union {"yield1", "yield2"}
        /\ "exit1" \notin Forking \union {"yield1", "yield2"}
    BY ONLY DEF Forking
  <2>3. \A q \in Slot : SameWhere(q)
    BY ONLY <1>0, <2>1, <2>2, p \in Slot, StaysOut, Zenon
  <2>4. Where(p) \notin Forking /\ state[p] = "RUNNING"
    BY <1>0, <2>1, <2>2, Executing DEF Where, Leaving
  <2>5. \A q \in Slot : /\ parent[q] = Nobody => parent'[q] = Nobody
                        /\ q # p => \/ state'[q] = state[q]
                                    \/ state[q] = "SLEEPING" /\ state'[q] = "RUNNABLE"
    BY <1>0, <1>2, Names DEF TypeInv, Ends, ExitLocked, wakeup1
  <2>6. state'[p] = "ZOMBIE"
    BY <1>0, <1>2 DEF TypeInv, Ends, ExitLocked, wakeup1
  <2>7. SameForks
    BY ONLY <2>1, <2>3, <2>4, <2>5, <2>6 DEF SameForks
  <2> QED
    BY ONLY <1>0, <2>7, SameForksKeeps
<1>3. ASSUME NEW c \in CPU, NEW p \in Slot, NEW q \in Slot, OnSlot(c, p, q)
      PROVE  OnlyForks(p, q) /\ RightFor(p, q)'
  <2>0. proc[c] = p /\ pc[p] \in Forking \union {"user", "wait2"}
    BY ONLY <1>3 DEF OnSlot, Allocs, Forks, Waits, Forking
  <2>1. /\ state[p] = "RUNNING" /\ Where(p) = pc[p] /\ pc[p] \notin {"yield1", "yield2"}
        /\ pc[p] \notin Forking => np[p] = Nobody
    <3>1. pc[p] \notin Leaving /\ pc[p] \notin {"yield1", "yield2"}
      BY ONLY <2>0 DEF Forking, Leaving
    <3> QED
      BY <1>0, <2>0, <3>1, Executing DEF ForkInv, Where
  <2>2. state[q] \in {"UNUSED", "EMBRYO", "ZOMBIE"} /\ saved' = saved
    BY ONLY <1>3 DEF OnSlot, Allocs, Forks, Waits, Reaps
  <2>3. p # q /\ np[q] = Nobody /\ Where(q) \notin Forking
    BY <1>0, <2>1, <2>2 DEF ForkInv
  <2>4. CASE Allocs(c, p, q)
    <3>1. Where(p)' = "fork_kstack" /\ \A r \in Slot : r # p => SameWhere(r)
      <4>1. Sends(p, q, "fork_kstack")
        BY <1>0, <2>2, <2>3, <2>4 DEF TypeInv, Allocs, Sends
      <4> QED
        BY ONLY <2>3, <4>1, p \in Slot, q \in Slot, SendsTo
    <3>2. /\ state[q] = "UNUSED" /\ np[p] = Nobody /\ UNCHANGED <<parent, kstack, pgdir>>
          /\ state' = [state EXCEPT ![q] = "EMBRYO"] /\ np' = [np EXCEPT ![p] = q]
      BY ONLY <2>1, <2>4 DEF Allocs, Forking
    <3>3. OnlyForks(p, q)
      BY <1>0, <2>1, <2>3, <3>1, <3>2, Names DEF TypeInv, ForkInv, OnlyForks
    <3>4. parent[q] = Nobody /\ ~kstack[q] /\ ~pgdir[q]
      BY <1>0, <3>2 DEF ParentInv, ParentIsAlive, OwnInv
    <3>5. RightFor(p, q)'
      BY <1>0, <3>1, <3>2, <3>4, Names DEF TypeInv, RightFor, Forking
    <3> QED
      BY <3>3, <3>5
  <2>5. ASSUME NEW l \in Forking, Forks(c, p, q, l)
        PROVE  /\ np[p] = q /\ state[q] = "EMBRYO" /\ \A r \in Slot : r # p => np[r] # q
               /\ kstack[q] <=> l # "fork_kstack"
               /\ pgdir[q] <=> l = "fork_run"
               /\ l # "fork_run" => parent[q] = Nobody
               /\ pc[p] = l
    <3>1. np[p] = q /\ state[q] = "EMBRYO" /\ pc[p] = l
      BY ONLY <2>5 DEF Forks
    <3>2. \A r \in Slot : r # p => np[r] # q
      BY <1>0, <3>1, Names DEF ForkInv
    <3>3. l # "fork_run" => parent[q] = Nobody
      BY <1>0, <2>1, <3>1, l \in Forking DEF ForkInv, Forking
    <3>4. (kstack[q] <=> l # "fork_kstack") /\ (pgdir[q] <=> l = "fork_run")
      BY <1>0, <2>1, <3>1, l \in Forking DEF OwnInv
    <3> QED
      BY ONLY <3>1, <3>2, <3>3, <3>4
  <2>6. CASE Forks(c, p, q, "fork_kstack") /\ (KstackFails(p, q) \/ KstackDone(p, q))
    <3>1. "fork_kstack" \in Forking
      BY ONLY DEF Forking
    <3>2. CASE KstackFails(p, q)
      <4>1. Where(p)' = "user" /\ \A r \in Slot : r # p => SameWhere(r)
        <5>1. Sends(p, q, "user")
          BY <1>0, <2>2, <2>3, <3>2 DEF TypeInv, KstackFails, FailsFor, Sends
        <5> QED
          BY ONLY <2>3, <5>1, p \in Slot, q \in Slot, SendsTo
      <4>2. OnlyForks(p, q)
        BY <1>0, <2>1, <2>3, <2>5, <2>6, <3>1, <3>2, <4>1 DEF TypeInv, OnlyForks,
           KstackFails, FailsFor
      <4>3. RightFor(p, q)'
        BY <1>0, <2>5, <2>6, <3>1, <3>2, <4>1, Names DEF TypeInv, RightFor, Forking,
           KstackFails, FailsFor
      <4> QED
        BY <4>2, <4>3
    <3>3. CASE KstackDone(p, q)
      <4>1. Where(p)' = "fork_copyuvm" /\ \A r \in Slot : r # p => SameWhere(r)
        <5>1. Sends(p, q, "fork_copyuvm")
          BY <1>0, <2>2, <2>3, <3>3 DEF TypeInv, KstackDone, Sends
        <5> QED
          BY ONLY <2>3, <5>1, p \in Slot, q \in Slot, SendsTo
      <4>2. OnlyForks(p, q)
        BY <1>0, <2>1, <2>3, <2>5, <2>6, <3>1, <3>3, <4>1 DEF TypeInv, OnlyForks, KstackDone
      <4>3. RightFor(p, q)'
        BY <1>0, <2>5, <2>6, <3>1, <3>3, <4>1 DEF TypeInv, RightFor, Forking, KstackDone
      <4> QED
        BY <4>2, <4>3
    <3> QED
      BY ONLY <2>6, <3>2, <3>3
  <2>7. CASE Forks(c, p, q, "fork_copyuvm") /\ (CopyFails(p, q) \/ CopyDone(p, q))
    <3>1. "fork_copyuvm" \in Forking
      BY ONLY DEF Forking
    <3>2. CASE CopyFails(p, q)
      <4>1. Where(p)' = "user" /\ \A r \in Slot : r # p => SameWhere(r)
        <5>1. Sends(p, q, "user")
          BY <1>0, <2>2, <2>3, <3>2 DEF TypeInv, CopyFails, FailsFor, Sends
        <5> QED
          BY ONLY <2>3, <5>1, p \in Slot, q \in Slot, SendsTo
      <4>2. OnlyForks(p, q)
        BY <1>0, <2>1, <2>3, <2>5, <2>7, <3>1, <3>2, <4>1 DEF TypeInv, OnlyForks,
           CopyFails, FailsFor
      <4>3. RightFor(p, q)'
        BY <1>0, <2>5, <2>7, <3>1, <3>2, <4>1, Names DEF TypeInv, RightFor, Forking,
           CopyFails, FailsFor
      <4> QED
        BY <4>2, <4>3
    <3>3. CASE CopyDone(p, q)
      <4>1. Where(p)' = "fork_run" /\ \A r \in Slot : r # p => SameWhere(r)
        <5>1. Sends(p, q, "fork_run")
          BY <1>0, <2>2, <2>3, <3>3 DEF TypeInv, CopyDone, Sends
        <5> QED
          BY ONLY <2>3, <5>1, p \in Slot, q \in Slot, SendsTo
      <4>2. OnlyForks(p, q)
        BY <1>0, <2>1, <2>3, <2>5, <2>7, <3>1, <3>3, <4>1 DEF TypeInv, OnlyForks, CopyDone
      <4>3. RightFor(p, q)'
        BY <1>0, <2>5, <2>7, <3>1, <3>3, <4>1 DEF TypeInv, RightFor, Forking, CopyDone
      <4> QED
        BY <4>2, <4>3
    <3> QED
      BY ONLY <2>7, <3>2, <3>3
  <2>8. CASE Forks(c, p, q, "fork_run") /\ RunsChild(p, q)
    <3>1. "fork_run" \in Forking
      BY ONLY DEF Forking
    <3>2. Where(p)' = "user" /\ \A r \in Slot : r # p => SameWhere(r)
      <4>1. Sends(p, q, "user")
        BY <1>0, <2>2, <2>3, <2>8 DEF TypeInv, RunsChild, Sends
      <4> QED
        BY ONLY <2>3, <4>1, p \in Slot, q \in Slot, SendsTo
    <3>3. OnlyForks(p, q)
      BY <1>0, <2>1, <2>3, <2>5, <2>8, <3>1, <3>2 DEF TypeInv, OnlyForks, RunsChild
    <3>4. RightFor(p, q)'
      BY <1>0, <2>5, <2>8, <3>1, <3>2, Names DEF TypeInv, RightFor, Forking, RunsChild
    <3> QED
      BY <3>3, <3>4
  <2>9. CASE Waits(c, p) /\ Reaps(p, q)
    <3>1. /\ pc[p] \in {"user", "wait2"} /\ np' = np /\ state[q] = "ZOMBIE"
      BY ONLY <2>9 DEF Waits, Reaps, locals
    <3>2. np[p] = Nobody /\ \A r \in Slot : np[r] # q
      BY <1>0, <2>1, <3>1, Names DEF ForkInv, Forking
    <3>3. Where(p)' = "user" /\ \A r \in Slot : r # p => SameWhere(r)
      <4>1. Sends(p, q, "user")
        BY <1>0, <2>2, <2>3, <2>9 DEF TypeInv, Reaps, Sends
      <4> QED
        BY ONLY <2>3, <4>1, p \in Slot, q \in Slot, SendsTo
    <3>4. OnlyForks(p, q)
      BY <1>0, <2>1, <2>3, <2>9, <3>1, <3>2, <3>3 DEF TypeInv, OnlyForks, Reaps
    <3>5. RightFor(p, q)'
      BY <1>0, <2>9, <3>1, <3>2, <3>3, Names DEF TypeInv, RightFor, Forking, Reaps
    <3> QED
      BY <3>4, <3>5
  <2> QED
    BY ONLY <1>3, <2>4, <2>6, <2>7, <2>8, <2>9 DEF OnSlot
<1>4. ASSUME NEW c \in CPU, NEW p \in Slot, NEW q \in Slot, OnSlot(c, p, q)
      PROVE  ForkInv' /\ OwnInv'
  BY ONLY <1>0, <1>3, <1>4, OnlyForksKeeps
<1>5. \E c \in CPU : c \in CPU
  BY ProcConstants DEF CPU
<1>6. initproc \in Slot
  BY Names
<1> QED
  BY ONLY <1>0, <1>1, <1>2, <1>4, <1>5, <1>6, [Next]_vars, StepCases
=============================================================================
