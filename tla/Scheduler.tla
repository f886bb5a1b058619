----------------------------- MODULE Scheduler -----------------------------
(***************************************************************************)
(* The multi-level scheduler of proc.c and the timer interrupt of trap.c   *)
(* that drives it: three queues (round robin, shortest job first, first    *)
(* come first served) with a share of time each, kept per CPU; the quantum *)
(* of a process; aging; and the system calls that change a process's       *)
(* queue, with the counter syscall() bumps for each.                       *)
(*                                                                         *)
(* A critical section of ptable.lock is one step (module ProcTable looks   *)
(* inside).  aging() releases the lock in the middle of its scan and       *)
(* change_queue() between looking a process up and changing it, so they    *)
(* take several steps.  Slot 1 is init, asleep in wait(); slot 2 is sh.    *)
(***************************************************************************)
EXTENDS Integers, FiniteSets, FiniteSetsExt

CONSTANTS NPROC, NCPU,
          RRTime, SJFTime, FCFSTime,  \* X_WEIGHT * TIME_SLICE_UNIT / SYS_TICK
          Quantum,      \* QUANTUM / SYS_TICK
          Boundary,     \* STARVATION_BOUNDRY
          Seed,         \* the argument of create_random_number(), 100 in the code
          DefBurst, DefConfidence,  \* DEFAULT_BURST_TIME, DEFAULT_CONFIDENCE
          TickMod,      \* number of values of `ticks' (2^32 in the code)
          MaxTicks,     \* bound: no tick once `ticks' has reached it
          MaxPid,       \* bound: no fork() once nextpid is beyond it
          MaxDebt,      \* bound: no timer interrupt once a share is this far overdrawn
          MaxField,     \* bound: no counted call once its field has reached it
          Calls,        \* system calls user programs make, by number
          Bursts, Confidences  \* arguments of set_initial_burst_confidence()

ASSUME SchedConstants ==
  /\ NPROC \in Nat /\ NPROC >= 2 /\ NCPU \in Nat \ {0}
  /\ {RRTime, SJFTime, FCFSTime, Seed, TickMod} \subseteq Nat \ {0}
  /\ {Quantum, Boundary, DefBurst, DefConfidence, MaxTicks, MaxPid,
      MaxDebt, MaxField} \subseteq Nat
  /\ Calls \subseteq {27, 28, 29, 31}
  /\ Bursts \subseteq Nat /\ Confidences \subseteq Nat

Slot == 1 .. NPROC
CPU == 0 .. NCPU - 1
Nobody == 0
RR == 0
SJF == 1
FCFS == 2
Levels == {RR, SJF, FCFS}

VARIABLES
  state, pid,
  queue, ticks_used, burst_time, enter_queue_time, last_run_time, confidence,
  nextpid,
  proc,    \* c->proc
  last,    \* last_executed_proc of each CPU's scheduler()
  remain,  \* RR_remain_time, SJF_remain_time, FCFS_remain_time of each CPU
  ticks,
  intr,    \* what the timer interrupt of each CPU is doing
  age,     \* local variables of aging(), and of the change_queue() it calls
  todo,    \* what a change_queue() a process has called has left to do
  nullwrite  \* change_queue() wrote through a null pointer

timeInfo == <<queue, ticks_used, burst_time, enter_queue_time, last_run_time,
              confidence>>
cpuVars == <<proc, last, remain>>
vars == <<state, pid, timeInfo, nextpid, cpuVars, ticks, intr, age, todo, nullwrite>>

NoTodo == [op |-> "none", slot |-> Nobody, args |-> <<>>]
NoAge == [pos |-> 0, pid |-> 0, to |-> RR, found |-> Nobody]
Shares == [q \in Levels |-> CASE q = RR -> RRTime [] q = SJF -> SJFTime
                              [] q = FCFS -> FCFSTime]

Init ==
  /\ state = [p \in Slot |-> CASE p = 1 -> "SLEEPING" [] p = 2 -> "RUNNABLE"
                               [] OTHER -> "UNUSED"]
  /\ pid = [p \in Slot |-> IF p <= 2 THEN p ELSE 0]
  /\ queue = [p \in Slot |-> RR]
  /\ ticks_used = [p \in Slot |-> 0]
  /\ burst_time = [p \in Slot |-> IF p <= 2 THEN DefBurst ELSE 0]
  /\ enter_queue_time = [p \in Slot |-> 0]
  /\ last_run_time = [p \in Slot |-> 0]
  /\ confidence = [p \in Slot |-> IF p <= 2 THEN DefConfidence ELSE 0]
  /\ nextpid = 3
  /\ proc = [c \in CPU |-> Nobody]
  /\ last = [c \in CPU |-> NPROC]
  /\ remain = [c \in CPU |-> [q \in Levels |-> 0]]
  /\ ticks = 0
  /\ intr = [c \in CPU |-> "none"]
  /\ age = NoAge
  /\ todo = [p \in Slot |-> NoTodo]
  /\ nullwrite = FALSE
-----------------------------------------------------------------------------
(* scheduler() and the three policies *)

Runnable(q) == {p \in Slot : state[p] = "RUNNABLE" /\ queue[p] = q}

\* The first process of the queue at or after last_executed_proc, cyclically.
round_robin(l) ==
  LET ready == Runnable(RR)
      after == {p \in ready : p >= l}
  IN  IF ready = {} THEN Nobody
      ELSE IF after # {} THEN Min(after) ELSE Min(ready)

create_random_number == ticks % Seed

\* best[p]: the choice of shortest_job_first() once it has passed slot p.
shortest_job_first ==
  LET ready == Runnable(SJF)
      best[p \in 0 .. NPROC] ==
        IF p = 0 THEN Nobody
        ELSE LET b == best[p - 1] IN
             IF p \notin ready THEN b
             ELSE IF b = Nobody THEN p
             ELSE IF burst_time[p] < burst_time[b] /\ confidence[p] > create_random_number
             THEN p ELSE b
  IN  best[NPROC]

\* The slot met first among those that entered the queue earliest.
first_come_first_service ==
  LET ready == Runnable(FCFS)
      earliest == {p \in ready : \A q \in ready : enter_queue_time[p] <= enter_queue_time[q]}
  IN  IF ready = {} THEN Nobody ELSE Min(earliest)

Choice(c, q) ==
  IF remain[c][q] <= 0 THEN Nobody
  ELSE CASE q = RR -> round_robin(last[c])
         [] q = SJF -> shortest_job_first
         [] q = FCFS -> first_come_first_service

Idle(c) == proc[c] = Nobody /\ intr[c] = "none"

\* The scheduler of CPU c finds p in queue q, having found nothing before, and
\* run_process_on_cpu() switches to it.
scheduler_run(c, q) ==
  /\ Idle(c)
  /\ \A r \in Levels : r < q => Choice(c, r) = Nobody
  /\ LET p == Choice(c, q) IN
       /\ p # Nobody
       /\ proc' = [proc EXCEPT ![c] = p]
       /\ state' = [state EXCEPT ![p] = "RUNNING"]
       /\ last' = IF q = RR THEN [last EXCEPT ![c] = p] ELSE last
  /\ UNCHANGED <<pid, timeInfo, nextpid, remain, ticks, intr, age, todo, nullwrite>>

\* Mutant of scheduler_refill: the round-robin share is forgotten.
scheduler_refill_partial(c) ==
  /\ Idle(c)
  /\ \A r \in Levels : Choice(c, r) = Nobody
  /\ remain' = [remain EXCEPT ![c] = [Shares EXCEPT ![RR] = remain[c][RR]]]
  /\ UNCHANGED <<state, pid, timeInfo, nextpid, proc, last, ticks, intr, age, todo, nullwrite>>

scheduler_refill(c) ==
  /\ Idle(c)
  /\ \A r \in Levels : Choice(c, r) = Nobody
  /\ remain' = [remain EXCEPT ![c] = Shares]
  /\ UNCHANGED <<state, pid, timeInfo, nextpid, proc, last, ticks, intr, age, todo, nullwrite>>
-----------------------------------------------------------------------------
(* The timer interrupt in trap() *)

SetIntr(c, i) == intr' = [intr EXCEPT ![c] = i]

timer(c) ==
  /\ intr[c] = "none"
  /\ c = 0 => ticks < MaxTicks
  /\ \A q \in Levels : remain[c][q] > -MaxDebt
  /\ ticks' = IF c = 0 THEN (ticks + 1) % TickMod ELSE ticks
  /\ age' = IF c = 0 THEN [NoAge EXCEPT !.pos = 1] ELSE age
  /\ SetIntr(c, IF c = 0 THEN "aging" ELSE "tail")
  /\ UNCHANGED <<state, pid, timeInfo, nextpid, cpuVars, todo, nullwrite>>

UpdateRemainTimes(c, q) ==
  remain' = IF q \in Levels THEN [remain EXCEPT ![c][q] = @ - 1] ELSE remain

\* Mutant of trap_tail: the test of the quantum is off by one.
trap_tail_late(c) ==
  /\ intr[c] = "tail"
  /\ SetIntr(c, "none")
  /\ LET p == proc[c] IN
     \/ /\ p = Nobody
        /\ UNCHANGED <<state, ticks_used, last_run_time, proc, remain>>
     \/ /\ p # Nobody
        /\ UpdateRemainTimes(c, queue[p])
        /\ IF ticks_used[p] > Quantum
             THEN /\ ticks_used' = [ticks_used EXCEPT ![p] = 0]
                  /\ state' = [state EXCEPT ![p] = "RUNNABLE"]
                  /\ proc' = [proc EXCEPT ![c] = Nobody]
                  /\ UNCHANGED last_run_time
             ELSE /\ ticks_used' = [ticks_used EXCEPT ![p] = @ + 1]
                  /\ last_run_time' = [last_run_time EXCEPT ![p] = (@ + 1) % TickMod]
                  /\ UNCHANGED <<state, proc>>
  /\ UNCHANGED <<pid, queue, burst_time, enter_queue_time, confidence, nextpid,
                 last, ticks, age, todo, nullwrite>>

\* The end of trap(): charge the tick, and yield() at the end of the quantum.
trap_tail(c) ==
  /\ intr[c] = "tail"
  /\ SetIntr(c, "none")
  /\ LET p == proc[c] IN
     \/ /\ p = Nobody
        /\ UNCHANGED <<state, ticks_used, last_run_time, proc, remain>>
     \/ /\ p # Nobody
        /\ UpdateRemainTimes(c, queue[p])
        /\ IF ticks_used[p] >= Quantum
             THEN /\ ticks_used' = [ticks_used EXCEPT ![p] = 0]
                  /\ state' = [state EXCEPT ![p] = "RUNNABLE"]
                  /\ proc' = [proc EXCEPT ![c] = Nobody]
                  /\ UNCHANGED last_run_time
             ELSE /\ ticks_used' = [ticks_used EXCEPT ![p] = @ + 1]
                  /\ last_run_time' = [last_run_time EXCEPT ![p] = (@ + 1) % TickMod]
                  /\ UNCHANGED <<state, proc>>
  /\ UNCHANGED <<pid, queue, burst_time, enter_queue_time, confidence, nextpid,
                 last, ticks, age, todo, nullwrite>>
-----------------------------------------------------------------------------
(* aging(), on CPU 0 after every tick *)

Since(t) == (ticks - t) % TickMod  \* unsigned subtraction

\* Mutant of Starving: the time spent in the queue is not looked at.
Starving_any_queue_time(p) ==
  /\ state[p] = "RUNNABLE" /\ queue[p] # RR
  /\ Since(last_run_time[p]) > Boundary

Starving(p) ==
  /\ state[p] = "RUNNABLE" /\ queue[p] # RR
  /\ Since(last_run_time[p]) > Boundary
  /\ Since(enter_queue_time[p]) > Boundary

\* With ptable.lock, as far as the next starving process or the end.
aging_scan ==
  /\ intr[0] = "aging"
  /\ LET found == {p \in Slot : p >= age.pos /\ Starving(p)} IN
     \/ /\ found = {}
        /\ age' = NoAge
        /\ SetIntr(0, "tail")
     \/ /\ found # {}
        /\ age' = [age EXCEPT !.pos = Min(found)]
        /\ SetIntr(0, "aging_read")
  /\ UNCHANGED <<state, pid, timeInfo, nextpid, cpuVars, ticks, todo, nullwrite>>

\* Mutant of aging_read: a process of the lowest queue is not moved up.
aging_read_no_fcfs ==
  /\ intr[0] = "aging_read"
  /\ LET q == queue[age.pos] IN
     \/ /\ q = SJF
        /\ age' = [age EXCEPT !.pid = pid[age.pos], !.to = RR]
        /\ SetIntr(0, "aging_find")
     \/ /\ q # SJF
        /\ age' = [age EXCEPT !.pos = @ + 1]
        /\ SetIntr(0, "aging")
  /\ UNCHANGED <<state, pid, timeInfo, nextpid, cpuVars, ticks, todo, nullwrite>>

\* Without ptable.lock: read the queue and the pid of the slot.
aging_read ==
  /\ intr[0] = "aging_read"
  /\ LET q == queue[age.pos] IN
     \/ /\ q \in {SJF, FCFS}
        /\ age' = [age EXCEPT !.pid = pid[age.pos], !.to = IF q = SJF THEN RR ELSE SJF]
        /\ SetIntr(0, "aging_find")
     \/ /\ q \notin {SJF, FCFS}
        /\ age' = [age EXCEPT !.pos = @ + 1]
        /\ SetIntr(0, "aging")
  /\ UNCHANGED <<state, pid, timeInfo, nextpid, cpuVars, ticks, todo, nullwrite>>

\* Mutant of get_proc_by_pid: the last slot is not looked at.
get_proc_by_pid_short(i) ==
  LET found == {p \in 1 .. NPROC - 1 : pid[p] = i} IN IF found = {} THEN Nobody ELSE Min(found)

get_proc_by_pid(i) ==
  LET found == {p \in Slot : pid[p] = i} IN IF found = {} THEN Nobody ELSE Min(found)

aging_find ==
  /\ intr[0] = "aging_find"
  /\ age' = [age EXCEPT !.found = get_proc_by_pid(age.pid)]
  /\ SetIntr(0, "aging_change")
  /\ UNCHANGED <<state, pid, timeInfo, nextpid, cpuVars, ticks, todo, nullwrite>>

\* The assignments of change_queue(), with what get_proc_by_pid() returned.
change_queue(p, q) ==
  IF p = Nobody
  THEN nullwrite' = TRUE /\ UNCHANGED <<queue, enter_queue_time>>
  ELSE /\ queue' = [queue EXCEPT ![p] = q]
       /\ enter_queue_time' = [enter_queue_time EXCEPT ![p] = ticks]
       /\ UNCHANGED nullwrite

aging_change ==
  /\ intr[0] = "aging_change"
  /\ change_queue(age.found, age.to)
  /\ age' = [NoAge EXCEPT !.pos = age.pos + 1]
  /\ SetIntr(0, "aging")
  /\ UNCHANGED <<state, pid, ticks_used, burst_time, last_run_time, confidence,
                 nextpid, cpuVars, ticks, todo>>
-----------------------------------------------------------------------------
(* System calls of the process p on CPU c *)

User(c, p) == proc[c] = p /\ intr[c] = "none" /\ todo[p] = NoTodo

\* syscall() counts call number k in used_syscalls[k - 1].  The array has
\* MAX_SYSCALLS = 26 elements and the fields of ti follow it, so that calls 27,
\* 28, 29 and 31 count in ti.queue, ti.ticks_used, ti.burst_time and
\* ti.enter_queue_time of the caller.
Counted(p, field) == [field EXCEPT ![p] = @ + 1]

\* Both calls first look a process up with get_proc_by_pid(), here for the pid
\* of a process that exists, and change it after ptable.lock is released.
Find(p, op, args) ==
  \E t \in Slot :
    /\ state[t] # "UNUSED"
    /\ todo' = [todo EXCEPT ![p] = [op |-> op, slot |-> t, args |-> args]]

Found(c, p, op) == proc[c] = p /\ intr[c] = "none" /\ todo[p].op = op

sys_set_initial_burst_confidence(c, p) ==
  /\ 27 \in Calls
  /\ User(c, p) /\ queue[p] < MaxField
  /\ queue' = Counted(p, queue)
  /\ \E b \in Bursts, k \in Confidences : Find(p, "burst", <<b, k>>)
  /\ UNCHANGED <<state, pid, ticks_used, burst_time, enter_queue_time, last_run_time,
                 confidence, nextpid, cpuVars, ticks, intr, age, nullwrite>>

set_initial_burst_confidence(c, p) ==
  /\ Found(c, p, "burst")
  /\ burst_time' = [burst_time EXCEPT ![todo[p].slot] = todo[p].args[1]]
  /\ confidence' = [confidence EXCEPT ![todo[p].slot] = todo[p].args[2]]
  /\ todo' = [todo EXCEPT ![p] = NoTodo]
  /\ UNCHANGED <<state, pid, queue, ticks_used, enter_queue_time, last_run_time,
                 nextpid, cpuVars, ticks, intr, age, nullwrite>>

sys_change_queue(c, p) ==
  /\ 28 \in Calls
  /\ User(c, p) /\ ticks_used[p] < MaxField
  /\ ticks_used' = Counted(p, ticks_used)
  /\ \E q \in Levels : Find(p, "queue", <<q>>)
  /\ UNCHANGED <<state, pid, queue, burst_time, enter_queue_time, last_run_time,
                 confidence, nextpid, cpuVars, ticks, intr, age, nullwrite>>

sys_change_queue_end(c, p) ==
  /\ Found(c, p, "queue")
  /\ change_queue(todo[p].slot, todo[p].args[1])
  /\ todo' = [todo EXCEPT ![p] = NoTodo]
  /\ UNCHANGED <<state, pid, ticks_used, burst_time, last_run_time, confidence,
                 nextpid, cpuVars, ticks, intr, age>>

sys_print_process_information(c, p) ==
  /\ 29 \in Calls
  /\ User(c, p) /\ burst_time[p] < MaxField
  /\ burst_time' = Counted(p, burst_time)
  /\ UNCHANGED <<state, pid, queue, ticks_used, enter_queue_time, last_run_time,
                 confidence, nextpid, cpuVars, ticks, intr, age, todo, nullwrite>>

sys_reentrantlock_test(c, p) ==
  /\ 31 \in Calls
  /\ User(c, p) /\ enter_queue_time[p] < MaxField
  /\ enter_queue_time' = Counted(p, enter_queue_time)
  /\ UNCHANGED <<state, pid, queue, ticks_used, burst_time, last_run_time,
                 confidence, nextpid, cpuVars, ticks, intr, age, todo, nullwrite>>
-----------------------------------------------------------------------------
(* Processes come, block, wake and go (in detail in ProcTable) *)

Leave(c, p, s) ==
  /\ state' = [state EXCEPT ![p] = s]
  /\ proc' = [proc EXCEPT ![c] = Nobody]
  /\ UNCHANGED <<pid, timeInfo, nextpid, last, remain, ticks, intr, age, todo, nullwrite>>

sleep(c, p) == User(c, p) /\ Leave(c, p, "SLEEPING")

exit(c, p) == User(c, p) /\ p # 1 /\ Leave(c, p, "ZOMBIE")

\* By a process or an interrupt handler of some CPU; the timer interrupt itself
\* is not interrupted.
wakeup(p) ==
  /\ \E c \in CPU : intr[c] = "none"
  /\ state[p] = "SLEEPING"
  /\ state' = [state EXCEPT ![p] = "RUNNABLE"]
  /\ UNCHANGED <<pid, timeInfo, nextpid, cpuVars, ticks, intr, age, todo, nullwrite>>

\* wait() of a parent that runs on some CPU.
reap(c, p, q) ==
  /\ User(c, p) /\ state[q] = "ZOMBIE"
  /\ state' = [state EXCEPT ![q] = "UNUSED"]
  /\ pid' = [pid EXCEPT ![q] = 0]
  /\ UNCHANGED <<timeInfo, nextpid, cpuVars, ticks, intr, age, todo, nullwrite>>

\* fork(), with the timeInfo that allocproc() gives the child.
fork(c, p, q) ==
  /\ User(c, p) /\ nextpid <= MaxPid
  /\ state[q] = "UNUSED" /\ \A r \in Slot : state[r] = "UNUSED" => q <= r
  /\ state' = [state EXCEPT ![q] = "RUNNABLE"]
  /\ pid' = [pid EXCEPT ![q] = nextpid]
  /\ nextpid' = nextpid + 1
  /\ queue' = [queue EXCEPT ![q] = FCFS]
  /\ ticks_used' = [ticks_used EXCEPT ![q] = 0]
  /\ burst_time' = [burst_time EXCEPT ![q] = DefBurst]
  /\ enter_queue_time' = [enter_queue_time EXCEPT ![q] = ticks]
  /\ last_run_time' = [last_run_time EXCEPT ![q] = 0]
  /\ confidence' = [confidence EXCEPT ![q] = DefConfidence]
  /\ UNCHANGED <<cpuVars, ticks, intr, age, todo, nullwrite>>
-----------------------------------------------------------------------------
Scheduling(c) == scheduler_refill(c) \/ \E q \in Levels : scheduler_run(c, q)

Aging == aging_scan \/ aging_read \/ aging_find \/ aging_change

\* Where a CPU is in its timer interrupt allows one of these at a time.
Interrupt(c) == timer(c) \/ trap_tail(c) \/ (c = 0 /\ Aging)

System(c, p) ==
  \/ sys_set_initial_burst_confidence(c, p) \/ set_initial_burst_confidence(c, p)
  \/ sys_change_queue(c, p) \/ sys_change_queue_end(c, p) \/ sys_print_process_information(c, p)
  \/ sys_reentrantlock_test(c, p) \/ sleep(c, p) \/ exit(c, p)
  \/ \E q \in Slot : reap(c, p, q) \/ fork(c, p, q)

Next ==
  \/ \E c \in CPU : Scheduling(c) \/ Interrupt(c) \/ \E p \in Slot : System(c, p)
  \/ \E p \in Slot : wakeup(p)

Spec == Init /\ [][Next]_vars

\* Each CPU takes its timer interrupts, and between two of them (10 ms apart)
\* goes round its scheduler() if it is idle.  User programs owe nothing.
Fairness == \A c \in CPU : SF_vars(Scheduling(c)) /\ WF_vars(Interrupt(c))

FairSpec == Spec /\ Fairness
-----------------------------------------------------------------------------
(* Properties *)

States == {"UNUSED", "SLEEPING", "RUNNABLE", "RUNNING", "ZOMBIE"}
Interrupts == {"none", "tail", "aging", "aging_read", "aging_find", "aging_change"}
AgeLocals == [pos : 0 .. NPROC + 1, pid : Nat, to : Levels, found : Slot \union {Nobody}]
Pending == [op : {"none", "burst", "queue"}, slot : Slot \union {Nobody},
            args : {<<>>} \union {<<q>> : q \in Levels} \union (Bursts \X Confidences)]

\* Every field of struct timeInfo, struct cpu and the locals of aging() and
\* change_queue() has its type; queue may hold a value outside enum levels.
TypeOK ==
  /\ state \in [Slot -> States]
  /\ pid \in [Slot -> Nat] /\ nextpid \in Nat
  /\ queue \in [Slot -> Nat]
  /\ ticks_used \in [Slot -> Nat] /\ burst_time \in [Slot -> Nat]
  /\ enter_queue_time \in [Slot -> Nat] /\ last_run_time \in [Slot -> Nat]
  /\ confidence \in [Slot -> Nat]
  /\ proc \in [CPU -> Slot \union {Nobody}]
  /\ last \in [CPU -> Slot]
  /\ remain \in [CPU -> [Levels -> Int]]
  /\ ticks \in 0 .. TickMod - 1
  /\ intr \in [CPU -> Interrupts] /\ age \in AgeLocals /\ todo \in [Slot -> Pending]
  /\ nullwrite \in BOOLEAN

\* The time a queue overdraws on a CPU before scheduler() sees that its share
\* is used up is less than what one process runs without yield().
OvershootBounded ==
  \A c \in CPU, q \in Levels : remain[c][q] >= -Quantum

\* aging() moves a process up only if it has waited in its queue for more than
\* STARVATION_BOUNDRY ticks, although it decides with ptable.lock released.
PromotedOnlyAfterWaiting ==
  [][\A p \in Slot : queue'[p] # queue[p] /\ pid'[p] = pid[p] =>
        Since(enter_queue_time[p]) > Boundary]_vars

\* change_queue(), which does not check for the 0 of get_proc_by_pid(), always
\* finds the process it is called for.  This is so on one CPU, where nothing can
\* reap the process while aging() has ptable.lock released.  Every variable
\* keeps its type.
NoNullWrite == TypeOK /\ ~nullwrite

\* A CPU does not go round scheduler() for ever while a process of one of the
\* three queues is RUNNABLE: using up the shares leads to a refill.
WorkConserving ==
  \A c \in CPU :
    (proc[c] = Nobody /\ \E q \in Levels : Runnable(q) # {})
      ~> (proc[c] # Nobody \/ \A q \in Levels : Runnable(q) = {})

\* aging() ends the wait of a process in the two lower queues: it runs, or it
\* moves up as far as the round-robin queue.
EventuallyPromoted ==
  \A p \in Slot :
    (state[p] = "RUNNABLE" /\ queue[p] \in {SJF, FCFS})
      ~> (state[p] # "RUNNABLE" \/ queue[p] = RR)
=============================================================================
