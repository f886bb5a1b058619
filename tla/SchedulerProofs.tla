-------------------------- MODULE SchedulerProofs ---------------------------
(***************************************************************************)
(* Proofs about the scheduler, for any number of processes, any shares,    *)
(* quantum and starvation boundary, and any range of ticks.                *)
(*                                                                         *)
(* aging() decides that a process starves with ptable.lock held, releases  *)
(* it, looks the process up again by its pid and changes its queue.  What  *)
(* keeps the two ends of this together on one CPU is AgeInv: nothing else  *)
(* runs, so that the pid still is the process's and no other's (PidInv).   *)
(* The shares of time are overdrawn by no more than a quantum because the  *)
(* process on a CPU has paid for its ticks out of its own quantum          *)
(* (DebtInv); a process moved while it runs would not have.                *)
(***************************************************************************)
EXTENDS Scheduler, WellFoundedInduction, TLAPS

\* No user program moves a process between queues: by change_queue(), or by the
\* count of call 27, which falls on the caller's ti.queue.
NoMoves == Calls \intersect {27, 28} = {}

\* A process is on one CPU at most, and is RUNNING there.
RunInv ==
  \A c \in CPU : proc[c] # Nobody =>
    /\ state[proc[c]] = "RUNNING"
    /\ \A d \in CPU : proc[d] = proc[c] => d = c

\* Processes that exist have different pids.
PidInv ==
  /\ nextpid > 0
  /\ \A p \in Slot :
       /\ pid[p] < nextpid
       /\ state[p] # "UNUSED" => pid[p] # 0
       /\ \A q \in Slot : pid[p] = pid[q] /\ pid[p] # 0 => p = q

\* What a call has found is a process, and its arguments are those of the call.
TodoInv ==
  \A p \in Slot :
    /\ todo[p].op = "burst" => todo[p].slot \in Slot /\ todo[p].args \in Bursts \X Confidences
    /\ todo[p].op = "queue" => todo[p].slot \in Slot /\ todo[p].args \in {<<q>> : q \in Levels}
    /\ NoMoves => todo[p].op = "none"

Moving == {"aging_read", "aging_find", "aging_change"}

\* aging() on one CPU: the process it found starving still is when
\* change_queue() moves it, because nothing else runs.
AgeInv ==
  /\ intr[0] = "aging" => age.pos \in 1 .. NPROC + 1
  /\ intr[0] \in Moving => age.pos \in Slot
  /\ NCPU = 1 =>
       /\ intr[0] \in Moving => Starving(age.pos)
       /\ intr[0] \in {"aging_find", "aging_change"} => age.pid = pid[age.pos]
       /\ intr[0] = "aging_change" => age.found = age.pos

\* What the process on a CPU has overdrawn is what it has used of its quantum.
DebtInv ==
  /\ \A p \in Slot : queue[p] \in Levels /\ ticks_used[p] <= Quantum
  /\ \A c \in CPU : proc[c] # Nobody =>
       remain[c][queue[proc[c]]] >= 1 - ticks_used[proc[c]]

IInv ==
  /\ TypeOK /\ RunInv /\ PidInv /\ TodoInv /\ AgeInv
  /\ NCPU = 1 => ~nullwrite
  /\ NCPU = 1 /\ NoMoves => DebtInv /\ OvershootBounded
-----------------------------------------------------------------------------
(* The smallest element of a set, and the choices of the three policies *)

\* A set of natural numbers that is not empty has a smallest element.
LEMMA LeastExists ==
  ASSUME NEW S, S \subseteq Nat, S # {}
  PROVE  \E x \in S : \A y \in S : x <= y
<1>1. PICK x \in S : \A y \in S : ~(<<y, x>> \in OpToRel(<, Nat))
  BY NatLessThanWellFounded, WFMin, Zenon
<1>2. \A y \in S : ~(y < x)
  BY Zenon, <1>1 DEF OpToRel
<1> QED
  BY <1>2

\* Min finds it.
LEMMA MinIs ==
  ASSUME NEW S, S \subseteq Nat, S # {}
  PROVE  Min(S) \in S /\ \A y \in S : Min(S) <= y
  BY LeastExists, Zenon DEF Min

\* The choice of the loop of shortest_job_first() once it has passed slot p, when
\* it was b before.
Better(p, b) ==
  IF p \notin Runnable(SJF) THEN b
  ELSE IF b = Nobody THEN p
  ELSE IF burst_time[p] < burst_time[b] /\ confidence[p] > create_random_number
  THEN p ELSE b

\* g[p] is the choice once the loop has passed slot p, for each p up to n.
Loop(g, n) == \A p \in 0 .. n : g[p] = IF p = 0 THEN Nobody ELSE Better(p, g[p - 1])

\* The loop has a result, one of the processes of the queue.
LEMMA LoopEnds ==
  \E g \in [0 .. NPROC -> Runnable(SJF) \union {Nobody}] : Loop(g, NPROC)
<1> DEFINE R == Runnable(SJF) \union {Nobody}
           Bad == {n \in Nat : ~ \E g \in [0 .. n -> R] : Loop(g, n)}
<1>1. SUFFICES ASSUME Bad # {} PROVE FALSE
  BY Zenon, <1>1, SchedConstants
<1>2. PICK n \in Bad : \A m \in Bad : n <= m
  BY Zenon, <1>1, LeastExists
<1>3. n # 0
  <2>1. [p \in 0 .. 0 |-> Nobody] \in [0 .. 0 -> R] /\ Loop([p \in 0 .. 0 |-> Nobody], 0)
    BY DEF Loop
  <2> QED
    BY Zenon, <2>1, <1>2
<1>4. n \in Nat /\ n - 1 \in Nat /\ n - 1 \notin Bad
  BY <1>2, <1>3
<1>5. PICK g \in [0 .. n - 1 -> R] : Loop(g, n - 1)
  BY <1>4
<1> DEFINE h == [p \in 0 .. n |-> IF p = n THEN Better(n, g[n - 1]) ELSE g[p]]
<1>6. Better(n, g[n - 1]) \in R
  BY <1>4, <1>5 DEF Better
<1>7. h \in [0 .. n -> R]
  BY <1>4, <1>5, <1>6
<1>8. Loop(h, n)
  <2> SUFFICES ASSUME NEW p \in 0 .. n
               PROVE  h[p] = IF p = 0 THEN Nobody ELSE Better(p, h[p - 1])
    BY DEF Loop
  <2>1. CASE p = n
    BY <2>1, <1>3, <1>4
  <2>2. CASE p # n
    BY <2>2, <1>4, <1>5 DEF Loop
  <2> QED
    BY <2>1, <2>2
<1> QED
  BY <1>2, <1>7, <1>8

\* shortest_job_first() chooses a process of its queue whenever there is one,
\* and none that it is confident about has a shorter burst.
THEOREM ShortestJob ==
  ASSUME TypeOK
  PROVE  IF Runnable(SJF) = {} THEN shortest_job_first = Nobody
         ELSE /\ shortest_job_first \in Runnable(SJF)
              /\ \A q \in Runnable(SJF) : confidence[q] > create_random_number =>
                   burst_time[shortest_job_first] <= burst_time[q]
<1> DEFINE g == CHOOSE f : f = [p \in 0 .. NPROC |-> IF p = 0 THEN Nobody ELSE Better(p, f[p - 1])]
           Good(p) == IF \A q \in Runnable(SJF) : q > p THEN g[p] = Nobody
                      ELSE /\ g[p] \in Runnable(SJF)
                           /\ \A q \in Runnable(SJF) :
                                q <= p /\ confidence[q] > create_random_number =>
                                  burst_time[g[p]] <= burst_time[q]
           Bad == {p \in 0 .. NPROC : ~Good(p)}
<1>0. \A r \in Runnable(SJF) : r \in 1 .. NPROC /\ burst_time[r] \in Nat /\ confidence[r] \in Nat
  BY Zenon DEF TypeOK, Runnable, Slot
<1>1. g = [p \in 0 .. NPROC |-> IF p = 0 THEN Nobody ELSE Better(p, g[p - 1])]
  <2>1. PICK f \in [0 .. NPROC -> Runnable(SJF) \union {Nobody}] : Loop(f, NPROC)
    BY LoopEnds
  <2>2. f = [p \in 0 .. NPROC |-> IF p = 0 THEN Nobody ELSE Better(p, f[p - 1])]
    BY <2>1 DEF Loop
  <2> QED
    BY Zenon, <2>2
<1>2. \A p \in 0 .. NPROC : g[p] = IF p = 0 THEN Nobody ELSE Better(p, g[p - 1])
  BY <1>1, Zenon
<1>3. g[NPROC] = shortest_job_first
  BY DEF shortest_job_first, Better
<1> HIDE DEF g
<1>4. Bad = {}
  <2> SUFFICES ASSUME Bad # {} PROVE FALSE
    OBVIOUS
  <2>1. Bad \subseteq Nat
    BY SchedConstants
  <2>2. PICK p \in Bad : \A r \in Bad : p <= r
    BY ONLY Zenon, <2>1, LeastExists, Bad # {}
  <2>3. p \in 0 .. NPROC /\ ~Good(p)
    BY <2>2
  <2>4. p # 0
    <3> SUFFICES ASSUME p = 0 PROVE FALSE
      OBVIOUS
    <3>1. g[0] = Nobody
      BY <1>2, SchedConstants
    <3>2. \A q \in Runnable(SJF) : q > 0
      BY <1>0
    <3> QED
      BY <2>3, <3>1, <3>2
  <2>5. p \in 1 .. NPROC /\ p - 1 \in 0 .. NPROC
    BY <2>3, <2>4, SchedConstants
  <2>6. Good(p - 1)
    <3>1. p - 1 \notin Bad
      BY ONLY <2>1, <2>2, <2>5, SchedConstants
    <3> QED
      BY ONLY <3>1, <2>5
  <2>7. g[p] = Better(p, g[p - 1])
    BY <1>2, <2>3, <2>4
  <2>8. CASE p \notin Runnable(SJF)
    <3>1. g[p] = g[p - 1] /\ \A q \in Runnable(SJF) : q <= p <=> q <= p - 1
      BY <1>0, <2>5, <2>7, <2>8 DEF Better
    <3> QED
      BY <1>0, <2>3, <2>5, <2>6, <3>1
  <2>9. CASE p \in Runnable(SJF)
    <3>1. CASE \A q \in Runnable(SJF) : q > p - 1
      <4>1. g[p] = p
        BY <2>6, <2>7, <2>9, <3>1 DEF Better
      <4>2. \A q \in Runnable(SJF) : q <= p => q = p
        BY <1>0, <2>5, <3>1
      <4> QED
        BY <1>0, <2>3, <2>5, <2>9, <4>1, <4>2
    <3>2. CASE ~ \A q \in Runnable(SJF) : q > p - 1
      <4>1. /\ g[p - 1] \in Runnable(SJF)
            /\ \A q \in Runnable(SJF) :
                 q <= p - 1 /\ confidence[q] > create_random_number =>
                   burst_time[g[p - 1]] <= burst_time[q]
        BY <2>6, <3>2
      <4>2. g[p - 1] # Nobody
        BY <1>0, <4>1 DEF Nobody
      <4>3. \A q \in Runnable(SJF) : q <= p => q = p \/ q <= p - 1
        BY <1>0, <2>5
      <4>4. ~ \A q \in Runnable(SJF) : q > p
        BY <1>0, <2>5, <2>9
      <4> DEFINE shorter == burst_time[p] < burst_time[g[p - 1]] /\ confidence[p] > create_random_number
      <4>5. CASE shorter
        <5>1. g[p] = p
          BY <2>7, <2>9, <4>2, <4>5 DEF Better
        <5>2. \A q \in Runnable(SJF) : q <= p /\ confidence[q] > create_random_number =>
                burst_time[p] <= burst_time[q]
          <6> TAKE q \in Runnable(SJF)
          <6> HAVE q <= p /\ confidence[q] > create_random_number
          <6>1. /\ burst_time[p] \in Nat /\ burst_time[q] \in Nat
                /\ burst_time[g[p - 1]] \in Nat
            BY Zenon, <1>0, <2>9, <4>1
          <6>2. q = p \/ burst_time[g[p - 1]] <= burst_time[q]
            BY <4>1, <4>3
          <6> QED
            BY <4>5, <6>1, <6>2
        <5> QED
          BY ONLY <2>3, <2>9, <4>4, <5>1, <5>2
      <4>6. CASE ~shorter
        <5>1. g[p] = g[p - 1]
          BY <2>7, <2>9, <4>2, <4>6 DEF Better
        <5>2. \A q \in Runnable(SJF) : q <= p /\ confidence[q] > create_random_number =>
                burst_time[g[p - 1]] <= burst_time[q]
          <6> TAKE q \in Runnable(SJF)
          <6> HAVE q <= p /\ confidence[q] > create_random_number
          <6>1. /\ burst_time[p] \in Nat /\ burst_time[q] \in Nat
                /\ burst_time[g[p - 1]] \in Nat
            BY Zenon, <1>0, <2>9, <4>1
          <6>2. q = p \/ burst_time[g[p - 1]] <= burst_time[q]
            BY <4>1, <4>3
          <6> QED
            BY <4>6, <6>1, <6>2
        <5> QED
          BY ONLY <2>3, <4>1, <4>4, <5>1, <5>2
      <4> QED
        BY <4>5, <4>6
    <3> QED
      BY <3>1, <3>2
  <2> QED
    BY <2>8, <2>9
<1>5. Good(NPROC)
  BY <1>4, SchedConstants
<1>6. \A q \in Runnable(SJF) : q <= NPROC /\ ~(q > NPROC)
  BY <1>0, SchedConstants
<1>7. CASE Runnable(SJF) = {}
  BY <1>3, <1>5, <1>7
<1>8. CASE Runnable(SJF) # {}
  <2>1. ~ \A q \in Runnable(SJF) : q > NPROC
    BY <1>6, <1>8
  <2> QED
    BY <1>3, <1>5, <1>6, <1>8, <2>1
<1> QED
  BY <1>7, <1>8

\* A CPU is given a RUNNABLE process of the queue it looks in, and only while
\* the queue has time left.
LEMMA ChoiceIs ==
  ASSUME TypeOK, NEW c \in CPU, NEW q \in Levels, Choice(c, q) # Nobody
  PROVE  /\ Choice(c, q) \in Slot /\ state[Choice(c, q)] = "RUNNABLE"
         /\ queue[Choice(c, q)] = q /\ remain[c][q] > 0
<1>0. remain[c][q] > 0 /\ ~(remain[c][q] <= 0)
  BY DEF Choice, TypeOK
<1>1. Slot \subseteq Nat /\ Nobody \notin Slot
  BY SchedConstants DEF Slot, Nobody
<1> SUFFICES Choice(c, q) \in Runnable(q)
  BY <1>0 DEF Runnable
<1>2. CASE q = RR
  <2> DEFINE after == {p \in Runnable(RR) : p >= last[c]}
  <2>1. Choice(c, q) = round_robin(last[c])
    BY <1>2, <1>0 DEF Choice, RR, SJF, FCFS
  <2>2. Runnable(RR) # {} /\ Runnable(RR) \subseteq Nat /\ after \subseteq Runnable(RR)
    BY Zenon, <1>1, <2>1 DEF round_robin, Runnable
  <2>3. (after # {} /\ Choice(c, q) = Min(after)) \/ Choice(c, q) = Min(Runnable(RR))
    BY <2>1, <2>2 DEF round_robin
  <2> QED
    BY <1>2, <2>2, <2>3, MinIs
<1>3. CASE q = SJF
  <2>1. Choice(c, q) = shortest_job_first
    BY <1>3, <1>0 DEF Choice, RR, SJF, FCFS
  <2> QED
    BY <1>3, <2>1, ShortestJob
<1>4. CASE q = FCFS
  <2>1. Choice(c, q) = first_come_first_service
    BY <1>4, <1>0 DEF Choice, RR, SJF, FCFS
  <2> DEFINE times == {enter_queue_time[p] : p \in Runnable(FCFS)}
             earliest == {p \in Runnable(FCFS) : \A r \in Runnable(FCFS) :
                             enter_queue_time[p] <= enter_queue_time[r]}
  <2>2. Runnable(FCFS) # {} /\ Runnable(FCFS) \subseteq Slot /\ times \subseteq Nat
    <3>1. Runnable(FCFS) # {} /\ Runnable(FCFS) \subseteq Slot
      BY <2>1 DEF first_come_first_service, Runnable
    <3>2. \A p \in Slot : enter_queue_time[p] \in Nat
      BY DEF TypeOK
    <3> QED
      BY ONLY <3>1, <3>2
  <2>3. PICK t \in times : \A u \in times : t <= u
    BY Zenon, <2>2, LeastExists
  <2>4. earliest # {} /\ earliest \subseteq Runnable(FCFS)
    BY <2>2, <2>3
  <2>5. Choice(c, q) = Min(earliest)
    BY <2>1, <2>2 DEF first_come_first_service
  <2> QED
    BY Zenon, <1>1, <1>4, <2>2, <2>4, <2>5, MinIs
<1> QED
  BY <1>2, <1>3, <1>4 DEF Levels

\* get_proc_by_pid() finds the one process with a pid that is in use.
LEMMA FindsIt ==
  ASSUME TypeOK, PidInv, NEW p \in Slot, pid[p] # 0
  PROVE  get_proc_by_pid(pid[p]) = p
<1> DEFINE found == {r \in Slot : pid[r] = pid[p]}
<1>1. found \subseteq Nat /\ p \in found
  BY SchedConstants DEF Slot
<1>2. get_proc_by_pid(pid[p]) = Min(found)
  BY <1>1 DEF get_proc_by_pid
<1>3. Min(found) \in found
  BY <1>1, MinIs
<1> QED
  BY <1>2, <1>3 DEF PidInv

\* What it returns is a slot or Nobody in any case.
LEMMA FindType ==
  ASSUME NEW i
  PROVE  get_proc_by_pid(i) \in Slot \union {Nobody}
<1> DEFINE found == {r \in Slot : pid[r] = i}
<1>1. found \subseteq Nat
  BY SchedConstants DEF Slot
<1>2. found # {} => Min(found) \in found
  BY <1>1, MinIs
<1> QED
  BY <1>2 DEF get_proc_by_pid

-----------------------------------------------------------------------------
(* Every step keeps the types *)

\* Remainders are numbers below the modulus.
LEMMA ModType ==
  ASSUME NEW i \in Int
  PROVE  i % TickMod \in 0 .. TickMod - 1 /\ i % TickMod \in Nat
  BY SchedConstants

\* Every step keeps the types, with what TodoInv and AgeInv say of arguments and
\* of the place of aging().
LEMMA TypeStep ==
  ASSUME TypeOK, TodoInv, AgeInv, [Next]_vars
  PROVE  TypeOK'
<1>a. Nobody \notin Slot /\ 0 \in Nat /\ RR \in Levels /\ SJF \in Levels /\ FCFS \in Levels
      /\ Levels \subseteq Nat
  BY DEF Nobody, Slot, Levels, RR, SJF, FCFS
<1>b. age \in AgeLocals /\ intr \in [CPU -> Interrupts] /\ ticks \in 0 .. TickMod - 1
  BY DEF TypeOK
<1>c. NoAge \in AgeLocals /\ [NoAge EXCEPT !.pos = 1] \in AgeLocals /\ 0 \in CPU
      /\ \A n \in Slot : n \in 0 .. NPROC + 1 /\ n + 1 \in 0 .. NPROC + 1
  BY <1>a, SchedConstants DEF NoAge, AgeLocals, Slot, CPU
<1>d. \A c \in CPU, i \in Interrupts : [intr EXCEPT ![c] = i] \in [CPU -> Interrupts]
  BY ONLY <1>b
<1>e. ticks \in Nat
  <2>1. TickMod \in Nat
    BY SchedConstants
  <2> QED
    BY ONLY <1>b, <2>1
<1>1. ASSUME NEW c \in CPU, Scheduling(c) PROVE TypeOK'
  <2>1. CASE scheduler_refill(c)
    <3>1. Shares \in [Levels -> Int]
      BY SchedConstants DEF Shares, Levels, RR, SJF, FCFS
    <3> QED
      BY <2>1, <3>1 DEF scheduler_refill, TypeOK, timeInfo
  <2>2. ASSUME NEW q \in Levels, scheduler_run(c, q) PROVE TypeOK'
    <3>1. Choice(c, q) \in Slot
      BY <2>2, ChoiceIs DEF scheduler_run
    <3> QED
      BY <2>2, <3>1 DEF scheduler_run, TypeOK, timeInfo, States
  <2> QED
    BY ONLY <1>1, <2>1, <2>2 DEF Scheduling
<1>2. ASSUME NEW c \in CPU, timer(c) PROVE TypeOK'
  <2>1. ticks' \in 0 .. TickMod - 1
    <3>1. ticks + 1 \in Int
      BY ONLY <1>b, SchedConstants
    <3> QED
      BY ONLY <1>b, <1>2, <3>1, ModType DEF timer
  <2>2. age' \in AgeLocals /\ intr' \in [CPU -> Interrupts]
    BY ONLY <1>b, <1>c, <1>d, <1>2 DEF timer, SetIntr, Interrupts
  <2>3. UNCHANGED <<state, pid, timeInfo, nextpid, cpuVars, todo, nullwrite>>
    BY ONLY <1>2 DEF timer
  <2> QED
    BY ONLY <2>1, <2>2, <2>3, TypeOK DEF TypeOK, timeInfo, cpuVars
<1>3. ASSUME NEW c \in CPU, trap_tail(c) PROVE TypeOK'
  <2>1. remain' \in [CPU -> [Levels -> Int]]
    <3>1. remain \in [CPU -> [Levels -> Int]]
      BY DEF TypeOK
    <3>2. remain' = remain \/ \E q \in Levels : remain' = [remain EXCEPT ![c][q] = @ - 1]
      BY ONLY <1>3 DEF trap_tail, UpdateRemainTimes
    <3> QED
      BY ONLY <3>1, <3>2
  <2>2. last_run_time' \in [Slot -> Nat] /\ ticks_used' \in [Slot -> Nat]
    <3>1. last_run_time \in [Slot -> Nat] /\ ticks_used \in [Slot -> Nat]
          /\ proc[c] \in Slot \union {Nobody}
      BY DEF TypeOK
    <3>2. \A p \in Slot : last_run_time[p] + 1 \in Int /\ (last_run_time[p] + 1) % TickMod \in Nat
      BY ONLY <3>1, ModType
    <3> QED
      BY ONLY <1>3, <3>1, <3>2 DEF trap_tail
  <2>3. state' \in [Slot -> States]
        /\ proc' \in [CPU -> Slot \union {Nobody}] /\ intr' \in [CPU -> Interrupts]
    <3>1. state \in [Slot -> States]
          /\ proc \in [CPU -> Slot \union {Nobody}]
      BY DEF TypeOK
    <3> QED
      BY ONLY <1>3, <1>d, <3>1 DEF trap_tail, SetIntr, Interrupts, States
  <2>4. UNCHANGED <<pid, queue, burst_time, enter_queue_time, confidence, nextpid,
                    last, ticks, age, todo, nullwrite>>
    BY ONLY <1>3 DEF trap_tail
  <2> QED
    BY ONLY TypeOK, <2>1, <2>2, <2>3, <2>4 DEF TypeOK
<1>4. CASE Aging
  <2>1. \/ age' = NoAge
        \/ \E n \in Slot : age' = [age EXCEPT !.pos = n] \/ age' = [age EXCEPT !.pos = n + 1]
                           \/ age' = [NoAge EXCEPT !.pos = n + 1]
        \/ \E q \in Levels, p \in Slot : age' = [age EXCEPT !.pid = pid[p], !.to = q]
        \/ \E p \in Slot \union {Nobody} : age' = [age EXCEPT !.found = p]
    <3>1. CASE aging_scan
      <4> DEFINE found == {p \in Slot : p >= age.pos /\ Starving(p)}
      <4>1. found \subseteq Slot /\ Slot \subseteq Nat
        BY ONLY SchedConstants DEF Slot
      <4>2. found # {} => Min(found) \in Slot
        BY Zenon, <4>1, MinIs
      <4> QED
        BY ONLY Zenon, <3>1, <4>2, <1>c DEF aging_scan
    <3>2. CASE aging_read
      <4>1. age.pos \in Slot
        BY <3>2 DEF AgeInv, aging_read, Moving
      <4> QED
        BY ONLY Zenon, <1>a, <1>b, <3>2, <4>1 DEF aging_read, AgeLocals
    <3>3. CASE aging_find
      BY ONLY <3>3, FindType, Zenon DEF aging_find
    <3>4. CASE aging_change
      <4>1. age.pos \in Slot
        BY <3>4 DEF AgeInv, aging_change, Moving
      <4> QED
        BY ONLY Zenon, <3>4, <4>1 DEF aging_change
    <3> QED
      BY ONLY Zenon, <1>4, <3>1, <3>2, <3>3, <3>4 DEF Aging
  <2>2. age' \in AgeLocals
    <3>1. \A p \in Slot : pid[p] \in Nat
      BY DEF TypeOK
    <3> QED
      BY ONLY Zenon, <1>b, <1>c, <2>1, <3>1 DEF AgeLocals
  <2>3. intr' \in [CPU -> Interrupts]
    BY ONLY <1>4, <1>c, <1>d DEF Aging, aging_scan, aging_read, aging_find, aging_change,
       SetIntr, Interrupts
  <2>4. queue' \in [Slot -> Nat] /\ enter_queue_time' \in [Slot -> Nat] /\ nullwrite' \in BOOLEAN
    <3>1. queue \in [Slot -> Nat] /\ enter_queue_time \in [Slot -> Nat] /\ nullwrite \in BOOLEAN
      BY DEF TypeOK
    <3>2. age.to \in Nat
      BY ONLY Zenon, <1>a, <1>b DEF AgeLocals
    <3>3. UNCHANGED <<queue, enter_queue_time, nullwrite>> \/ change_queue(age.found, age.to)
      BY ONLY <1>4, Zenon DEF Aging, aging_scan, aging_read, aging_find, aging_change, timeInfo
    <3> QED
      BY ONLY Zenon, <1>e, <3>1, <3>2, <3>3 DEF change_queue
  <2>5. UNCHANGED <<state, pid, ticks_used, burst_time, last_run_time, confidence,
                    nextpid, cpuVars, ticks, todo>>
    BY ONLY <1>4, Zenon DEF Aging, aging_scan, aging_read, aging_find, aging_change, timeInfo
  <2> QED
    BY ONLY TypeOK, <2>2, <2>3, <2>4, <2>5 DEF TypeOK, cpuVars
<1>5. ASSUME NEW c \in CPU, NEW p \in Slot, System(c, p) PROVE TypeOK'
  <2>1. CASE sys_set_initial_burst_confidence(c, p) \/ sys_change_queue(c, p)
    <3>1. queue' \in [Slot -> Nat] /\ ticks_used' \in [Slot -> Nat]
      <4>1. queue \in [Slot -> Nat] /\ ticks_used \in [Slot -> Nat]
        BY DEF TypeOK
      <4> QED
        BY ONLY <2>1, <4>1 DEF sys_set_initial_burst_confidence, sys_change_queue, Counted
    <3>2. todo' \in [Slot -> Pending]
      <4>1. todo \in [Slot -> Pending]
        BY DEF TypeOK
      <4>2. ASSUME sys_set_initial_burst_confidence(c, p)
            PROVE  \E r \in Pending : todo' = [todo EXCEPT ![p] = r]
        <5>1. PICK b \in Bursts, k \in Confidences, t \in Slot :
                todo' = [todo EXCEPT ![p] = [op |-> "burst", slot |-> t, args |-> <<b, k>>]]
          BY ONLY Zenon, <4>2 DEF sys_set_initial_burst_confidence, Find
        <5>2. [op |-> "burst", slot |-> t, args |-> <<b, k>>] \in Pending
          BY DEF Pending
        <5> QED
          BY ONLY Zenon, <5>1, <5>2
      <4>3. ASSUME sys_change_queue(c, p)
            PROVE  \E r \in Pending : todo' = [todo EXCEPT ![p] = r]
        <5>1. PICK q \in Levels, t \in Slot :
                todo' = [todo EXCEPT ![p] = [op |-> "queue", slot |-> t, args |-> <<q>>]]
          BY ONLY Zenon, <4>3 DEF sys_change_queue, Find
        <5>2. [op |-> "queue", slot |-> t, args |-> <<q>>] \in Pending
          BY DEF Pending
        <5> QED
          BY ONLY Zenon, <5>1, <5>2
      <4>4. \E r \in Pending : todo' = [todo EXCEPT ![p] = r]
        BY ONLY <2>1, <4>2, <4>3
      <4> QED
        BY ONLY <4>1, <4>4
    <3>3. UNCHANGED <<state, pid, burst_time, enter_queue_time, last_run_time,
                      confidence, nextpid, cpuVars, ticks, intr, age, nullwrite>>
      BY ONLY <2>1, Zenon DEF sys_set_initial_burst_confidence, sys_change_queue
    <3> QED
      BY ONLY TypeOK, <3>1, <3>2, <3>3 DEF TypeOK, cpuVars
  <2>2. CASE set_initial_burst_confidence(c, p) \/ sys_change_queue_end(c, p)
    <3>1. todo' \in [Slot -> Pending]
      <4>1. todo \in [Slot -> Pending]
        BY DEF TypeOK
      <4>2. NoTodo \in Pending
        BY DEF NoTodo, Pending
      <4> QED
        <5>1. todo' = [todo EXCEPT ![p] = NoTodo]
          BY ONLY Zenon, <2>2 DEF set_initial_burst_confidence, sys_change_queue_end
        <5> QED
          BY ONLY <4>1, <4>2, <5>1
    <3>2. burst_time' \in [Slot -> Nat] /\ confidence' \in [Slot -> Nat]
      <4>1. burst_time \in [Slot -> Nat] /\ confidence \in [Slot -> Nat]
        BY DEF TypeOK
      <4>2. set_initial_burst_confidence(c, p) =>
              todo[p].args[1] \in Nat /\ todo[p].args[2] \in Nat
        BY Zenon, SchedConstants DEF set_initial_burst_confidence, Found, TodoInv
      <4> QED
        BY ONLY <2>2, <4>1, <4>2 DEF set_initial_burst_confidence, sys_change_queue_end
    <3>3. queue' \in [Slot -> Nat] /\ enter_queue_time' \in [Slot -> Nat] /\ nullwrite' \in BOOLEAN
      <4>1. queue \in [Slot -> Nat] /\ enter_queue_time \in [Slot -> Nat] /\ nullwrite \in BOOLEAN
        BY DEF TypeOK
      <4>2. sys_change_queue_end(c, p) => todo[p].args[1] \in Nat
        BY <1>a DEF sys_change_queue_end, Found, TodoInv
      <4> QED
        BY ONLY Zenon, <1>e, <2>2, <4>1, <4>2 DEF set_initial_burst_confidence, sys_change_queue_end,
           change_queue
    <3>4. UNCHANGED <<state, pid, ticks_used, last_run_time, nextpid, cpuVars, ticks, intr, age>>
      BY ONLY <2>2, Zenon DEF set_initial_burst_confidence, sys_change_queue_end
    <3> QED
      BY ONLY TypeOK, <3>1, <3>2, <3>3, <3>4 DEF TypeOK, cpuVars
  <2>3. CASE sys_print_process_information(c, p) \/ sys_reentrantlock_test(c, p)
    <3>1. burst_time \in [Slot -> Nat] /\ enter_queue_time \in [Slot -> Nat]
      BY DEF TypeOK
    <3>2. burst_time' \in [Slot -> Nat] /\ enter_queue_time' \in [Slot -> Nat]
      BY ONLY <2>3, <3>1 DEF sys_print_process_information, sys_reentrantlock_test, Counted
    <3>3. UNCHANGED <<state, pid, queue, ticks_used, last_run_time,
                      confidence, nextpid, cpuVars, ticks, intr, age, todo, nullwrite>>
      BY ONLY <2>3, Zenon DEF sys_print_process_information, sys_reentrantlock_test
    <3> QED
      BY ONLY TypeOK, <3>2, <3>3 DEF TypeOK, cpuVars
  <2>4. CASE sleep(c, p) \/ exit(c, p)
    BY Zenon, <2>4 DEF sleep, exit, Leave, TypeOK, timeInfo, States
  <2>5. ASSUME NEW q \in Slot, reap(c, p, q) PROVE TypeOK'
    BY <2>5 DEF reap, TypeOK, timeInfo, cpuVars, States
  <2>6. ASSUME NEW q \in Slot, fork(c, p, q) PROVE TypeOK'
    <3>1. FCFS \in Nat /\ DefBurst \in Nat /\ DefConfidence \in Nat
      BY ONLY <1>a, SchedConstants
    <3>2. /\ state' \in [Slot -> States]
          /\ pid' \in [Slot -> Nat] /\ nextpid' \in Nat
      <4>1. /\ state \in [Slot -> States]
            /\ pid \in [Slot -> Nat] /\ nextpid \in Nat
        BY DEF TypeOK
      <4> QED
        BY ONLY <2>6, <4>1 DEF fork, States
    <3>3. /\ queue' \in [Slot -> Nat] /\ ticks_used' \in [Slot -> Nat]
          /\ burst_time' \in [Slot -> Nat] /\ enter_queue_time' \in [Slot -> Nat]
          /\ last_run_time' \in [Slot -> Nat] /\ confidence' \in [Slot -> Nat]
      BY <1>e, <2>6, <3>1 DEF fork, TypeOK
    <3>4. UNCHANGED <<cpuVars, ticks, intr, age, todo, nullwrite>>
      BY ONLY <2>6 DEF fork
    <3> QED
      BY ONLY TypeOK, <3>2, <3>3, <3>4 DEF TypeOK, cpuVars
  <2> QED
    BY ONLY Zenon, <1>5, <2>1, <2>2, <2>3, <2>4, <2>5, <2>6 DEF System
<1>6. ASSUME NEW p \in Slot, wakeup(p) PROVE TypeOK'
  BY <1>6 DEF wakeup, TypeOK, timeInfo, cpuVars, States
<1>7. CASE UNCHANGED vars
  BY <1>7 DEF vars, TypeOK, timeInfo, cpuVars
<1> QED
  BY ONLY Zenon, [Next]_vars, <1>1, <1>2, <1>3, <1>4, <1>5, <1>6, <1>7 DEF Next, Interrupt
-----------------------------------------------------------------------------
(* Processes, CPUs and pids *)

tableVars == <<state, proc, pid, nextpid>>

\* What a step does to the processes and the CPUs.
Runs(c) ==
  /\ proc[c] = Nobody /\ UNCHANGED <<pid, nextpid>>
  /\ \E p \in Slot : /\ state[p] = "RUNNABLE"
                     /\ state' = [state EXCEPT ![p] = "RUNNING"]
                     /\ proc' = [proc EXCEPT ![c] = p]

Stops(c) ==
  /\ proc[c] \in Slot /\ UNCHANGED <<pid, nextpid>>
  /\ proc' = [proc EXCEPT ![c] = Nobody]
  /\ \E s \in {"SLEEPING", "RUNNABLE", "ZOMBIE"} : state' = [state EXCEPT ![proc[c]] = s]

Wakes(p) ==
  /\ state[p] = "SLEEPING" /\ UNCHANGED <<proc, pid, nextpid>>
  /\ state' = [state EXCEPT ![p] = "RUNNABLE"]

Ends(p) ==
  /\ state[p] = "ZOMBIE" /\ UNCHANGED <<proc, nextpid>>
  /\ state' = [state EXCEPT ![p] = "UNUSED"] /\ pid' = [pid EXCEPT ![p] = 0]

Starts(p) ==
  /\ state[p] = "UNUSED" /\ UNCHANGED proc
  /\ state' = [state EXCEPT ![p] = "RUNNABLE"]
  /\ pid' = [pid EXCEPT ![p] = nextpid] /\ nextpid' = nextpid + 1

\* Every step is one of these, or leaves processes and CPUs alone.
LEMMA TableSteps ==
  ASSUME TypeOK, [Next]_vars
  PROVE  \/ \E c \in CPU : Runs(c) \/ Stops(c)
         \/ \E p \in Slot : Wakes(p) \/ Ends(p) \/ Starts(p)
         \/ UNCHANGED tableVars
<1> DEFINE Goal == \/ \E c \in CPU : Runs(c) \/ Stops(c)
                   \/ \E p \in Slot : Wakes(p) \/ Ends(p) \/ Starts(p)
                   \/ UNCHANGED tableVars
<1>0. Nobody \notin Slot /\ proc \in [CPU -> Slot \union {Nobody}]
  BY DEF Nobody, Slot, TypeOK
<1>1. ASSUME NEW c \in CPU, Scheduling(c) PROVE Goal
  <2>1. CASE scheduler_refill(c)
    BY ONLY <2>1 DEF scheduler_refill, tableVars
  <2>2. ASSUME NEW q \in Levels, scheduler_run(c, q) PROVE Runs(c)
    <3>1. Choice(c, q) \in Slot /\ state[Choice(c, q)] = "RUNNABLE"
      BY <2>2, ChoiceIs DEF scheduler_run
    <3> QED
      BY ONLY Zenon, <2>2, <3>1 DEF scheduler_run, Runs, Idle
  <2> QED
    BY ONLY <1>1, <2>1, <2>2 DEF Scheduling
<1>2. ASSUME NEW c \in CPU, trap_tail(c) PROVE Goal
  <2>1. UNCHANGED tableVars \/ Stops(c)
    BY ONLY <1>0, <1>2 DEF trap_tail, Stops, tableVars
  <2> QED
    BY ONLY <2>1
<1>3. ASSUME NEW c \in CPU, timer(c) \/ Aging PROVE Goal
  BY ONLY <1>3, Zenon DEF timer, Aging, aging_scan, aging_read, aging_find, aging_change,
     cpuVars, tableVars
<1>4. ASSUME NEW c \in CPU, NEW p \in Slot, System(c, p) PROVE Goal
  <2>1. CASE sleep(c, p) \/ exit(c, p)
    <3>1. Stops(c)
      <4>1. /\ proc[c] = p /\ UNCHANGED <<pid, nextpid>> /\ proc' = [proc EXCEPT ![c] = Nobody]
            /\ \E s \in {"SLEEPING", "ZOMBIE"} : state' = [state EXCEPT ![p] = s]
        BY ONLY Zenon, <2>1 DEF sleep, exit, Leave, User
      <4> QED
        BY ONLY Zenon, <4>1, p \in Slot DEF Stops
    <3> QED
      BY ONLY <3>1, c \in CPU
  <2>2. ASSUME NEW q \in Slot, reap(c, p, q) \/ fork(c, p, q) PROVE Ends(q) \/ Starts(q)
    BY ONLY <2>2 DEF reap, fork, Ends, Starts, cpuVars
  <2> QED
    BY ONLY Zenon, <1>4, <2>1, <2>2 DEF System, sys_set_initial_burst_confidence,
       set_initial_burst_confidence, sys_change_queue, sys_change_queue_end,
       sys_print_process_information, sys_reentrantlock_test, cpuVars, tableVars
<1>5. ASSUME NEW p \in Slot, wakeup(p) PROVE Wakes(p)
  BY ONLY <1>5 DEF wakeup, Wakes, cpuVars
<1>6. CASE UNCHANGED vars
  BY ONLY <1>6, Zenon DEF vars, cpuVars, tableVars
<1> QED
  BY ONLY Zenon, [Next]_vars, <1>1, <1>2, <1>3, <1>4, <1>5, <1>6 DEF Next, Interrupt

\* A process stays on one CPU at most, and a new one gets a pid that no other
\* has and keeps it until it is gone.
LEMMA TableStep ==
  ASSUME TypeOK, RunInv, PidInv, [Next]_vars
  PROVE  RunInv' /\ PidInv'
<1>0. /\ Nobody \notin Slot /\ proc \in [CPU -> Slot \union {Nobody}]
      /\ state \in [Slot -> States]
      /\ pid \in [Slot -> Nat] /\ nextpid \in Nat
  BY DEF Nobody, Slot, TypeOK
<1>1. ASSUME NEW c \in CPU, Runs(c) PROVE RunInv' /\ PidInv'
  <2>1. RunInv'
    BY ONLY RunInv, <1>0, <1>1 DEF Runs, RunInv
  <2>2. PidInv'
    BY ONLY PidInv, <1>0, <1>1 DEF Runs, PidInv
  <2> QED
    BY <2>1, <2>2
<1>2. ASSUME NEW c \in CPU, Stops(c) PROVE RunInv' /\ PidInv'
  <2>1. RunInv'
    BY ONLY RunInv, <1>0, <1>2 DEF Stops, RunInv
  <2>2. PidInv'
    BY ONLY RunInv, PidInv, <1>0, <1>2 DEF Stops, RunInv, PidInv
  <2> QED
    BY <2>1, <2>2
<1>3. ASSUME NEW p \in Slot, Wakes(p) \/ Ends(p) \/ Starts(p) PROVE RunInv' /\ PidInv'
  <2>1. RunInv'
    BY ONLY RunInv, <1>0, <1>3 DEF Wakes, Ends, Starts, RunInv
  <2>2. PidInv'
    BY ONLY PidInv, <1>0, <1>3 DEF Wakes, Ends, Starts, PidInv
  <2> QED
    BY <2>1, <2>2
<1>4. CASE UNCHANGED tableVars
  BY ONLY RunInv, PidInv, <1>4 DEF RunInv, PidInv, tableVars
<1> QED
  BY ONLY Zenon, TableSteps, TypeOK, [Next]_vars, <1>1, <1>2, <1>3, <1>4
-----------------------------------------------------------------------------
(* aging() and change_queue() *)

\* A call keeps what it found until it ends.
LEMMA TodoStep ==
  ASSUME TypeOK, TodoInv, [Next]_vars
  PROVE  TodoInv'
<1>0. todo \in [Slot -> Pending]
  BY DEF TypeOK
<1>1. ASSUME NEW p \in Slot, NEW t, todo' = [todo EXCEPT ![p] = t],
             \/ t.op = "none"
             \/ ~NoMoves /\ t.op = "burst" /\ t.slot \in Slot /\ t.args \in Bursts \X Confidences
             \/ ~NoMoves /\ t.op = "queue" /\ t.slot \in Slot /\ t.args \in {<<q>> : q \in Levels}
      PROVE  TodoInv'
  BY ONLY TodoInv, <1>0, <1>1 DEF TodoInv
<1>2. ASSUME NEW c \in CPU, NEW p \in Slot, sys_set_initial_burst_confidence(c, p)
      PROVE  TodoInv'
  <2>1. PICK b \in Bursts, k \in Confidences, t \in Slot :
          todo' = [todo EXCEPT ![p] = [op |-> "burst", slot |-> t, args |-> <<b, k>>]]
    BY ONLY Zenon, <1>2 DEF sys_set_initial_burst_confidence, Find
  <2>2. ~NoMoves
    BY ONLY <1>2 DEF sys_set_initial_burst_confidence, NoMoves
  <2> DEFINE r == [op |-> "burst", slot |-> t, args |-> <<b, k>>]
  <2>3. r.op = "burst" /\ r.slot \in Slot /\ r.args \in Bursts \X Confidences
    OBVIOUS
  <2> HIDE DEF r
  <2> QED
    BY ONLY Zenon, <1>1, <2>1, <2>2, <2>3, p \in Slot DEF r
<1>3. ASSUME NEW c \in CPU, NEW p \in Slot, sys_change_queue(c, p)
      PROVE  TodoInv'
  <2>1. PICK q \in Levels, t \in Slot :
          todo' = [todo EXCEPT ![p] = [op |-> "queue", slot |-> t, args |-> <<q>>]]
    BY ONLY Zenon, <1>3 DEF sys_change_queue, Find
  <2>2. ~NoMoves
    BY ONLY <1>3 DEF sys_change_queue, NoMoves
  <2> DEFINE r == [op |-> "queue", slot |-> t, args |-> <<q>>]
  <2>3. r.op = "queue" /\ r.slot \in Slot /\ r.args \in {<<l>> : l \in Levels}
    OBVIOUS
  <2> HIDE DEF r
  <2> QED
    BY ONLY Zenon, <1>1, <2>1, <2>2, <2>3, p \in Slot DEF r
<1>4. ASSUME NEW c \in CPU, NEW p \in Slot,
             set_initial_burst_confidence(c, p) \/ sys_change_queue_end(c, p)
      PROVE  TodoInv'
  <2>1. todo' = [todo EXCEPT ![p] = NoTodo] /\ NoTodo.op = "none"
    BY ONLY <1>4 DEF set_initial_burst_confidence, sys_change_queue_end, NoTodo
  <2> QED
    BY ONLY Zenon, <1>1, <2>1, p \in Slot
<1>5. CASE UNCHANGED todo
  BY ONLY TodoInv, <1>5 DEF TodoInv
<1>6. ASSUME NEW c \in CPU, Scheduling(c) \/ Interrupt(c) PROVE UNCHANGED todo
  BY ONLY Zenon, <1>6 DEF Scheduling, scheduler_refill, scheduler_run, Interrupt, timer, trap_tail,
     Aging, aging_scan, aging_read, aging_find, aging_change
<1>7. ASSUME NEW p \in Slot, wakeup(p) PROVE UNCHANGED todo
  BY ONLY <1>7 DEF wakeup
<1>8. ASSUME NEW c \in CPU, NEW p \in Slot, System(c, p) PROVE TodoInv'
  <2>1. ASSUME \/ sys_print_process_information(c, p) \/ sys_reentrantlock_test(c, p)
               \/ sleep(c, p) \/ exit(c, p) \/ \E q \in Slot : reap(c, p, q) \/ fork(c, p, q)
        PROVE  UNCHANGED todo
    BY ONLY Zenon, <2>1 DEF sys_print_process_information, sys_reentrantlock_test, sleep, exit,
       Leave, reap, fork
  <2> QED
    BY ONLY Zenon, <1>2, <1>3, <1>4, <1>5, <1>8, <2>1 DEF System
<1> QED
  BY ONLY Zenon, [Next]_vars, <1>5, <1>6, <1>7, <1>8 DEF Next, vars

\* On one CPU nothing runs beside the timer interrupt.
LEMMA Alone ==
  ASSUME NCPU = 1, intr[0] # "none", [Next]_vars
  PROVE  Aging \/ trap_tail(0) \/ UNCHANGED vars
<1>1. CPU = {0}
  BY DEF CPU
<1>2. \A c \in CPU : intr[c] # "none"
  BY <1>1
<1>3. ASSUME NEW c \in CPU PROVE ~Scheduling(c) /\ ~timer(c) /\ c = 0
  BY ONLY Zenon, <1>1, <1>2 DEF Scheduling, scheduler_refill, scheduler_run, Idle, timer
<1>4. ASSUME NEW c \in CPU, NEW p \in Slot PROVE ~System(c, p)
  BY ONLY Zenon, <1>2 DEF System, sys_set_initial_burst_confidence,
     set_initial_burst_confidence, sys_change_queue, sys_change_queue_end,
     sys_print_process_information, sys_reentrantlock_test, sleep, exit, reap, fork, User, Found
<1>5. ASSUME NEW p \in Slot PROVE ~wakeup(p)
  BY ONLY Zenon, <1>2 DEF wakeup
<1> QED
  BY ONLY Zenon, [Next]_vars, <1>3, <1>4, <1>5 DEF Next, Interrupt

\* The interrupt of CPU 0 and the locals of aging() belong to CPU 0.
LEMMA OnlyCpu0 ==
  ASSUME TypeOK, [Next]_vars
  PROVE  \/ Aging \/ timer(0)
         \/ age' = age /\ (intr'[0] = intr[0] \/ intr'[0] = "none")
<1>0. intr \in [CPU -> Interrupts]
  BY DEF TypeOK
<1>1. ASSUME NEW c \in CPU, timer(c), c # 0 PROVE age' = age /\ intr'[0] = intr[0]
  BY ONLY <1>0, <1>1 DEF timer, SetIntr
<1>2. ASSUME NEW c \in CPU, trap_tail(c) PROVE age' = age /\ (intr'[0] = intr[0] \/ intr'[0] = "none")
  BY ONLY <1>0, <1>2 DEF trap_tail, SetIntr
<1>3. ASSUME NEW c \in CPU, Scheduling(c) PROVE UNCHANGED <<age, intr>>
  BY ONLY Zenon, <1>3 DEF Scheduling, scheduler_refill, scheduler_run
<1>4. ASSUME NEW c \in CPU, NEW p \in Slot, System(c, p) PROVE UNCHANGED <<age, intr>>
  BY ONLY Zenon, <1>4 DEF System, sys_set_initial_burst_confidence,
     set_initial_burst_confidence, sys_change_queue, sys_change_queue_end,
     sys_print_process_information, sys_reentrantlock_test, sleep, exit, Leave, reap, fork
<1>5. ASSUME NEW p \in Slot, wakeup(p) PROVE UNCHANGED <<age, intr>>
  BY ONLY <1>5 DEF wakeup
<1> QED
  BY ONLY Zenon, [Next]_vars, <1>1, <1>2, <1>3, <1>4, <1>5 DEF Next, Interrupt, vars

\* aging() keeps its place, and on one CPU its process: what is found starving
\* under the lock is found again by its pid and is still starving.
LEMMA AgeStep ==
  ASSUME TypeOK, PidInv, AgeInv, [Next]_vars
  PROVE  AgeInv'
<1>0. /\ intr \in [CPU -> Interrupts] /\ 0 \in CPU /\ age \in AgeLocals
      /\ \A n \in Slot : n + 1 \in 1 .. NPROC + 1
  <2>1. intr \in [CPU -> Interrupts] /\ age \in AgeLocals
    BY DEF TypeOK
  <2>2. 0 \in CPU /\ \A n \in Slot : n + 1 \in 1 .. NPROC + 1
    BY ONLY SchedConstants DEF CPU, Slot
  <2> QED
    BY <2>1, <2>2
<1>1. CASE aging_scan
  <2> DEFINE found == {p \in Slot : p >= age.pos /\ Starving(p)}
  <2>1. found \subseteq Slot /\ Slot \subseteq Nat
    BY ONLY SchedConstants DEF Slot
  <2>2. found # {} => Min(found) \in found
    BY Zenon, <2>1, MinIs
  <2>3. \/ intr'[0] = "tail"
        \/ intr'[0] = "aging_read" /\ age'.pos \in found
    BY ONLY <1>0, <1>1, <2>2 DEF aging_scan, SetIntr, AgeLocals
  <2>4. UNCHANGED <<state, queue, last_run_time, enter_queue_time, ticks>>
    BY ONLY Zenon, <1>1 DEF aging_scan, timeInfo
  <2>5. \A p \in Slot : Starving(p) => Starving(p)'
    BY ONLY <2>4 DEF Starving, Since
  <2>6. intr'[0] \in Moving => age'.pos \in Slot /\ Starving(age.pos)'
    BY ONLY <2>3, <2>4 DEF Starving, Since, Moving
  <2> QED
    BY ONLY <2>3, <2>6 DEF AgeInv, Moving
<1>2. CASE aging_read
  <2>1. age.pos \in Slot
    BY ONLY AgeInv, <1>2 DEF AgeInv, aging_read, Moving
  <2>2. \/ intr'[0] = "aging" /\ age'.pos = age.pos + 1
        \/ intr'[0] = "aging_find" /\ age'.pos = age.pos /\ age'.pid = pid[age.pos]
    BY ONLY Zenon, <1>0, <1>2 DEF aging_read, SetIntr, AgeLocals
  <2>3. UNCHANGED <<state, queue, last_run_time, enter_queue_time, ticks, pid>>
    BY ONLY Zenon, <1>2 DEF aging_read, timeInfo
  <2>4. NCPU = 1 => Starving(age.pos)
    BY ONLY AgeInv, <1>2 DEF AgeInv, aging_read, Moving
  <2>5. NCPU = 1 /\ intr'[0] = "aging_find" => Starving(age.pos)'
    BY ONLY <2>2, <2>3, <2>4 DEF Starving, Since
  <2> QED
    BY ONLY <1>0, <2>1, <2>2, <2>3, <2>5 DEF AgeInv, Moving
<1>3. CASE aging_find
  <2>1. age.pos \in Slot /\ intr[0] = "aging_find"
    BY ONLY AgeInv, <1>3 DEF AgeInv, aging_find, Moving
  <2>2. /\ intr'[0] = "aging_change" /\ age'.pos = age.pos /\ age'.pid = age.pid
        /\ age'.found = get_proc_by_pid(age.pid)
    BY ONLY <1>0, <1>3 DEF aging_find, SetIntr, AgeLocals
  <2>3. UNCHANGED <<state, queue, last_run_time, enter_queue_time, ticks, pid>>
    BY ONLY Zenon, <1>3 DEF aging_find, timeInfo
  <2>4. NCPU = 1 => Starving(age.pos) /\ age.pid = pid[age.pos]
    BY ONLY AgeInv, <2>1 DEF AgeInv, Moving
  <2>5. NCPU = 1 => Starving(age.pos)'
    BY ONLY <2>2, <2>3, <2>4 DEF Starving, Since
  <2>6. NCPU = 1 => get_proc_by_pid(age.pid) = age.pos
    <3> SUFFICES ASSUME NCPU = 1 PROVE get_proc_by_pid(age.pid) = age.pos
      OBVIOUS
    <3>1. pid[age.pos] # 0
      BY ONLY <2>1, <2>4, NCPU = 1, PidInv DEF Starving, PidInv
    <3> QED
      BY ONLY <2>1, <2>4, <3>1, NCPU = 1, TypeOK, PidInv, FindsIt
  <2> QED
    BY ONLY <2>1, <2>2, <2>3, <2>4, <2>5, <2>6 DEF AgeInv, Moving
<1>4. CASE aging_change
  <2>1. age.pos \in Slot
    BY ONLY AgeInv, <1>4 DEF AgeInv, aging_change, Moving
  <2>2. intr'[0] = "aging" /\ age'.pos = age.pos + 1
    BY ONLY <1>0, <1>4 DEF aging_change, SetIntr, NoAge
  <2> QED
    BY ONLY <1>0, <2>1, <2>2 DEF AgeInv, Moving
<1>5. CASE timer(0)
  <2>1. intr'[0] = "aging" /\ age'.pos = 1
    BY ONLY <1>0, <1>5 DEF timer, SetIntr, NoAge
  <2>2. 1 \in 1 .. NPROC + 1
    BY SchedConstants
  <2> QED
    BY ONLY <2>1, <2>2 DEF AgeInv, Moving
<1>6. CASE ~Aging /\ ~timer(0)
  <2>1. age' = age /\ (intr'[0] = intr[0] \/ intr'[0] = "none")
    BY ONLY <1>6, OnlyCpu0, TypeOK, [Next]_vars
  <2>2. intr'[0] \in Moving /\ NCPU = 1 => UNCHANGED vars
    <3> SUFFICES ASSUME intr'[0] \in Moving, NCPU = 1 PROVE UNCHANGED vars
      OBVIOUS
    <3>1. intr[0] \in Moving /\ intr'[0] = intr[0]
      BY ONLY <2>1, intr'[0] \in Moving DEF Moving
    <3>2. ~trap_tail(0)
      BY ONLY <3>1 DEF trap_tail, Moving
    <3> QED
      BY ONLY <1>6, <3>1, <3>2, Alone, NCPU = 1, [Next]_vars DEF Moving
  <2>3. CASE UNCHANGED vars
    <3>1. UNCHANGED <<state, queue, last_run_time, enter_queue_time, ticks, pid, age, intr>>
      BY ONLY Zenon, <2>3 DEF vars, timeInfo
    <3> QED
      BY ONLY AgeInv, <3>1 DEF AgeInv, Starving, Since
  <2>4. CASE ~(intr'[0] \in Moving /\ NCPU = 1)
    BY ONLY AgeInv, <2>1, <2>4 DEF AgeInv, Moving
  <2> QED
    BY ONLY <2>2, <2>3, <2>4
<1> QED
  BY ONLY Zenon, <1>1, <1>2, <1>3, <1>4, <1>5, <1>6 DEF Aging

\* On one CPU change_queue() is always given a process.
LEMMA NullStep ==
  ASSUME NCPU = 1, TypeOK, TodoInv, AgeInv, ~nullwrite, [Next]_vars
  PROVE  ~nullwrite'
<1>0. Nobody \notin Slot
  BY DEF Nobody, Slot
<1>1. CASE aging_change
  <2>1. age.found \in Slot
    BY ONLY NCPU = 1, AgeInv, <1>1 DEF AgeInv, aging_change, Moving
  <2> QED
    BY ONLY ~nullwrite, <1>0, <1>1, <2>1 DEF aging_change, change_queue
<1>2. ASSUME NEW c \in CPU, NEW p \in Slot, sys_change_queue_end(c, p) PROVE ~nullwrite'
  <2>1. todo[p].slot \in Slot
    BY ONLY TodoInv, <1>2 DEF TodoInv, sys_change_queue_end, Found
  <2> QED
    BY ONLY ~nullwrite, <1>0, <1>2, <2>1 DEF sys_change_queue_end, change_queue
<1>3. ASSUME NEW c \in CPU, Scheduling(c) \/ timer(c) \/ trap_tail(c) \/ aging_scan \/ aging_read \/ aging_find
      PROVE  UNCHANGED nullwrite
  BY ONLY Zenon, <1>3 DEF Scheduling, scheduler_refill, scheduler_run, timer, trap_tail,
     aging_scan, aging_read, aging_find
<1>4. ASSUME NEW c \in CPU, NEW p \in Slot, System(c, p), ~sys_change_queue_end(c, p)
      PROVE  UNCHANGED nullwrite
  BY ONLY Zenon, <1>4 DEF System, sys_set_initial_burst_confidence,
     set_initial_burst_confidence, sys_change_queue,
     sys_print_process_information, sys_reentrantlock_test, sleep, exit, Leave, reap, fork
<1>5. ASSUME NEW p \in Slot, wakeup(p) PROVE UNCHANGED nullwrite
  BY ONLY <1>5 DEF wakeup
<1> QED
  BY ONLY Zenon, [Next]_vars, ~nullwrite, <1>1, <1>2, <1>3, <1>4, <1>5 DEF Next, Interrupt, Aging, vars
-----------------------------------------------------------------------------
(* Shares of time *)

\* What a step may change of what DebtInv and the queues are about.
debtVars == <<proc, remain, queue, ticks_used>>

\* Unless programs move processes, only fork() and aging() set a queue.
LEMMA QueueSteps ==
  ASSUME TypeOK, RunInv, TodoInv, AgeInv, NCPU = 1, NoMoves, [Next]_vars
  PROVE  \/ \E c \in CPU : scheduler_refill(c) \/ trap_tail(c) \/ \E q \in Levels : scheduler_run(c, q)
         \/ aging_change
         \/ \E c \in CPU, p, q \in Slot : fork(c, p, q)
         \/ \E c \in CPU : proc' = [proc EXCEPT ![c] = Nobody] /\ UNCHANGED <<remain, queue, ticks_used>>
         \/ UNCHANGED debtVars
<1>1. ASSUME NEW c \in CPU, timer(c) PROVE UNCHANGED debtVars
  BY ONLY Zenon, <1>1 DEF timer, timeInfo, cpuVars, debtVars
<1>2. ASSUME aging_scan \/ aging_read \/ aging_find PROVE UNCHANGED debtVars
  BY ONLY Zenon, <1>2 DEF aging_scan, aging_read, aging_find, timeInfo, cpuVars, debtVars
<1>3. ASSUME NEW c \in CPU, NEW p \in Slot, sleep(c, p) \/ exit(c, p)
      PROVE  proc' = [proc EXCEPT ![c] = Nobody] /\ UNCHANGED <<remain, queue, ticks_used>>
  BY ONLY Zenon, <1>3 DEF sleep, exit, Leave, timeInfo
<1>4. ASSUME NEW c \in CPU, NEW p \in Slot
      PROVE  /\ ~sys_set_initial_burst_confidence(c, p) /\ ~sys_change_queue(c, p)
             /\ ~set_initial_burst_confidence(c, p) /\ ~sys_change_queue_end(c, p)
  <2>1. todo[p].op = "none" /\ 27 \notin Calls /\ 28 \notin Calls
    BY ONLY TodoInv, NoMoves, p \in Slot DEF TodoInv, NoMoves
  <2> QED
    BY ONLY Zenon, <2>1 DEF sys_set_initial_burst_confidence, sys_change_queue,
       set_initial_burst_confidence, sys_change_queue_end, Found
<1>5. ASSUME NEW c \in CPU, NEW p \in Slot, NEW q \in Slot,
             sys_print_process_information(c, p) \/ sys_reentrantlock_test(c, p) \/ reap(c, p, q)
      PROVE  UNCHANGED debtVars
  BY ONLY Zenon, <1>5 DEF sys_print_process_information, sys_reentrantlock_test, reap, timeInfo,
     cpuVars, debtVars
<1>6. ASSUME NEW p \in Slot, wakeup(p) PROVE UNCHANGED debtVars
  BY ONLY Zenon, <1>6 DEF wakeup, timeInfo, cpuVars, debtVars
<1>7. CASE UNCHANGED vars
  BY ONLY Zenon, <1>7 DEF vars, timeInfo, cpuVars, debtVars
<1> QED
  BY ONLY Zenon, [Next]_vars, <1>1, <1>2, <1>3, <1>4, <1>5, <1>6, <1>7
     DEF Next, Scheduling, Interrupt, Aging, System

\* A process is charged for a tick no more often than its quantum allows, and
\* starts only when its queue has time left.
LEMMA DebtStep ==
  ASSUME TypeOK, RunInv, TodoInv, AgeInv, NCPU = 1, NoMoves, DebtInv, OvershootBounded, [Next]_vars
  PROVE  DebtInv' /\ OvershootBounded'
<1>0. /\ Nobody \notin Slot /\ proc \in [CPU -> Slot \union {Nobody}]
      /\ queue \in [Slot -> Nat] /\ ticks_used \in [Slot -> Nat]
      /\ remain \in [CPU -> [Levels -> Int]]
  BY DEF TypeOK, Nobody, Slot
<1>a. Quantum \in Nat
  BY SchedConstants
<1>1. ASSUME NEW c \in CPU, scheduler_refill(c) PROVE DebtInv' /\ OvershootBounded'
  <2>1. \A q \in Levels : Shares[q] \in Nat
    BY ONLY SchedConstants DEF Shares, Levels, RR, SJF, FCFS
  <2>2. /\ remain' = [remain EXCEPT ![c] = Shares] /\ proc[c] = Nobody
        /\ UNCHANGED <<proc, queue, ticks_used>>
    BY ONLY Zenon, <1>1 DEF scheduler_refill, Idle, timeInfo
  <2>3. OvershootBounded'
    BY ONLY OvershootBounded, <1>0, <1>a, <2>1, <2>2 DEF OvershootBounded
  <2>4. DebtInv'
    BY ONLY DebtInv, <1>0, <2>2 DEF DebtInv
  <2> QED
    BY <2>3, <2>4
<1>2. ASSUME NEW c \in CPU, NEW q \in Levels, scheduler_run(c, q) PROVE DebtInv' /\ OvershootBounded'
  <2> DEFINE p == Choice(c, q)
  <2>1. p \in Slot /\ queue[p] = q /\ remain[c][q] > 0
    BY Zenon, <1>2, ChoiceIs DEF scheduler_run
  <2>2. proc' = [proc EXCEPT ![c] = p] /\ UNCHANGED <<remain, queue, ticks_used>>
    BY ONLY Zenon, <1>2 DEF scheduler_run, timeInfo
  <2> HIDE DEF p
  <2>3. DebtInv'
    BY ONLY DebtInv, <1>0, <2>1, <2>2 DEF DebtInv
  <2> QED
    BY ONLY OvershootBounded, <2>2, <2>3 DEF OvershootBounded
<1>3. ASSUME NEW c \in CPU, trap_tail(c) PROVE DebtInv' /\ OvershootBounded'
  <2>1. CASE proc[c] = Nobody
    <3>1. UNCHANGED debtVars
      BY ONLY <1>3, <2>1 DEF trap_tail, debtVars
    <3> QED
      BY ONLY DebtInv, OvershootBounded, <3>1 DEF DebtInv, OvershootBounded, debtVars
  <2>2. CASE proc[c] # Nobody
    <3> DEFINE p == proc[c]
    <3>1. /\ p \in Slot /\ queue[p] \in Levels /\ ticks_used[p] <= Quantum
          /\ remain[c][queue[p]] >= 1 - ticks_used[p]
      BY ONLY DebtInv, <1>0, <2>2, c \in CPU DEF DebtInv
    <3>2. remain' = [remain EXCEPT ![c][queue[p]] = @ - 1] /\ UNCHANGED queue
      BY ONLY <1>3, <2>2, <3>1 DEF trap_tail, UpdateRemainTimes
    <3>3. OvershootBounded'
      BY ONLY OvershootBounded, <1>0, <1>a, <3>1, <3>2 DEF OvershootBounded
    <3>4. CASE ticks_used[p] >= Quantum
      <4>1. ticks_used' = [ticks_used EXCEPT ![p] = 0] /\ proc' = [proc EXCEPT ![c] = Nobody]
        BY ONLY <1>3, <2>2, <3>4 DEF trap_tail
      <4> QED
        BY ONLY DebtInv, NCPU = 1, <1>0, <1>a, <3>1, <3>2, <3>3, <4>1, c \in CPU DEF DebtInv, CPU
    <3>5. CASE ~(ticks_used[p] >= Quantum)
      <4>1. ticks_used' = [ticks_used EXCEPT ![p] = @ + 1] /\ proc' = proc
        BY ONLY <1>3, <2>2, <3>5 DEF trap_tail
      <4> QED
        BY ONLY DebtInv, NCPU = 1, <1>0, <1>a, <3>1, <3>2, <3>3, <3>5, <4>1, c \in CPU DEF DebtInv, CPU
    <3> QED
      BY ONLY <3>4, <3>5
  <2> QED
    BY ONLY <2>1, <2>2
<1>4. CASE aging_change
  <2>1. age.found \in Slot /\ state[age.found] = "RUNNABLE" /\ age.to \in Levels
    <3>1. age \in AgeLocals
      BY DEF TypeOK
    <3> QED
      BY ONLY NCPU = 1, AgeInv, <1>4, <3>1 DEF AgeInv, aging_change, Moving, Starving, AgeLocals
  <2>2. queue' = [queue EXCEPT ![age.found] = age.to] /\ UNCHANGED <<proc, remain, ticks_used>>
    BY ONLY <1>0, <1>4, <2>1 DEF aging_change, change_queue, cpuVars
  <2>3. \A c \in CPU : proc[c] # age.found
    BY ONLY RunInv, <1>0, <2>1 DEF RunInv
  <2>4. DebtInv'
    BY ONLY DebtInv, <1>0, <2>1, <2>2, <2>3 DEF DebtInv
  <2> QED
    BY ONLY OvershootBounded, <2>2, <2>4 DEF OvershootBounded
<1>5. ASSUME NEW c \in CPU, NEW p \in Slot, NEW q \in Slot, fork(c, p, q) PROVE DebtInv' /\ OvershootBounded'
  <2>1. /\ queue' = [queue EXCEPT ![q] = FCFS] /\ ticks_used' = [ticks_used EXCEPT ![q] = 0]
        /\ UNCHANGED <<proc, remain>> /\ FCFS \in Levels /\ state[q] = "UNUSED"
    BY ONLY <1>5 DEF fork, cpuVars, Levels
  <2>2. \A d \in CPU : proc[d] # q
    BY ONLY RunInv, <1>0, <2>1, q \in Slot DEF RunInv
  <2>3. DebtInv'
    BY ONLY DebtInv, <1>0, <1>a, <2>1, <2>2 DEF DebtInv
  <2> QED
    BY ONLY OvershootBounded, <2>1, <2>3 DEF OvershootBounded
<1>6. ASSUME NEW c \in CPU, proc' = [proc EXCEPT ![c] = Nobody], UNCHANGED <<remain, queue, ticks_used>>
      PROVE  DebtInv' /\ OvershootBounded'
  BY ONLY DebtInv, OvershootBounded, <1>0, <1>6 DEF DebtInv, OvershootBounded
<1>7. CASE UNCHANGED debtVars
  BY ONLY DebtInv, OvershootBounded, <1>7 DEF DebtInv, OvershootBounded, debtVars
<1> QED
  BY ONLY Zenon, TypeOK, RunInv, TodoInv, AgeInv, NCPU = 1, NoMoves, [Next]_vars, QueueSteps,
     <1>1, <1>2, <1>3, <1>4, <1>5, <1>6, <1>7
-----------------------------------------------------------------------------
(* What is proved of the scheduler *)

\* IInv holds after userinit(), when init sleeps and sh is RUNNABLE.
LEMMA InitIInv == Init => IInv
<1> SUFFICES ASSUME Init PROVE IInv
  OBVIOUS
<1>0. /\ Nobody \notin Slot /\ RR \in Levels /\ 0 \in 0 .. TickMod - 1 /\ NPROC \in Slot /\ 0 \in CPU
      /\ Nobody = 0
  BY SchedConstants DEF Nobody, Slot, Levels, CPU
<1>1. TypeOK
  <2>1. age \in AgeLocals /\ todo \in [Slot -> Pending]
    <3>1. 0 \in 0 .. NPROC + 1
      BY SchedConstants
    <3>2. age \in AgeLocals
      BY ONLY Init, <1>0, <3>1 DEF Init, NoAge, AgeLocals
    <3>3. todo \in [Slot -> Pending]
      BY ONLY Init, <1>0 DEF Init, NoTodo, Pending
    <3> QED
      BY <3>2, <3>3
  <2>2. /\ state \in [Slot -> States]
        /\ pid \in [Slot -> Nat] /\ nextpid \in Nat /\ nullwrite \in BOOLEAN
    <3>1. state \in [Slot -> States]
      BY ONLY Init DEF Init, States
    <3>2. Slot \subseteq Nat
      BY ONLY SchedConstants DEF Slot
    <3>3. pid \in [Slot -> Nat] /\ nextpid \in Nat /\ nullwrite \in BOOLEAN
      BY ONLY Zenon, Init, <3>2 DEF Init
    <3> QED
      BY <3>1, <3>3
  <2>3. /\ queue \in [Slot -> Nat] /\ ticks_used \in [Slot -> Nat] /\ burst_time \in [Slot -> Nat]
        /\ enter_queue_time \in [Slot -> Nat] /\ last_run_time \in [Slot -> Nat]
        /\ confidence \in [Slot -> Nat]
    BY SchedConstants DEF Init, RR
  <2>4. /\ proc \in [CPU -> Slot \union {Nobody}] /\ last \in [CPU -> Slot]
        /\ remain \in [CPU -> [Levels -> Int]] /\ ticks \in 0 .. TickMod - 1
        /\ intr \in [CPU -> Interrupts]
    BY <1>0 DEF Init, Interrupts
  <2> QED
    BY ONLY <2>1, <2>2, <2>3, <2>4 DEF TypeOK
<1>2. RunInv /\ TodoInv /\ ~nullwrite
  BY DEF Init, RunInv, TodoInv, NoTodo
<1>3. PidInv
  BY DEF Init, PidInv, Slot
<1>4. AgeInv
  BY <1>0 DEF Init, AgeInv, Moving
<1>5. DebtInv /\ OvershootBounded
  <2>1. Quantum \in Nat
    BY SchedConstants
  <2> QED
    BY ONLY Init, <1>0, <2>1 DEF Init, DebtInv, OvershootBounded
<1> QED
  BY <1>1, <1>2, <1>3, <1>4, <1>5 DEF IInv

\* The fields of a process, of a CPU and of aging() keep their types, and the
\* invariants above hold, on any number of CPUs and with any of the calls.
THEOREM Invariant == Spec => []IInv
<1>1. IInv /\ [Next]_vars => IInv'
  <2> SUFFICES ASSUME IInv, [Next]_vars PROVE IInv'
    OBVIOUS
  <2>1. TypeOK' /\ RunInv' /\ PidInv' /\ TodoInv' /\ AgeInv'
    BY TypeStep, TableStep, TodoStep, AgeStep DEF IInv
  <2>2. NCPU = 1 => ~nullwrite'
    BY NullStep DEF IInv
  <2>3. NCPU = 1 /\ NoMoves => DebtInv' /\ OvershootBounded'
    BY DebtStep DEF IInv
  <2>4. NoMoves' = NoMoves
    BY DEF NoMoves
  <2> QED
    BY <2>1, <2>2, <2>3, <2>4 DEF IInv
<1> QED
  BY InitIInv, <1>1, PTL DEF Spec

\* On one CPU change_queue() never writes through the null pointer that
\* get_proc_by_pid() can return, as long as programs pass it the pids of
\* processes that exist (nothing in the code checks it): the pid that aging()
\* looks up after it has released ptable.lock is still there.
THEOREM NeverNull == NCPU = 1 => (Spec => []NoNullWrite)
<1> SUFFICES ASSUME NCPU = 1 PROVE Spec => []NoNullWrite
  OBVIOUS
<1>1. IInv => NoNullWrite
  BY DEF IInv, NoNullWrite
<1> QED
  BY Invariant, <1>1, PTL

\* On one CPU, and unless programs move processes, no queue overdraws its share
\* by more than the quantum of a process.
THEOREM Overshoot == NCPU = 1 /\ NoMoves => (Spec => []OvershootBounded)
<1> SUFFICES ASSUME NCPU = 1, NoMoves PROVE Spec => []OvershootBounded
  OBVIOUS
<1>1. IInv => OvershootBounded
  BY DEF IInv
<1> QED
  BY Invariant, <1>1, PTL

\* On one CPU, and unless programs move processes, a process that is not new
\* changes its queue only after it has waited there for more than
\* STARVATION_BOUNDRY ticks, although aging() decides before it releases
\* ptable.lock and change_queue() acts after it has acquired it again.
THEOREM Promotion == NCPU = 1 /\ NoMoves => (Spec => PromotedOnlyAfterWaiting)
<1> SUFFICES ASSUME NCPU = 1, NoMoves PROVE Spec => PromotedOnlyAfterWaiting
  OBVIOUS
<1> DEFINE Waited == \A p \in Slot : queue'[p] # queue[p] /\ pid'[p] = pid[p] =>
                       Since(enter_queue_time[p]) > Boundary
<1>1. IInv /\ [Next]_vars => [Waited]_vars
  <2> SUFFICES ASSUME IInv, [Next]_vars PROVE Waited
    OBVIOUS
  <2>0. /\ TypeOK /\ RunInv /\ PidInv /\ TodoInv /\ AgeInv
    BY DEF IInv
  <2>1. queue \in [Slot -> Nat] /\ pid \in [Slot -> Nat]
    BY <2>0 DEF TypeOK
  <2>2. CASE aging_change
    <3>1. age.found \in Slot /\ Starving(age.found)
      BY <2>0, <2>2 DEF AgeInv, aging_change, Moving
    <3>2. queue' = queue \/ \E q : queue' = [queue EXCEPT ![age.found] = q]
      BY ONLY <2>2 DEF aging_change, change_queue
    <3> QED
      BY ONLY <2>1, <3>1, <3>2 DEF Starving
  <2>3. ASSUME NEW c \in CPU, NEW p \in Slot, NEW r \in Slot, fork(c, p, r) PROVE Waited
    BY ONLY <2>0, <2>1, <2>3 DEF fork, PidInv
  <2>4. ASSUME UNCHANGED queue PROVE Waited
    BY ONLY <2>4
  <2>5. ASSUME NEW c \in CPU, \/ scheduler_refill(c) \/ trap_tail(c)
                              \/ \E q \in Levels : scheduler_run(c, q)
        PROVE  UNCHANGED queue
    BY ONLY Zenon, <2>5 DEF scheduler_refill, trap_tail, scheduler_run, timeInfo
  <2>6. UNCHANGED debtVars => UNCHANGED queue
    BY ONLY Zenon DEF debtVars
  <2> HIDE DEF Waited
  <2> QED
    BY ONLY Zenon, NCPU = 1, NoMoves, [Next]_vars, QueueSteps, <2>0, <2>2, <2>3, <2>4, <2>5, <2>6
<1> QED
  BY Invariant, <1>1, PTL DEF Spec, PromotedOnlyAfterWaiting
=============================================================================
