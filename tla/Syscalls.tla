------------------------------ MODULE Syscalls ------------------------------
(***************************************************************************)
(* System calls as trap() and syscall() count them, and the calls of       *)
(* proc.c that report the counts, beside the calls of the reentrant lock.  *)
(* trap() counts with syscallslock held, in one step; the reports read the *)
(* counters one by one without any lock, while other processors count.     *)
(***************************************************************************)
EXTENDS ReentrantLock, Sequences, SequencesExt

CONSTANTS MaxCalls,    \* bound: system calls made
          MaxNumber    \* bound: arguments of create_palindrome()

VARIABLES total,    \* total_number_of_syscalls
          number,   \* number_of_syscalls of each CPU
          used,     \* used_syscalls of each process
          call,     \* the call a process is in, and its local variables
          said,     \* what the last report of a process printed
          ncalls

callVars == <<total, number, used, call, said, ncalls>>
allVars == <<vars, callVars>>

CPU == 1 .. NCPU

\* Calls in the order of their numbers.  Those beyond MAX_SYSCALLS (26), which
\* are not counted in the array, come last.
Tracked == <<"open", "write", "get_most_invoked_syscall">>
Untracked == {"get_number_of_total_syscalls", "reentrantlock_test"}
Call == Range(Tracked) \union Untracked

Sum(f) == FoldLeft(LAMBDA a, c : a + f[c], 0, [c \in CPU |-> c])
Most(f) == CHOOSE n \in Range(f) : \A m \in Range(f) : m <= n

NoCall == [op |-> "none", target |-> None, i |-> 0, max |-> 0, low |-> 0]
Nothing == [what |-> "none", low |-> 0, value |-> 0, high |-> 0]

Weight(op) == CASE op = "open" -> 3 [] op = "write" -> 2 [] OTHER -> 1

\* The critical section of syscallslock in trap(), on CPU c.
Counted(c, op) ==
  total' = total + Weight(op) /\ number' = [number EXCEPT ![c] = @ + Weight(op)]

\* trap() and syscall() up to the handler.
trap(p, op, t) ==
  /\ At(p, "out") /\ call[p] = NoCall
  /\ op # "get_most_invoked_syscall" => t = p
  /\ ncalls < MaxCalls /\ ncalls' = ncalls + 1
  /\ \E c \in CPU : Counted(c, op)
  /\ used' = [used EXCEPT ![p] = [i \in DOMAIN @ |-> @[i] + IF Tracked[i] = op THEN 1 ELSE 0]]
  /\ call' = [call EXCEPT ![p] =
       IF op \in {"open", "write"} THEN NoCall
       ELSE [NoCall EXCEPT !.op = op, !.target = t,
                           !.low = IF op = "get_most_invoked_syscall" THEN Most(used'[t]) ELSE total']]
  /\ UNCHANGED <<vars, said>>

In(p, op) == p \in running /\ call[p].op = op

\* A turn of the loop of get_most_invoked_syscall().
scan(p) ==
  LET i == call[p].i + 1
      n == used[call[p].target][i] IN
  /\ In(p, "get_most_invoked_syscall") /\ i <= Len(Tracked)
  /\ call' = [call EXCEPT ![p] = [@ EXCEPT !.i = i,
                !.max = IF n > @ THEN n ELSE @]]
  /\ UNCHANGED <<vars, total, number, used, said, ncalls>>

Report(p, what, value, high) ==
  /\ said' = [said EXCEPT ![p] = [what |-> what, low |-> call[p].low, value |-> value, high |-> high]]
  /\ call' = [call EXCEPT ![p] = NoCall]
  /\ UNCHANGED <<vars, total, number, used, ncalls>>

get_most_invoked_syscall(p) ==
  /\ In(p, "get_most_invoked_syscall") /\ call[p].i = Len(Tracked)
  /\ Report(p, "most", call[p].max, Most(used[call[p].target]))

\* Mutant of add: the last CPU is left out.
add_short(p) ==
  /\ In(p, "get_number_of_total_syscalls") /\ call[p].i < NCPU
  /\ call' = [call EXCEPT ![p] = [@ EXCEPT !.i = @ + 1,
                !.max = @ + IF call[p].i + 1 < NCPU THEN number[call[p].i + 1] ELSE 0]]
  /\ UNCHANGED <<vars, total, number, used, said, ncalls>>

\* A turn of the loop of get_number_of_total_syscalls().
add(p) ==
  /\ In(p, "get_number_of_total_syscalls") /\ call[p].i < NCPU
  /\ call' = [call EXCEPT ![p] = [@ EXCEPT !.i = @ + 1, !.max = @ + number[call[p].i + 1]]]
  /\ UNCHANGED <<vars, total, number, used, said, ncalls>>

get_number_of_total_syscalls(p) ==
  /\ In(p, "get_number_of_total_syscalls") /\ call[p].i = NCPU
  /\ Report(p, "total", call[p].max, total)

\* The steps of reentrantlock_test(), and the return from it.
locking(p) ==
  /\ call[p].op = "reentrantlock_test" /\ Step(p)
  /\ call' = IF pc'[p] = "out" THEN [call EXCEPT ![p] = NoCall] ELSE call
  /\ UNCHANGED <<total, number, used, said, ncalls>>

CallInit ==
  /\ Init
  /\ total = 0 /\ number = [c \in CPU |-> 0]
  /\ used = [p \in Proc |-> [i \in DOMAIN Tracked |-> 0]]
  /\ call = [p \in Proc |-> NoCall] /\ said = [p \in Proc |-> Nothing] /\ ncalls = 0

CallNext == \E p \in Proc :
  \/ \E op \in Call, t \in Proc : trap(p, op, t)
  \/ scan(p) \/ get_most_invoked_syscall(p) \/ add(p) \/ get_number_of_total_syscalls(p)
  \/ locking(p)
  \/ (Dispatch(p) \/ Preempt(p)) /\ UNCHANGED callVars

CallSpec == CallInit /\ [][CallNext]_allVars
-----------------------------------------------------------------------------
(* create_palindrome(): the digits of the number, last first, in num_str.    *)

num_str[n \in 0 .. MaxNumber] == IF n < 10 THEN <<n>> ELSE <<n % 10>> \o num_str[n \div 10]

\* Mutant of create_palindrome: the digits are not turned round.
create_palindrome_same(n) == num_str[n] \o num_str[n]

create_palindrome(n) ==
  LET k == Len(num_str[n]) IN
  [i \in 1 .. 2 * k |-> IF i <= k THEN num_str[n][k - i + 1] ELSE num_str[n][i - k]]

Value(s) == FoldLeft(LAMBDA a, d : 10 * a + d, 0, s)
-----------------------------------------------------------------------------
\* What is printed for a number is the number itself followed by its mirror
\* image: it reads the same from both ends.  A fact about a function, it is
\* evaluated before the first call only.
PalindromeIsRight ==
  ncalls = 0 => \A n \in 0 .. MaxNumber :
    LET s == create_palindrome(n) IN
    Value(SubSeq(s, 1, Len(s) \div 2)) = n /\ s = Reverse(s)

\* A report that reads counters without a lock prints a value the counters had
\* between the call and the printing: not less than when the call began, and
\* not more than at the end.  So the sum over the CPUs is never above the
\* global number printed after it, and no call counted before is missed.  Both
\* count the same calls, whichever CPU a call is counted on.
ReportsAreBetween ==
  /\ \A p \in Proc : said[p].low <= said[p].value /\ said[p].value <= said[p].high
  /\ total = Sum(number)
=============================================================================
