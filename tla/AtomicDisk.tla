----------------------------- MODULE AtomicDisk -----------------------------
(***************************************************************************)
(* What log.c promises the rest of the file system.  File system calls     *)
(* read and write `mem', the current contents of the blocks.  From time to *)
(* time, when no call is in progress, all of `mem' becomes durable in one  *)
(* step.  A crash throws away whatever was not durable and every call in   *)
(* progress.  There is no log, no header and no recovery at this level.    *)
(***************************************************************************)
CONSTANTS Proc,   \* processes that make file system calls
          Block,  \* home blocks of the file system
          Value   \* contents of a block

VARIABLES mem,      \* contents of the blocks as the running system sees them
          durable,  \* contents a crash leaves behind
          active    \* processes between begin_op() and end_op()

vars == <<mem, durable, active>>

Init ==
  /\ mem \in [Block -> Value]
  /\ durable = mem
  /\ active = {}

Begin(p) ==
  /\ p \notin active
  /\ active' = active \union {p}
  /\ UNCHANGED <<mem, durable>>

Write(p) ==
  /\ p \in active
  /\ \E b \in Block, v \in Value : mem' = [mem EXCEPT ![b] = v]
  /\ UNCHANGED <<durable, active>>

End(p) ==
  /\ p \in active
  /\ active' = active \ {p}
  /\ UNCHANGED <<mem, durable>>

\* The updates of the finished calls become durable together, and never
\* while a call is half done.
Commit ==
  /\ active = {}
  /\ durable' = mem
  /\ UNCHANGED <<mem, active>>

Crash ==
  /\ mem' = durable
  /\ active' = {}
  /\ UNCHANGED durable

Next ==
  \/ \E p \in Proc : Begin(p) \/ Write(p) \/ End(p)
  \/ Commit
  \/ Crash

Spec == Init /\ [][Next]_vars
=============================================================================
