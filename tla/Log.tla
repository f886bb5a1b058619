-------------------------------- MODULE Log --------------------------------
(***************************************************************************)
(* The redo log of log.c: begin_op(), log_write(), end_op(), commit() and  *)
(* recover_from_log(), run by several processes, with a crash possible     *)
(* between any two disk writes, recovery included.                         *)
(*                                                                         *)
(* A critical section of log.lock is one step.  A bwrite() is one step: a  *)
(* block is one disk sector (BSIZE = 512) and iderw() returns only when    *)
(* the sector is on the disk.  The contents of a block are the number of   *)
(* the call that wrote it last.                                            *)
(***************************************************************************)
EXTENDS Integers, Sequences, FiniteSets

CONSTANTS Proc,         \* processes that make file system calls
          Block,        \* home blocks
          None,         \* no block
          MAXOPBLOCKS,  \* blocks begin_op() reserves for a call
          LOGSIZE,      \* blocks begin_op() shares out
          NLog,         \* sb.nlog: blocks of the log on disk, header included
          OpBlocks,     \* distinct blocks a call really writes, at most
          MaxOps,       \* bound: calls made in a behaviour
          MaxCrashes    \* bound: crashes in a behaviour

ASSUME LogConstants ==
  /\ None \notin Block
  /\ IsFiniteSet(Proc)
  /\ MAXOPBLOCKS \in Nat /\ LOGSIZE \in Nat /\ NLog \in Nat /\ OpBlocks \in Nat
  /\ MaxOps \in Nat /\ MaxCrashes \in Nat
  /\ MAXOPBLOCKS <= LOGSIZE

VARIABLES
  disk,         \* home blocks on the disk
  dlog,         \* data blocks of the log on the disk, log.start+1 onwards
  dhead,        \* header block of the log on the disk: its block numbers
  cache,        \* home blocks as the buffer cache gives them to bread()
  dirty,        \* blocks pinned in the cache with B_DIRTY
  lh,           \* log.lh: the header in memory
  outstanding,  \* log.outstanding
  committing,   \* log.committing
  pc,           \* where each process is
  held,         \* the buffer a process has between bread() and brelse()
  opid,         \* number of the call a process is in
  written,      \* blocks the call of a process has written
  tail,         \* loop counter of write_log() and install_trans()
  boot,         \* progress of initlog() after a (re)start
  panicked,     \* a panic() froze the machine
  nops,         \* calls made so far
  crashes       \* crashes so far

diskVars == <<disk, dlog, dhead>>
cacheVars == <<cache, dirty>>
logVars == <<lh, outstanding, committing>>
procVars == <<held, opid, written>>
countVars == <<nops, crashes>>
vars == <<diskVars, cacheVars, logVars, pc, procVars, tail, boot, panicked,
          countVars>>

Value == 0 .. MaxOps
InOp == {"op", "log_write", "append"}
Committer == {"commit", "write_log", "write_head", "install_trans", "erase",
              "done"}
Label == {"idle", "begin", "asleep"} \union InOp \union Committer

\* The calls between begin_op() and end_op().
Ops == {p \in Proc : pc[p] \in InOp}

BlocksOf(h) == {h[i] : i \in DOMAIN h}
Up == boot = "up" /\ ~panicked
Goto(p, l) == pc' = [pc EXCEPT ![p] = l]

\* wakeup(&log): everyone asleep in begin_op() goes round its loop again.
WakeAll(p, l) ==
  pc' = [q \in Proc |-> IF q = p THEN l
                        ELSE IF pc[q] = "asleep" THEN "begin" ELSE pc[q]]

Init ==
  /\ disk = [b \in Block |-> 0]
  /\ dlog = [i \in 1 .. NLog - 1 |-> 0]
  /\ dhead = << >>
  /\ cache = disk
  /\ dirty = {}
  /\ lh = << >>
  /\ outstanding = 0
  /\ committing = FALSE
  /\ pc = [p \in Proc |-> "idle"]
  /\ held = [p \in Proc |-> None]
  /\ opid = [p \in Proc |-> 0]
  /\ written = [p \in Proc |-> {}]
  /\ tail = 0
  /\ boot = "read_head"
  /\ panicked = FALSE
  /\ nops = 0
  /\ crashes = 0
-----------------------------------------------------------------------------
(* begin_op() *)

Call(p) ==
  /\ Up
  /\ pc[p] = "idle"
  /\ nops < MaxOps
  /\ nops' = nops + 1
  /\ opid' = [opid EXCEPT ![p] = nops + 1]
  /\ written' = [written EXCEPT ![p] = {}]
  /\ Goto(p, "begin")
  /\ UNCHANGED <<diskVars, cacheVars, logVars, held, tail, boot, panicked, crashes>>

\* Mutant of MustWait: a commit in progress is not waited for.
MustWait_in_commit == Len(lh) + (outstanding + 1) * MAXOPBLOCKS > LOGSIZE

MustWait ==
  committing \/ Len(lh) + (outstanding + 1) * MAXOPBLOCKS > LOGSIZE

begin_op_sleep(p) ==
  /\ Up
  /\ pc[p] = "begin"
  /\ MustWait
  /\ Goto(p, "asleep")
  /\ UNCHANGED <<diskVars, cacheVars, logVars, procVars, tail, boot, panicked, countVars>>

begin_op(p) ==
  /\ Up
  /\ pc[p] = "begin"
  /\ ~MustWait
  /\ outstanding' = outstanding + 1
  /\ Goto(p, "op")
  /\ UNCHANGED <<diskVars, cacheVars, lh, committing, procVars, tail, boot, panicked, countVars>>
-----------------------------------------------------------------------------
(* log_write(), and the bread() and brelse() around it *)

\* bp = bread(...); modify bp->data: the buffer stays locked until brelse().
Modify(p, b) ==
  /\ Up
  /\ pc[p] = "op"
  /\ \A q \in Proc : held[q] # b
  /\ b \in written[p] \/ Cardinality(written[p]) < OpBlocks
  /\ written' = [written EXCEPT ![p] = @ \union {b}]
  /\ held' = [held EXCEPT ![p] = b]
  /\ cache' = [cache EXCEPT ![b] = opid[p]]
  /\ Goto(p, "log_write")
  /\ UNCHANGED <<diskVars, dirty, logVars, opid, tail, boot, panicked, countVars>>

TooBig == Len(lh) >= LOGSIZE \/ Len(lh) >= NLog - 1

\* The two checks of log_write(), made without log.lock.
log_write_check(p) ==
  /\ Up
  /\ pc[p] = "log_write"
  /\ panicked' = (TooBig \/ outstanding < 1)
  /\ Goto(p, "append")
  /\ UNCHANGED <<diskVars, cacheVars, logVars, procVars, tail, boot, countVars>>

\* Mutant of log_write: B_DIRTY is not set.
log_write_unpinned(p) ==
  /\ Up
  /\ pc[p] = "append"
  /\ lh' = IF held[p] \in BlocksOf(lh) THEN lh ELSE Append(lh, held[p])
  /\ held' = [held EXCEPT ![p] = None]
  /\ Goto(p, "op")
  /\ UNCHANGED <<diskVars, cacheVars, outstanding, committing, opid, written, tail,
                 boot, panicked, countVars>>

\* The part of log_write() under log.lock, with log absorption, then brelse().
log_write(p) ==
  /\ Up
  /\ pc[p] = "append"
  /\ lh' = IF held[p] \in BlocksOf(lh) THEN lh ELSE Append(lh, held[p])
  /\ dirty' = dirty \union {held[p]}
  /\ held' = [held EXCEPT ![p] = None]
  /\ Goto(p, "op")
  /\ UNCHANGED <<diskVars, cache, outstanding, committing, opid, written, tail,
                 boot, panicked, countVars>>
-----------------------------------------------------------------------------
(* end_op() and commit() *)

end_op(p) ==
  /\ Up
  /\ pc[p] = "op"
  /\ outstanding' = outstanding - 1
  /\ panicked' = committing
  /\ IF outstanding' = 0
       THEN committing' = TRUE /\ Goto(p, "commit")
       ELSE UNCHANGED committing /\ WakeAll(p, "idle")
  /\ UNCHANGED <<diskVars, cacheVars, lh, procVars, tail, boot, countVars>>

\* Mutants of commit: a log of one block is not committed; the header is
\* written without the blocks.
commit_off_by_one(p) ==
  /\ Up
  /\ pc[p] = "commit"
  /\ Goto(p, IF Len(lh) > 1 THEN "write_log" ELSE "done")
  /\ tail' = 0
  /\ UNCHANGED <<diskVars, cacheVars, logVars, procVars, boot, panicked, countVars>>

commit_head_only(p) ==
  /\ Up
  /\ pc[p] = "commit"
  /\ Goto(p, IF Len(lh) > 0 THEN "write_head" ELSE "done")
  /\ tail' = 0
  /\ UNCHANGED <<diskVars, cacheVars, logVars, procVars, boot, panicked, countVars>>

commit(p) ==
  /\ Up
  /\ pc[p] = "commit"
  /\ Goto(p, IF Len(lh) > 0 THEN "write_log" ELSE "done")
  /\ tail' = 0
  /\ UNCHANGED <<diskVars, cacheVars, logVars, procVars, boot, panicked, countVars>>

write_log(p) ==
  /\ Up
  /\ pc[p] = "write_log"
  /\ tail < Len(lh)
  /\ dlog' = [dlog EXCEPT ![tail + 1] = cache[lh[tail + 1]]]
  /\ tail' = tail + 1
  /\ IF tail' = Len(lh) THEN Goto(p, "write_head") ELSE UNCHANGED pc
  /\ UNCHANGED <<disk, dhead, cacheVars, logVars, procVars, boot, panicked, countVars>>

\* The commit point.
write_head(p) ==
  /\ Up
  /\ pc[p] = "write_head"
  /\ dhead' = lh
  /\ tail' = 0
  /\ Goto(p, "install_trans")
  /\ UNCHANGED <<disk, dlog, cacheVars, logVars, procVars, boot, panicked, countVars>>

\* One round of install_trans(): copy a log block to its home, through the
\* cache; the bwrite() clears B_DIRTY.
InstallBlock ==
  /\ tail < Len(lh)
  /\ disk' = [disk EXCEPT ![lh[tail + 1]] = dlog[tail + 1]]
  /\ cache' = [cache EXCEPT ![lh[tail + 1]] = dlog[tail + 1]]
  /\ dirty' = dirty \ {lh[tail + 1]}
  /\ tail' = tail + 1

install_trans(p) ==
  /\ Up
  /\ pc[p] = "install_trans"
  /\ InstallBlock
  /\ IF tail' = Len(lh) THEN Goto(p, "erase") ELSE UNCHANGED pc
  /\ UNCHANGED <<dlog, dhead, logVars, procVars, boot, panicked, countVars>>

\* log.lh.n = 0; write_head().
erase(p) ==
  /\ Up
  /\ pc[p] = "erase"
  /\ lh' = << >>
  /\ dhead' = << >>
  /\ Goto(p, "done")
  /\ UNCHANGED <<disk, dlog, cacheVars, outstanding, committing, procVars, tail,
                 boot, panicked, countVars>>

\* Mutant of end_op_done: the wakeup(&log) is missing.
end_op_done_silent(p) ==
  /\ Up
  /\ pc[p] = "done"
  /\ committing' = FALSE
  /\ Goto(p, "idle")
  /\ UNCHANGED <<diskVars, cacheVars, lh, outstanding, procVars, tail, boot,
                 panicked, countVars>>

end_op_done(p) ==
  /\ Up
  /\ pc[p] = "done"
  /\ committing' = FALSE
  /\ WakeAll(p, "idle")
  /\ UNCHANGED <<diskVars, cacheVars, lh, outstanding, procVars, tail, boot,
                 panicked, countVars>>
-----------------------------------------------------------------------------
(* A crash, and initlog() at the next boot *)

\* Power fails, or a frozen machine is reset: memory is lost, the disk is not.
Crash ==
  /\ crashes < MaxCrashes
  /\ crashes' = crashes + 1
  /\ cache' = disk
  /\ dirty' = {}
  /\ lh' = << >>
  /\ outstanding' = 0
  /\ committing' = FALSE
  /\ pc' = [p \in Proc |-> "idle"]
  /\ held' = [p \in Proc |-> None]
  /\ opid' = [p \in Proc |-> 0]
  /\ written' = [p \in Proc |-> {}]
  /\ tail' = 0
  /\ boot' = "read_head"
  /\ panicked' = FALSE
  /\ UNCHANGED <<diskVars, nops>>

read_head ==
  /\ boot = "read_head"
  /\ lh' = dhead
  /\ tail' = 0
  /\ boot' = IF Len(dhead) > 0 THEN "install_trans" ELSE "erase"
  /\ UNCHANGED <<diskVars, cacheVars, outstanding, committing, pc, procVars,
                 panicked, countVars>>

recover_install ==
  /\ boot = "install_trans"
  /\ InstallBlock
  /\ boot' = IF tail' = Len(lh) THEN "erase" ELSE boot
  /\ UNCHANGED <<dlog, dhead, logVars, pc, procVars, panicked, countVars>>

recover_erase ==
  /\ boot = "erase"
  /\ lh' = << >>
  /\ dhead' = << >>
  /\ boot' = "up"
  /\ UNCHANGED <<disk, dlog, cacheVars, outstanding, committing, pc, procVars,
                 tail, panicked, countVars>>
-----------------------------------------------------------------------------
Step(p) ==
  \/ Call(p)
  \/ begin_op_sleep(p)
  \/ begin_op(p)
  \/ \E b \in Block : Modify(p, b)
  \/ log_write_check(p)
  \/ log_write(p)
  \/ end_op(p)
  \/ commit(p)
  \/ write_log(p)
  \/ write_head(p)
  \/ install_trans(p)
  \/ erase(p)
  \/ end_op_done(p)

Recover == read_head \/ recover_install \/ recover_erase

Next == (\E p \in Proc : Step(p)) \/ Recover \/ Crash

Spec == Init /\ [][Next]_vars

\* Processes are scheduled, disk requests complete, and a file system call
\* stops writing blocks after finitely many; nobody is obliged to make a call.
Fairness ==
  /\ WF_vars(Recover)
  /\ \A p \in Proc :
       /\ WF_vars(Step(p) /\ pc[p] # "idle")
       /\ SF_vars(end_op(p))

FairSpec == Spec /\ Fairness
-----------------------------------------------------------------------------
(* Properties *)

\* Every variable of struct log, of the processes and of the disk has its type.
TypeOK ==
  /\ disk \in [Block -> Value]
  /\ dlog \in [1 .. NLog - 1 -> Value]
  /\ dhead \in Seq(Block)
  /\ cache \in [Block -> Value]
  /\ dirty \in SUBSET Block
  /\ lh \in Seq(Block)
  /\ outstanding \in Nat
  /\ committing \in BOOLEAN
  /\ pc \in [Proc -> Label]
  /\ held \in [Proc -> Block \union {None}]
  /\ opid \in [Proc -> Value]
  /\ written \in [Proc -> SUBSET Block]
  /\ tail \in Nat
  /\ boot \in {"read_head", "install_trans", "erase", "up"}
  /\ panicked \in BOOLEAN
  /\ nops \in Value
  /\ crashes \in 0 .. MaxCrashes

\* What the home blocks will hold once recover_from_log() has run on the disk
\* as it is now.
Position(h, b) == CHOOSE i \in DOMAIN h : h[i] = b
Recovered ==
  [b \in Block |-> IF b \in BlocksOf(dhead) THEN dlog[Position(dhead, b)]
                   ELSE disk[b]]

\* No call that begin_op() admitted, and that writes no more than OpBlocks
\* blocks, runs into a panic() of log_write() or end_op().
NoPanic == ~panicked

\* A process asleep in begin_op() has someone to wake it: a call that has yet
\* to reach end_op(), or a commit that has yet to finish.
SleeperHasWaker ==
  \A p \in Proc : pc[p] = "asleep" => outstanding > 0 \/ committing

\* A cached block that differs from its home block on the disk cannot be
\* evicted and lost: either its buffer is in use, or it is in the log header
\* in memory and pinned with B_DIRTY until install_trans() has written it.
UnwrittenIsPinned ==
  boot = "up" =>
    \A b \in Block : cache[b] # disk[b] =>
       \/ \E p \in Proc : held[p] = b
       \/ b \in dirty /\ b \in BlocksOf(lh)

\* A crash keeps whole calls.  commit() never makes part of a call durable: no
\* block that recovery would produce was written by a call still between
\* begin_op() and end_op().  Once no call is in progress and no commit is
\* running, every finished call survives.
WholeCallsAreDurable ==
  /\ \A p \in Proc, b \in Block : pc[p] \in InOp => Recovered[b] # opid[p]
  /\ boot = "up" /\ outstanding = 0 /\ ~committing => Recovered = cache

\* The contents of the blocks as the file system sees them: those of the cache,
\* or, until initlog() has finished, those recovery is about to produce.
Contents == IF boot = "up" THEN cache ELSE Recovered

\* log.c implements AtomicDisk: the durable contents are what recovery would
\* produce.
AD == INSTANCE AtomicDisk WITH
        mem <- Contents, durable <- Recovered, active <- Ops
ImplementsAtomicDisk == AD!Spec

\* A call that waits in begin_op() is let in eventually, unless the machine goes
\* down; and after the last crash initlog() brings it up for good.
EventuallyAdmitted ==
  /\ \A p \in Proc : pc[p] \in {"begin", "asleep"} ~> pc[p] \in InOp \/ boot # "up"
  /\ <>[](boot = "up")
=============================================================================
