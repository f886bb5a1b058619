--------------------------- MODULE LogDurability ----------------------------
(***************************************************************************)
(* What is on the disk while calls, commits and crashes go on, for any set *)
(* of processes and blocks and any number of calls and crashes: no block   *)
(* is modified outside of the log, and the header on the disk always names *)
(* blocks that are safe.                                                   *)
(*                                                                         *)
(* The argument follows the header on the disk.  It is empty unless all    *)
(* the blocks it names are in the log and are the cache's (HeadInv and     *)
(* CopyInv).  Until it is written the blocks at home are older than every  *)
(* call in progress (FreshInv).                                            *)
(***************************************************************************)
EXTENDS LogProofs

\* No block has two places in a header.
Distinct(h) == \A i, j \in DOMAIN h : h[i] = h[j] => i = j

\* A process has a buffer from bread() to the end of log_write().
HeldInv ==
  \A p \in Proc : held[p] # None <=> pc[p] \in {"log_write", "append"}

\* The header on the disk is that of the log in memory while its blocks are
\* copied home, and is empty otherwise.
HeadInv ==
  /\ Distinct(lh) /\ Distinct(dhead)
  /\ boot \in {"install_trans", "erase"} => dhead = lh
  /\ \A p \in Proc : pc[p] \in {"install_trans", "erase"} => dhead = lh
  /\ boot = "up" /\ (\A p \in Proc : pc[p] \notin {"install_trans", "erase"})
       => dhead = << >>

\* The first n blocks of the header h are the same in the log on the disk and
\* in `blocks'.
Copied(log, h, blocks, n) ==
  \A i \in DOMAIN h : i <= n => log[i] = blocks[h[i]]

\* How far the committer, or recovery, has come.
CopyInv ==
  /\ \A p \in Proc :
       /\ pc[p] = "write_log" => tail < Len(lh) /\ Copied(dlog, lh, cache, tail)
       /\ pc[p] = "write_head" => lh # << >>
       /\ pc[p] \in {"write_head", "install_trans", "erase"}
            => Copied(dlog, lh, cache, Len(lh))
       /\ pc[p] = "install_trans" => tail < Len(lh) /\ Copied(dlog, lh, disk, tail)
       /\ pc[p] = "erase" => Copied(dlog, lh, disk, Len(lh))
  /\ boot # "up" => cache = disk
  /\ boot = "install_trans" => tail < Len(lh) /\ Copied(dlog, lh, disk, tail)
  /\ boot = "erase" => Copied(dlog, lh, disk, Len(lh))

\* Calls have numbers of their own, and a number nobody has used before: what
\* a call has not written does not hold it.
Waiting == {"begin", "asleep"}
FreshInv ==
  /\ \A b \in Block : cache[b] <= nops /\ disk[b] <= nops
  /\ \A p \in Proc : opid[p] <= nops
  /\ \A i \in DOMAIN dlog : dlog[i] <= nops
  /\ \A p \in Proc, b \in Block :
       /\ pc[p] \in Waiting => cache[b] # opid[p]
       /\ pc[p] \in Waiting \union InOp => disk[b] # opid[p]
  /\ \A p, q \in Proc :
       pc[p] \in Waiting \union InOp /\ pc[q] \in Waiting \union InOp
         /\ opid[p] = opid[q] => p = q

DInv == HeldInv /\ HeadInv /\ CopyInv /\ FreshInv /\ UnwrittenIsPinned
-----------------------------------------------------------------------------
(* Who may be where *)

\* While p commits, nobody else does and no call is in progress.
LEMMA OneCommitter ==
  ASSUME IInv, NEW p \in Proc, pc[p] \in Committer
  PROVE  /\ boot = "up" /\ committing
         /\ \A q \in Proc : pc[q] \notin InOp /\ (pc[q] \in Committer => q = p)
  BY DEF IInv, ControlInv, Committer, Ops

\* While p is in a call, nobody commits.
LEMMA NoCommitter ==
  ASSUME IInv, NEW p \in Proc, pc[p] \in InOp
  PROVE  /\ boot = "up" /\ ~committing
         /\ \A q \in Proc : pc[q] \notin Committer
  BY DEF IInv, ControlInv, InOp, Ops

\* A header stays without repetition when a block that is not in it is appended.
LEMMA DistinctAppend ==
  ASSUME NEW h \in Seq(Block), NEW b \in Block, Distinct(h), b \notin BlocksOf(h)
  PROVE  Distinct(Append(h, b))
<1>1. DOMAIN Append(h, b) = DOMAIN h \union {Len(h) + 1} /\ Append(h, b)[Len(h) + 1] = b
  OBVIOUS
<1>2. \A i \in DOMAIN h : Append(h, b)[i] = h[i] /\ h[i] # b
  BY DEF BlocksOf
<1> QED
  BY <1>1, <1>2 DEF Distinct
-----------------------------------------------------------------------------
(* Every step keeps each part of the invariant *)

\* A buffer is taken by bread() and given back by log_write(); a crash takes
\* them all.
LEMMA HeldStep ==
  ASSUME IInv, HeldInv, [Next]_vars
  PROVE  HeldInv'
<1> USE DEF HeldInv, IInv, TypeOK, Goto, WakeAll, procVars, vars
<1>1. ASSUME NEW p \in Proc, Step(p) PROVE HeldInv'
  <2>1. ASSUME NEW b \in Block, Modify(p, b) PROVE HeldInv'
    BY <2>1, LogConstants DEF Modify
  <2>2. CASE log_write(p)
    BY <2>2 DEF log_write
  <2>3. CASE Call(p) \/ begin_op_sleep(p) \/ begin_op(p) \/ log_write_check(p)
    BY <2>3 DEF Call, begin_op_sleep, begin_op, log_write_check
  <2>4. CASE end_op(p)
    BY <2>4 DEF end_op
  <2>5. CASE end_op_done(p)
    BY <2>5 DEF end_op_done
  <2>6. CASE commit(p) \/ write_log(p)
    BY <2>6 DEF commit, write_log
  <2>7. CASE write_head(p) \/ install_trans(p) \/ erase(p)
    BY SMTT(30), <2>7 DEF write_head, install_trans, erase
  <2> QED
    BY ONLY <1>1, <2>1, <2>2, <2>3, <2>4, <2>5, <2>6, <2>7 DEF Step
<1>2. CASE Recover
  BY <1>2 DEF Recover, read_head, recover_install, recover_erase
<1>3. CASE Crash
  BY <1>3 DEF Crash
<1>4. CASE UNCHANGED vars
  BY <1>4
<1> QED
  BY ONLY <1>1, <1>2, <1>3, <1>4, [Next]_vars DEF Next

\* Blocks are logged once; the header goes to the disk whole, and is emptied
\* when its blocks are home.
LEMMA HeadStep ==
  ASSUME IInv, HeldInv, HeadInv, [Next]_vars
  PROVE  HeadInv'
<1>0. TypeOK /\ (boot # "up" => \A q \in Proc : pc[q] = "idle")
  BY DEF IInv, ControlInv
<1> USE <1>0 DEF TypeOK, HeadInv, Goto, WakeAll, diskVars, logVars
<1>1. ASSUME NEW p \in Proc, Step(p) PROVE HeadInv'
  <2>1. ASSUME NEW b \in Block, Modify(p, b) PROVE HeadInv'
    BY <2>1 DEF Modify, Distinct
  <2>2. CASE log_write(p)
    <3>1. \A q \in Proc : pc[q] \notin Committer
      BY <2>2, NoCommitter DEF log_write, InOp
    <3>2. held[p] \in Block
      BY <2>2 DEF HeldInv, log_write
    <3>3. Distinct(lh')
      BY <2>2, <3>2, DistinctAppend DEF log_write
    <3> QED
      BY <2>2, <3>1, <3>3 DEF log_write, Committer, Distinct
  <2>3. CASE Call(p) \/ begin_op_sleep(p) \/ begin_op(p) \/ log_write_check(p)
    BY <2>3 DEF Call, begin_op_sleep, begin_op, log_write_check, Distinct
  <2>4. CASE end_op(p)
    BY <2>4 DEF end_op, Distinct
  <2>5. CASE end_op_done(p)
    BY <2>5 DEF end_op_done, Distinct
  <2>6. CASE commit(p) \/ write_log(p)
    BY <2>6 DEF commit, write_log, Distinct
  <2>7. CASE write_head(p) \/ install_trans(p) \/ erase(p)
    <3>1. \A q \in Proc : pc[q] \in Committer => q = p
      BY <2>7, OneCommitter DEF write_head, install_trans, erase, Committer
    <3> QED
      BY <2>7, <3>1 DEF write_head, install_trans, erase, Distinct, Committer
  <2> QED
    BY ONLY <1>1, <2>1, <2>2, <2>3, <2>4, <2>5, <2>6, <2>7 DEF Step
<1>2. CASE Recover
  BY <1>2 DEF Recover, read_head, recover_install, recover_erase, Distinct
<1>3. CASE Crash
  BY <1>3 DEF Crash, Distinct
<1>4. CASE UNCHANGED vars
  BY <1>4 DEF vars, Distinct
<1> QED
  BY ONLY <1>1, <1>2, <1>3, <1>4, [Next]_vars DEF Next

\* The log fits the blocks it has on the disk.
LEMMA LogFits ==
  ASSUME Slack, IInv
  PROVE  DOMAIN lh \subseteq DOMAIN dlog /\ DOMAIN dhead \subseteq DOMAIN dlog
  BY LogConstants DEF Slack, IInv, TypeOK, SpaceInv

\* A step that leaves the blocks and the log alone, and starts no commit, keeps
\* what is known of the copies.
LEMMA CopyFrame ==
  ASSUME CopyInv, boot' = boot, UNCHANGED <<disk, dlog, cache, lh, tail>>,
         \A q \in Proc : pc'[q] = pc[q]
           \/ pc'[q] \notin {"write_log", "write_head", "install_trans", "erase"}
  PROVE  CopyInv'
  BY DEF CopyInv, Copied

\* So does a step that starts from and leads to a state in which nobody commits.
LEMMA CopyQuiet ==
  ASSUME boot' = "up",
         \A q \in Proc : pc'[q] \notin {"write_log", "write_head", "install_trans", "erase"}
  PROVE  CopyInv'
  BY DEF CopyInv

\* Copying a block home leaves the other blocks of the log alone.
LEMMA InstallCopies ==
  ASSUME Slack, IInv, HeadInv, InstallBlock, UNCHANGED <<dlog, lh>>, Copied(dlog, lh, disk, tail)
  PROVE  /\ Copied(dlog', lh', disk', tail') /\ tail' \in Nat /\ tail' <= Len(lh)
         /\ Copied(dlog, lh, cache, Len(lh)) => cache' = cache
         /\ cache = disk => cache' = disk'
<1>1. TypeOK /\ Distinct(lh)
  BY DEF IInv, HeadInv
<1>2. tail + 1 \in DOMAIN lh /\ lh[tail + 1] \in Block
  BY <1>1 DEF InstallBlock, TypeOK
<1>3. Copied(dlog', lh', disk', tail')
  BY <1>1, <1>2 DEF InstallBlock, Copied, Distinct, TypeOK
<1>4. Copied(dlog, lh, cache, Len(lh)) => cache' = cache
  BY <1>1, <1>2 DEF InstallBlock, Copied, TypeOK
<1>5. cache = disk => cache' = disk'
  BY DEF InstallBlock
<1>6. tail' \in Nat /\ tail' <= Len(lh)
  BY <1>1 DEF InstallBlock, TypeOK
<1> QED
  BY <1>3, <1>4, <1>5, <1>6

\* write_log() copies the blocks of the log from the cache, and install_trans()
\* copies them home, one at a time.
LEMMA CopyStep ==
  ASSUME Slack, IInv, HeadInv, CopyInv, [Next]_vars
  PROVE  CopyInv'
<1>0. TypeOK /\ (boot # "up" => \A q \in Proc : pc[q] = "idle")
  BY DEF IInv, ControlInv
<1>1. ASSUME NEW p \in Proc, Step(p) PROVE CopyInv'
  <2>1. CASE (\E b \in Block : Modify(p, b)) \/ log_write(p)
    <3>1. boot = "up" /\ \A q \in Proc : pc[q] \notin Committer
      BY <2>1, NoCommitter DEF Modify, log_write, InOp
    <3>2. boot' = "up" /\ \A q \in Proc : pc'[q] \notin Committer
      BY <1>0, <2>1, <3>1 DEF Modify, log_write, Goto, Committer, TypeOK
    <3> QED
      BY <3>2, CopyQuiet DEF Committer
  <2>2. CASE Call(p) \/ begin_op_sleep(p) \/ begin_op(p) \/ log_write_check(p)
    BY <1>0, <2>2, CopyFrame DEF Call, begin_op_sleep, begin_op, log_write_check,
       Goto, diskVars, cacheVars, logVars, TypeOK
  <2>3. CASE end_op(p) \/ end_op_done(p)
    BY <1>0, <2>3, CopyFrame DEF end_op, end_op_done, Goto, WakeAll, diskVars,
       cacheVars, TypeOK
  <2>4. CASE commit(p) \/ write_log(p) \/ write_head(p) \/ install_trans(p) \/ erase(p)
    <3>1. boot = "up" /\ \A q \in Proc : pc[q] \in Committer => q = p
      BY <2>4, OneCommitter DEF commit, write_log, write_head, install_trans, erase,
         Committer
    <3>2. boot' = "up" /\ \A q \in Proc : q # p => pc'[q] \notin Committer
      BY <1>0, <2>4, <3>1 DEF commit, write_log, write_head, install_trans, erase, Goto,
         TypeOK
    <3>3. CASE commit(p)
      <4>1. Copied(dlog', lh', cache', 0) /\ tail' = 0 /\ lh' = lh
        BY <1>0, <3>3 DEF commit, Copied, logVars, TypeOK
      <4> QED
        BY <1>0, <3>2, <3>3, <4>1 DEF commit, Goto, CopyInv, Committer, TypeOK
    <3>4. CASE write_log(p)
      <4>1. tail + 1 \in DOMAIN dlog /\ tail + 1 \in DOMAIN lh /\ Copied(dlog, lh, cache, tail)
        BY <1>0, <3>4, LogFits DEF write_log, CopyInv, TypeOK
      <4>2. Copied(dlog', lh', cache', tail')
        BY <1>0, <3>4, <4>1 DEF write_log, Copied, cacheVars, logVars, TypeOK
      <4>3. tail' \in Nat /\ tail' <= Len(lh) /\ lh' = lh /\ Len(lh) > 0
        BY <1>0, <3>4 DEF write_log, logVars, TypeOK
      <4> QED
        BY <1>0, <3>2, <3>4, <4>2, <4>3 DEF write_log, Goto, CopyInv, Committer, TypeOK
    <3>5. CASE write_head(p)
      <4>1. Copied(dlog', lh', cache', Len(lh')) /\ Len(lh) > 0
        BY <3>5 DEF write_head, CopyInv, Copied, cacheVars, logVars
      <4> QED
        BY <1>0, <3>2, <3>5, <4>1 DEF write_head, Goto, CopyInv, Copied, Committer,
           logVars, TypeOK
    <3>6. CASE install_trans(p)
      <4>1. Copied(dlog, lh, cache, Len(lh)) /\ Copied(dlog, lh, disk, tail)
        BY <3>6 DEF install_trans, CopyInv
      <4>2. /\ Copied(dlog', lh', disk', tail') /\ tail' \in Nat /\ tail' <= Len(lh) /\ lh' = lh
            /\ Copied(dlog', lh', cache', Len(lh'))
        BY <3>6, <4>1, InstallCopies DEF install_trans, logVars, Copied
      <4> QED
        BY <1>0, <3>2, <3>6, <4>2 DEF install_trans, Goto, CopyInv, Committer, TypeOK
    <3>7. CASE erase(p)
      BY <1>0, <3>2, <3>7, CopyQuiet DEF erase, Goto, Committer, TypeOK
    <3> QED
      BY <2>4, <3>3, <3>4, <3>5, <3>6, <3>7
  <2> QED
    BY ONLY <1>1, <2>1, <2>2, <2>3, <2>4 DEF Step
<1>2. CASE read_head
  BY <1>0, <1>2 DEF read_head, CopyInv, Copied, diskVars, cacheVars, TypeOK
<1>3. CASE recover_install
  <2>1. /\ Copied(dlog', lh', disk', tail') /\ tail' \in Nat /\ tail' <= Len(lh) /\ lh' = lh
        /\ cache' = disk'
    BY <1>3, InstallCopies DEF recover_install, CopyInv, logVars
  <2>2. \A q \in Proc : pc'[q] = "idle"
    BY <1>0, <1>3 DEF recover_install
  <2> QED
    BY <1>0, <1>3, <2>1, <2>2 DEF recover_install, CopyInv, TypeOK
<1>4. CASE recover_erase
  BY <1>0, <1>4, CopyQuiet DEF recover_erase
<1>5. CASE Crash
  BY <1>5 DEF Crash, CopyInv, diskVars
<1>6. CASE UNCHANGED vars
  BY <1>6, CopyFrame DEF vars, diskVars, cacheVars, logVars
<1> QED
  BY ONLY <1>1, <1>2, <1>3, <1>4, <1>5, <1>6, [Next]_vars DEF Next, Recover

\* A step that writes no block and starts no call keeps the numbers apart.
LEMMA FreshFrame ==
  ASSUME FreshInv, UNCHANGED <<disk, dlog, cache, opid, nops>>,
         \A q \in Proc : \/ pc'[q] = pc[q]
                         \/ pc[q] = "asleep" /\ pc'[q] = "begin"
                         \/ pc[q] \in Waiting /\ pc'[q] \in Waiting \union InOp
                         \/ pc[q] \in InOp /\ pc'[q] \in InOp
                         \/ pc'[q] \notin Waiting \union InOp
  PROVE  FreshInv'
<1>1. \A q \in Proc : /\ pc'[q] \in Waiting => pc[q] \in Waiting
                      /\ pc'[q] \in InOp => pc[q] \in Waiting \union InOp
  BY DEF Waiting, InOp
<1> QED
  BY SMTT(30), <1>1 DEF FreshInv

\* The number of a call is new when the call begins, and reaches the disk only
\* in a commit, when the call is over.
LEMMA FreshStep ==
  ASSUME Slack, IInv, HeadInv, CopyInv, FreshInv, [Next]_vars
  PROVE  FreshInv'
<1>0. TypeOK /\ (boot # "up" => \A q \in Proc : pc[q] = "idle")
  BY DEF IInv, ControlInv
<1>a. /\ disk \in [Block -> Nat] /\ cache \in [Block -> Nat] /\ nops \in Nat
      /\ dlog \in [1 .. NLog - 1 -> Nat] /\ opid \in [Proc -> Nat] /\ pc \in [Proc -> Label]
  BY <1>0 DEF TypeOK, Value
<1>1. ASSUME NEW p \in Proc, Step(p) PROVE FreshInv'
  <2>1. CASE Call(p)
    <3>1. /\ nops' = nops + 1 /\ opid' = [opid EXCEPT ![p] = nops + 1]
          /\ pc' = [pc EXCEPT ![p] = "begin"] /\ UNCHANGED <<disk, dlog, cache>>
      BY <2>1 DEF Call, Goto, diskVars, cacheVars
    <3>2. \A b \in Block : cache[b] # nops + 1 /\ disk[b] # nops + 1
      BY <1>a DEF FreshInv
    <3>3. \A q \in Proc : opid[q] # nops + 1
      BY <1>a DEF FreshInv
    <3>4. \A q \in Proc : q # p => pc'[q] = pc[q] /\ opid'[q] = opid[q]
      BY <1>a, <3>1
    <3>5. opid'[p] = nops + 1
      BY <1>a, <3>1
    <3>6. /\ \A b \in Block : cache'[b] <= nops' /\ disk'[b] <= nops'
          /\ \A q \in Proc : opid'[q] <= nops'
          /\ \A i \in DOMAIN dlog' : dlog'[i] <= nops'
      <4>1. \A b \in Block : cache'[b] <= nops' /\ disk'[b] <= nops'
        BY <1>a, <3>1 DEF FreshInv
      <4>2. \A q \in Proc : opid'[q] <= nops'
        BY <1>a, <3>1, <3>4, <3>5 DEF FreshInv
      <4>3. \A i \in DOMAIN dlog' : dlog'[i] <= nops'
        <5> SUFFICES ASSUME NEW i \in DOMAIN dlog PROVE dlog[i] <= nops + 1
          BY <3>1
        <5>1. dlog[i] \in Nat /\ dlog[i] <= nops
          BY <1>a DEF FreshInv
        <5> QED
          BY <1>a, <5>1
      <4> QED
        BY <4>1, <4>2, <4>3
    <3>7. /\ \A q \in Proc, b \in Block :
               /\ pc'[q] \in Waiting => cache'[b] # opid'[q]
               /\ pc'[q] \in Waiting \union InOp => disk'[b] # opid'[q]
          /\ \A q, r \in Proc :
               pc'[q] \in Waiting \union InOp /\ pc'[r] \in Waiting \union InOp
                 /\ opid'[q] = opid'[r] => q = r
      BY <3>1, <3>2, <3>3, <3>4, <3>5 DEF FreshInv
    <3> QED
      BY SMTT(30), <3>6, <3>7 DEF FreshInv
  <2>2. ASSUME NEW b \in Block, Modify(p, b) PROVE FreshInv'
    <3>1. /\ cache' = [cache EXCEPT ![b] = opid[p]]
          /\ pc[p] = "op" /\ pc' = [pc EXCEPT ![p] = "log_write"]
          /\ UNCHANGED <<disk, dlog, opid, nops>>
      BY SMTT(30), <2>2 DEF Modify, Goto, diskVars, countVars
    <3>2. \A q \in Proc : /\ pc'[q] \in Waiting => pc[q] \in Waiting /\ q # p
                          /\ pc'[q] \in Waiting \union InOp => pc[q] \in Waiting \union InOp
      BY <1>a, <3>1 DEF Waiting, InOp
    <3>3. \A q \in Proc : pc[q] \in Waiting /\ q # p => opid[q] # opid[p]
      BY <3>1 DEF FreshInv, InOp
    <3>4. \A c \in Block : cache'[c] = cache[c] \/ cache'[c] = opid[p]
      BY <1>a, <3>1
    <3> QED
      BY <3>1, <3>2, <3>3, <3>4 DEF FreshInv
  <2>3. CASE begin_op_sleep(p) \/ begin_op(p) \/ log_write_check(p) \/ log_write(p)
    BY SMTT(30), <1>a, <2>3, FreshFrame DEF begin_op_sleep, begin_op, log_write_check, log_write,
       Goto, diskVars, cacheVars, procVars, countVars, Waiting, InOp
  <2>4. CASE end_op(p) \/ end_op_done(p)
    BY <1>a, <2>4, FreshFrame DEF end_op, end_op_done, Goto, WakeAll, diskVars,
       cacheVars, procVars, countVars, Waiting, InOp
  <2>5. CASE commit(p) \/ write_head(p) \/ erase(p)
    BY <1>a, <2>5, FreshFrame DEF commit, write_head, erase, Goto, diskVars,
       cacheVars, procVars, countVars, Waiting, InOp
  <2>6. CASE write_log(p)
    <3>1. lh[tail + 1] \in Block
      BY <1>0, <2>6 DEF write_log, TypeOK
    <3>2. \A i \in DOMAIN dlog : dlog'[i] \in {dlog[i], cache[lh[tail + 1]]}
      BY <1>a, <2>6 DEF write_log
    <3>3. \A q \in Proc : pc'[q] \in Waiting \union InOp => pc'[q] = pc[q]
      BY <1>a, <2>6 DEF write_log, Goto, Waiting, InOp
    <3>4. DOMAIN dlog' = DOMAIN dlog /\ UNCHANGED <<disk, cache, opid, nops>>
      BY <1>a, <2>6 DEF write_log, cacheVars, procVars, countVars
    <3> QED
      BY SMTT(30), <3>1, <3>2, <3>3, <3>4 DEF FreshInv
  <2>7. CASE install_trans(p)
    <3>1. lh[tail + 1] \in Block /\ dlog[tail + 1] = cache[lh[tail + 1]]
      BY SMTT(30), <1>0, <2>7 DEF install_trans, InstallBlock, CopyInv, Copied, TypeOK
    <3>2. cache' = cache /\ \A b \in Block : disk'[b] \in {disk[b], cache[lh[tail + 1]]}
      BY <1>a, <2>7, <3>1 DEF install_trans, InstallBlock
    <3>3. \A q \in Proc : pc'[q] \in Waiting \union InOp => pc'[q] = pc[q]
      BY <1>a, <2>7 DEF install_trans, Goto, Waiting, InOp
    <3>4. \A q \in Proc : pc[q] \notin InOp
      BY <2>7, OneCommitter DEF install_trans, Committer
    <3>5. UNCHANGED <<dlog, opid, nops>>
      BY <2>7 DEF install_trans, procVars, countVars
    <3> QED
      BY <3>1, <3>2, <3>3, <3>4, <3>5 DEF FreshInv
  <2> QED
    BY ONLY <1>1, <2>1, <2>2, <2>3, <2>4, <2>5, <2>6, <2>7 DEF Step
<1>2. CASE recover_install
  <2>1. \A q \in Proc : pc'[q] = "idle"
    BY <1>0, <1>2 DEF recover_install
  <2>2. lh[tail + 1] \in Block /\ tail + 1 \in DOMAIN dlog
    BY <1>0, <1>2, LogFits DEF recover_install, InstallBlock, TypeOK
  <2>3. \A b \in Block : /\ disk'[b] \in {disk[b], dlog[tail + 1]}
                         /\ cache'[b] \in {cache[b], dlog[tail + 1]}
    BY <1>a, <1>2, <2>2 DEF recover_install, InstallBlock
  <2>4. UNCHANGED <<dlog, opid, nops>>
    BY <1>2 DEF recover_install, procVars, countVars
  <2> QED
    BY <2>1, <2>2, <2>3, <2>4 DEF FreshInv, Waiting, InOp
<1>3. CASE read_head \/ recover_erase
  BY <1>3, FreshFrame DEF read_head, recover_erase, diskVars, cacheVars, procVars, countVars
<1>4. CASE Crash
  <2>1. \A q \in Proc : pc'[q] = "idle" /\ opid'[q] = 0
    BY <1>4 DEF Crash
  <2>2. cache' = disk /\ UNCHANGED <<disk, dlog, nops>>
    BY <1>4 DEF Crash, diskVars
  <2> QED
    BY <1>a, <2>1, <2>2 DEF FreshInv, Waiting, InOp
<1>5. CASE UNCHANGED vars
  BY <1>5, FreshFrame DEF vars, diskVars, cacheVars, procVars, countVars
<1> QED
  BY ONLY <1>1, <1>2, <1>3, <1>4, <1>5, [Next]_vars DEF Next, Recover

\* A block leaves the cache only through install_trans(), which writes it home.
LEMMA PinStep ==
  ASSUME Slack, IInv, HeldInv, HeadInv, CopyInv, UnwrittenIsPinned, [Next]_vars
  PROVE  UnwrittenIsPinned'
<1>0. TypeOK /\ QuietInv /\ (boot # "up" => \A q \in Proc : pc[q] = "idle")
  BY DEF IInv, ControlInv
<1> USE <1>0 DEF TypeOK, UnwrittenIsPinned
<1>1. ASSUME NEW p \in Proc, Step(p) PROVE UnwrittenIsPinned'
  <2>1. ASSUME NEW b \in Block, Modify(p, b) PROVE UnwrittenIsPinned'
    <3>1. held[p] = None
      BY <2>1 DEF Modify, HeldInv
    <3>2. held' = [held EXCEPT ![p] = b] /\ \A c \in Block : c # b => cache'[c] = cache[c]
      BY <2>1 DEF Modify
    <3>3. UNCHANGED <<disk, dirty, lh, boot>>
      BY <2>1 DEF Modify, diskVars, logVars
    <3> QED
      BY SMTT(30), <3>1, <3>2, <3>3, LogConstants DEF BlocksOf
  <2>2. CASE log_write(p)
    <3>1. held[p] \in Block
      BY <2>2 DEF log_write, HeldInv
    <3>2. BlocksOf(lh') = BlocksOf(lh) \union {held[p]}
      <4>1. CASE held[p] \in BlocksOf(lh)
        BY <2>2, <4>1 DEF log_write
      <4>2. CASE held[p] \notin BlocksOf(lh)
        <5>1. lh' = Append(lh, held[p]) /\ lh \in Seq(Block)
          BY <2>2, <4>2 DEF log_write
        <5>2. DOMAIN lh' = DOMAIN lh \union {Len(lh) + 1} /\ lh'[Len(lh) + 1] = held[p]
          BY <3>1, <5>1
        <5>3. \A i \in DOMAIN lh : lh'[i] = lh[i]
          BY <3>1, <5>1
        <5> QED
          BY <5>2, <5>3 DEF BlocksOf
      <4> QED
        BY <4>1, <4>2
    <3>3. /\ dirty' = dirty \union {held[p]} /\ UNCHANGED <<disk, cache, boot>>
          /\ \A q \in Proc : q # p => held'[q] = held[q]
      BY <2>2 DEF log_write, diskVars
    <3> QED
      BY SMTT(30), <3>2, <3>3
  <2>3. CASE \/ Call(p) \/ begin_op_sleep(p) \/ begin_op(p) \/ log_write_check(p)
             \/ end_op(p) \/ end_op_done(p) \/ commit(p) \/ write_log(p) \/ write_head(p)
    <3>1. UNCHANGED <<cache, disk, dirty, lh, held, boot>>
      BY ONLY Zenon, <2>3 DEF Call, begin_op_sleep, begin_op, log_write_check, end_op,
         end_op_done, commit, write_log, write_head, diskVars, cacheVars, logVars, procVars
    <3> QED
      BY ONLY <3>1, UnwrittenIsPinned, Zenon DEF UnwrittenIsPinned, BlocksOf
  <2>4. CASE install_trans(p)
    <3>1. lh[tail + 1] \in Block
      BY <2>4 DEF install_trans, InstallBlock
    <3>2. /\ \A b \in Block : b # lh[tail + 1] =>
               cache'[b] = cache[b] /\ disk'[b] = disk[b] /\ (b \in dirty => b \in dirty')
          /\ cache'[lh[tail + 1]] = disk'[lh[tail + 1]]
      BY <2>4, <3>1 DEF install_trans, InstallBlock
    <3>3. UNCHANGED <<lh, held, boot>>
      BY <2>4 DEF install_trans, logVars, procVars
    <3> QED
      BY SMTT(30), <3>2, <3>3 DEF BlocksOf
  <2>5. CASE erase(p)
    <3>1. Copied(dlog, lh, cache, Len(lh)) /\ Copied(dlog, lh, disk, Len(lh))
      BY <2>5 DEF erase, CopyInv
    <3>2. \A b \in BlocksOf(lh) : cache[b] = disk[b]
      BY SMTT(30), <3>1 DEF Copied, BlocksOf
    <3>3. UNCHANGED <<disk, cache, held, boot>>
      BY <2>5 DEF erase, cacheVars, procVars
    <3> QED
      BY <3>2, <3>3
  <2> QED
    BY ONLY Zenon, <1>1, <2>1, <2>2, <2>3, <2>4, <2>5 DEF Step
<1>2. CASE Recover
  BY <1>2 DEF Recover, read_head, recover_install, recover_erase, CopyInv, cacheVars
<1>3. CASE Crash
  BY <1>3 DEF Crash
<1>4. CASE UNCHANGED vars
  BY <1>4 DEF vars, diskVars, cacheVars, logVars, procVars, BlocksOf
<1> QED
  BY ONLY <1>1, <1>2, <1>3, <1>4, [Next]_vars DEF Next

\* DInv holds when the machine starts on an empty log.
LEMMA InitDInv == Init => DInv
<1> SUFFICES ASSUME Init PROVE DInv
  OBVIOUS
<1> USE DEF Init
<1>1. HeldInv /\ HeadInv /\ UnwrittenIsPinned
  BY DEF HeldInv, HeadInv, UnwrittenIsPinned, Distinct
<1>2. CopyInv
  BY DEF CopyInv
<1>3. FreshInv
  BY DEF FreshInv, Waiting, InOp
<1> QED
  BY <1>1, <1>2, <1>3 DEF DInv

\* Together with IInv, DInv is an invariant of log.c.
THEOREM Durability == Slack => (Spec => [](IInv /\ DInv))
<1> SUFFICES ASSUME Slack PROVE Spec => [](IInv /\ DInv)
  OBVIOUS
<1>1. Init => IInv /\ DInv
  BY InitIInv, InitDInv
<1>2. IInv /\ DInv /\ [Next]_vars => (IInv /\ DInv)'
  <2> SUFFICES ASSUME IInv, DInv, [Next]_vars PROVE IInv' /\ DInv'
    OBVIOUS
  <2> QED
    BY NextIInv, HeldStep, HeadStep, CopyStep, FreshStep, PinStep DEF DInv
<1> QED
  BY <1>1, <1>2, PTL DEF Spec

\* A cached block that differs from the disk is in use or pinned, whatever the
\* calls, the commits and the crashes.
THEOREM NothingUnpinned == Slack => (Spec => []UnwrittenIsPinned)
<1> SUFFICES ASSUME Slack PROVE Spec => []UnwrittenIsPinned
  OBVIOUS
<1>1. IInv /\ DInv => UnwrittenIsPinned
  BY DEF DInv
<1> QED
  BY Durability, <1>1, PTL
=============================================================================
