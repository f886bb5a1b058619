---------------------------- MODULE LogAtomicity ----------------------------
(***************************************************************************)
(* What a crash can do to the disk: a call is there with all of its blocks *)
(* or none, and the log, with its crashes and its recovery, implements     *)
(* AtomicDisk.  By the invariant of LogDurability, writing the header is   *)
(* the one step that makes anything durable; copying its blocks home, as   *)
(* often as crashes make recovery begin again, changes nothing that        *)
(* recovery would produce.                                                 *)
(***************************************************************************)
EXTENDS LogDurability

(* What recovery produces *)

\* Recovery takes a block that the header names from its place in the log.
LEMMA RecoveredBlock ==
  ASSUME NEW i \in DOMAIN dhead, dhead[i] \in Block, Distinct(dhead)
  PROVE  Recovered[dhead[i]] = dlog[i]
<1>1. Position(dhead, dhead[i]) = i
  BY DEF Position, Distinct
<1> QED
  BY <1>1 DEF Recovered, BlocksOf

\* When the blocks of the header are the same in the log and in `blocks', and
\* the other ones at home, that is what recovery produces.
LEMMA RecoveredIs ==
  ASSUME dhead \in Seq(Block), Distinct(dhead), NEW blocks \in [Block -> Value],
         Copied(dlog, dhead, blocks, Len(dhead)),
         \A b \in Block : b \notin BlocksOf(dhead) => disk[b] = blocks[b]
  PROVE  Recovered = blocks
<1>1. \A b \in BlocksOf(dhead) : Recovered[b] = blocks[b]
  <2> SUFFICES ASSUME NEW i \in DOMAIN dhead PROVE Recovered[dhead[i]] = blocks[dhead[i]]
    BY DEF BlocksOf
  <2>1. dhead[i] \in Block /\ i <= Len(dhead)
    OBVIOUS
  <2> QED
    BY <2>1, RecoveredBlock DEF Copied
<1>2. \A b \in Block : b \notin BlocksOf(dhead) => Recovered[b] = blocks[b]
  BY DEF Recovered
<1>3. \A b \in Block : Recovered[b] = blocks[b]
  BY <1>1, <1>2
<1> QED
  BY <1>3 DEF Recovered

\* Nothing is to be recovered while the header on the disk is empty, and then
\* recovery changes nothing.
LEMMA RecoveredIdle ==
  ASSUME TypeOK, dhead = << >>
  PROVE  Recovered = disk
<1>1. BlocksOf(dhead) = {} /\ dhead \in Seq(Block) /\ Distinct(dhead)
  BY DEF BlocksOf, Distinct
<1>2. Copied(dlog, dhead, disk, Len(dhead))
  BY SMTT(30) DEF Copied
<1> QED
  BY <1>1, <1>2, RecoveredIs DEF TypeOK

\* In a call, the header on the disk is empty.
LEMMA RecoveredInCall ==
  ASSUME IInv, HeadInv, NEW p \in Proc, pc[p] \in InOp
  PROVE  Recovered = disk
<1>1. dhead = << >>
  BY NoCommitter DEF HeadInv, Committer
<1> QED
  BY <1>1, RecoveredIdle DEF IInv

\* The two invariants make every finished call, and no unfinished one, durable.
LEMMA WholeCalls == IInv /\ DInv => WholeCallsAreDurable
<1> SUFFICES ASSUME IInv, DInv PROVE WholeCallsAreDurable
  OBVIOUS
<1> USE DEF DInv
<1>1. ASSUME NEW p \in Proc, NEW b \in Block, pc[p] \in InOp
      PROVE  Recovered[b] # opid[p]
  BY <1>1, RecoveredInCall DEF FreshInv
<1>2. ASSUME boot = "up", outstanding = 0, ~committing PROVE Recovered = cache
  <2>1. Ops = {}
    BY Zenon, <1>2, OpsFinite, FS_EmptySet DEF IInv, ControlInv
  <2>2. \A p \in Proc : pc[p] \notin InOp \union Committer
    BY <1>2, <2>1 DEF IInv, ControlInv, Ops
  <2>3. dhead = << >> /\ lh = << >>
    BY <1>2, <2>2 DEF HeadInv, IInv, QuietInv, Committer
  <2>4. \A b \in Block : cache[b] = disk[b]
    BY <1>2, <2>2, <2>3, LogConstants DEF UnwrittenIsPinned, HeldInv, BlocksOf, InOp
  <2>5. cache = disk
    BY <2>4 DEF IInv, TypeOK
  <2> QED
    BY <2>3, <2>5, RecoveredIdle DEF IInv
<1> QED
  BY <1>1, <1>2 DEF WholeCallsAreDurable

\* A crash at any moment keeps whole calls: none of what a call in progress has
\* written, and all of what finished calls have once nothing is in progress.
THEOREM CrashAtomicity == Slack => (Spec => []WholeCallsAreDurable)
<1> SUFFICES ASSUME Slack PROVE Spec => []WholeCallsAreDurable
  OBVIOUS
<1> QED
  BY Durability, WholeCalls, PTL
-----------------------------------------------------------------------------
(* The log implements AtomicDisk *)

\* What recovery would produce is decided by the disk alone.
LEMMA RecoveredSame ==
  ASSUME UNCHANGED diskVars
  PROVE  Recovered' = Recovered
  BY DEF Recovered, diskVars, BlocksOf, Position

\* The machine starts with the same contents in use and durable.
LEMMA InitAtomic == Init => AD!Init
<1> SUFFICES ASSUME Init PROVE AD!Init
  OBVIOUS
<1>1. Contents = Recovered /\ Ops = {}
  BY DEF Init, Contents, Ops, InOp
<1>2. Recovered = disk
  BY DEF Init, Recovered, BlocksOf
<1>3. disk \in [Block -> Value]
  BY LogConstants DEF Init, Value
<1> QED
  BY <1>1, <1>2, <1>3 DEF AD!Init

\* A step that leaves the disk, the cache and the calls alone is invisible.
LEMMA Invisible ==
  ASSUME boot = "up", boot' = "up", UNCHANGED <<diskVars, cache>>, Ops' = Ops
  PROVE  UNCHANGED AD!vars
  BY RecoveredSame DEF Contents, AD!vars

\* Installing a block of the header changes nothing that recovery would produce.
LEMMA InstallInvisible ==
  ASSUME Slack, IInv, HeadInv, InstallBlock, dhead = lh, UNCHANGED <<dlog, dhead>>
  PROVE  Recovered' = Recovered
<1>1. lh[tail + 1] \in BlocksOf(dhead)
  BY DEF IInv, TypeOK, InstallBlock, BlocksOf
<1>2. \A b \in Block : b \notin BlocksOf(dhead) => disk'[b] = disk[b]
  BY <1>1 DEF InstallBlock, IInv, TypeOK
<1>3. BlocksOf(dhead') = BlocksOf(dhead)
  BY DEF BlocksOf
<1> QED
  BY <1>2, <1>3 DEF Recovered, Position

\* When every block of the header is home, the header may go.
LEMMA EraseInvisible ==
  ASSUME IInv, HeadInv, dhead = lh, Copied(dlog, lh, disk, Len(lh)),
         dhead' = << >>, UNCHANGED <<disk, dlog>>
  PROVE  Recovered = disk /\ Recovered' = disk
<1>1. Recovered = disk
  BY RecoveredIs DEF IInv, TypeOK, HeadInv
<1>2. Recovered' = disk
  <2>1. BlocksOf(dhead') = {}
    <3>1. DOMAIN dhead' = {}
      OBVIOUS
    <3> QED
      BY ONLY <3>1, Zenon DEF BlocksOf
  <2>2. Recovered' = [b \in Block |-> disk[b]]
    BY ONLY <2>1, UNCHANGED <<disk, dlog>>, Zenon DEF Recovered
  <2> QED
    BY <2>2 DEF IInv, TypeOK
<1> QED
  BY <1>1, <1>2

\* The step that writes the header is the step that makes everything durable.
LEMMA WriteHeadCommits ==
  ASSUME IInv, IInv', DInv, DInv', NEW p \in Proc, write_head(p)
  PROVE  AD!Commit
<1>1. boot = "up" /\ boot' = "up" /\ Ops = {} /\ Ops' = {}
  <2>1. boot = "up" /\ \A q \in Proc : pc[q] \notin InOp
    BY OneCommitter DEF write_head, Committer
  <2> QED
    BY SMTT(30), <2>1 DEF write_head, Goto, Ops, InOp, IInv, TypeOK
<1>2. dhead' = lh /\ lh' = lh /\ UNCHANGED <<disk, dlog, cache>>
  BY DEF write_head, cacheVars, logVars
<1>3. Copied(dlog, lh, cache, Len(lh)) /\ Distinct(lh)
  <2>1. pc[p] = "write_head"
    BY DEF write_head
  <2> QED
    BY <2>1, Zenon DEF DInv, CopyInv, HeadInv
<1>4. \A b \in Block : b \notin BlocksOf(lh) => disk[b] = cache[b]
  <2>1. \A q \in Proc : held[q] = None
    BY <1>1 DEF DInv, HeldInv, Ops, InOp
  <2> QED
    BY Zenon, <1>1, <2>1, LogConstants DEF DInv, UnwrittenIsPinned
<1>5. Recovered' = cache
  <2>1. /\ dhead' \in Seq(Block) /\ Distinct(dhead') /\ cache \in [Block -> Value]
        /\ Copied(dlog', dhead', cache, Len(dhead'))
        /\ \A b \in Block : b \notin BlocksOf(dhead') => disk'[b] = cache[b]
    BY <1>2, <1>3, <1>4 DEF IInv, TypeOK
  <2>2. \A b \in BlocksOf(dhead') : Recovered'[b] = cache[b]
    <3> SUFFICES ASSUME NEW i \in DOMAIN dhead' PROVE Recovered'[dhead'[i]] = cache[dhead'[i]]
      BY DEF BlocksOf
    <3>1. dhead'[i] \in Block /\ i \in Nat /\ i >= 1 /\ i <= Len(dhead')
      BY ONLY <2>1, i \in DOMAIN dhead'
    <3>2. Position(dhead', dhead'[i]) = i
      BY <2>1 DEF Position, Distinct
    <3>3. dhead'[i] \in BlocksOf(dhead')
      BY ONLY i \in DOMAIN dhead', Zenon DEF BlocksOf
    <3>4. Recovered'[dhead'[i]] = dlog'[Position(dhead', dhead'[i])]
      BY ONLY <3>1, <3>3, Zenon DEF Recovered
    <3>5. dlog'[i] = cache[dhead'[i]]
      BY ONLY <2>1, <3>1, i \in DOMAIN dhead' DEF Copied
    <3> QED
      BY ONLY <3>2, <3>4, <3>5
  <2>3. \A b \in Block : Recovered'[b] = cache[b]
    BY <2>1, <2>2, Zenon DEF Recovered
  <2> QED
    BY <2>1, <2>3 DEF Recovered
<1> QED
  BY <1>1, <1>2, <1>5 DEF AD!Commit, Contents

\* Every step of the log is a step of AtomicDisk, or none.
LEMMA AtomicStep ==
  ASSUME Slack, IInv, DInv, IInv', DInv', [Next]_vars
  PROVE  [AD!Next]_(AD!vars)
<1>0. TypeOK /\ (boot # "up" => \A q \in Proc : pc[q] = "idle")
  BY ONLY IInv, Zenon DEF IInv, ControlInv
<1>1. ASSUME NEW p \in Proc, Step(p) PROVE [AD!Next]_(AD!vars)
  <2>1. CASE begin_op(p)
    <3>1. /\ p \notin Ops /\ Ops' = Ops \union {p} /\ UNCHANGED <<diskVars, cache>>
          /\ boot = "up" /\ boot' = "up"
      BY <1>0, <2>1 DEF begin_op, Up, Goto, Ops, InOp, cacheVars, TypeOK
    <3>2. AD!Begin(p)
      BY <3>1, RecoveredSame DEF AD!Begin, Contents
    <3> QED
      BY <3>2 DEF AD!Next
  <2>2. ASSUME NEW b \in Block, Modify(p, b) PROVE [AD!Next]_(AD!vars)
    <3>1. /\ p \in Ops /\ Ops' = Ops /\ UNCHANGED diskVars
          /\ boot = "up" /\ boot' = "up" /\ cache' = [cache EXCEPT ![b] = opid[p]]
      BY <1>0, <2>2 DEF Modify, Up, Goto, Ops, InOp, TypeOK
    <3>2. opid[p] \in Value
      BY <1>0 DEF TypeOK
    <3>3. AD!Write(p)
      BY Zenon, <3>1, <3>2, RecoveredSame DEF AD!Write, Contents
    <3> QED
      BY <3>3 DEF AD!Next
  <2>3. CASE end_op(p)
    <3>1. /\ p \in Ops /\ Ops' = Ops \ {p} /\ UNCHANGED <<diskVars, cache>>
          /\ boot = "up" /\ boot' = "up"
      BY <1>0, <2>3 DEF end_op, Up, Goto, WakeAll, Ops, InOp, cacheVars, TypeOK
    <3>2. AD!End(p)
      BY <3>1, RecoveredSame DEF AD!End, Contents
    <3> QED
      BY <3>2 DEF AD!Next
  <2>4. CASE write_head(p)
    BY <2>4, WriteHeadCommits DEF AD!Next
  <2>5. CASE Call(p) \/ begin_op_sleep(p) \/ log_write_check(p) \/ log_write(p)
    <3>1. /\ Ops' = Ops /\ UNCHANGED <<diskVars, cache>> /\ boot = "up" /\ boot' = "up"
      BY SMTT(30), <1>0, <2>5 DEF Call, begin_op_sleep, log_write_check, log_write, Up, Goto, Ops,
         InOp, cacheVars, TypeOK
    <3> QED
      BY <3>1, Invisible
  <2>6. CASE commit(p) \/ end_op_done(p)
    <3>1. /\ Ops' = Ops /\ UNCHANGED <<diskVars, cache>> /\ boot = "up" /\ boot' = "up"
      BY SMTT(30), <1>0, <2>6 DEF commit, end_op_done, Up, Goto, WakeAll, Ops, InOp, cacheVars, TypeOK
    <3> QED
      BY <3>1, Invisible
  <2>7. CASE write_log(p)
    <3>1. /\ Ops' = Ops /\ UNCHANGED <<disk, dhead, cache>> /\ boot = "up" /\ boot' = "up"
      BY <1>0, <2>7 DEF write_log, Up, Goto, Ops, InOp, cacheVars, TypeOK
    <3>2. dhead = << >>
      BY <2>7, <3>1, OneCommitter DEF write_log, Committer, DInv, HeadInv
    <3>3. Recovered' = Recovered
      BY <3>1, <3>2 DEF Recovered, BlocksOf
    <3> QED
      BY <3>1, <3>3 DEF Contents, AD!vars
  <2>8. CASE install_trans(p)
    <3>1. /\ Ops' = Ops /\ UNCHANGED <<dlog, dhead, lh>> /\ boot = "up" /\ boot' = "up"
          /\ InstallBlock /\ pc[p] = "install_trans"
      BY <1>0, <2>8 DEF install_trans, Up, Goto, Ops, InOp, logVars, TypeOK
    <3>2. cache' = cache
      <4>1. HeadInv /\ Copied(dlog, lh, disk, tail) /\ Copied(dlog, lh, cache, Len(lh))
        BY <3>1, Zenon DEF DInv, CopyInv
      <4> QED
        BY ONLY Slack, IInv, <3>1, <4>1, InstallCopies
    <3>3. Recovered' = Recovered
      BY Zenon, <3>1, InstallInvisible DEF DInv, HeadInv
    <3> QED
      BY <3>1, <3>2, <3>3 DEF Contents, AD!vars
  <2>9. CASE erase(p)
    <3>1. /\ Ops' = Ops /\ dhead' = << >> /\ UNCHANGED <<disk, dlog, cache>>
          /\ boot = "up" /\ boot' = "up" /\ pc[p] = "erase"
      BY <1>0, <2>9 DEF erase, Up, Goto, Ops, InOp, cacheVars, TypeOK
    <3>2. Recovered' = Recovered
      BY Zenon, <3>1, EraseInvisible DEF DInv, HeadInv, CopyInv
    <3> QED
      BY <3>1, <3>2 DEF Contents, AD!vars
  <2> QED
    BY ONLY <1>1, <2>1, <2>2, <2>3, <2>4, <2>5, <2>6, <2>7, <2>8, <2>9 DEF Step
<1>2. CASE Crash
  <2>1. Recovered' = Recovered /\ Ops' = {} /\ boot' = "read_head"
    BY <1>2, RecoveredSame DEF Crash, Ops, InOp
  <2> QED
    BY <2>1 DEF AD!Crash, AD!Next, Contents
<1>3. CASE read_head
  <2>1. Recovered' = Recovered /\ Ops' = Ops /\ boot # "up" /\ boot' # "up"
    BY <1>3, RecoveredSame DEF read_head, Ops
  <2> QED
    BY <2>1 DEF Contents, AD!vars
<1>4. CASE recover_install
  <2>1. /\ Ops' = Ops /\ UNCHANGED <<dlog, dhead>> /\ boot = "install_trans"
        /\ boot' # "up" /\ InstallBlock
    BY <1>4 DEF recover_install, Ops
  <2>2. Recovered' = Recovered
    BY <2>1, InstallInvisible DEF DInv, HeadInv
  <2> QED
    BY <2>1, <2>2 DEF Contents, AD!vars
<1>5. CASE recover_erase
  <2>1. /\ Ops' = Ops /\ dhead' = << >> /\ UNCHANGED <<disk, dlog, cache>>
        /\ boot = "erase" /\ boot' = "up"
    BY <1>5 DEF recover_erase, Ops, cacheVars
  <2>2. Recovered = disk /\ Recovered' = disk /\ cache = disk
    BY Zenon, <2>1, EraseInvisible DEF DInv, HeadInv, CopyInv
  <2> QED
    BY <2>1, <2>2 DEF Contents, AD!vars
<1>6. CASE UNCHANGED vars
  <2>1. Recovered' = Recovered /\ Ops' = Ops /\ boot' = boot /\ cache' = cache
    BY <1>6, RecoveredSame DEF vars, cacheVars, Ops
  <2> QED
    BY <2>1 DEF Contents, AD!vars
<1> QED
  BY ONLY <1>1, <1>2, <1>3, <1>4, <1>5, <1>6, [Next]_vars DEF Next, Recover

\* log.c gives the rest of the file system an atomic disk: calls write it, all
\* of it becomes durable in one step and only between calls, and a crash goes
\* back to what was durable.
THEOREM Atomicity == Slack => (Spec => ImplementsAtomicDisk)
<1> SUFFICES ASSUME Slack PROVE Spec => ImplementsAtomicDisk
  OBVIOUS
<1>1. Init => AD!Init
  BY InitAtomic
<1>2. (IInv /\ DInv) /\ (IInv /\ DInv)' /\ [Next]_vars => [AD!Next]_(AD!vars)
  <2> SUFFICES ASSUME IInv, DInv, IInv', DInv', [Next]_vars PROVE [AD!Next]_(AD!vars)
    OBVIOUS
  <2> QED
    BY AtomicStep
<1> QED
  BY <1>1, <1>2, Durability, PTL DEF Spec, ImplementsAtomicDisk, AD!Spec
=============================================================================
