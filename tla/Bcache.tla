------------------------------- MODULE Bcache -------------------------------
(***************************************************************************)
(* The buffer cache (bio.c) on the disk driver (ide.c), with the sleep     *)
(* locks (sleeplock.c) of the buffers.  What runs under one spinlock,      *)
(* bcache.lock, idelock or the lock inside a sleep lock, is one step;      *)
(* sleep() gives that lock up in the same step, since it holds ptable.lock *)
(* by then.  The callers are the file system and the log: they take one or *)
(* more blocks, change them, mark them dirty (log_write()) or write them.  *)
(***************************************************************************)
EXTENDS Integers, Sequences, FiniteSets, SequencesExt

CONSTANTS Proc, Block, NBUF,
          Scripts,    \* what a caller does: sequences of calls
          MaxDirty,   \* blocks the log may have pinned
          MaxOps,     \* bound: scripts run
          MaxKills    \* bound: wakeups by kill()

ASSUME BufAssumption == NBUF \in Nat \ {0}

VARIABLES buf,     \* the buffers: blockno, refcnt, flags, data and sleep lock
          order,   \* the list from bcache.head.next to bcache.head.prev
          idequeue,
          cmd,     \* what the controller is doing
          disk,
          todo,    \* calls and steps the process has still to make
          has,     \* the buffers a process holds, by block
          chan,    \* what the process sleeps on
          panic, nops, nkills

vars == <<buf, order, idequeue, cmd, disk, todo, has, chan, panic, nops, nkills>>

Buf == 1 .. NBUF
None == "none"
Idle == [blk |-> 0, op |-> None, data |-> None]

At(p, op) == chan[p] = <<>> /\ todo[p] # <<>> /\ Head(todo[p])[1] = op
Arg(p) == Head(todo[p])[2]
Then(p, is) == todo' = [todo EXCEPT ![p] = is \o Tail(@)]

\* wakeup() of everyone on channel c; the others stay as they are.
wakeup(c) == chan' = [p \in Proc |-> IF chan[p] = c THEN <<>> ELSE chan[p]]
-----------------------------------------------------------------------------
(* sleeplock.c                                                               *)

\* One look at the lock: taken, or asleep until it is released.
acquiresleep(p) ==
  LET b == Arg(p) IN
  /\ At(p, "acquiresleep")
  /\ IF buf[b].holder # None
     THEN chan' = [chan EXCEPT ![p] = <<"lock", b>>] /\ UNCHANGED <<buf, todo>>
     ELSE buf' = [buf EXCEPT ![b].holder = p] /\ Then(p, <<>>) /\ UNCHANGED chan
  /\ UNCHANGED <<order, idequeue, cmd, disk, has, panic, nops, nkills>>

\* Mutant of releasesleep: nobody is woken.
releasesleep_quiet(b) == buf' = [buf EXCEPT ![b].holder = None] /\ UNCHANGED chan

releasesleep(b) == buf' = [buf EXCEPT ![b].holder = None] /\ wakeup(<<"lock", b>>)

holdingsleep(p, b) == buf[b].holder = p
-----------------------------------------------------------------------------
(* ide.c                                                                     *)

\* The command for the buffer as bs has it; the data goes out at once.
idestart(bs, b) ==
  cmd' = [blk |-> bs[b].blockno, op |-> IF bs[b].dirty THEN "write" ELSE "read",
          data |-> IF bs[b].dirty THEN bs[b].data ELSE None]

\* The request is queued, and the process sleeps until it is done.
iderw(p) ==
  LET b == Arg(p) IN
  /\ At(p, "iderw")
  /\ idequeue' = Append(idequeue, b)
  /\ IF idequeue = <<>> THEN idestart(buf, b) ELSE UNCHANGED cmd
  /\ panic' = (panic \/ ~holdingsleep(p, b) \/ (buf[b].valid /\ ~buf[b].dirty))
  /\ chan' = [chan EXCEPT ![p] = <<"disk", b>>]
  /\ Then(p, <<<<"idewaiting", b>>>>)
  /\ UNCHANGED <<buf, order, disk, has, nops, nkills>>

\* The loop of iderw() after sleep().
idewaiting(p) ==
  LET b == Arg(p) IN
  /\ At(p, "idewaiting")
  /\ IF buf[b].valid /\ ~buf[b].dirty THEN Then(p, <<>>) /\ UNCHANGED chan
     ELSE chan' = [chan EXCEPT ![p] = <<"disk", b>>] /\ UNCHANGED todo
  /\ UNCHANGED <<buf, order, idequeue, cmd, disk, has, panic, nops, nkills>>

\* The controller has done what it was told: a write is on the disk, and it
\* raises its interrupt.
complete ==
  /\ cmd.op \in {"read", "write"}
  /\ disk' = IF cmd.op = "write" THEN [disk EXCEPT ![cmd.blk] = cmd.data] ELSE disk
  /\ cmd' = [cmd EXCEPT !.op = "done", !.data = disk[cmd.blk]]
  /\ UNCHANGED <<buf, order, idequeue, todo, has, chan, panic, nops, nkills>>

ideintr ==
  LET b == Head(idequeue)
      bs == [buf EXCEPT ![b].data = IF buf[b].dirty THEN @ ELSE cmd.data,
                        ![b].valid = TRUE, ![b].dirty = FALSE] IN
  /\ cmd.op = "done"
  /\ buf' = bs /\ idequeue' = Tail(idequeue) /\ wakeup(<<"disk", b>>)
  /\ IF Tail(idequeue) # <<>> THEN idestart(bs, Head(Tail(idequeue))) ELSE cmd' = Idle
  /\ UNCHANGED <<order, disk, todo, has, panic, nops, nkills>>
-----------------------------------------------------------------------------
(* bio.c                                                                     *)

\* The first buffer of the sequence that is in bs, 0 when there is none.
FirstOf(s, bs) ==
  IF Range(s) \intersect bs = {} THEN 0
  ELSE s[CHOOSE i \in DOMAIN s : s[i] \in bs /\ \A j \in 1 .. i - 1 : s[j] \notin bs]

Cached(blk) == FirstOf(order, {b \in Buf : buf[b].blockno = blk})

\* Mutant of Unused: a buffer the log has modified is recycled.
Unused_dirty == FirstOf(Reverse(order), {b \in Buf : buf[b].refcnt = 0})

Unused == FirstOf(Reverse(order), {b \in Buf : buf[b].refcnt = 0 /\ ~buf[b].dirty})

Recycled(blk) == [blockno |-> blk, refcnt |-> 1, valid |-> FALSE, dirty |-> FALSE,
                  data |-> buf[Unused].data, holder |-> buf[Unused].holder]

bget(p) ==
  LET blk == Arg(p)
      hit == Cached(blk)
      b == IF hit # 0 THEN hit ELSE Unused IN
  /\ At(p, "bget")
  /\ IF b = 0 THEN panic' = TRUE /\ UNCHANGED <<buf, todo>>
     ELSE /\ buf' = [buf EXCEPT ![b] = IF hit # 0 THEN [@ EXCEPT !.refcnt = @ + 1]
                                       ELSE Recycled(blk)]
          /\ Then(p, <<<<"acquiresleep", b>>, <<"bread", b>>>>) /\ UNCHANGED panic
  /\ UNCHANGED <<order, idequeue, cmd, disk, has, chan, nops, nkills>>

\* bread() after bget(): the contents are read if they are not there, and the
\* caller has the buffer.
bread(p) ==
  LET b == Arg(p) IN
  /\ At(p, "bread")
  /\ IF buf[b].valid
     THEN has' = [has EXCEPT ![p] = @ \union {b}] /\ Then(p, <<>>)
     ELSE Then(p, <<<<"iderw", b>>, <<"have", b>>>>) /\ UNCHANGED has
  /\ UNCHANGED <<buf, order, idequeue, cmd, disk, chan, panic, nops, nkills>>

\* The return from bread() after iderw().
have(p) ==
  /\ At(p, "have")
  /\ has' = [has EXCEPT ![p] = @ \union {Arg(p)}] /\ Then(p, <<>>)
  /\ UNCHANGED <<buf, order, idequeue, cmd, disk, chan, panic, nops, nkills>>

Held(p) == CHOOSE b \in has[p] : buf[b].blockno = Arg(p)

\* Mutant of bwrite: the buffer is not marked dirty.
bwrite_clean(p) ==
  LET b == Held(p) IN
  /\ At(p, "bwrite")
  /\ panic' = (panic \/ ~holdingsleep(p, b))
  /\ Then(p, <<<<"iderw", b>>>>)
  /\ UNCHANGED <<buf, order, idequeue, cmd, disk, has, chan, nops, nkills>>

bwrite(p) ==
  LET b == Held(p) IN
  /\ At(p, "bwrite")
  /\ panic' = (panic \/ ~holdingsleep(p, b))
  /\ buf' = [buf EXCEPT ![b].dirty = TRUE]
  /\ Then(p, <<<<"iderw", b>>>>)
  /\ UNCHANGED <<order, idequeue, cmd, disk, has, chan, nops, nkills>>

\* brelse() lets go of the sleep lock first and of the buffer then.
brelse(p) ==
  LET b == Held(p) IN
  /\ At(p, "brelse")
  /\ panic' = (panic \/ ~holdingsleep(p, b))
  /\ releasesleep(b)
  /\ has' = [has EXCEPT ![p] = @ \ {b}]
  /\ Then(p, <<<<"bput", b>>>>)
  /\ UNCHANGED <<order, idequeue, cmd, disk, nops, nkills>>

bput(p) ==
  LET b == Arg(p) IN
  /\ At(p, "bput")
  /\ buf' = [buf EXCEPT ![b].refcnt = @ - 1]
  /\ order' = IF buf[b].refcnt = 1 THEN <<b>> \o Remove(order, b) ELSE order
  /\ Then(p, <<>>)
  /\ UNCHANGED <<idequeue, cmd, disk, has, chan, panic, nops, nkills>>
-----------------------------------------------------------------------------
(* The callers, and kill()                                                   *)

\* New contents, the process's own, written into the buffer it has.
change(p) ==
  /\ At(p, "change")
  /\ buf' = [buf EXCEPT ![Held(p)].data = p]
  /\ Then(p, <<>>)
  /\ UNCHANGED <<order, idequeue, cmd, disk, has, chan, panic, nops, nkills>>

\* log_write(): begin_op() has reserved room for the block.
log_write(p) ==
  /\ At(p, "log_write")
  /\ buf' = [buf EXCEPT ![Held(p)].dirty = TRUE]
  /\ Then(p, <<>>)
  /\ UNCHANGED <<order, idequeue, cmd, disk, has, chan, panic, nops, nkills>>

\* The blocks some process will make dirty, or that are dirty already.
Pinned == {buf[b].blockno : b \in {c \in Buf : buf[c].dirty}}
          \union {blk \in Block : \E p \in Proc : <<"log_write", blk>> \in Range(todo[p])}

Logs(s) == {blk \in Block : <<"log_write", blk>> \in Range(s)}

start(p) ==
  /\ todo[p] = <<>> /\ nops < MaxOps /\ nops' = nops + 1
  /\ \E s \in Scripts : /\ Logs(s) # {} => Cardinality(Pinned \union Logs(s)) <= MaxDirty
                        /\ todo' = [todo EXCEPT ![p] = s]
  /\ UNCHANGED <<buf, order, idequeue, cmd, disk, has, chan, panic, nkills>>

\* kill() makes a sleeping process runnable, whatever it sleeps on.
kill(p) ==
  /\ chan[p] # <<>> /\ nkills < MaxKills /\ nkills' = nkills + 1
  /\ chan' = [chan EXCEPT ![p] = <<>>]
  /\ UNCHANGED <<buf, order, idequeue, cmd, disk, todo, has, panic, nops>>
-----------------------------------------------------------------------------
\* binit(): the buffers, last first, hold no block yet.
Init ==
  /\ buf = [b \in Buf |-> [blockno |-> 0, refcnt |-> 0, valid |-> FALSE, dirty |-> FALSE,
                           data |-> None, holder |-> None]]
  /\ order = [i \in Buf |-> NBUF + 1 - i]
  /\ idequeue = <<>> /\ cmd = Idle
  /\ disk = [blk \in Block |-> None]
  /\ todo = [p \in Proc |-> <<>>] /\ has = [p \in Proc |-> {}] /\ chan = [p \in Proc |-> <<>>]
  /\ panic = FALSE /\ nops = 0 /\ nkills = 0

Step(p) ==
  \/ acquiresleep(p) \/ iderw(p) \/ idewaiting(p) \/ bget(p) \/ bread(p) \/ have(p)
  \/ bwrite(p) \/ brelse(p) \/ bput(p) \/ change(p) \/ log_write(p)

Next == \E p \in Proc : start(p) \/ Step(p) \/ kill(p)
        \/ complete \/ ideintr

\* Every process that can run does, and the disk answers.
Spec == Init /\ [][Next]_vars
        /\ (\A p \in Proc : WF_vars(Step(p))) /\ WF_vars(complete) /\ WF_vars(ideintr)
-----------------------------------------------------------------------------
\* Every variable keeps its type.
TypeOK ==
  /\ \A b \in Buf :
       /\ buf[b].blockno \in {0} \union Block /\ buf[b].refcnt \in 0 .. Cardinality(Proc)
       /\ buf[b].valid \in BOOLEAN /\ buf[b].dirty \in BOOLEAN
       /\ buf[b].data \in Proc \union {None} /\ buf[b].holder \in Proc \union {None}
  /\ DOMAIN order = Buf /\ Range(order) = Buf
  /\ Range(idequeue) \subseteq Buf /\ Len(idequeue) <= Cardinality(Proc)
  /\ disk \in [Block -> Proc \union {None}]
  /\ has \in [Proc -> SUBSET Buf]

\* The kernel never panics: with a buffer for every block a caller can have at
\* a time and for every block the log can pin, bget() always finds one, and
\* iderw(), bwrite() and brelse() are only called with the buffer's lock held
\* and something to do.  Every variable keeps its type.
NoPanic == TypeOK /\ ~panic

\* The contents of a block: those of its buffer when it has one that is valid.
Contents ==
  [blk \in Block |->
     IF \E b \in Buf : buf[b].blockno = blk /\ buf[b].valid
     THEN buf[CHOOSE b \in Buf : buf[b].blockno = blk /\ buf[b].valid].data
     ELSE disk[blk]]

Store == INSTANCE BlockStore WITH
  Value <- Proc, store <- Contents, InitStore <- [blk \in Block |-> None],
  view <- [p \in Proc |-> [blk \in {buf[b].blockno : b \in has[p]} |->
             buf[CHOOSE b \in has[p] : buf[b].blockno = blk].data]]

\* The cache implements its promise.  No two processes have one block at once,
\* each gets the contents the last one left, and no recycled buffer, late
\* interrupt or write under way ever changes what a block contains.
IsBlockStore == Store!Spec

\* Every call returns: no wakeup is lost between bcache.lock, the sleep locks,
\* idelock and the interrupt, also when kill() wakes a process too early.
CallsReturn == \A p \in Proc : (todo[p] # <<>>) ~> (todo[p] = <<>>)
=============================================================================
