----------------------------- MODULE LogProofs ------------------------------
(***************************************************************************)
(* Proofs about the log, for any set of processes and blocks and any       *)
(* number of calls and crashes: the admission control of begin_op() keeps  *)
(* log_write() and end_op() from panicking, provided calls leave a little  *)
(* of what begin_op() reserves for them; and nobody sleeps in begin_op()   *)
(* without somebody left to wake it.                                       *)
(*                                                                         *)
(* The admission argument counts reservations.  A call between begin_op()  *)
(* and end_op() has MAXOPBLOCKS tokens and spends one for each block it    *)
(* finds logged, by itself or by another call.  The blocks in the log and  *)
(* the tokens left never exceed LOGSIZE.                                   *)
(***************************************************************************)
EXTENDS Log, FiniteSetTheorems, TLAPS

\* What a call leaves of its reservation makes up for the header, which takes
\* one of the NLog blocks, and for the order of the tests of log_write(), which
\* refuses a block that is in a full log already.  With the constants of
\* param.h a call may write 8 of its 10 blocks.
Slack ==
  /\ OpBlocks < MAXOPBLOCKS
  /\ LOGSIZE - (MAXOPBLOCKS - OpBlocks) <= NLog - 2

\* The tokens of the calls in S, when w[p] is what p has written and B what is
\* in the log.
TokensOf(S, w, B) ==
  {t \in S \X (1 .. MAXOPBLOCKS) : t[2] > Cardinality(w[t[1]] \cap B)}

Tokens == TokensOf(Ops, written, BlocksOf(lh))
-----------------------------------------------------------------------------
(* Lemmas about tokens *)

\* A call has no more than MAXOPBLOCKS tokens.
LEMMA TokensBounded ==
  ASSUME NEW S, IsFiniteSet(S), NEW w, NEW B
  PROVE  /\ IsFiniteSet(TokensOf(S, w, B))
         /\ Cardinality(TokensOf(S, w, B)) \in Nat
         /\ Cardinality(TokensOf(S, w, B)) <= Cardinality(S) * MAXOPBLOCKS
<1> DEFINE All == S \X (1 .. MAXOPBLOCKS)
<1>1. IsFiniteSet(1 .. MAXOPBLOCKS) /\ Cardinality(1 .. MAXOPBLOCKS) = MAXOPBLOCKS
  BY FS_Interval, LogConstants
<1>2. IsFiniteSet(All) /\ Cardinality(All) = Cardinality(S) * MAXOPBLOCKS
  BY ZenonT(60), <1>1, FS_Product
<1>3. TokensOf(S, w, B) \in SUBSET All
  BY DEF TokensOf
<1> HIDE DEF All
<1> QED
  BY <1>2, <1>3, FS_Subset, FS_CardinalityType

\* Calls that end, write more blocks or see more blocks logged give up tokens.
LEMMA TokensShrink ==
  ASSUME NEW T, IsFiniteSet(T), NEW S \in SUBSET T, NEW v, NEW w, NEW B,
         NEW C, B \subseteq C,
         \A p \in S : IsFiniteSet(v[p]) /\ w[p] \subseteq v[p]
  PROVE  Cardinality(TokensOf(S, v, C)) <= Cardinality(TokensOf(T, w, B))
<1>1. ASSUME NEW t \in TokensOf(S, v, C) PROVE t \in TokensOf(T, w, B)
  <2>1. t[1] \in S /\ t \in T \X (1 .. MAXOPBLOCKS)
    BY DEF TokensOf
  <2>2. IsFiniteSet(v[t[1]] \cap C)
    BY ZenonT(60), <2>1, FS_Intersection
  <2>3. w[t[1]] \cap B \in SUBSET (v[t[1]] \cap C)
    BY <2>1
  <2>4. /\ Cardinality(w[t[1]] \cap B) <= Cardinality(v[t[1]] \cap C)
        /\ Cardinality(w[t[1]] \cap B) \in Nat /\ Cardinality(v[t[1]] \cap C) \in Nat
    BY <2>2, <2>3, FS_Subset, FS_CardinalityType
  <2>5. t[2] \in Nat /\ t[2] > Cardinality(v[t[1]] \cap C)
    BY <2>1, LogConstants DEF TokensOf
  <2> QED
    BY <2>1, <2>4, <2>5 DEF TokensOf
<1> QED
  BY <1>1, TokensBounded, FS_Subset

\* A call that logs a block of its own for the first time spends a token.
LEMMA TokensSpent ==
  ASSUME NEW S, IsFiniteSet(S), NEW w, NEW B, NEW p \in S, NEW b \in w[p],
         b \notin B, \A q \in S : IsFiniteSet(w[q]),
         Cardinality(w[p]) <= MAXOPBLOCKS
  PROVE  Cardinality(TokensOf(S, w, B \union {b})) + 1 <= Cardinality(TokensOf(S, w, B))
<1> DEFINE k == Cardinality(w[p] \cap B)
           t == <<p, k + 1>>
           New == TokensOf(S, w, B \union {b})
           Old == TokensOf(S, w, B)
<1>1. /\ IsFiniteSet(w[p] \cap B) /\ k \in Nat
      /\ Cardinality((w[p] \cap B) \union {b}) = k + 1
  BY ZenonT(60), FS_Intersection, FS_AddElement, FS_CardinalityType
<1>2. w[p] \cap (B \union {b}) = (w[p] \cap B) \union {b}
  OBVIOUS
<1>3. k + 1 <= Cardinality(w[p])
  <2>1. (w[p] \cap B) \union {b} \in SUBSET w[p]
    OBVIOUS
  <2>2. Cardinality((w[p] \cap B) \union {b}) <= Cardinality(w[p])
    BY <2>1, FS_Subset
  <2> QED
    BY <1>1, <2>2
<1>4. Cardinality(w[p]) \in Nat
  BY FS_CardinalityType
<1>5. t \in Old
  <2>1. k + 1 \in 1 .. MAXOPBLOCKS /\ k + 1 > k
    <3> HIDE DEF k
    <3> QED
      BY <1>1, <1>3, <1>4, LogConstants
  <2> QED
    BY <2>1 DEF TokensOf
<1>6. t \notin New
  BY <1>1, <1>2 DEF TokensOf
<1>7. ASSUME NEW u \in New PROVE u \in Old
  <2>1. u[1] \in S /\ u \in S \X (1 .. MAXOPBLOCKS)
    BY DEF TokensOf
  <2>2. w[u[1]] \cap B \in SUBSET (w[u[1]] \cap (B \union {b}))
    OBVIOUS
  <2>3. IsFiniteSet(w[u[1]] \cap (B \union {b}))
    BY <2>1, FS_Intersection
  <2>4. /\ Cardinality(w[u[1]] \cap B) <= Cardinality(w[u[1]] \cap (B \union {b}))
        /\ Cardinality(w[u[1]] \cap B) \in Nat
        /\ Cardinality(w[u[1]] \cap (B \union {b})) \in Nat
    BY <2>2, <2>3, FS_Subset, FS_CardinalityType
  <2>5. u[2] \in Nat /\ u[2] > Cardinality(w[u[1]] \cap (B \union {b}))
    BY <2>1, LogConstants DEF TokensOf
  <2> QED
    BY <2>1, <2>4, <2>5 DEF TokensOf
<1>8. IsFiniteSet(Old) /\ Cardinality(Old) \in Nat
  BY TokensBounded
<1> HIDE DEF Old, New, t
<1>9. New \in SUBSET (Old \ {t})
  BY <1>6, <1>7
<1>10. IsFiniteSet(Old \ {t}) /\ Cardinality(Old \ {t}) = Cardinality(Old) - 1
  BY <1>5, <1>8, FS_RemoveElement
<1>11. Cardinality(New) <= Cardinality(Old \ {t}) /\ Cardinality(New) \in Nat
  BY <1>9, <1>10, FS_Subset, FS_CardinalityType
<1> QED
  BY <1>8, <1>10, <1>11 DEF Old, New

\* A call keeps the tokens for the blocks it never writes.
LEMMA TokensLeft ==
  ASSUME NEW S, IsFiniteSet(S), NEW w, NEW B, NEW p \in S, IsFiniteSet(w[p]),
         Cardinality(w[p]) <= OpBlocks, OpBlocks < MAXOPBLOCKS
  PROVE  MAXOPBLOCKS - OpBlocks <= Cardinality(TokensOf(S, w, B))
<1> DEFINE Left == {p} \X ((OpBlocks + 1) .. MAXOPBLOCKS)
<1>1. /\ IsFiniteSet((OpBlocks + 1) .. MAXOPBLOCKS)
      /\ Cardinality((OpBlocks + 1) .. MAXOPBLOCKS) = MAXOPBLOCKS - OpBlocks
  BY FS_Interval, LogConstants
<1>2. IsFiniteSet({p}) /\ Cardinality({p}) = 1
  BY ZenonT(60), FS_Singleton
<1>3. Cardinality(Left) = 1 * (MAXOPBLOCKS - OpBlocks)
  BY ZenonT(60), <1>1, <1>2, FS_Product
<1>4. /\ Cardinality(w[p] \cap B) <= OpBlocks
      /\ Cardinality(w[p] \cap B) \in Nat
  <2>1. /\ IsFiniteSet(w[p] \cap B)
        /\ Cardinality(w[p] \cap B) <= Cardinality(w[p])
    BY FS_Intersection
  <2>2. Cardinality(w[p]) \in Nat /\ Cardinality(w[p] \cap B) \in Nat
    BY <2>1, FS_CardinalityType
  <2> QED
    BY <2>1, <2>2, LogConstants
<1>5. ASSUME NEW t \in Left PROVE t \in TokensOf(S, w, B)
  <2>1. PICK i \in (OpBlocks + 1) .. MAXOPBLOCKS : t = <<p, i>>
    OBVIOUS
  <2>2. i \in 1 .. MAXOPBLOCKS /\ i > Cardinality(w[p] \cap B)
    BY <1>4, LogConstants
  <2> QED
    BY ZenonT(60), <2>1, <2>2 DEF TokensOf
<1> HIDE DEF Left
<1>6. Cardinality(Left) <= Cardinality(TokensOf(S, w, B))
  BY <1>5, TokensBounded, FS_Subset
<1> QED
  BY <1>3, <1>6, LogConstants
-----------------------------------------------------------------------------
(* The inductive invariant *)

\* log.outstanding counts the calls, a commit excludes them, and there is one
\* committer at a time; before initlog() has finished there is neither.
ControlInv ==
  /\ outstanding = Cardinality(Ops)
  /\ committing => Ops = {}
  /\ \A p \in Proc : pc[p] \in Committer => committing
  /\ \A p, q \in Proc : pc[p] \in Committer /\ pc[q] \in Committer => p = q
  /\ boot # "up" => ~committing /\ \A p \in Proc : pc[p] = "idle"

\* The log is empty when nobody uses it.
QuietInv ==
  /\ boot = "up" /\ outstanding = 0 /\ ~committing => lh = << >>
  /\ \A p \in Proc : pc[p] = "done" => lh = << >>

\* A call writes no more than OpBlocks blocks, and logs what it has written.
CallInv ==
  \A p \in Proc :
    /\ IsFiniteSet(written[p]) /\ Cardinality(written[p]) <= OpBlocks
    /\ pc[p] \in {"log_write", "append"} => held[p] \in written[p]

\* The log and the tokens fit into LOGSIZE; the log in memory and the header on
\* the disk leave room for what no call writes.
SpaceInv ==
  /\ Len(lh) + Cardinality(Tokens) <= LOGSIZE
  /\ Len(lh) + (MAXOPBLOCKS - OpBlocks) <= LOGSIZE
  /\ Len(dhead) + (MAXOPBLOCKS - OpBlocks) <= LOGSIZE

IInv ==
  /\ TypeOK /\ ControlInv /\ QuietInv /\ CallInv /\ SpaceInv
  /\ SleeperHasWaker /\ NoPanic

\* There are finitely many calls in progress, as there are processes.
LEMMA OpsFinite ==
  /\ IsFiniteSet(Ops) /\ Cardinality(Ops) \in Nat
  /\ IsFiniteSet(Ops') /\ Cardinality(Ops') \in Nat
<1>1. Ops \in SUBSET Proc /\ Ops' \in SUBSET Proc
  BY DEF Ops
<1> QED
  BY <1>1, FS_Subset, FS_CardinalityType, LogConstants

\* A step that admits no call and logs no block keeps within LOGSIZE.
LEMMA SpaceKept ==
  ASSUME TypeOK, SpaceInv, CallInv', Ops' \subseteq Ops, lh' = lh,
         dhead' \in {dhead, lh, << >>}, \A p \in Ops' : written[p] \subseteq written'[p]
  PROVE  SpaceInv'
<1>1. Cardinality(Tokens') <= Cardinality(Tokens)
  <2>1. \A p \in Ops' : IsFiniteSet(written'[p])
    BY DEF CallInv, Ops
  <2>2. BlocksOf(lh)' = BlocksOf(lh)
    BY DEF BlocksOf
  <2>3. Tokens' = TokensOf(Ops', written', BlocksOf(lh))
    BY <2>2 DEF Tokens
  <2>4. Ops' \in SUBSET Ops
    OBVIOUS
  <2> QED
    BY <2>1, <2>3, <2>4, OpsFinite, TokensShrink DEF Tokens
<1>2. Cardinality(Tokens) \in Nat /\ Cardinality(Tokens') \in Nat
  BY OpsFinite, TokensBounded DEF Tokens
<1>3. Len(lh) \in Nat /\ Len(dhead) \in Nat /\ Len(<< >>) = 0
  BY DEF TypeOK
<1> QED
  BY <1>1, <1>2, <1>3, LogConstants DEF SpaceInv

\* So does one after which no call is in progress.
LEMMA SpaceIdle ==
  ASSUME TypeOK, SpaceInv, Ops' = {}, lh' \in {lh, dhead, << >>},
         dhead' \in {dhead, << >>}, OpBlocks < MAXOPBLOCKS
  PROVE  SpaceInv'
<1>1. Tokens' = {}
  BY DEF Tokens, TokensOf
<1>2. Cardinality(Tokens') = 0
  BY <1>1, FS_EmptySet
<1>3. Len(lh) \in Nat /\ Len(dhead) \in Nat /\ Len(<< >>) = 0
  BY DEF TypeOK
<1> QED
  BY <1>2, <1>3, LogConstants DEF SpaceInv
-----------------------------------------------------------------------------
(* The steps of a call and of the commit it may end with *)

\* A call that starts has written nothing yet.
LEMMA CallKeeps ==
  ASSUME Slack, IInv, NEW p \in Proc, Call(p)
  PROVE  IInv'
<1> USE LogConstants DEF IInv, Slack, Up, Goto, diskVars, cacheVars, logVars,
                        procVars, countVars, Call
<1>1. Ops' = Ops
  BY DEF Ops, InOp, TypeOK
<1>2. TypeOK'
  BY DEF TypeOK, Label, Value
<1>3. CallInv'
  BY FS_EmptySet DEF CallInv, TypeOK
<1>4. SpaceInv'
  BY <1>1, <1>3, SpaceKept DEF Ops, TypeOK, InOp
<1>5. ControlInv' /\ QuietInv' /\ SleeperHasWaker' /\ NoPanic'
  BY <1>1 DEF ControlInv, QuietInv, SleeperHasWaker, NoPanic, TypeOK, Committer
<1> QED
  BY <1>2, <1>3, <1>4, <1>5

\* A call waits only while another is admitted, or during a commit: an idle log
\* is empty, and has room for one call.
LEMMA BeginOpSleepKeeps ==
  ASSUME Slack, IInv, NEW p \in Proc, begin_op_sleep(p)
  PROVE  IInv'
<1> USE LogConstants DEF IInv, Slack, Up, Goto, diskVars, cacheVars, logVars,
                        procVars, countVars, begin_op_sleep
<1>1. Ops' = Ops
  BY DEF Ops, InOp, TypeOK
<1>2. TypeOK'
  BY DEF TypeOK, Label, InOp, Committer
<1>3. CallInv'
  BY DEF CallInv, TypeOK
<1>4. SpaceInv'
  BY <1>1, <1>3, SpaceKept DEF Ops, TypeOK, InOp
<1>5. ControlInv' /\ QuietInv' /\ SleeperHasWaker' /\ NoPanic'
  BY SMTT(60), <1>1, OpsFinite DEF ControlInv, QuietInv, SleeperHasWaker, NoPanic, TypeOK,
                Committer, MustWait
<1> QED
  BY <1>2, <1>3, <1>4, <1>5

\* A call is admitted only if the tokens of all calls in progress still fit.
LEMMA BeginOpKeeps ==
  ASSUME Slack, IInv, NEW p \in Proc, begin_op(p)
  PROVE  IInv'
<1> USE LogConstants DEF IInv, Slack, Up, Goto, diskVars, cacheVars, logVars,
                        procVars, countVars, begin_op
<1>1. Ops' = Ops \union {p} /\ p \notin Ops
  BY SMTT(60) DEF Ops, InOp, TypeOK
<1>2. Cardinality(Ops') = outstanding + 1
  BY <1>1, OpsFinite, FS_AddElement DEF ControlInv
<1>3. TypeOK'
  BY DEF TypeOK, Label, InOp
<1>4. CallInv'
  BY DEF CallInv, TypeOK
<1>5. SpaceInv'
  <2>1. /\ Cardinality(Tokens') \in Nat
        /\ Cardinality(Tokens') <= (outstanding + 1) * MAXOPBLOCKS
    BY <1>2, OpsFinite, TokensBounded DEF Tokens
  <2>2. Len(lh) + (outstanding + 1) * MAXOPBLOCKS <= LOGSIZE
    BY DEF MustWait, TypeOK
  <2>3. (outstanding + 1) * MAXOPBLOCKS \in Nat /\ Len(lh) \in Nat
    BY DEF TypeOK
  <2> QED
    BY SMTT(60), <2>1, <2>2, <2>3 DEF SpaceInv
<1>6. ControlInv' /\ QuietInv' /\ SleeperHasWaker' /\ NoPanic'
  BY SMTT(60), <1>2 DEF ControlInv, QuietInv, SleeperHasWaker, NoPanic, TypeOK, Committer,
              MustWait
<1> QED
  BY <1>3, <1>4, <1>5, <1>6

\* A call modifies a block, within what it may write.
LEMMA ModifyKeeps ==
  ASSUME Slack, IInv, NEW p \in Proc, NEW b \in Block, Modify(p, b)
  PROVE  IInv'
<1> USE LogConstants DEF IInv, Slack, Up, Goto, diskVars, cacheVars, logVars,
                        procVars, countVars, Modify
<1>1. Ops' = Ops
  BY DEF Ops, InOp, TypeOK
<1>2. TypeOK'
  BY DEF TypeOK, Label, InOp
<1>3. CallInv'
  <2>1. /\ IsFiniteSet(written[p] \union {b})
        /\ Cardinality(written[p] \union {b}) <= OpBlocks
    <3>1. IsFiniteSet(written[p]) /\ Cardinality(written[p]) \in Nat
      BY FS_CardinalityType DEF CallInv
    <3>2. /\ IsFiniteSet(written[p] \union {b})
          /\ Cardinality(written[p] \union {b}) =
               IF b \in written[p] THEN Cardinality(written[p])
               ELSE Cardinality(written[p]) + 1
      BY ZenonT(60), <3>1, FS_AddElement
    <3>3. Cardinality(written[p]) <= OpBlocks
      BY DEF CallInv
    <3> QED
      BY <3>1, <3>2, <3>3
  <2> QED
    BY SMTT(60), <2>1 DEF CallInv, TypeOK
<1>4. SpaceInv'
  BY <1>1, <1>3, SpaceKept DEF Ops, TypeOK
<1>5. ControlInv' /\ QuietInv' /\ SleeperHasWaker' /\ NoPanic'
  BY <1>1 DEF ControlInv, QuietInv, SleeperHasWaker, NoPanic, TypeOK, Committer
<1> QED
  BY <1>2, <1>3, <1>4, <1>5

\* The tests of log_write() never fail.
LEMMA LogWriteCheckKeeps ==
  ASSUME Slack, IInv, NEW p \in Proc, log_write_check(p)
  PROVE  IInv'
<1> USE LogConstants DEF IInv, Slack, Up, Goto, diskVars, cacheVars, logVars,
                        procVars, countVars, log_write_check
<1>1. Ops' = Ops
  BY DEF Ops, InOp, TypeOK
<1>2. TypeOK'
  BY DEF TypeOK, Label, InOp, Committer
<1>3. CallInv'
  BY DEF CallInv, TypeOK
<1>4. SpaceInv'
  BY <1>1, <1>3, SpaceKept DEF Ops, TypeOK, InOp
<1>5. ControlInv' /\ QuietInv' /\ SleeperHasWaker' /\ NoPanic'
  <2>1. outstanding >= 1
    BY OpsFinite, FS_EmptySet DEF Ops, InOp, ControlInv
  <2>2. ~TooBig
    BY DEF TooBig, SpaceInv, TypeOK
  <2> QED
    BY <1>1, <2>1, <2>2 DEF ControlInv, QuietInv, SleeperHasWaker, NoPanic, TypeOK,
                Committer
<1> QED
  BY SMTT(60), <1>2, <1>3, <1>4, <1>5

\* A call that logs a block for the first time spends a token for it, and keeps
\* those for the blocks it never writes.
LEMMA LogWriteKeeps ==
  ASSUME Slack, IInv, NEW p \in Proc, log_write(p)
  PROVE  IInv'
<1> USE LogConstants DEF IInv, Slack, Up, Goto, diskVars, cacheVars, logVars,
                        procVars, countVars, log_write
<1>1. Ops' = Ops /\ p \in Ops
  BY DEF Ops, InOp, TypeOK
<1>2. held[p] \in written[p] /\ held[p] \in Block
  BY DEF CallInv, TypeOK
<1>3. TypeOK'
  BY <1>2 DEF TypeOK, Label, InOp
<1>4. CallInv'
  BY DEF CallInv, TypeOK
<1>5. SpaceInv'
  <2>1. CASE held[p] \in BlocksOf(lh)
    BY <1>1, <1>4, <2>1, SpaceKept DEF Ops, TypeOK
  <2>2. CASE held[p] \notin BlocksOf(lh)
    <3>1. lh \in Seq(Block) /\ lh' = Append(lh, held[p]) /\ Len(lh') = Len(lh) + 1
      BY SMTT(60), <1>2, <2>2 DEF TypeOK
    <3>2. BlocksOf(lh)' = BlocksOf(lh) \union {held[p]}
      <4>1. DOMAIN lh' = DOMAIN lh \union {Len(lh) + 1} /\ lh'[Len(lh) + 1] = held[p]
        BY <1>2, <3>1
      <4>2. \A i \in DOMAIN lh : lh'[i] = lh[i]
        BY <1>2, <3>1
      <4> QED
        BY <4>1, <4>2 DEF BlocksOf
    <3>3. Tokens' = TokensOf(Ops, written, BlocksOf(lh) \union {held[p]})
      BY ZenonT(60), <1>1, <3>2 DEF Tokens
    <3>4. \A q \in Ops : IsFiniteSet(written[q]) /\ Cardinality(written[q]) <= OpBlocks
      BY DEF CallInv, Ops
    <3>5. Cardinality(written[p]) <= MAXOPBLOCKS
      BY SMTT(60), <1>1, <3>4, FS_CardinalityType
    <3>6. Cardinality(Tokens') + 1 <= Cardinality(Tokens)
      BY SMTT(60), <1>1, <1>2, <2>2, <3>3, <3>4, <3>5, OpsFinite, TokensSpent DEF Tokens
    <3>7. MAXOPBLOCKS - OpBlocks <= Cardinality(Tokens')
      BY ZenonT(60), <1>1, <3>3, <3>4, OpsFinite, TokensLeft
    <3>8. Cardinality(Tokens) \in Nat /\ Cardinality(Tokens') \in Nat
      BY OpsFinite, TokensBounded DEF Tokens
    <3>9. Len(lh) \in Nat /\ Len(dhead) \in Nat
      BY DEF TypeOK
    <3> QED
      BY SMTT(60), <3>1, <3>6, <3>7, <3>8, <3>9 DEF SpaceInv
  <2> QED
    BY <2>1, <2>2
<1>6. ControlInv' /\ QuietInv' /\ SleeperHasWaker' /\ NoPanic'
  <2>1. outstanding # 0 /\ ~committing
    BY <1>1, OpsFinite, FS_EmptySet DEF ControlInv
  <2> QED
    BY <1>1, <2>1 DEF ControlInv, QuietInv, SleeperHasWaker, NoPanic, TypeOK,
                      Committer
<1> QED
  BY <1>3, <1>4, <1>5, <1>6

\* The last call to end becomes the committer; otherwise sleepers are woken.
LEMMA EndOpKeeps ==
  ASSUME Slack, IInv, NEW p \in Proc, end_op(p)
  PROVE  IInv'
<1> USE LogConstants DEF IInv, Slack, Up, Goto, diskVars, cacheVars, logVars,
                        procVars, countVars, end_op, WakeAll
<1>1. Ops' = Ops \ {p} /\ p \in Ops
  BY DEF Ops, InOp, TypeOK
<1>2. Cardinality(Ops') = outstanding - 1 /\ outstanding - 1 \in Nat
  BY <1>1, OpsFinite, FS_RemoveElement DEF ControlInv
<1>3. TypeOK'
  BY ZenonT(60), <1>2 DEF TypeOK, Label, InOp, Committer
<1>4. CallInv'
  BY DEF CallInv, TypeOK
<1>5. SpaceInv'
  BY <1>1, <1>4, SpaceKept DEF Ops, TypeOK
<1>6. ~committing /\ \A q \in Proc : pc[q] \notin Committer
  BY <1>1 DEF ControlInv
<1>7. outstanding' = 0 => Ops' = {}
  BY SMTT(60), <1>2, OpsFinite, FS_EmptySet
<1>8. ControlInv' /\ QuietInv' /\ SleeperHasWaker' /\ NoPanic'
  BY <1>1, <1>2, <1>6, <1>7 DEF ControlInv, QuietInv, SleeperHasWaker, NoPanic,
     TypeOK, Committer
<1> QED
  BY <1>3, <1>4, <1>5, <1>8

\* commit() finds out whether there is anything to write.
LEMMA CommitKeeps ==
  ASSUME Slack, IInv, NEW p \in Proc, commit(p)
  PROVE  IInv'
<1> USE LogConstants DEF IInv, Slack, Up, Goto, diskVars, cacheVars, logVars,
                        procVars, countVars, commit
<1>1. Ops' = Ops
  BY DEF Ops, InOp, TypeOK
<1>2. TypeOK'
  BY DEF TypeOK, Label, InOp, Committer
<1>3. CallInv'
  BY DEF CallInv, TypeOK
<1>4. SpaceInv'
  BY <1>1, <1>3, SpaceKept DEF Ops, TypeOK, InOp
<1>5. ControlInv' /\ QuietInv' /\ SleeperHasWaker' /\ NoPanic'
  BY SMTT(60), <1>1 DEF ControlInv, QuietInv, SleeperHasWaker, NoPanic, TypeOK, Committer
<1> QED
  BY <1>2, <1>3, <1>4, <1>5

\* A block goes to the log on the disk.
LEMMA WriteLogKeeps ==
  ASSUME Slack, IInv, NEW p \in Proc, write_log(p)
  PROVE  IInv'
<1> USE LogConstants DEF IInv, Slack, Up, Goto, diskVars, cacheVars, logVars,
                        procVars, countVars, write_log
<1>1. Ops' = Ops
  BY SMTT(60) DEF Ops, InOp, TypeOK
<1>2. TypeOK'
  <2>1. lh[tail + 1] \in Block
    BY DEF TypeOK
  <2>2. cache[lh[tail + 1]] \in Value
    BY <2>1 DEF TypeOK
  <2>3. dlog' \in [1 .. NLog - 1 -> Value]
    BY ZenonT(60), <2>2 DEF TypeOK
  <2>4. pc' \in [Proc -> Label]
    BY ZenonT(60) DEF TypeOK, Label, Committer
  <2>5. tail' \in Nat
    BY DEF TypeOK
  <2> QED
    BY SMTT(60), <2>3, <2>4, <2>5 DEF TypeOK
<1>3. CallInv'
  BY DEF CallInv, TypeOK
<1>4. SpaceInv'
  BY <1>1, <1>3, SpaceKept DEF Ops, TypeOK, InOp
<1>5. ControlInv' /\ QuietInv' /\ SleeperHasWaker' /\ NoPanic'
  BY ZenonT(60), <1>1 DEF ControlInv, QuietInv, SleeperHasWaker, NoPanic, TypeOK, Committer
<1> QED
  BY SMTT(60), <1>2, <1>3, <1>4, <1>5

\* The commit point.
LEMMA WriteHeadKeeps ==
  ASSUME Slack, IInv, NEW p \in Proc, write_head(p)
  PROVE  IInv'
<1> USE LogConstants DEF IInv, Slack, Up, Goto, diskVars, cacheVars, logVars,
                        procVars, countVars, write_head
<1>1. Ops' = Ops
  BY DEF Ops, InOp, TypeOK
<1>2. TypeOK'
  BY DEF TypeOK, Label, InOp, Committer
<1>3. CallInv'
  BY DEF CallInv, TypeOK
<1>4. SpaceInv'
  BY SMTT(60), <1>1, <1>3, SpaceKept DEF Ops, TypeOK, InOp
<1>5. ControlInv' /\ QuietInv' /\ SleeperHasWaker' /\ NoPanic'
  BY SMTT(60), <1>1 DEF ControlInv, QuietInv, SleeperHasWaker, NoPanic, TypeOK, Committer
<1> QED
  BY <1>2, <1>3, <1>4, <1>5

\* install_trans() reads only blocks of the log on the disk.
LEMMA InstalledBlock ==
  ASSUME Slack, IInv, tail < Len(lh)
  PROVE  lh[tail + 1] \in Block /\ dlog[tail + 1] \in Value
<1> USE LogConstants DEF IInv, Slack
<1>1. lh[tail + 1] \in Block
  BY DEF TypeOK
<1>2. tail + 1 \in 1 .. NLog - 1
  BY DEF TypeOK, SpaceInv
<1> QED
  BY <1>1, <1>2 DEF TypeOK

\* A block goes home.
LEMMA InstallTransKeeps ==
  ASSUME Slack, IInv, NEW p \in Proc, install_trans(p)
  PROVE  IInv'
<1> USE LogConstants DEF IInv, Slack, Up, Goto, diskVars, cacheVars, logVars,
                        procVars, countVars, install_trans
<1>1. Ops' = Ops
  BY DEF Ops, InOp, TypeOK
<1>2. TypeOK'
  <2>1. /\ disk' \in [Block -> Value] /\ cache' \in [Block -> Value]
        /\ dirty' \in SUBSET Block
    BY SMTT(60), InstalledBlock DEF TypeOK, InstallBlock
  <2>2. pc' \in [Proc -> Label] /\ tail' \in Nat
    BY SMTT(60) DEF TypeOK, Label, Committer, InstallBlock
  <2> QED
    BY SMTT(60), <2>1, <2>2 DEF TypeOK
<1>3. CallInv'
  BY DEF CallInv, TypeOK
<1>4. SpaceInv'
  BY SMTT(60), <1>1, <1>3, SpaceKept DEF Ops, TypeOK, InOp
<1>5. ControlInv' /\ QuietInv' /\ SleeperHasWaker' /\ NoPanic'
  BY <1>1 DEF ControlInv, QuietInv, SleeperHasWaker, NoPanic, TypeOK, Committer
<1> QED
  BY SMTT(60), <1>2, <1>3, <1>4, <1>5

\* The log is emptied.
LEMMA EraseKeeps ==
  ASSUME Slack, IInv, NEW p \in Proc, erase(p)
  PROVE  IInv'
<1> USE LogConstants DEF IInv, Slack, Up, Goto, diskVars, cacheVars, logVars,
                        procVars, countVars, erase
<1>1. Ops' = {} /\ Ops = {}
  BY SMTT(60) DEF Ops, InOp, TypeOK, ControlInv, Committer
<1>2. TypeOK'
  BY DEF TypeOK, Label, InOp, Committer
<1>3. CallInv'
  BY DEF CallInv, TypeOK
<1>4. SpaceInv'
  BY SMTT(60), <1>1, SpaceIdle
<1>5. ControlInv' /\ QuietInv' /\ SleeperHasWaker' /\ NoPanic'
  BY <1>1 DEF ControlInv, QuietInv, SleeperHasWaker, NoPanic, TypeOK, Committer
<1> QED
  BY SMTT(60), <1>2, <1>3, <1>4, <1>5

\* The commit ends and everybody asleep is woken.
LEMMA EndOpDoneKeeps ==
  ASSUME Slack, IInv, NEW p \in Proc, end_op_done(p)
  PROVE  IInv'
<1> USE LogConstants DEF IInv, Slack, Up, Goto, diskVars, cacheVars, logVars,
                        procVars, countVars, end_op_done, WakeAll
<1>1. Ops' = Ops
  BY DEF Ops, InOp, TypeOK
<1>2. TypeOK'
  BY ZenonT(60) DEF TypeOK, Label, InOp, Committer
<1>3. CallInv'
  BY SMTT(60) DEF CallInv, TypeOK
<1>4. SpaceInv'
  BY SMTT(60), <1>1, <1>3, SpaceKept DEF Ops, TypeOK, InOp
<1>5. ControlInv' /\ QuietInv' /\ SleeperHasWaker' /\ NoPanic'
  BY <1>1 DEF ControlInv, QuietInv, SleeperHasWaker, NoPanic, TypeOK, Committer
<1> QED
  BY SMTT(60), <1>2, <1>3, <1>4, <1>5
-----------------------------------------------------------------------------
(* The initial states, crashes and recovery, and what follows *)

\* IInv holds when the machine starts, before initlog().
LEMMA InitIInv == Slack /\ Init => IInv
<1> SUFFICES ASSUME Slack, Init PROVE IInv
  OBVIOUS
<1>1. TypeOK
  <2>1. 0 \in Value /\ 0 \in 0 .. MaxCrashes /\ "idle" \in Label
    BY LogConstants DEF Value, Label
  <2>2. << >> \in Seq(Block)
    OBVIOUS
  <2> QED
    BY ZenonT(60), <2>1, <2>2 DEF Init, TypeOK
<1>2. Ops = {}
  BY DEF Init, Ops, InOp
<1>3. Cardinality(Ops) = 0 /\ IsFiniteSet({}) /\ Cardinality({}) = 0
  BY <1>2, FS_EmptySet
<1>4. Tokens = {}
  BY <1>2 DEF Tokens, TokensOf
<1>5. SpaceInv
  <2>1. Len(lh) = 0 /\ Len(dhead) = 0
    BY DEF Init
  <2> QED
    BY <1>3, <1>4, <2>1, LogConstants DEF SpaceInv, Slack
<1>6. CallInv
  BY <1>3, LogConstants DEF Init, CallInv
<1>7. ControlInv /\ QuietInv
  BY <1>2, <1>3 DEF Init, ControlInv, QuietInv, Committer
<1> QED
  BY <1>1, <1>5, <1>6, <1>7 DEF IInv, SleeperHasWaker, NoPanic, Init

\* A crash leaves the disk alone and nothing in memory.
LEMMA CrashKeeps ==
  ASSUME Slack, IInv, Crash
  PROVE  IInv'
<1> USE LogConstants DEF IInv, Slack, diskVars, cacheVars, logVars, procVars,
                        countVars, Crash
<1>1. Ops' = {} /\ Cardinality(Ops') = 0
  <2>1. Ops' = {}
    BY DEF Ops, InOp, TypeOK, ControlInv
  <2> QED
    BY <2>1, FS_EmptySet
<1>2. TypeOK'
  <2>1. 0 \in Value /\ "idle" \in Label /\ crashes + 1 \in 0 .. MaxCrashes
    BY DEF Value, Label, TypeOK
  <2>2. << >> \in Seq(Block)
    OBVIOUS
  <2> QED
    BY ZenonT(60), <2>1, <2>2 DEF TypeOK
<1>3. CallInv'
  BY FS_EmptySet DEF CallInv, ControlInv
<1>4. SpaceInv'
  BY <1>1, SpaceIdle
<1>5. ControlInv' /\ QuietInv' /\ SleeperHasWaker' /\ NoPanic'
  BY <1>1 DEF ControlInv, QuietInv, SleeperHasWaker, NoPanic, Committer
<1> QED
  BY <1>2, <1>3, <1>4, <1>5

\* Recovery, in its three parts.
LEMMA ReadHeadKeeps ==
  ASSUME Slack, IInv, read_head
  PROVE  IInv'
<1> USE LogConstants DEF IInv, Slack, diskVars, cacheVars, logVars, procVars,
                        countVars, read_head
<1>1. Ops' = {} /\ Cardinality(Ops') = 0
  <2>1. Ops' = {}
    BY DEF Ops, InOp, TypeOK, ControlInv
  <2> QED
    BY <2>1, FS_EmptySet
<1>2. TypeOK'
  BY DEF TypeOK
<1>3. CallInv'
  BY FS_EmptySet DEF CallInv, ControlInv
<1>4. SpaceInv'
  BY <1>1, SpaceIdle
<1>5. ControlInv' /\ QuietInv' /\ SleeperHasWaker' /\ NoPanic'
  <2>1. outstanding = 0 /\ ~committing /\ \A p \in Proc : pc[p] = "idle"
    BY <1>1 DEF ControlInv, Ops
  <2> QED
    BY <1>1, <2>1 DEF ControlInv, QuietInv, SleeperHasWaker, NoPanic, Committer
<1> QED
  BY <1>2, <1>3, <1>4, <1>5

\* Recovery copies a block home, as install_trans() does.
LEMMA RecoverInstallKeeps ==
  ASSUME Slack, IInv, recover_install
  PROVE  IInv'
<1> USE LogConstants DEF IInv, Slack, diskVars, cacheVars, logVars, procVars,
                        countVars, recover_install, InstallBlock
<1>1. Ops' = {} /\ Cardinality(Ops') = 0
  <2>1. Ops' = {}
    BY SMTT(60) DEF Ops, InOp, TypeOK, ControlInv
  <2> QED
    BY SMTT(60), <2>1, FS_EmptySet
<1>2. TypeOK'
  <2>1. lh[tail + 1] \in Block /\ dlog[tail + 1] \in Value /\ tail + 1 \in Nat
    BY SMTT(60), InstalledBlock DEF TypeOK
  <2>2. /\ disk' \in [Block -> Value] /\ cache' \in [Block -> Value]
        /\ dirty' \in SUBSET Block /\ tail' \in Nat
    BY SMTT(60), <2>1 DEF TypeOK
  <2> QED
    BY SMTT(60), <2>2 DEF TypeOK
<1>3. CallInv'
  BY FS_EmptySet DEF CallInv, ControlInv
<1>4. SpaceInv'
  BY SMTT(60), <1>1, SpaceIdle
<1>5. ControlInv' /\ QuietInv' /\ SleeperHasWaker' /\ NoPanic'
  <2>1. outstanding = 0 /\ ~committing /\ \A p \in Proc : pc[p] = "idle"
    BY <1>1 DEF ControlInv, Ops
  <2> QED
    BY <1>1, <2>1 DEF ControlInv, QuietInv, SleeperHasWaker, NoPanic, Committer
<1> QED
  BY <1>2, <1>3, <1>4, <1>5

\* The last write of recovery lets calls in.
LEMMA RecoverEraseKeeps ==
  ASSUME Slack, IInv, recover_erase
  PROVE  IInv'
<1> USE LogConstants DEF IInv, Slack, diskVars, cacheVars, logVars, procVars,
                        countVars, recover_erase
<1>1. Ops' = {} /\ Cardinality(Ops') = 0
  <2>1. Ops' = {}
    BY DEF Ops, InOp, TypeOK, ControlInv
  <2> QED
    BY <2>1, FS_EmptySet
<1>2. TypeOK'
  BY DEF TypeOK
<1>3. CallInv'
  BY FS_EmptySet DEF CallInv, ControlInv
<1>4. SpaceInv'
  BY <1>1, SpaceIdle
<1>5. ControlInv' /\ QuietInv' /\ SleeperHasWaker' /\ NoPanic'
  <2>1. outstanding = 0 /\ ~committing /\ \A p \in Proc : pc[p] = "idle"
    BY <1>1 DEF ControlInv, Ops
  <2> QED
    BY <1>1, <2>1 DEF ControlInv, QuietInv, SleeperHasWaker, NoPanic, Committer
<1> QED
  BY <1>2, <1>3, <1>4, <1>5

\* Every step of a call, of a commit and of recovery, and every crash, keeps
\* IInv.
LEMMA NextIInv == Slack /\ IInv /\ [Next]_vars => IInv'
<1> SUFFICES ASSUME Slack, IInv, [Next]_vars PROVE IInv'
  OBVIOUS
<1>1. ASSUME NEW p \in Proc, Step(p) PROVE IInv'
  BY SMTT(60), <1>1, CallKeeps, BeginOpSleepKeeps, BeginOpKeeps, ModifyKeeps,
     LogWriteCheckKeeps, LogWriteKeeps, EndOpKeeps, CommitKeeps, WriteLogKeeps,
     WriteHeadKeeps, InstallTransKeeps, EraseKeeps, EndOpDoneKeeps DEF Step
<1>2. CASE Recover \/ Crash
  BY SMTT(60), <1>2, ReadHeadKeeps, RecoverInstallKeeps, RecoverEraseKeeps, CrashKeeps
     DEF Recover
<1>3. CASE UNCHANGED vars
  <2>1. Ops' = Ops /\ BlocksOf(lh)' = BlocksOf(lh)
    BY <1>3 DEF vars, logVars, Ops, BlocksOf
  <2>2. Tokens' = Tokens
    BY <1>3, <2>1 DEF vars, procVars, Tokens
  <2> QED
    BY SMTT(60), <1>3, <2>1, <2>2 DEF vars, diskVars, cacheVars, logVars, procVars, countVars,
       IInv, TypeOK, ControlInv, QuietInv, CallInv, SpaceInv, SleeperHasWaker, NoPanic
<1> QED
  BY <1>1, <1>2, <1>3 DEF Next
-----------------------------------------------------------------------------
(* What follows for every behaviour of the log *)

\* IInv is an invariant of log.c when calls leave enough of their reservation.
THEOREM Invariance == Slack => (Spec => []IInv)
<1> SUFFICES ASSUME Slack PROVE Spec => []IInv
  OBVIOUS
<1>1. Init => IInv
  BY InitIInv
<1>2. IInv /\ [Next]_vars => IInv'
  BY NextIInv
<1> QED
  BY <1>1, <1>2, PTL DEF Spec

\* struct log, the disk and the calls always have their types: in particular
\* install_trans() never reads past the log on the disk.
THEOREM TypeCorrect == Slack => (Spec => []TypeOK)
<1> SUFFICES ASSUME Slack PROVE Spec => []TypeOK
  OBVIOUS
<1>1. IInv => TypeOK
  BY DEF IInv
<1> QED
  BY Invariance, <1>1, PTL

\* No call that begin_op() has admitted ever meets "too big a transaction" or
\* "log_write outside of trans" in log_write(), or the panic of end_op(), for
\* any number of concurrent calls and whenever the machine crashes.
THEOREM AdmissionSuffices == Slack => (Spec => []NoPanic)
<1> SUFFICES ASSUME Slack PROVE Spec => []NoPanic
  OBVIOUS
<1>1. IInv => NoPanic
  BY DEF IInv
<1> QED
  BY Invariance, <1>1, PTL

\* Nobody sleeps in begin_op() unless a call or a commit that will wake it is
\* in progress.
THEOREM NoLostWakeup == Slack => (Spec => []SleeperHasWaker)
<1> SUFFICES ASSUME Slack PROVE Spec => []SleeperHasWaker
  OBVIOUS
<1>1. IInv => SleeperHasWaker
  BY DEF IInv
<1> QED
  BY Invariance, <1>1, PTL
=============================================================================
