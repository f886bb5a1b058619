----------------------------- MODULE BlockStore -----------------------------
(***************************************************************************)
(* What bio.c promises its callers: bread() gives the contents of a block  *)
(* to one process at a time, a block changes only in the hands of the      *)
(* process that has it, and brelse() gives it back.                        *)
(***************************************************************************)
CONSTANTS Proc, Block, Value, InitStore

VARIABLES store,  \* the contents of every block
          view    \* the blocks a process has, with the contents it was given

Init == store = InitStore /\ view = [p \in Proc |-> <<>>]

Take(p, b) ==
  /\ \A q \in Proc : b \notin DOMAIN view[q]
  /\ view' = [view EXCEPT ![p] = [c \in DOMAIN @ \union {b} |-> IF c = b THEN store[b] ELSE @[c]]]
  /\ UNCHANGED store

Change(p, b) ==
  /\ b \in DOMAIN view[p]
  /\ \E v \in Value : store' = [store EXCEPT ![b] = v] /\ view' = [view EXCEPT ![p][b] = v]

Give(p, b) ==
  /\ b \in DOMAIN view[p]
  /\ view' = [view EXCEPT ![p] = [c \in DOMAIN @ \ {b} |-> @[c]]]
  /\ UNCHANGED store

Next == \E p \in Proc, b \in Block : Take(p, b) \/ Change(p, b) \/ Give(p, b)

Spec == Init /\ [][Next]_<<store, view>>
=============================================================================
