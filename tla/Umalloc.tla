------------------------------ MODULE Umalloc ------------------------------
(***************************************************************************)
(* malloc() and free() of umalloc.c, on the memory sbrk() gets from the    *)
(* kernel.  A Header is one unit of memory and one unit is one byte, so an *)
(* address is a number below KERNBASE.  The header base is in the          *)
(* program's data, below all of the heap: its address is 0.                *)
(***************************************************************************)
EXTENDS Memory

CONSTANTS NALLOC,   \* the least number of units morecore() asks for
          Sizes     \* the nbytes of malloc(), in units

VARIABLES hdr,      \* the headers: where the next free block is, and the size
          freep,    \* -1 before the first malloc()
          blocks,   \* headers of the blocks the program holds
          core      \* what sbrk() gave to morecore()

heapVars == <<hdr, freep, blocks, core>>
vars == <<memVars, heapVars>>

Addr == 0 .. KERNBASE - 1
base == 0
NoHdr == [ptr |-> 0, size |-> 0]
-----------------------------------------------------------------------------
(* On a heap h = [hdr, freep].                                               *)

Ptr(h, a) == h.hdr[a].ptr
Size(h, a) == h.hdr[a].size

\* The free block after which bp belongs.
RECURSIVE Place(_, _, _)
Place(h, bp, p) ==
  IF bp > p /\ bp < Ptr(h, p) THEN p
  ELSE IF p >= Ptr(h, p) /\ (bp > p \/ bp < Ptr(h, p)) THEN p
  ELSE Place(h, bp, Ptr(h, p))

\* Mutant of free: the block is not joined with the free block below it.
free_apart(h, bp) ==
  LET p == Place(h, bp, h.freep)
      up == Ptr(h, p)
      new == IF bp + Size(h, bp) = up
             THEN [ptr |-> Ptr(h, up), size |-> Size(h, bp) + Size(h, up)]
             ELSE [ptr |-> up, size |-> Size(h, bp)]
      low == [h.hdr[p] EXCEPT !.ptr = bp] IN
  [hdr |-> [h.hdr EXCEPT ![bp] = new, ![p] = low], freep |-> p]

free_(h, bp) ==
  LET p == Place(h, bp, h.freep)
      up == Ptr(h, p)
      new == IF bp + Size(h, bp) = up
             THEN [ptr |-> Ptr(h, up), size |-> Size(h, bp) + Size(h, up)]
             ELSE [ptr |-> up, size |-> Size(h, bp)]
      low == IF p + Size(h, p) = bp
             THEN [ptr |-> new.ptr, size |-> Size(h, p) + new.size]
             ELSE [h.hdr[p] EXCEPT !.ptr = bp] IN
  [hdr |-> [h.hdr EXCEPT ![bp] = new, ![p] = low], freep |-> p]

\* The loop of malloc(), from the block after prevp: the block found and the
\* heap without it, or -1 when it is back at freep.
RECURSIVE Scan(_, _, _)
Scan(h, prevp, n) ==
  LET p == Ptr(h, prevp)
      rest == Size(h, p) - n IN
  CASE rest = 0 -> [at |-> p, hdr |-> [h.hdr EXCEPT ![prevp].ptr = Ptr(h, p)], freep |-> prevp]
    [] rest > 0 -> [at |-> p + rest, freep |-> prevp,
                    hdr |-> [h.hdr EXCEPT ![p].size = rest, ![p + rest].size = n]]
    [] rest < 0 /\ p = h.freep -> [at |-> -1, hdr |-> h.hdr, freep |-> h.freep]
    [] rest < 0 /\ p # h.freep -> Scan(h, p, n)

\* The heap of p, made circular by the first malloc().
Ready(p) ==
  IF freep[p] # -1 THEN [hdr |-> hdr[p], freep |-> freep[p]]
  ELSE [hdr |-> [hdr[p] EXCEPT ![base] = NoHdr], freep |-> base]

SetHeap(p, h) == hdr' = [hdr EXCEPT ![p] = h.hdr] /\ freep' = [freep EXCEPT ![p] = h.freep]

Hold(p, r) == SetHeap(p, r) /\ blocks' = [blocks EXCEPT ![p] = @ \union {r.at}]

\* morecore(nu) with the address sbrk() returned.
morecore(h, at, nu) == free_([h EXCEPT !.hdr[at].size = nu], at)

malloc(p, nbytes, f) ==
  LET n == nbytes + 1
      h == Ready(p)
      r == Scan(h, h.freep, n)
      nu == IF n < NALLOC THEN NALLOC ELSE n
      g == Grown(p, nu, f)
      h2 == morecore(h, sz[p], nu) IN
  /\ Live(p) /\ Called
  /\ \/ r.at # -1 /\ Hold(p, r) /\ UNCHANGED <<kernVars, core>>
     \/ /\ r.at = -1 /\ growproc(p, nu, f)
        /\ IF g.ok THEN /\ Hold(p, Scan(h2, h2.freep, n))
                        /\ core' = [core EXCEPT ![p] = @ \union sz[p] .. sz[p] + nu - 1]
           ELSE SetHeap(p, h) /\ UNCHANGED <<blocks, core>>

ufree(p, bp) ==
  /\ Live(p) /\ bp \in blocks[p]
  /\ SetHeap(p, free_([hdr |-> hdr[p], freep |-> freep[p]], bp))
  /\ blocks' = [blocks EXCEPT ![p] = @ \ {bp}]
  /\ UNCHANGED <<memVars, core>>
-----------------------------------------------------------------------------
(* The program's calls.  It gives memory back to the kernel only before it    *)
(* has used malloc().                                                         *)

NewHeap(p) ==
  /\ hdr' = [hdr EXCEPT ![p] = [a \in Addr |-> NoHdr]]
  /\ freep' = [freep EXCEPT ![p] = -1]
  /\ blocks' = [blocks EXCEPT ![p] = {}]
  /\ core' = [core EXCEPT ![p] = {}]

Init ==
  /\ MemInit
  /\ hdr = [p \in Proc |-> [a \in Addr |-> NoHdr]]
  /\ freep = [p \in Proc |-> -1]
  /\ blocks = [p \in Proc |-> {}]
  /\ core = [p \in Proc |-> {}]

CallExec(p) == \E prog \in Programs, n \in Budgets :
  /\ exec(p, prog, n)
  /\ IF image'[p].dir # image[p].dir THEN NewHeap(p) ELSE UNCHANGED heapVars

CallFork(p) == \E q \in Proc, n \in Budgets :
  /\ fork(p, q, n)
  /\ IF state'[q] = "unused" THEN UNCHANGED heapVars
     ELSE /\ hdr' = [hdr EXCEPT ![q] = hdr[p]]
          /\ freep' = [freep EXCEPT ![q] = freep[p]]
          /\ blocks' = [blocks EXCEPT ![q] = blocks[p]]
          /\ core' = [core EXCEPT ![q] = core[p]]

CallSbrk(p) == \E n \in Deltas, f \in Budgets :
  /\ n < 0 => freep[p] = -1
  /\ sys_sbrk(p, n, f) /\ UNCHANGED heapVars

Next == \E p \in Proc :
  \/ CallExec(p)
  \/ CallFork(p)
  \/ CallSbrk(p)
  \/ exit(p) /\ UNCHANGED heapVars
  \/ wait(p) /\ NewHeap(p)
  \/ \E v \in VPage : store(p, v) /\ UNCHANGED heapVars
  \/ \E n \in Sizes, f \in Budgets : malloc(p, n, f)
  \/ \E bp \in Addr : ufree(p, bp)

Spec == Init /\ [][Next]_vars
-----------------------------------------------------------------------------
\* Every variable keeps its type.
TypeOK ==
  /\ free \subseteq Page
  /\ data \in [Page -> {"junk", "zero", "text", "args", "mine"}]
  /\ \A p \in Proc : /\ image[p].dir \in {0} \union Page /\ image[p].ktab \in {0} \union Page
                     /\ \A t \in Tab : image[p].tab[t] \in {0} \union Page
                     /\ \A v \in VPage : image[p].pte[v].pa \in {0} \union Page
  /\ sz \in [Proc -> Addr] /\ kstack \in [Proc -> {0} \union Page]
  /\ state \in [Proc -> {"unused", "used", "zombie"}] /\ broken \in [Proc -> BOOLEAN]
  /\ freep \in [Proc -> {-1} \union Addr] /\ blocks \in [Proc -> SUBSET Addr]
  /\ panic \in BOOLEAN /\ ncalls \in 0 .. MaxCalls

\* The places where the kernel keeps a page of p.
Uses(p) ==
  {<<p, "dir", 0, image[p].dir>>, <<p, "ktab", 0, image[p].ktab>>, <<p, "kstack", 0, kstack[p]>>}
    \union {<<p, "tab", t, image[p].tab[t]>> : t \in Tab}
    \union {<<p, "pte", v, image[p].pte[v].pa>> : v \in VPage}

\* Every page of physical memory is either free or used in exactly one place,
\* whatever calls failed on the way: kalloc() never gives a page that is in
\* use, no error path of allocuvm(), copyuvm(), exec() and fork() loses one,
\* and no page is freed twice.  Every variable keeps its type.
PagesArePartitioned ==
  LET uses == {u \in UNION {Uses(p) : p \in Proc} : u[4] # 0} IN
  /\ TypeOK
  /\ {u[4] : u \in uses} = Page \ free
  /\ Cardinality(uses) = NPages - Cardinality(free)

\* What p finds at a page of its address space.
View(p, v) ==
  LET pte == image[p].pte[v] IN
  IF pte.pa = 0 THEN "none" ELSE IF pte.user THEN data[pte.pa] ELSE "guard"

\* Every process has the address space its own calls made: the program that
\* exec() loaded with the inaccessible page under its stack, copied by fork(),
\* grown with zeros and cut by sbrk(), and changed by no store of another
\* process.  A call that fails changes nothing of it.  So what kfree(),
\* mappages(), copyuvm() and loaduvm() take for granted of a page table is so,
\* and none of them panics.
AddressSpaceIsPrivate ==
  /\ \A p \in Proc : Live(p) => \A v \in VPage : View(p, v) = amem[p][v]
  /\ ~panic

\* The free list of h, from base.
RECURSIVE Around(_, _)
Around(h, p) == IF Ptr(h, p) = base THEN <<p>> ELSE <<p>> \o Around(h, Ptr(h, p))

Units(p, a) == a .. a + hdr[p][a].size - 1

\* The heap of every process is tiled by the blocks it holds and the free
\* blocks: no two overlap and no unit is lost.  The free list goes up through
\* the addresses once around, and no two free blocks touch, since free() joins
\* a block with both its neighbours.  All of it is memory the process has.
HeapIsTiled ==
  \A p \in Proc : Live(p) /\ freep[p] # -1 =>
    LET list == Around([hdr |-> hdr[p], freep |-> freep[p]], base)
        all == (Range(list) \ {base}) \union blocks[p] IN
    /\ \A i \in 1 .. Len(list) - 1 : list[i] + hdr[p][list[i]].size < list[i + 1]
    /\ freep[p] \in Range(list) /\ Range(list) \intersect blocks[p] = {}
    /\ UNION {Units(p, a) : a \in all} = core[p]
    /\ \A a, b \in all : a # b => Units(p, a) \intersect Units(p, b) = {}
    /\ \A a \in core[p] : image[p].pte[a \div PGSIZE].pa # 0
=============================================================================
