------------------------------- MODULE Memory -------------------------------
(***************************************************************************)
(* Physical and virtual memory: kalloc.c, vm.c, exec() and growproc(), and *)
(* what fork(), exit() and wait() do to memory.  Page tables belong to one *)
(* process and kmem.lock is held for one page at a time, so a call is one  *)
(* step that finds some number of free pages: what it does not find, other *)
(* processors hold at that moment.  Which free page kalloc() gives makes   *)
(* no difference, and the free list is a set.                              *)
(***************************************************************************)
EXTENDS Integers, Sequences, FiniteSets, SequencesExt

CONSTANTS NPROC,
          NPages,      \* pages between end and PHYSTOP
          PGSIZE, KERNBASE, UINT,
          NPTENTRIES,  \* pages a page table maps
          Programs,    \* what exec() is called with
          Deltas,      \* the n of sbrk()
          Budgets,     \* pages a call may find
          MaxCalls     \* bound: calls and stores made

VARIABLES free,    \* kmem.freelist
          data,    \* contents of the physical pages
          image,   \* page directory, page tables and entries of a process
          sz, kstack, state,   \* of struct proc
          broken,  \* the process shrank to nothing: it can only exit
          panic,   \* panic() was called
          amem,    \* user memory as the process should see it
          ncalls

kernVars == <<free, data, image, sz, kstack, state, broken, panic, amem>>
memVars == <<kernVars, ncalls>>

Proc == 1 .. NPROC
Page == 1 .. NPages
VPage == 0 .. KERNBASE \div PGSIZE - 1
Tab == 0 .. (KERNBASE \div PGSIZE - 1) \div NPTENTRIES
NoPte == [pa |-> 0, user |-> FALSE]
NoImage == [dir |-> 0, ktab |-> 0, tab |-> [t \in Tab |-> 0], pte |-> [v \in VPage |-> NoPte]]

PGROUNDUP(n) == ((n + PGSIZE - 1) \div PGSIZE) * PGSIZE
Lowest(S) == CHOOSE x \in S : \A y \in S : x <= y

\* The pages that begin at PGROUNDUP(from) .. to - 1, in order.
PagesFrom(from, to) ==
  LET first == PGROUNDUP(from) \div PGSIZE
      last == PGROUNDUP(to) \div PGSIZE IN
  [i \in 1 .. (IF last > first THEN last - first ELSE 0) |-> first + i - 1]
-----------------------------------------------------------------------------
(* A call works on w: free pages, their contents, pages it may still find,   *)
(* the image it builds, whether all went well, and a panic().                *)

Work(im, n) == [free |-> free, data |-> data, left |-> n, im |-> im, ok |-> TRUE,
                panic |-> panic]

\* The page kalloc() gives, 0 for none.
Given(w) == IF w.left = 0 \/ w.free = {} THEN 0 ELSE Lowest(w.free)
Taken(w) == [w EXCEPT !.free = @ \ {Given(w)}, !.left = @ - 1, !.ok = TRUE]
No(w) == [w EXCEPT !.ok = FALSE]

kfree(w, pg) == [w EXCEPT !.free = @ \union {pg}, !.data[pg] = "junk",
                          !.panic = @ \/ pg \in w.free \/ pg \notin Page]

\* walkpgdir() with alloc set.
walkpgdir(w, v) ==
  LET t == v \div NPTENTRIES IN
  IF w.im.tab[t] # 0 THEN [w EXCEPT !.ok = TRUE]
  ELSE IF Given(w) = 0 THEN No(w)
  ELSE [Taken(w) EXCEPT !.im.tab[t] = Given(w)]

mappages(w, v, pg, user) ==
  LET x == walkpgdir(w, v) IN
  IF x.ok THEN [x EXCEPT !.im.pte[v] = [pa |-> pg, user |-> user],
                         !.panic = @ \/ w.im.pte[v].pa # 0]
  ELSE x

Unmap(w, v) ==
  IF w.im.pte[v].pa = 0 THEN w
  ELSE [kfree(w, w.im.pte[v].pa) EXCEPT !.im.pte[v] = NoPte]

deallocuvm(w, oldsz, newsz) ==
  IF newsz >= oldsz THEN w ELSE FoldLeft(Unmap, w, PagesFrom(newsz, oldsz))

\* The loop of freevm() over the page directory, and the directory itself.
FreeTable(w, pg) == IF pg = 0 THEN w ELSE kfree(w, pg)
FreeTables(w) == FoldLeft(LAMBDA x, t : FreeTable(x, x.im.tab[t]), w, SetToSeq(Tab))
FreeDir(w) == [kfree(FreeTable(w, w.im.ktab), w.im.dir) EXCEPT !.im = NoImage]

\* Mutant of freevm: the page tables are forgotten.
freevm_tables(w) == FreeDir(deallocuvm(w, KERNBASE, 0))

freevm(w) == FreeDir(FreeTables(deallocuvm(w, KERNBASE, 0)))

\* What is kept of an image after all went well or not.
OrFree(w) == IF w.ok THEN w ELSE No(freevm(w))

\* The kernel's part of the address space takes one page table.
KernTable(w) ==
  OrFree(IF Given(w) = 0 THEN No(w) ELSE [Taken(w) EXCEPT !.im.ktab = Given(w)])

setupkvm(w) ==
  IF Given(w) = 0 THEN No(w)
  ELSE KernTable([Taken(w) EXCEPT !.im = [NoImage EXCEPT !.dir = Given(w)]])

\* A page that could not be mapped is given back.
OrKfree(w, mem) == IF w.ok THEN w ELSE No(kfree(w, mem))

\* One turn of the loop of allocuvm(): kalloc(), memset() and mappages().
Grow(w, v) ==
  LET mem == Given(w) IN
  IF ~w.ok \/ mem = 0 THEN No(w)
  ELSE OrKfree(mappages([Taken(w) EXCEPT !.data[mem] = "zero"], v, mem, TRUE), mem)

OrShrink(w, oldsz, newsz) == IF w.ok THEN w ELSE No(deallocuvm(w, newsz, oldsz))

\* Mutant of allocuvm: what was allocated before the failure stays.
allocuvm_partial(w, oldsz, newsz) ==
  IF newsz >= KERNBASE THEN No(w)
  ELSE IF newsz < oldsz THEN [w EXCEPT !.ok = TRUE]
  ELSE FoldLeft(Grow, [w EXCEPT !.ok = TRUE], PagesFrom(oldsz, newsz))

allocuvm(w, oldsz, newsz) ==
  IF newsz >= KERNBASE THEN No(w)
  ELSE IF newsz < oldsz THEN [w EXCEPT !.ok = TRUE]
  ELSE OrShrink(FoldLeft(Grow, [w EXCEPT !.ok = TRUE], PagesFrom(oldsz, newsz)), oldsz, newsz)

\* One turn of the loop of copyuvm(), from the image src.
Copy(src, w, v) ==
  LET mem == Given(w)
      pte == src.pte[v] IN
  IF ~w.ok THEN w
  ELSE IF pte.pa = 0 THEN [w EXCEPT !.panic = TRUE]
  ELSE IF mem = 0 THEN No(w)
  ELSE OrKfree(mappages([Taken(w) EXCEPT !.data[mem] = w.data[pte.pa]], v, mem, pte.user), mem)

copyuvm(w, src, size) ==
  LET d == setupkvm(w) IN
  IF d.ok THEN OrFree(FoldLeft(LAMBDA x, v : Copy(src, x, v), d, PagesFrom(0, size))) ELSE d
-----------------------------------------------------------------------------
(* exec().  A program has segments, each with its vaddr, memsz, filesz and    *)
(* whether readi() and the checks of its header succeed, and a size of its    *)
(* arguments.                                                                 *)

\* The pages of the image that loaduvm() reads into.
Loaded(w, seg) ==
  LET read == {v \in VPage : v * PGSIZE >= seg.vaddr /\ v * PGSIZE < seg.vaddr + seg.filesz}
      pages == {w.im.pte[v].pa : v \in read} IN
  [w EXCEPT !.data = [pg \in Page |-> IF pg \in pages THEN "text" ELSE @[pg]],
            !.panic = @ \/ 0 \in pages]

\* The loop over program headers, on [w, sz].
Load(s, seg) ==
  LET top == (seg.vaddr + seg.memsz) % UINT
      x == allocuvm(s.w, s.sz, top)
      new == IF top < s.sz THEN s.sz ELSE top IN
  IF ~s.w.ok \/ seg.memsz < seg.filesz \/ top < seg.vaddr THEN [s EXCEPT !.w = No(s.w)]
  ELSE IF ~x.ok \/ new = 0 \/ seg.vaddr % PGSIZE # 0 \/ ~seg.readable THEN [s EXCEPT !.w = No(x)]
  ELSE [w |-> Loaded(x, seg), sz |-> new]

\* The guard page, and the arguments in the stack page above it.
Stacked(w, size, args) ==
  LET guard == size \div PGSIZE - 2
      stack == w.im.pte[size \div PGSIZE - 1].pa IN
  IF ~w.ok \/ args > PGSIZE THEN No(w)
  ELSE [w EXCEPT !.im.pte[guard].user = FALSE, !.data[stack] = "args"]

\* The two pages of the stack, once the segments are loaded.
AddStack(s, args) ==
  LET top == PGROUNDUP(s.sz) IN
  IF ~s.w.ok THEN s
  ELSE [w |-> Stacked(allocuvm(s.w, top, top + 2 * PGSIZE), top + 2 * PGSIZE, args),
        sz |-> top + 2 * PGSIZE]

\* The new image and its size; ok is FALSE and nothing is taken after "bad:".
Exec(w, prog) ==
  LET k == setupkvm([w EXCEPT !.im = NoImage])
      s == AddStack(FoldLeft(Load, [w |-> k, sz |-> 0], prog.segs), prog.args) IN
  IF ~prog.elf THEN [w |-> No(w), sz |-> 0]
  ELSE IF ~k.ok THEN [w |-> k, sz |-> 0]
  ELSE [s EXCEPT !.w = OrFree(s.w)]

\* What the process sees of such an image.
Seen(prog, size) ==
  LET top == size \div PGSIZE
      Text(v) == \E i \in DOMAIN prog.segs :
                   v * PGSIZE >= prog.segs[i].vaddr
                   /\ v * PGSIZE < prog.segs[i].vaddr + prog.segs[i].filesz IN
  [v \in VPage |-> CASE v >= top -> "none"
                     [] v = top - 1 -> "args"
                     [] v = top - 2 -> "guard"
                     [] OTHER -> IF Text(v) THEN "text" ELSE "zero"]
-----------------------------------------------------------------------------
Live(p) == state[p] = "used" /\ ~broken[p]

Called == ncalls < MaxCalls /\ ncalls' = ncalls + 1

\* What a call by p leaves behind.
Settle(w) == free' = w.free /\ data' = w.data /\ panic' = w.panic

exec(p, prog, n) ==
  /\ Live(p) /\ Called
  /\ \E r \in {Exec(Work(NoImage, n), prog)} :
       IF r.w.ok
       THEN /\ \E w \in {freevm([r.w EXCEPT !.im = image[p]])} : Settle(w)
            /\ image' = [image EXCEPT ![p] = r.w.im]
            /\ sz' = [sz EXCEPT ![p] = r.sz]
            /\ amem' = [amem EXCEPT ![p] = Seen(prog, r.sz)]
       ELSE Settle(r.w) /\ UNCHANGED <<image, sz, amem>>
  /\ UNCHANGED <<kstack, state, broken>>

\* The process whose size becomes new keeps what is below and gets zeros.
Resized(mem, new) ==
  [v \in VPage |-> CASE v * PGSIZE >= new -> "none"
                     [] mem[v] = "none" -> "zero"
                     [] OTHER -> mem[v]]

\* Whether growproc(n) of p succeeds, finding f pages, and what it leaves.
Grown(p, n, f) ==
  LET new == (sz[p] + n) % UINT
      w == Work(image[p], f) IN
  CASE n > 0 -> LET x == allocuvm(w, sz[p], new) IN
                [w |-> x, sz |-> IF new < sz[p] THEN sz[p] ELSE new, ok |-> x.ok]
    [] n < 0 -> [w |-> deallocuvm(w, sz[p], new),
                 sz |-> IF new >= sz[p] THEN sz[p] ELSE new, ok |-> new # 0]
    [] n = 0 -> [w |-> w, sz |-> sz[p], ok |-> TRUE]

\* The size is not set when deallocuvm() brings it to zero, and the process
\* has no page left to run in: it takes a page fault and exits.
growproc(p, n, f) == \E r \in {Grown(p, n, f)} :
  /\ Settle(r.w)
  /\ image' = [image EXCEPT ![p] = r.w.im]
  /\ sz' = [sz EXCEPT ![p] = IF r.ok THEN r.sz ELSE @]
  /\ amem' = [amem EXCEPT ![p] = IF r.ok THEN Resized(@, r.sz) ELSE @]
  /\ broken' = [broken EXCEPT ![p] = n < 0 /\ ~r.ok]
  /\ UNCHANGED <<kstack, state>>

sys_sbrk(p, n, f) == Live(p) /\ Called /\ growproc(p, n, f)

\* allocproc() takes the kernel stack and copyuvm() the rest.
fork(p, q, n) ==
  LET w == Work(NoImage, n)
      stack == Given(w) IN
  /\ Live(p) /\ Called
  /\ state[q] = "unused" /\ \A o \in Proc : state[o] = "unused" => q <= o
  /\ IF stack = 0 THEN UNCHANGED <<free, data, panic, image, sz, kstack, state, amem>>
     ELSE \E x \in {OrKfree(copyuvm(Taken(w), image[p], sz[p]), stack)} :
          /\ Settle(x)
          /\ IF ~x.ok THEN UNCHANGED <<image, sz, kstack, state, amem>>
             ELSE /\ image' = [image EXCEPT ![q] = x.im]
                  /\ sz' = [sz EXCEPT ![q] = sz[p]]
                  /\ kstack' = [kstack EXCEPT ![q] = stack]
                  /\ state' = [state EXCEPT ![q] = "used"]
                  /\ amem' = [amem EXCEPT ![q] = amem[p]]
  /\ UNCHANGED broken

\* The first process does not exit.
exit(p) ==
  /\ p # 1 /\ state[p] = "used"
  /\ state' = [state EXCEPT ![p] = "zombie"]
  /\ UNCHANGED <<free, data, image, sz, kstack, broken, panic, amem, ncalls>>

\* The parent, or the first process, finds the zombie.
wait(p) ==
  /\ state[p] = "zombie"
  /\ \E w \in {freevm(kfree(Work(image[p], 0), kstack[p]))} : Settle(w)
  /\ image' = [image EXCEPT ![p] = NoImage]
  /\ kstack' = [kstack EXCEPT ![p] = 0]
  /\ state' = [state EXCEPT ![p] = "unused"]
  /\ broken' = [broken EXCEPT ![p] = FALSE]
  /\ sz' = [sz EXCEPT ![p] = 0]
  /\ amem' = [amem EXCEPT ![p] = [v \in VPage |-> "none"]]
  /\ UNCHANGED ncalls

\* A process stores into a page of its own.
store(p, v) ==
  /\ Live(p) /\ Called /\ image[p].pte[v].user
  /\ data' = [data EXCEPT ![image[p].pte[v].pa] = "mine"]
  /\ amem' = [amem EXCEPT ![p][v] = "mine"]
  /\ UNCHANGED <<free, image, sz, kstack, state, broken, panic>>

\* userinit() and the exec() of /init.
First == CHOOSE prog \in Programs : prog.first

MemInit ==
  LET w0 == [free |-> Page \ {1}, data |-> [pg \in Page |-> "junk"], left |-> NPages,
             im |-> NoImage, ok |-> TRUE, panic |-> FALSE] IN
  \E r \in {Exec(w0, First)} :
  /\ free = r.w.free /\ data = r.w.data
  /\ image = [p \in Proc |-> IF p = 1 THEN r.w.im ELSE NoImage]
  /\ sz = [p \in Proc |-> IF p = 1 THEN r.sz ELSE 0]
  /\ kstack = [p \in Proc |-> IF p = 1 THEN 1 ELSE 0]
  /\ state = [p \in Proc |-> IF p = 1 THEN "used" ELSE "unused"]
  /\ broken = [p \in Proc |-> FALSE]
  /\ amem = [p \in Proc |-> IF p = 1 THEN Seen(First, r.sz) ELSE [v \in VPage |-> "none"]]
  /\ panic = FALSE /\ ncalls = 0
=============================================================================
