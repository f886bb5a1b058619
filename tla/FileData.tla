------------------------------ MODULE FileData ------------------------------
(***************************************************************************)
(* The contents of files: the block bitmap, the inodes' block lists,       *)
(* readi(), writei() and itrunc() of fs.c, the loops of fileread() and     *)
(* filewrite() of file.c, on the disk image that mkfs.c makes.             *)
(*                                                                         *)
(* An inode is locked while it is read or written and a bitmap block while *)
(* it is searched, so one turn of filewrite()'s loop, a transaction of its *)
(* own, is one step.  Blocks are functions from offsets to bytes, and a    *)
(* block number takes one byte.                                            *)
(***************************************************************************)
EXTENDS Integers, Sequences, FiniteSets, SequencesExt

CONSTANTS BSIZE, NDIRECT, FSSIZE, NINODES, IPB, BPB, NLOG, MAXOPBLOCKS,
          Proc,
          File,      \* entries of the open file table
          NoFile,    \* none of them
          Image,     \* contents of the files mkfs is given
          Sources,   \* what write() is called with
          MaxCalls   \* bound: calls made

VARIABLES bitmap,   \* blocks marked in use
          data,     \* contents of the blocks
          din,      \* inodes on the disk
          ip,       \* inodes in memory
          file,     \* struct file: inode (0 when closed) and offset
          todo,     \* the write() a process is in
          afile,    \* what every file should contain
          logged,   \* blocks the last transaction wrote
          panic, ncalls

vars == <<bitmap, data, din, ip, file, todo, afile, logged, panic, ncalls>>

NINDIRECT == BSIZE
MAXFILE == NDIRECT + NINDIRECT
Inode == 1 .. NINODES
Offset == 0 .. BSIZE - 1
Zero == [o \in Offset |-> 0]
Smaller(a, b) == IF a < b THEN a ELSE b

nbitmap == FSSIZE \div BPB + 1
ninodeblocks == NINODES \div IPB + 1
nmeta == 2 + NLOG + ninodeblocks + nbitmap
inodestart == 2 + NLOG
bmapstart == 2 + NLOG + ninodeblocks
IBLOCK(i) == i \div IPB + inodestart
BBLOCK(b) == b \div BPB + bmapstart

NoInode == [type |-> "free", nlink |-> 0, size |-> 0, addrs |-> [n \in 0 .. NDIRECT |-> 0]]
-----------------------------------------------------------------------------
(* mkfs.c.  m = [next, din, data] with next the freeblock.                    *)

\* The block for block number fbn of inode i, and m with it allocated.
Slot(m, i, fbn) ==
  IF fbn < NDIRECT
  THEN IF m.din[i].addrs[fbn] # 0 THEN [m |-> m, at |-> m.din[i].addrs[fbn]]
       ELSE [m |-> [m EXCEPT !.din[i].addrs[fbn] = m.next, !.next = @ + 1], at |-> m.next]
  ELSE LET k == IF m.din[i].addrs[NDIRECT] # 0 THEN m
                ELSE [m EXCEPT !.din[i].addrs[NDIRECT] = m.next, !.next = @ + 1]
           ind == k.din[i].addrs[NDIRECT]
           at == k.data[ind][fbn - NDIRECT] IN
       IF at # 0 THEN [m |-> k, at |-> at]
       ELSE [m |-> [k EXCEPT !.data[ind][fbn - NDIRECT] = k.next, !.next = @ + 1], at |-> k.next]

\* One byte at the end of inode i.
iappend1(m, i, x) ==
  LET off == m.din[i].size
      s == Slot(m, i, off \div BSIZE) IN
  [s.m EXCEPT !.data[s.at][off % BSIZE] = x, !.din[i].size = off + 1]

iappend(m, i, bytes) == FoldLeft(LAMBDA k, x : iappend1(k, i, x), m, bytes)

mkfs_ialloc(m, i, type) == [m EXCEPT !.din[i] = [NoInode EXCEPT !.type = type, !.nlink = 1]]

\* The root directory and its two entries of one byte each, then for every
\* file an inode, an entry and the contents; at the end the size of the root is
\* brought to the next block.
mkfs ==
  LET m0 == [next |-> nmeta, din |-> [i \in Inode |-> NoInode],
             data |-> [b \in 0 .. FSSIZE - 1 |-> Zero]]
      root == iappend(mkfs_ialloc(m0, 1, "dir"), 1, <<1, 1>>)
      Add(m, k) == iappend(iappend(mkfs_ialloc(m, k + 1, "file"), 1, <<k + 1>>), k + 1, Image[k])
      all == FoldLeft(Add, root, [k \in DOMAIN Image |-> k]) IN
  [all EXCEPT !.din[1].size = ((@ \div BSIZE) + 1) * BSIZE]
-----------------------------------------------------------------------------
(* fs.c.  A transaction works on w = [bitmap, data, ip, log, ok].             *)

Work(i) == [bitmap |-> bitmap, data |-> data, ip |-> ip[i], log |-> {}, ok |-> TRUE]

log_write(w, b) == [w EXCEPT !.log = @ \union {b}]

\* The block balloc() finds, 0 for none.
FreeBlock(w) ==
  LET unused == (0 .. FSSIZE - 1) \ w.bitmap IN
  IF unused = {} THEN 0 ELSE CHOOSE b \in unused : \A c \in unused : b <= c

balloc(w) ==
  IF FreeBlock(w) = 0 THEN [w EXCEPT !.ok = FALSE]
  ELSE LET b == FreeBlock(w) IN
       [w EXCEPT !.bitmap = @ \union {b}, !.data[b] = Zero, !.log = @ \union {BBLOCK(b), b}]

\* Mutant of bfree: the bit of the block stays set.
bfree_keep(w, b) == [log_write(w, BBLOCK(b)) EXCEPT !.ok = @ /\ b \in w.bitmap]

bfree(w, b) ==
  [log_write(w, BBLOCK(b)) EXCEPT !.bitmap = @ \ {b}, !.ok = @ /\ b \in w.bitmap]

\* bmap(): the address of block bn and w with it allocated.
bmap(w, bn) ==
  IF bn < NDIRECT
  THEN IF w.ip.addrs[bn] # 0 THEN [w |-> w, addr |-> w.ip.addrs[bn]]
       ELSE [w |-> [balloc(w) EXCEPT !.ip.addrs[bn] = FreeBlock(w)], addr |-> FreeBlock(w)]
  ELSE LET k == IF w.ip.addrs[NDIRECT] # 0 THEN w
                ELSE [balloc(w) EXCEPT !.ip.addrs[NDIRECT] = FreeBlock(w)]
           ind == k.ip.addrs[NDIRECT]
           addr == k.data[ind][bn - NDIRECT] IN
       IF addr # 0 THEN [w |-> k, addr |-> addr]
       ELSE [w |-> log_write([balloc(k) EXCEPT !.data[ind][bn - NDIRECT] = FreeBlock(k)], ind),
             addr |-> FreeBlock(k)]

\* readi() when the checks of off have passed: [w, bytes].
readi(w, off, len) ==
  LET some == Smaller(len, w.ip.size - off)
      Get(r, o) == LET m == bmap(r.w, o \div BSIZE) IN
                   [w |-> m.w, bytes |-> Append(r.bytes, m.w.data[m.addr][o % BSIZE])] IN
  FoldLeft(Get, [w |-> w, bytes |-> <<>>], [k \in 1 .. some |-> off + k - 1])

\* Mutant of Put: every byte goes where the block begins.
Put_start(w, off, x) ==
  LET m == bmap(w, off \div BSIZE) IN
  log_write([m.w EXCEPT !.data[m.addr][0] = x], m.addr)

\* One byte of writei()'s copy; the loop takes a block at a time.
Put(w, off, x) ==
  LET m == bmap(w, off \div BSIZE) IN
  log_write([m.w EXCEPT !.data[m.addr][off % BSIZE] = x], m.addr)

\* writei() when the checks of off have passed, and its iupdate().
writei(w, i, off, src) ==
  LET k == FoldLeft(LAMBDA s, j : Put(s, off + j - 1, src[j]), w, [j \in DOMAIN src |-> j])
      end == off + Len(src) IN
  IF src # <<>> /\ end > k.ip.size THEN log_write([k EXCEPT !.ip.size = end], IBLOCK(i)) ELSE k

\* The blocks itrunc() frees, in its order.
Listed(w) ==
  LET direct == [n \in 1 .. NDIRECT |-> w.ip.addrs[n - 1]]
      ind == w.ip.addrs[NDIRECT]
      rest == IF ind = 0 THEN <<>> ELSE [n \in 1 .. NINDIRECT |-> w.data[ind][n - 1]] \o <<ind>> IN
  SelectSeq(direct \o rest, LAMBDA b : b # 0)

itrunc(w, i) ==
  LET k == FoldLeft(bfree, w, Listed(w)) IN
  log_write([k EXCEPT !.ip.addrs = NoInode.addrs, !.ip.size = 0], IBLOCK(i))
-----------------------------------------------------------------------------
(* The calls.                                                                *)

Called == ncalls < MaxCalls /\ ncalls' = ncalls + 1

Users(i) == {f \in File : file[f].ip = i}

\* The transaction w of inode i is over; update says whether the inode went to
\* the disk by iupdate().
Done(w, i, update) ==
  /\ bitmap' = w.bitmap /\ data' = w.data
  /\ ip' = [ip EXCEPT ![i] = w.ip]
  /\ din' = IF update THEN [din EXCEPT ![i] = w.ip] ELSE din
  /\ logged' = w.log /\ panic' = (panic \/ ~w.ok)

\* A new file, by sys_open() with O_CREATE: the inode of ialloc().
create(f, i) ==
  /\ file[f].ip = 0 /\ din[i].type = "free" /\ \A k \in Inode : din[k].type = "free" => i <= k
  /\ Called
  /\ Done([Work(i) EXCEPT !.ip = [NoInode EXCEPT !.type = "file", !.nlink = 1],
                          !.log = {IBLOCK(i)}], i, TRUE)
  /\ file' = [file EXCEPT ![f] = [ip |-> i, off |-> 0]]
  /\ afile' = [afile EXCEPT ![i] = <<>>]
  /\ UNCHANGED todo

\* The inode is read from the disk unless it is in memory already.
open(f, i) ==
  /\ file[f].ip = 0 /\ din[i].type # "free" /\ din[i].nlink > 0
  /\ Called
  /\ ip' = IF Users(i) = {} THEN [ip EXCEPT ![i] = din[i]] ELSE ip
  /\ file' = [file EXCEPT ![f] = [ip |-> i, off |-> 0]]
  /\ UNCHANGED <<bitmap, data, din, todo, afile, logged, panic>>

\* iput() of the last reference to a file without links frees it.
Freed(i) == LET k == itrunc(Work(i), i) IN [k EXCEPT !.ip.type = "free"]

close(f) ==
  LET i == file[f].ip IN
  /\ i # 0 /\ \A p \in Proc : todo[p].f # f
  /\ file' = [file EXCEPT ![f] = [ip |-> 0, off |-> 0]]
  /\ IF Users(i) = {f} /\ ip[i].nlink = 0 THEN Done(Freed(i), i, TRUE)
     ELSE UNCHANGED <<bitmap, data, din, ip, logged, panic>>
  /\ UNCHANGED <<todo, afile, ncalls>>

\* sys_unlink() of the file's only name.
unlink(i) ==
  LET w == [Work(i) EXCEPT !.ip = [IF Users(i) = {} THEN din[i] ELSE ip[i] EXCEPT !.nlink = 0],
                           !.log = {IBLOCK(i)}]
      k == itrunc(w, i) IN
  /\ i # 1 /\ din[i].nlink = 1 /\ din[i].type # "free" /\ Called
  /\ Done(IF Users(i) = {} THEN [k EXCEPT !.ip.type = "free"] ELSE w, i, TRUE)
  /\ UNCHANGED <<file, todo, afile>>

\* fileread(), which gives the caller what it should.
fileread(f, n) ==
  LET i == file[f].ip
      r == readi(Work(i), file[f].off, n) IN
  /\ i # 0 /\ Called
  /\ Done(r.w, i, FALSE)
  /\ file' = [file EXCEPT ![f].off = @ + Len(r.bytes)]
  /\ UNCHANGED <<todo, afile>>

NoWrite == [f |-> NoFile, src |-> <<>>]

sys_write(p, f, src) ==
  /\ todo[p] = NoWrite /\ file[f].ip > 1 /\ Called
  /\ todo' = [todo EXCEPT ![p] = [f |-> f, src |-> src]]
  /\ UNCHANGED <<bitmap, data, din, ip, file, afile, logged, panic>>

\* Mutant of max: without the slop for writes that are not aligned.
max_tight == ((MAXOPBLOCKS - 1) \div 2) * BSIZE

max == ((MAXOPBLOCKS - 1 - 1 - 2) \div 2) * BSIZE

\* What the file contains after src is written at off.
Spliced(s, off, src) ==
  [k \in 1 .. (IF off + Len(src) > Len(s) THEN off + Len(src) ELSE Len(s)) |->
     IF k > off /\ k <= off + Len(src) THEN src[k - off] ELSE s[k]]

\* One turn of filewrite()'s loop: nothing is written past the largest file.
filewrite(p) ==
  LET f == todo[p].f
      i == file[f].ip
      off == file[f].off
      n1 == Smaller(Len(todo[p].src), max)
      src == SubSeq(todo[p].src, 1, n1)
      w == writei(Work(i), i, off, src) IN
  /\ todo[p] # NoWrite
  /\ IF off > ip[i].size \/ off + n1 > MAXFILE * BSIZE
     THEN todo' = [todo EXCEPT ![p] = NoWrite]
          /\ UNCHANGED <<bitmap, data, din, ip, file, afile, logged, panic>>
     ELSE /\ Done(w, i, w.ip.size # ip[i].size)
          /\ file' = [file EXCEPT ![f].off = off + n1]
          /\ afile' = [afile EXCEPT ![i] = Spliced(@, off, src)]
          /\ todo' = [todo EXCEPT ![p] = IF n1 = Len(@.src) THEN NoWrite
                                         ELSE [@ EXCEPT !.src = SubSeq(@, n1 + 1, Len(@))]]
  /\ UNCHANGED ncalls

\* The power fails: what is in memory is lost, and the log keeps transactions
\* whole.
crash ==
  /\ Called
  /\ file' = [f \in File |-> [ip |-> 0, off |-> 0]]
  /\ todo' = [p \in Proc |-> NoWrite]
  /\ ip' = din /\ logged' = {}
  /\ UNCHANGED <<bitmap, data, din, afile, panic>>

Init ==
  /\ bitmap = 0 .. mkfs.next - 1
  /\ data = mkfs.data /\ din = mkfs.din /\ ip = mkfs.din
  /\ file = [f \in File |-> [ip |-> 0, off |-> 0]]
  /\ todo = [p \in Proc |-> NoWrite]
  /\ afile = [i \in Inode |-> IF i > 1 /\ i <= Len(Image) + 1 THEN Image[i - 1] ELSE <<>>]
  /\ logged = {} /\ panic = FALSE /\ ncalls = 0

Next ==
  \/ \E f \in File, i \in Inode : create(f, i) \/ open(f, i)
  \/ \E f \in File : close(f)
  \/ \E i \in Inode : unlink(i)
  \/ \E f \in File, n \in 1 .. BSIZE + 1 : fileread(f, n)
  \/ \E p \in Proc, f \in File, src \in Sources : sys_write(p, f, src)
  \/ \E p \in Proc : filewrite(p)
  \/ crash

Spec == Init /\ [][Next]_vars
-----------------------------------------------------------------------------
\* Every variable keeps its type.
TypeOK ==
  /\ bitmap \subseteq 0 .. FSSIZE - 1
  /\ \A i \in Inode : /\ din[i].type \in {"free", "dir", "file"} /\ din[i].nlink \in 0 .. 1
                      /\ din[i].size \in 0 .. MAXFILE * BSIZE
                      /\ \A n \in 0 .. NDIRECT : din[i].addrs[n] \in 0 .. FSSIZE - 1
  /\ \A f \in File : file[f].ip \in {0} \union Inode /\ file[f].off \in 0 .. MAXFILE * BSIZE
  /\ \A p \in Proc : todo[p].f \in {NoFile} \union File /\ (todo[p].f = NoFile <=> todo[p].src = <<>>)
  /\ ncalls \in 0 .. MaxCalls

Used(i) == Listed([data |-> data, ip |-> din[i]])

\* On the disk, whenever no transaction is under way, the blocks in use are
\* those of the image's first part and those of the inodes, and no block
\* belongs to two files or twice to one: no sequence of writes, removals of
\* open files and crashes leaks a block or shares one.  So balloc(), bfree() and
\* bmap() never panic, and every variable keeps its type.
BlocksAreExact ==
  LET owned == {<<i, n>> \in Inode \X (1 .. MAXFILE + 1) : n <= Len(Used(i))} IN
  /\ TypeOK /\ ~panic
  /\ {Used(o[1])[o[2]] : o \in owned} = bitmap \ (0 .. nmeta - 1)
  /\ Cardinality(owned) = Cardinality(bitmap) - nmeta

\* A file contains what was written to it, byte for byte, in direct and
\* indirect blocks, for writes at any offset and in any order by any process,
\* and reading it does not change the disk.  The inode in memory is the one on
\* the disk after every transaction, so that a crash forgets nothing: writei()
\* calls iupdate() only when the size grows, which is enough for the block list.
ReadsBack ==
  /\ \A i \in Inode : din[i].type = "file" =>
       LET w == [Work(i) EXCEPT !.ip = din[i]]
           r == readi(w, 0, MAXFILE * BSIZE) IN
       r.bytes = afile[i] /\ r.w = w
  /\ \A i \in Inode : Users(i) # {} => ip[i] = din[i]

\* No transaction of write(), unlink() or close() writes more blocks than
\* begin_op() reserves for it, also when a write is not aligned, allocates the
\* indirect block, and finds its blocks in different parts of the bitmap.
TransactionFits == Cardinality(logged) <= MAXOPBLOCKS
=============================================================================
