------------------------------ MODULE FileSys ------------------------------
(***************************************************************************)
(* Inodes and directories (fs.c) under the calls of sysfile.c: open,       *)
(* create, mkdir, mknod, link, unlink, chdir and close, made by several    *)
(* processes at once.                                                      *)
(*                                                                         *)
(* A process in a call has a list of what it has yet to do, todo[p]: the   *)
(* primitives ilock, iunlock, iput and namex, and labels of the call's own *)
(* code.  What a call does between two primitives is one step: it holds    *)
(* the locks of the inodes it looks at.  iput() is three steps, for it     *)
(* reads ref, releases the inode and lowers ref in separate critical       *)
(* sections.  A transaction of the log is atomic (AtomicDisk), so that     *)
(* end_op() only marks the return of a call.  A path is the sequence of    *)
(* elements skipelem() cuts it into.                                       *)
(***************************************************************************)
EXTENDS Integers, Sequences, FiniteSets

CONSTANTS Proc,        \* processes
          None,        \* no process
          NInodes,     \* sb.ninodes - 1: inodes on the disk
          NINODE,      \* entries of the inode cache
          NOFILE,      \* open files of a process
          Opens, Creates, Mkdirs, Mknods, Links, Unlinks, Chdirs,
                       \* the paths the calls are made with
          MaxCalls     \* bound: calls made in a behaviour

Inum == 1 .. NInodes
Root == 1
T_DIR == "dir"
T_FILE == "file"
T_DEV == "dev"
Free == [type |-> "none", nlink |-> 0, ents |-> << >>]
NoReg == [ret |-> 0, ip |-> 0, dp |-> 0, name |-> "", off |-> 0, es |-> << >>]
Uncached == [type |-> "none", nlink |-> 0, valid |-> FALSE, ref |-> 0]

VARIABLES
  dinode,    \* inodes on the disk: type, nlink and, for a directory, entries
  inode,     \* the inode cache: type, nlink, valid and ref
  lock,      \* ip->lock of a cached inode
  cwd,       \* proc.cwd
  ofile,     \* proc.ofile: the inodes of open files, 0 for a free descriptor
  todo,      \* what the call of a process has yet to do
  reg,       \* local variables of the call
  ncalls,    \* calls made so far
  panicked   \* a panic() froze the machine

vars == <<dinode, inode, lock, cwd, ofile, todo, reg, ncalls, panicked>>
userVars == <<cwd, ofile>>
tables == <<dinode, inode, lock>>

Path(abs, es) == [abs |-> abs, es |-> es]
Ent(n, i) == [name |-> n, inum |-> i]
Dir(i, up) == <<Ent(".", i), Ent("..", up)>>

\* A disk with the root, the directory a and the file b, as mkfs and two calls
\* leave it; every process is at the root.
Init ==
  /\ dinode = [i \in Inum |->
       CASE i = Root -> [type |-> T_DIR, nlink |-> 2,
                         ents |-> Dir(Root, Root) \o <<Ent("a", 2), Ent("b", 3)>>]
         [] i = 2 -> [type |-> T_DIR, nlink |-> 1, ents |-> Dir(2, Root)]
         [] i = 3 -> [type |-> T_FILE, nlink |-> 1, ents |-> << >>]
         [] OTHER -> Free]
  /\ inode = [i \in Inum |-> IF i = Root
       THEN [type |-> T_DIR, nlink |-> 2, valid |-> TRUE, ref |-> Cardinality(Proc)]
       ELSE Uncached]
  /\ lock = [i \in Inum |-> None]
  /\ cwd = [p \in Proc |-> Root]
  /\ ofile = [p \in Proc |-> [f \in 1 .. NOFILE |-> 0]]
  /\ todo = [p \in Proc |-> << >>]
  /\ reg = [p \in Proc |-> NoReg]
  /\ ncalls = 0
  /\ panicked = FALSE
-----------------------------------------------------------------------------
(* The list of things to do *)

At(p, op) == ~panicked /\ todo[p] # << >> /\ Head(todo[p])[1] = op
Arg(p) == Head(todo[p])[2]
Then(p, is) == todo' = [todo EXCEPT ![p] = is \o Tail(@)]

ilock(i) == <<"ilock", i>>
iunlock(i) == <<"iunlock", i>>
iput(i) == <<"iput", i>>
iunlockput(i) == <<iunlock(i), iput(i)>>
namei(path) == <<"namei", path>>
nameiparent(path) == <<"nameiparent", path>>
Label(l) == <<l, 0>>
end_op == Label("end_op")

\* Give the result of a subroutine to its caller.
Return(p, i) == reg' = [reg EXCEPT ![p].ret = i]
-----------------------------------------------------------------------------
(* The inode cache *)

\* iget() and idup(): one more pointer to inode i, in table c.  An entry that
\* nobody refers to is taken over without its contents.
iget(c, i) ==
  IF c[i].ref > 0 THEN [c EXCEPT ![i].ref = @ + 1]
  ELSE [c EXCEPT ![i] = [Uncached EXCEPT !.ref = 1]]

NoEntry(i) == inode[i].ref = 0 /\ Cardinality({j \in Inum : inode[j].ref > 0}) >= NINODE

do_ilock(p) ==
  LET i == Arg(p) IN
  /\ At(p, "ilock")
  /\ lock[i] = None
  /\ lock' = [lock EXCEPT ![i] = p]
  /\ inode' = IF inode[i].valid THEN inode
              ELSE [inode EXCEPT ![i].type = dinode[i].type, ![i].nlink = dinode[i].nlink,
                                 ![i].valid = TRUE]
  /\ panicked' = (inode[i].ref < 1 \/ inode'[i].type = "none")
  /\ Then(p, << >>)
  /\ UNCHANGED <<dinode, userVars, reg, ncalls>>

do_iunlock(p) ==
  LET i == Arg(p) IN
  /\ At(p, "iunlock")
  /\ panicked' = (lock[i] # p \/ inode[i].ref < 1)
  /\ lock' = [lock EXCEPT ![i] = None]
  /\ Then(p, << >>)
  /\ UNCHANGED <<dinode, inode, userVars, reg, ncalls>>

\* iput() up to where it has read ip->ref.
do_iput(p) ==
  LET i == Arg(p)
      last == inode[i].valid /\ inode[i].nlink = 0 /\ inode[i].ref = 1 IN
  /\ At(p, "iput")
  /\ lock[i] = None
  /\ lock' = [lock EXCEPT ![i] = p]
  /\ Then(p, IF last THEN <<<<"ifree", i>>, <<"idrop", i>>>> ELSE <<<<"idrop", i>>>>)
  /\ UNCHANGED <<dinode, inode, userVars, reg, ncalls, panicked>>

\* itrunc(ip); ip->type = 0; iupdate(ip); ip->valid = 0.
do_ifree(p) ==
  LET i == Arg(p) IN
  /\ At(p, "ifree")
  /\ dinode' = [dinode EXCEPT ![i] = Free]
  /\ inode' = [inode EXCEPT ![i] = [Uncached EXCEPT !.ref = inode[i].ref]]
  /\ Then(p, << >>)
  /\ UNCHANGED <<lock, userVars, reg, ncalls, panicked>>

\* The rest of iput(): releasesleep(&ip->lock), then ip->ref--.
do_idrop(p) ==
  LET i == Arg(p) IN
  /\ At(p, "idrop")
  /\ lock' = [lock EXCEPT ![i] = None]
  /\ Then(p, <<<<"irefdec", i>>>>)
  /\ UNCHANGED <<dinode, inode, userVars, reg, ncalls, panicked>>

do_irefdec(p) ==
  LET i == Arg(p) IN
  /\ At(p, "irefdec")
  /\ inode' = IF inode[i].ref = 1 THEN [inode EXCEPT ![i] = Uncached]
              ELSE [inode EXCEPT ![i].ref = @ - 1]
  /\ Then(p, << >>)
  /\ UNCHANGED <<dinode, lock, userVars, reg, ncalls, panicked>>
-----------------------------------------------------------------------------
(* Directories and path names *)

Slots(d, n) == {k \in DOMAIN dinode[d].ents :
                  dinode[d].ents[k].inum # 0 /\ dinode[d].ents[k].name = n}
Least(S) == CHOOSE k \in S : \A j \in S : k <= j

\* dirlookup(): the offset of the first entry with that name, 0 if none.
dirlookup(d, n) == IF Slots(d, n) = {} THEN 0 ELSE Least(Slots(d, n))
Target(d, k) == dinode[d].ents[k].inum

\* dirlink() after its dirlookup(): the first empty entry, or one at the end.
dirlink(es, n, i) ==
  LET empty == {k \in DOMAIN es : es[k].inum = 0} IN
  IF empty = {} THEN Append(es, Ent(n, i)) ELSE [es EXCEPT ![Least(empty)] = Ent(n, i)]

\* writei() of an empty struct dirent.
Erase(es, k) == [es EXCEPT ![k] = Ent("", 0)]

isdirempty(d) == \A k \in DOMAIN dinode[d].ents : k > 2 => dinode[d].ents[k].inum = 0

\* The start of namex(), at the root or at the working directory.
namex(p, op) ==
  LET i == IF Arg(p).abs THEN Root ELSE cwd[p] IN
  /\ At(p, op)
  /\ panicked' = NoEntry(i)
  /\ inode' = iget(inode, i)
  /\ reg' = [reg EXCEPT ![p].es = Arg(p).es, ![p].ret = i]
  /\ Then(p, <<Label(IF op = "namei" THEN "walk" ELSE "walkparent")>>)
  /\ UNCHANGED <<dinode, lock, userVars, ncalls>>

\* One turn of its loop: the inode reached so far is locked and looked into.
walk(p, op) ==
  LET i == reg[p].ret IN
  /\ At(p, op)
  /\ \/ /\ reg[p].es # << >>
        /\ Then(p, <<ilock(i), Label(IF op = "walk" THEN "look" ELSE "lookparent")>>)
        /\ UNCHANGED reg
     \/ /\ reg[p].es = << >> /\ op = "walk"
        /\ Then(p, << >>)
        /\ UNCHANGED reg
     \/ /\ reg[p].es = << >> /\ op = "walkparent"
        /\ Then(p, <<iput(i)>>)
        /\ Return(p, 0)
  /\ UNCHANGED <<tables, userVars, ncalls, panicked>>

look(p, op) ==
  LET i == reg[p].ret
      n == Head(reg[p].es)
      k == dirlookup(i, n)
      isDir == inode[i].type = T_DIR
      stop == op = "lookparent" /\ Len(reg[p].es) = 1 IN
  /\ At(p, op)
  /\ \/ /\ ~isDir \/ (~stop /\ k = 0)
        /\ Then(p, iunlockput(i))
        /\ Return(p, 0)
        /\ UNCHANGED <<inode, panicked>>
     \/ /\ isDir /\ stop
        /\ Then(p, <<iunlock(i)>>)
        /\ reg' = [reg EXCEPT ![p].name = n]
        /\ UNCHANGED <<inode, panicked>>
     \/ /\ isDir /\ ~stop /\ k # 0
        /\ panicked' = NoEntry(Target(i, k))
        /\ inode' = iget(inode, Target(i, k))
        /\ reg' = [reg EXCEPT ![p].es = Tail(@), ![p].ret = Target(i, k)]
        /\ Then(p, iunlockput(i) \o <<Label(IF op = "look" THEN "walk" ELSE "walkparent")>>)
  /\ UNCHANGED <<dinode, lock, userVars, ncalls>>
-----------------------------------------------------------------------------
(* create(): the inode comes back locked in reg[p].ret, or 0 does *)

create(path, t) == <<nameiparent(path), <<"create_parent", t>>>>

create_parent(p) ==
  LET dp == reg[p].ret IN
  /\ At(p, "create_parent")
  /\ reg' = [reg EXCEPT ![p].dp = dp]
  /\ Then(p, IF dp = 0 THEN << >> ELSE <<ilock(dp), <<"create_look", Arg(p)>>>>)
  /\ UNCHANGED <<tables, userVars, ncalls, panicked>>

create_exists(p) ==
  LET dp == reg[p].dp
      k == dirlookup(dp, reg[p].name) IN
  /\ At(p, "create_look")
  /\ k # 0
  /\ panicked' = NoEntry(Target(dp, k))
  /\ inode' = iget(inode, Target(dp, k))
  /\ Return(p, Target(dp, k))
  /\ Then(p, iunlockput(dp) \o <<ilock(Target(dp, k)), <<"create_have", Arg(p)>>>>)
  /\ UNCHANGED <<dinode, lock, userVars, ncalls>>

\* Mutant of create_have: a file that was there comes back unlocked.
create_have_unlocked(p) ==
  LET i == reg[p].ret
      ok == Arg(p) = T_FILE /\ inode[i].type = T_FILE IN
  /\ At(p, "create_have")
  /\ Return(p, IF ok THEN i ELSE 0)
  /\ Then(p, IF ok THEN <<iunlock(i)>> ELSE iunlockput(i))
  /\ UNCHANGED <<tables, userVars, ncalls, panicked>>

create_have(p) ==
  LET i == reg[p].ret
      ok == Arg(p) = T_FILE /\ inode[i].type = T_FILE IN
  /\ At(p, "create_have")
  /\ Return(p, IF ok THEN i ELSE 0)
  /\ Then(p, IF ok THEN << >> ELSE iunlockput(i))
  /\ UNCHANGED <<tables, userVars, ncalls, panicked>>

\* ialloc(): the first inode whose type on the disk is 0.
ialloc(p) ==
  LET dp == reg[p].dp
      avail == {i \in Inum : dinode[i].type = "none"}
      i == Least(avail) IN
  /\ At(p, "create_look")
  /\ dirlookup(dp, reg[p].name) = 0
  /\ \/ /\ avail = {}
        /\ panicked' = TRUE
        /\ UNCHANGED <<dinode, inode, todo, reg>>
     \/ /\ avail # {}
        /\ panicked' = NoEntry(i)
        /\ dinode' = [dinode EXCEPT ![i] = [Free EXCEPT !.type = Arg(p)]]
        /\ inode' = iget(inode, i)
        /\ Return(p, i)
        /\ Then(p, <<ilock(i), <<"create_new", Arg(p)>>>>)
  /\ UNCHANGED <<lock, userVars, ncalls>>

\* The rest of create(): link counts, "." and "..", and the new entry in dp.
create_new(p) ==
  LET i == reg[p].ret
      dp == reg[p].dp
      up == IF Arg(p) = T_DIR THEN 1 ELSE 0 IN
  /\ At(p, "create_new")
  /\ panicked' = (dirlookup(dp, reg[p].name) # 0)
  /\ inode' = [inode EXCEPT ![i].nlink = 1, ![dp].nlink = @ + up]
  /\ dinode' = [dinode EXCEPT
       ![i].nlink = 1,
       ![i].ents = IF up = 1 THEN Dir(i, dp) ELSE << >>,
       ![dp].nlink = inode[dp].nlink + up,
       ![dp].ents = dirlink(@, reg[p].name, i)]
  /\ Then(p, iunlockput(dp))
  /\ UNCHANGED <<lock, userVars, reg, ncalls>>
-----------------------------------------------------------------------------
(* The system calls *)

Begin(p, is) ==
  /\ ~panicked
  /\ todo[p] = << >>
  /\ ncalls < MaxCalls
  /\ ncalls' = ncalls + 1
  /\ todo' = [todo EXCEPT ![p] = is \o <<end_op>>]
  /\ UNCHANGED <<tables, cwd, reg, panicked>>

do_end_op(p) ==
  /\ At(p, "end_op")
  /\ reg' = [reg EXCEPT ![p] = NoReg]
  /\ Then(p, << >>)
  /\ UNCHANGED <<tables, userVars, ncalls, panicked>>

sys_open(p) ==
  /\ \/ \E path \in Creates : Begin(p, create(path, T_FILE) \o <<<<"open_have", "rw">>>>)
     \/ \E path \in Opens, mode \in {"r", "rw"} :
          Begin(p, <<namei(path), <<"open_lock", mode>>>>)
  /\ UNCHANGED ofile

open_lock(p) ==
  LET ip == reg[p].ret IN
  /\ At(p, "open_lock")
  /\ Then(p, IF ip = 0 THEN << >> ELSE <<ilock(ip), <<"open_have", Arg(p)>>>>)
  /\ UNCHANGED <<tables, userVars, reg, ncalls, panicked>>

\* filealloc() and fdalloc(), or the way out.
open_have(p) ==
  LET ip == reg[p].ret
      fds == {f \in 1 .. NOFILE : ofile[p][f] = 0} IN
  /\ At(p, "open_have")
  /\ \/ /\ ip = 0
        /\ Then(p, << >>)
        /\ UNCHANGED ofile
     \/ /\ ip # 0
        /\ fds = {} \/ (inode[ip].type = T_DIR /\ Arg(p) # "r")
        /\ Then(p, iunlockput(ip))
        /\ UNCHANGED ofile
     \/ /\ ip # 0 /\ fds # {}
        /\ ~(inode[ip].type = T_DIR /\ Arg(p) # "r")
        /\ ofile' = [ofile EXCEPT ![p][Least(fds)] = ip]
        /\ Then(p, <<iunlock(ip)>>)
  /\ UNCHANGED <<tables, cwd, reg, ncalls, panicked>>

sys_mkdir(p) ==
  /\ \E path \in Mkdirs : Begin(p, create(path, T_DIR) \o <<Label("mk_done")>>)
  /\ UNCHANGED ofile

sys_mknod(p) ==
  /\ \E path \in Mknods : Begin(p, create(path, T_DEV) \o <<Label("mk_done")>>)
  /\ UNCHANGED ofile

mk_done(p) ==
  LET ip == reg[p].ret IN
  /\ At(p, "mk_done")
  /\ Then(p, IF ip = 0 THEN << >> ELSE iunlockput(ip))
  /\ UNCHANGED <<tables, userVars, reg, ncalls, panicked>>

\* fileclose() of the last descriptor of a file.
sys_close(p) ==
  \E f \in 1 .. NOFILE :
    /\ ofile[p][f] # 0
    /\ Begin(p, <<iput(ofile[p][f])>>)
    /\ ofile' = [ofile EXCEPT ![p][f] = 0]

sys_chdir(p) ==
  /\ \E path \in Chdirs : Begin(p, <<namei(path), Label("chdir_lock")>>)
  /\ UNCHANGED ofile

chdir_lock(p) ==
  LET ip == reg[p].ret IN
  /\ At(p, "chdir_lock")
  /\ Then(p, IF ip = 0 THEN << >> ELSE <<ilock(ip), Label("chdir_type")>>)
  /\ UNCHANGED <<tables, userVars, reg, ncalls, panicked>>

\* Mutant of chdir_type: the pointer to the old directory is kept.
chdir_type_keep(p) ==
  LET ip == reg[p].ret IN
  /\ At(p, "chdir_type")
  /\ Then(p, IF inode[ip].type # T_DIR THEN iunlockput(ip)
             ELSE <<iunlock(ip), Label("chdir_set")>>)
  /\ UNCHANGED <<tables, userVars, reg, ncalls, panicked>>

chdir_type(p) ==
  LET ip == reg[p].ret IN
  /\ At(p, "chdir_type")
  /\ Then(p, IF inode[ip].type # T_DIR THEN iunlockput(ip)
             ELSE <<iunlock(ip), iput(cwd[p]), Label("chdir_set")>>)
  /\ UNCHANGED <<tables, userVars, reg, ncalls, panicked>>

chdir_set(p) ==
  /\ At(p, "chdir_set")
  /\ cwd' = [cwd EXCEPT ![p] = reg[p].ret]
  /\ Then(p, << >>)
  /\ UNCHANGED <<tables, ofile, reg, ncalls, panicked>>
-----------------------------------------------------------------------------
(* sys_link() *)

\* ip->nlink += d; iupdate(ip), with the inode locked.
AddLinks(i, d) ==
  /\ inode' = [inode EXCEPT ![i].nlink = @ + d]
  /\ dinode' = [dinode EXCEPT ![i].nlink = inode[i].nlink + d]

sys_link(p) ==
  /\ \E l \in Links : Begin(p, <<namei(l[1]), <<"link_old", l[2]>>>>)
  /\ UNCHANGED ofile

link_old(p) ==
  LET ip == reg[p].ret IN
  /\ At(p, "link_old")
  /\ reg' = [reg EXCEPT ![p].ip = ip]
  /\ Then(p, IF ip = 0 THEN << >> ELSE <<ilock(ip), <<"link_inc", Arg(p)>>>>)
  /\ UNCHANGED <<tables, userVars, ncalls, panicked>>

\* Mutant of link_inc: the link is not counted.
link_inc_uncounted(p) ==
  LET ip == reg[p].ip IN
  /\ At(p, "link_inc")
  /\ Then(p, IF inode[ip].type = T_DIR THEN iunlockput(ip)
             ELSE <<iunlock(ip), nameiparent(Arg(p)), Label("link_new")>>)
  /\ UNCHANGED <<tables, userVars, reg, ncalls, panicked>>

link_inc(p) ==
  LET ip == reg[p].ip IN
  /\ At(p, "link_inc")
  /\ \/ /\ inode[ip].type = T_DIR
        /\ Then(p, iunlockput(ip))
        /\ UNCHANGED <<dinode, inode>>
     \/ /\ inode[ip].type # T_DIR
        /\ AddLinks(ip, 1)
        /\ Then(p, <<iunlock(ip), nameiparent(Arg(p)), Label("link_new")>>)
  /\ UNCHANGED <<lock, userVars, reg, ncalls, panicked>>

link_bad(ip) == <<ilock(ip), Label("link_dec")>>

link_new(p) ==
  LET dp == reg[p].ret IN
  /\ At(p, "link_new")
  /\ reg' = [reg EXCEPT ![p].dp = dp]
  /\ Then(p, IF dp = 0 THEN link_bad(reg[p].ip) ELSE <<ilock(dp), Label("link_dir")>>)
  /\ UNCHANGED <<tables, userVars, ncalls, panicked>>

\* dirlink() holds a pointer to the inode it finds under that name, and drops it.
link_dir(p) ==
  LET ip == reg[p].ip
      dp == reg[p].dp
      k == dirlookup(dp, reg[p].name) IN
  /\ At(p, "link_dir")
  /\ \/ /\ k = 0
        /\ dinode' = [dinode EXCEPT ![dp].ents = dirlink(@, reg[p].name, ip)]
        /\ Then(p, iunlockput(dp) \o <<iput(ip)>>)
        /\ UNCHANGED <<inode, panicked>>
     \/ /\ k # 0
        /\ panicked' = NoEntry(Target(dp, k))
        /\ inode' = iget(inode, Target(dp, k))
        /\ Then(p, <<iput(Target(dp, k))>> \o iunlockput(dp) \o link_bad(ip))
        /\ UNCHANGED dinode
  /\ UNCHANGED <<lock, userVars, reg, ncalls>>

link_dec(p) ==
  /\ At(p, "link_dec")
  /\ AddLinks(reg[p].ip, -1)
  /\ Then(p, iunlockput(reg[p].ip))
  /\ UNCHANGED <<lock, userVars, reg, ncalls, panicked>>
-----------------------------------------------------------------------------
(* sys_unlink() *)

sys_unlink(p) ==
  /\ \E path \in Unlinks : Begin(p, <<nameiparent(path), Label("unlink_parent")>>)
  /\ UNCHANGED ofile

unlink_parent(p) ==
  LET dp == reg[p].ret IN
  /\ At(p, "unlink_parent")
  /\ reg' = [reg EXCEPT ![p].dp = dp]
  /\ Then(p, IF dp = 0 THEN << >> ELSE <<ilock(dp), Label("unlink_look")>>)
  /\ UNCHANGED <<tables, userVars, ncalls, panicked>>

unlink_look(p) ==
  LET dp == reg[p].dp
      k == dirlookup(dp, reg[p].name)
      i == Target(dp, k) IN
  /\ At(p, "unlink_look")
  /\ \/ /\ reg[p].name \in {".", ".."} \/ k = 0
        /\ Then(p, iunlockput(dp))
        /\ UNCHANGED <<inode, reg, panicked>>
     \/ /\ reg[p].name \notin {".", ".."} /\ k # 0
        /\ panicked' = NoEntry(i)
        /\ inode' = iget(inode, i)
        /\ reg' = [reg EXCEPT ![p].ip = i, ![p].off = k]
        /\ Then(p, <<ilock(i), Label("unlink_erase")>>)
  /\ UNCHANGED <<dinode, lock, userVars, ncalls>>

unlink_erase(p) ==
  LET dp == reg[p].dp
      ip == reg[p].ip
      up == IF inode[ip].type = T_DIR THEN 1 ELSE 0 IN
  /\ At(p, "unlink_erase")
  /\ panicked' = (inode[ip].nlink < 1)
  /\ \/ /\ up = 1 /\ ~isdirempty(ip)
        /\ Then(p, iunlockput(ip) \o iunlockput(dp))
        /\ UNCHANGED <<dinode, inode>>
     \/ /\ up = 0 \/ isdirempty(ip)
        /\ inode' = [inode EXCEPT ![dp].nlink = @ - up]
        /\ dinode' = [dinode EXCEPT ![dp].nlink = inode[dp].nlink - up,
                                    ![dp].ents = Erase(@, reg[p].off)]
        /\ Then(p, iunlockput(dp) \o <<Label("unlink_dec")>>)
  /\ UNCHANGED <<lock, userVars, reg, ncalls>>

unlink_dec(p) ==
  /\ At(p, "unlink_dec")
  /\ AddLinks(reg[p].ip, -1)
  /\ Then(p, iunlockput(reg[p].ip))
  /\ UNCHANGED <<lock, userVars, reg, ncalls, panicked>>
-----------------------------------------------------------------------------
Syscall(p) ==
  \/ sys_open(p) \/ sys_mkdir(p) \/ sys_mknod(p) \/ sys_close(p)
  \/ sys_chdir(p) \/ sys_link(p) \/ sys_unlink(p)

Step(p) ==
  \/ do_ilock(p) \/ do_iunlock(p) \/ do_end_op(p)
  \/ do_iput(p) \/ do_ifree(p) \/ do_idrop(p) \/ do_irefdec(p)
  \/ \E op \in {"namei", "nameiparent"} : namex(p, op)
  \/ \E op \in {"walk", "walkparent"} : walk(p, op)
  \/ \E op \in {"look", "lookparent"} : look(p, op)
  \/ create_parent(p) \/ create_exists(p) \/ create_have(p)
  \/ ialloc(p) \/ create_new(p)
  \/ open_lock(p) \/ open_have(p) \/ mk_done(p)
  \/ chdir_lock(p) \/ chdir_type(p) \/ chdir_set(p)
  \/ link_old(p) \/ link_inc(p) \/ link_new(p) \/ link_dir(p) \/ link_dec(p)
  \/ unlink_parent(p) \/ unlink_look(p) \/ unlink_erase(p) \/ unlink_dec(p)

Next == \E p \in Proc : Syscall(p) \/ Step(p)

Spec == Init /\ [][Next]_vars
-----------------------------------------------------------------------------
(* Properties *)

Quiet == \A p \in Proc : todo[p] = << >>

\* Pointers to inode i that outlive a call: working directories and open files.
Pointers(i) ==
  Cardinality({p \in Proc : cwd[p] = i})
  + Cardinality({x \in Proc \X (1 .. NOFILE) : ofile[x[1]][x[2]] = i})

\* Entries of directories that name inode i, "." and ".." apart.
Names(i) ==
  {x \in Inum \X (1 .. 6) :
     /\ x[2] > 2 /\ x[2] \in DOMAIN dinode[x[1]].ents
     /\ dinode[x[1]].ents[x[2]].inum = i}

\* On-disk inodes, their cache, the locks and the descriptors have their types.
TypeOK ==
  /\ \A i \in Inum :
       /\ dinode[i].type \in {"none", T_DIR, T_FILE, T_DEV}
       /\ dinode[i].nlink \in Nat
       /\ inode[i].ref \in Nat
       /\ lock[i] \in Proc \union {None}
  /\ cwd \in [Proc -> Inum]
  /\ ofile \in [Proc -> [1 .. NOFILE -> Inum \union {0}]]
  /\ ncalls \in 0 .. MaxCalls
  /\ panicked \in BOOLEAN

\* However the calls interleave, no panic() of fs.c or sysfile.c is reached:
\* no lock is released by someone else, no inode without a type is locked.
\* Every variable keeps its type.
NoPanic == TypeOK /\ ~panicked

\* An entry never outlives the inode it names: sys_link() counts the link before
\* it makes the entry, sys_unlink() erases the entry before it lowers the count,
\* and both write the count through: an unlocked inode in memory is the disk's.
EntryIsCounted == \A i \in Inum :
  /\ Cardinality(Names(i)) <= dinode[i].nlink
  /\ Names(i) # {} => dinode[i].type # "none"
  /\ lock[i] = None /\ inode[i].valid =>
       inode[i].type = dinode[i].type /\ inode[i].nlink = dinode[i].nlink

\* A pointer kept in cwd or ofile is counted in ip->ref, and the inode it points
\* to stays allocated; outside calls nothing else is counted, so no error path
\* of a call keeps a pointer or loses one.
PointersAreCounted ==
  /\ \A i \in Inum : Pointers(i) > 0 /\ Quiet => dinode[i].type # "none"
  /\ Quiet => \A i \in Inum : inode[i].ref = Pointers(i) /\ lock[i] = None

=============================================================================
