------------------------------ MODULE MoveFile ------------------------------
(***************************************************************************)
(* sys_move_file() beside the other calls of FileSys.  It links the inode  *)
(* into the destination directory under the text of the source path, then  *)
(* erases the old entry.  From the first ilock() to the last line it keeps *)
(* the source and then the destination locked, while it walks the paths.   *)
(***************************************************************************)
EXTENDS FileSys

CONSTANT Moves   \* the pairs of paths move_file() is called with

\* safestrcpy(filename, src_file, DIRSIZ).  An entry whose name has a slash in
\* it is out of reach of skipelem(), whatever the rest of the name is.
Spelling(path) == IF ~path.abs /\ Len(path.es) = 1 THEN path.es[1] ELSE "a path"

sys_move_file(p) ==
  /\ \E m \in Moves : Begin(p, <<namei(m[1]), <<"move_src", m>>>>)
  /\ UNCHANGED ofile

move_src(p) ==
  LET src == reg[p].ret IN
  /\ At(p, "move_src")
  /\ reg' = [reg EXCEPT ![p].ip = src]
  /\ Then(p, IF src = 0 THEN << >>
             ELSE <<ilock(src), namei(Arg(p)[2]), <<"move_dst", Arg(p)>>>>)
  /\ UNCHANGED <<tables, userVars, ncalls, panicked>>

move_dst(p) ==
  LET dst == reg[p].ret IN
  /\ At(p, "move_dst")
  /\ reg' = [reg EXCEPT ![p].dp = dst]
  /\ Then(p, IF dst = 0 THEN iunlockput(reg[p].ip)
             ELSE <<ilock(dst), <<"move_link", Arg(p)>>>>)
  /\ UNCHANGED <<tables, userVars, ncalls, panicked>>

move_link(p) ==
  LET src == reg[p].ip
      dst == reg[p].dp
      n == Spelling(Arg(p)[1])
      k == dirlookup(dst, n) IN
  /\ At(p, "move_link")
  /\ panicked' = (inode[dst].type # T_DIR)
  /\ \/ /\ k # 0
        /\ inode' = iget(inode, Target(dst, k))
        /\ Then(p, <<iput(Target(dst, k))>> \o iunlockput(dst) \o iunlockput(src))
        /\ UNCHANGED dinode
     \/ /\ k = 0
        /\ dinode' = [dinode EXCEPT ![dst].ents = dirlink(@, n, src)]
        /\ Then(p, <<nameiparent(Arg(p)[1]), Label("move_old")>>)
        /\ UNCHANGED inode
  /\ UNCHANGED <<lock, userVars, reg, ncalls>>

\* dirlookup() in a directory that is not locked; its pointer is never put.
move_old(p) ==
  LET old == reg[p].ret
      k == dirlookup(old, reg[p].name)
      out == iunlockput(reg[p].ip) \o iunlockput(reg[p].dp) IN
  /\ At(p, "move_old")
  /\ \/ /\ old = 0 \/ k = 0
        /\ Then(p, out)
        /\ UNCHANGED <<inode, reg>>
     \/ /\ old # 0 /\ k # 0
        /\ inode' = iget(inode, Target(old, k))
        /\ reg' = [reg EXCEPT ![p].off = k]
        /\ Then(p, <<ilock(old), Label("move_erase")>>)
  /\ UNCHANGED <<dinode, lock, userVars, ncalls, panicked>>

move_erase(p) ==
  LET old == reg[p].ret IN
  /\ At(p, "move_erase")
  /\ dinode' = [dinode EXCEPT ![old].ents = Erase(@, reg[p].off)]
  /\ Then(p, iunlockput(old) \o iunlockput(reg[p].dp) \o iunlockput(reg[p].ip))
  /\ UNCHANGED <<inode, lock, userVars, reg, ncalls, panicked>>

MoveStep(p) ==
  \/ move_src(p) \/ move_dst(p) \/ move_link(p) \/ move_old(p) \/ move_erase(p)

MoveNext == \E p \in Proc : Syscall(p) \/ Step(p) \/ sys_move_file(p) \/ MoveStep(p)

MoveSpec ==
  /\ Init /\ [][MoveNext]_vars
  /\ \A p \in Proc : WF_vars(Step(p) \/ MoveStep(p))

\* move_file() "returns 0 on success, -1 on error", so it returns; and no order
\* of the calls leaves them waiting for each other's inode locks.
EveryCallReturns == \A p \in Proc : todo[p] # << >> ~> todo[p] = << >>
=============================================================================
