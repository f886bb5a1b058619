----------------------------- MODULE FileTable -----------------------------
(***************************************************************************)
(* Open files, descriptors and pipes: file.c, pipe.c and the calls of      *)
(* sysfile.c on descriptors.  A process has a list of what it will do,     *)
(* todo[p]: system calls, and the rest of a call that takes several steps. *)
(* A step is what a call does under one lock.  A process that sleeps in a  *)
(* pipe is on the channel chan[p] until someone wakes it.                  *)
(***************************************************************************)
EXTENDS Integers, Sequences, FiniteSets

CONSTANTS NPROC, NFILE, NOFILE,   \* sizes of the tables
          NPage,                  \* pages kalloc() can give to pipes
          PIPESIZE,
          UINT,                   \* 2^32: nread and nwrite wrap around
          ReadSize,               \* bytes a program reads at a time
          FileName,
          MaxFaults               \* bound: times kalloc() finds no page

VARIABLES file,     \* ftable.file
          pipe,     \* the pages of pipes
          ofile,    \* proc.ofile, 0 for a free descriptor
          chan,     \* proc.chan
          todo,     \* what a process will do
          reg,      \* its local variables: pipe ends, bytes read
          disk,     \* contents of files, and what was written to the console
          nfaults,  \* calls that found no page, file, descriptor or process
          stream    \* bytes in each pipe, as a queue

fileVars == <<file, pipe, ofile, chan, todo, reg, disk, nfaults, stream>>

Proc == 1 .. NPROC
File == 1 .. NFILE
Fd == 0 .. NOFILE - 1
Page == 1 .. NPage
Channel == {"nread", "nwrite"} \X Page
Awake == <<"none", 0>>
NoFile == [ref |-> 0, type |-> "none", mode |-> "", pipe |-> 0, name |-> "", off |-> 0]
NoPipe == [data |-> [i \in 0 .. PIPESIZE - 1 |-> 0], nread |-> 0, nwrite |-> 0,
           readopen |-> FALSE, writeopen |-> FALSE]
NoReg == [rf |-> 0, wf |-> 0, fd |-> <<0, 0>>, buf |-> << >>]

Lowest(S) == CHOOSE x \in S : \A y \in S : x <= y
Smaller(a, b) == IF a < b THEN a ELSE b

At(p, op) == todo[p] # << >> /\ Head(todo[p])[1] = op /\ chan[p] = Awake
Arg(p) == Head(todo[p])[2]
Then(p, is) == todo' = [todo EXCEPT ![p] = is \o Tail(@)]

\* What sh.c and the programs do about an error.
exit == <<<<"exit", 0>>>>
Exit(p) == todo' = [todo EXCEPT ![p] = exit]

\* wakeup(c): c sleeps no more.
Woken(c) == [q \in Proc |-> IF chan[q] = c THEN Awake ELSE chan[q]]
-----------------------------------------------------------------------------
(* Closing *)

\* fileclose() under ftable.lock: what is left to do is pipeclose().
Closed(f) == [file EXCEPT ![f] = IF @.ref > 1 THEN [@ EXCEPT !.ref = @ - 1] ELSE NoFile]
Pipeclose(f) == <<<<"pipeclose", <<file[f].pipe, file[f].mode>>>>>>

Rest(f) == IF file[f].ref = 1 /\ file[f].type = "pipe" THEN Pipeclose(f) ELSE << >>

sys_close(p) ==
  LET f == ofile[p][Arg(p)] IN
  /\ At(p, "close")
  /\ ofile' = [ofile EXCEPT ![p][Arg(p)] = 0]
  /\ file' = IF f = 0 THEN file ELSE Closed(f)
  /\ Then(p, IF f = 0 THEN << >> ELSE Rest(f))
  /\ UNCHANGED <<pipe, chan, reg, disk, nfaults, stream>>

\* Mutant of pipeclose: the other end is not woken.
pipeclose_quiet(p) ==
  LET k == Arg(p)[1]
      shut == IF Arg(p)[2] = "w" THEN [pipe[k] EXCEPT !.writeopen = FALSE]
              ELSE [pipe[k] EXCEPT !.readopen = FALSE] IN
  /\ At(p, "pipeclose")
  /\ pipe' = [pipe EXCEPT ![k] = IF shut.readopen \/ shut.writeopen THEN shut ELSE NoPipe]
  /\ stream' = [stream EXCEPT ![k] = IF shut.readopen \/ shut.writeopen THEN @ ELSE << >>]
  /\ Then(p, << >>)
  /\ UNCHANGED <<file, ofile, chan, reg, disk, nfaults>>

pipeclose(p) ==
  LET k == Arg(p)[1]
      writable == Arg(p)[2] = "w"
      shut == IF writable THEN [pipe[k] EXCEPT !.writeopen = FALSE]
              ELSE [pipe[k] EXCEPT !.readopen = FALSE] IN
  /\ At(p, "pipeclose")
  /\ chan' = Woken(<<IF writable THEN "nread" ELSE "nwrite", k>>)
  /\ pipe' = [pipe EXCEPT ![k] = IF shut.readopen \/ shut.writeopen THEN shut ELSE NoPipe]
  /\ stream' = [stream EXCEPT ![k] = IF shut.readopen \/ shut.writeopen THEN @ ELSE << >>]
  /\ Then(p, << >>)
  /\ UNCHANGED <<file, ofile, reg, disk, nfaults>>
-----------------------------------------------------------------------------
(* Opening *)

FreeFiles == {f \in File : file[f].ref = 0}
FreeFds(p) == {fd \in Fd : ofile[p][fd] = 0}

\* argfd(), fdalloc() and filedup() of the descriptor kept in reg[p].fd.
sys_dup(p) ==
  LET f == ofile[p][reg[p].fd[Arg(p)]] IN
  /\ At(p, "dup")
  /\ Then(p, << >>)
  /\ IF f = 0 \/ FreeFds(p) = {} THEN UNCHANGED <<file, ofile>>
     ELSE /\ ofile' = [ofile EXCEPT ![p][Lowest(FreeFds(p))] = f]
          /\ file' = [file EXCEPT ![f].ref = @ + 1]
  /\ UNCHANGED <<pipe, chan, reg, disk, nfaults, stream>>

sys_pipe(p) ==
  /\ At(p, "pipe")
  /\ reg' = [reg EXCEPT ![p].rf = 0, ![p].wf = 0]
  /\ Then(p, <<<<"filealloc", "rf">>, <<"filealloc", "wf">>, <<"kalloc", 0>>, <<"fdalloc", 0>>>>)
  /\ UNCHANGED <<file, pipe, ofile, chan, disk, nfaults, stream>>

\* The ways out of pipealloc() and sys_pipe(); sh.c panics, and exits.
bad(p) == (IF reg[p].rf = 0 THEN << >> ELSE <<<<"fileclose", reg[p].rf>>>>)
          \o (IF reg[p].wf = 0 THEN << >> ELSE <<<<"fileclose", reg[p].wf>>>>)
          \o exit
Abandon(p) == todo' = [todo EXCEPT ![p] = bad(p)]

filealloc(p) ==
  LET f == Lowest(FreeFiles) IN
  /\ At(p, "filealloc")
  /\ \/ /\ FreeFiles = {}
        /\ nfaults' = nfaults + 1
        /\ Abandon(p)
        /\ UNCHANGED <<file, reg>>
     \/ /\ FreeFiles # {}
        /\ file' = [file EXCEPT ![f].ref = 1]
        /\ reg' = [reg EXCEPT ![p] = IF Arg(p) = "rf" THEN [@ EXCEPT !.rf = f]
                                     ELSE [@ EXCEPT !.wf = f]]
        /\ Then(p, << >>)
        /\ UNCHANGED nfaults
  /\ UNCHANGED <<pipe, ofile, chan, disk, stream>>

fileclose(p) ==
  /\ At(p, "fileclose")
  /\ file' = Closed(Arg(p))
  /\ Then(p, Rest(Arg(p)))
  /\ UNCHANGED <<pipe, ofile, chan, reg, disk, nfaults, stream>>

pipealloc(p) ==
  LET pages == {k \in Page : ~pipe[k].readopen /\ ~pipe[k].writeopen}
      k == Lowest(pages) IN
  /\ At(p, "kalloc")
  /\ \/ /\ nfaults < MaxFaults
        /\ nfaults' = nfaults + 1
        /\ Abandon(p)
        /\ UNCHANGED <<file, pipe, stream>>
     \/ /\ pages # {}
        /\ pipe' = [pipe EXCEPT ![k] = [NoPipe EXCEPT !.readopen = TRUE, !.writeopen = TRUE]]
        /\ stream' = [stream EXCEPT ![k] = << >>]
        /\ file' = [file EXCEPT
             ![reg[p].rf] = [@ EXCEPT !.type = "pipe", !.mode = "r", !.pipe = k],
             ![reg[p].wf] = [@ EXCEPT !.type = "pipe", !.mode = "w", !.pipe = k]]
        /\ Then(p, << >>)
        /\ UNCHANGED nfaults
  /\ UNCHANGED <<ofile, chan, reg, disk>>

fdalloc(p) ==
  LET fd0 == Lowest(FreeFds(p))
      fd1 == Lowest(FreeFds(p) \ {fd0}) IN
  /\ At(p, "fdalloc")
  /\ \/ /\ Cardinality(FreeFds(p)) < 2
        /\ nfaults' = nfaults + 1
        /\ Abandon(p)
        /\ UNCHANGED <<ofile, reg>>
     \/ /\ Cardinality(FreeFds(p)) >= 2
        /\ ofile' = [ofile EXCEPT ![p][fd0] = reg[p].rf, ![p][fd1] = reg[p].wf]
        /\ reg' = [reg EXCEPT ![p].fd = <<fd0, fd1>>, ![p].rf = 0, ![p].wf = 0]
        /\ Then(p, << >>)
        /\ UNCHANGED nfaults
  /\ UNCHANGED <<file, pipe, chan, disk, stream>>

\* sys_open() of <<name, mode>>; sh.c exits when it fails.
sys_open(p) ==
  LET name == Arg(p)[1]
      mode == Arg(p)[2]
      f == Lowest(FreeFiles) IN
  /\ At(p, "open")
  /\ \/ /\ FreeFiles = {} \/ FreeFds(p) = {} \/ (mode = "r" /\ disk[name] = <<"missing">>)
        /\ nfaults' = IF FreeFiles = {} THEN nfaults + 1 ELSE nfaults
        /\ Exit(p)
        /\ UNCHANGED <<file, ofile, disk>>
     \/ /\ FreeFiles # {} /\ FreeFds(p) # {}
        /\ mode = "w" \/ disk[name] # <<"missing">>
        /\ file' = [file EXCEPT ![f] = [NoFile EXCEPT !.ref = 1, !.type = "inode",
                                                      !.mode = mode, !.name = name]]
        /\ ofile' = [ofile EXCEPT ![p][Lowest(FreeFds(p))] = f]
        /\ disk' = [disk EXCEPT ![name] = IF @ = <<"missing">> THEN << >> ELSE @]
        /\ Then(p, << >>)
        /\ UNCHANGED nfaults
  /\ UNCHANGED <<pipe, chan, reg, stream>>
-----------------------------------------------------------------------------
(* Reading and writing *)

\* Mutant of Used: signed arithmetic.
Used_signed(k) == pipe[k].nwrite - pipe[k].nread

\* Bytes in a pipe: nwrite - nread, on unsigned integers.
Used(k) == (pipe[k].nwrite - pipe[k].nread) % UINT

\* The ring with the bytes bs put behind nwrite.
Filled(k, bs) ==
  [pipe[k] EXCEPT
    !.nwrite = (@ + Len(bs)) % UINT,
    !.data = [i \in 0 .. PIPESIZE - 1 |->
                LET at == {j \in 1 .. Len(bs) :
                             ((pipe[k].nwrite + j - 1) % UINT) % PIPESIZE = i} IN
                IF at = {} THEN @[i] ELSE bs[Lowest(at)]]]

Ring(k) == [j \in 1 .. Used(k) |-> pipe[k].data[((pipe[k].nread + j - 1) % UINT) % PIPESIZE]]

\* write(1, ...) to a pipe: bytes go in until it is full.
pipewrite(p) ==
  LET f == ofile[p][1]
      k == file[f].pipe
      bs == Arg(p)
      n == Smaller(Len(bs), PIPESIZE - Used(k))
      left == SubSeq(bs, n + 1, Len(bs)) IN
  /\ At(p, "write") /\ f # 0 /\ file[f].type = "pipe" /\ file[f].mode = "w"
  /\ pipe' = [pipe EXCEPT ![k] = Filled(k, SubSeq(bs, 1, n))]
  /\ stream' = [stream EXCEPT ![k] = @ \o SubSeq(bs, 1, n)]
  /\ \/ /\ left # << >> /\ pipe[k].readopen
        /\ chan' = [Woken(<<"nread", k>>) EXCEPT ![p] = <<"nwrite", k>>]
        /\ Then(p, <<<<"write", left>>>>)
     \/ /\ left # << >> /\ ~pipe[k].readopen
        /\ Exit(p)
        /\ UNCHANGED chan
     \/ /\ left = << >>
        /\ chan' = Woken(<<"nread", k>>)
        /\ Then(p, << >>)
  /\ UNCHANGED <<file, ofile, reg, disk, nfaults>>

\* read(0, ...) from a pipe.
piperead(p) ==
  LET f == ofile[p][0]
      k == file[f].pipe
      n == Smaller(ReadSize, Used(k)) IN
  /\ At(p, "read") /\ f # 0 /\ file[f].type = "pipe" /\ file[f].mode = "r"
  /\ \/ /\ Used(k) = 0 /\ pipe[k].writeopen
        /\ chan' = [chan EXCEPT ![p] = <<"nread", k>>]
        /\ UNCHANGED <<pipe, stream, reg, todo>>
     \/ /\ Used(k) # 0 \/ ~pipe[k].writeopen
        /\ pipe' = [pipe EXCEPT ![k].nread = (@ + n) % UINT]
        /\ stream' = [stream EXCEPT ![k] = SubSeq(@, n + 1, Len(@))]
        /\ reg' = [reg EXCEPT ![p].buf = SubSeq(Ring(k), 1, n)]
        /\ chan' = Woken(<<"nwrite", k>>)
        /\ Then(p, << >>)
  /\ UNCHANGED <<file, ofile, disk, nfaults>>

\* filewrite() of an inode: at f->off, which all its descriptors share.
Overwritten(old, off, bs) ==
  [i \in 1 .. (IF Len(old) > off + Len(bs) THEN Len(old) ELSE off + Len(bs)) |->
     IF i > off /\ i <= off + Len(bs) THEN bs[i - off] ELSE old[i]]

filewrite(p) ==
  LET f == ofile[p][1]
      bs == Arg(p) IN
  /\ At(p, "write")
  /\ \/ /\ f = 0 \/ file[f].mode = "r"
        /\ UNCHANGED <<file, disk>>
        /\ Exit(p)
     \/ /\ f # 0 /\ file[f].type = "inode" /\ file[f].mode # "r"
        /\ Then(p, << >>)
        /\ disk' = [disk EXCEPT ![file[f].name] = Overwritten(@, file[f].off, bs)]
        /\ file' = [file EXCEPT ![f].off = @ + Len(bs)]
  /\ UNCHANGED <<pipe, ofile, chan, reg, nfaults, stream>>

\* fileread() of an inode.
fileread(p) ==
  LET f == ofile[p][0]
      \* At the console, the user ends the file.
      text == IF file[f].name = "console" THEN << >> ELSE disk[file[f].name]
      bs == SubSeq(text, file[f].off + 1, Smaller(Len(text), file[f].off + ReadSize)) IN
  /\ At(p, "read")
  /\ \/ /\ f = 0 \/ file[f].mode = "w"
        /\ reg' = [reg EXCEPT ![p].buf = << >>]
        /\ UNCHANGED file
     \/ /\ f # 0 /\ file[f].type = "inode" /\ file[f].mode # "w"
        /\ reg' = [reg EXCEPT ![p].buf = bs]
        /\ file' = [file EXCEPT ![f].off = @ + Len(bs)]
  /\ Then(p, << >>)
  /\ UNCHANGED <<pipe, ofile, chan, disk, nfaults, stream>>

FileStep(p) ==
  \/ sys_close(p) \/ pipeclose(p) \/ fileclose(p)
  \/ sys_dup(p) \/ sys_pipe(p) \/ filealloc(p) \/ pipealloc(p) \/ fdalloc(p) \/ sys_open(p)
  \/ pipewrite(p) \/ piperead(p) \/ filewrite(p) \/ fileread(p)
=============================================================================
