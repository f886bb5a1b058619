------------------------------- MODULE Shell -------------------------------
(***************************************************************************)
(* The shell of sh.c running a command line on the files and pipes of      *)
(* FileTable: process 1 is the shell, its children run the tree that       *)
(* ShellParser makes of the line.  The programs are echo, which writes     *)
(* Message, cat, which copies, and true.  fork(), exit() and wait() are    *)
(* the steps ProcTable looks into.                                         *)
(***************************************************************************)
EXTENDS FileTable, ShellParser

CONSTANTS Commands,    \* trees of the lines that are typed
          BadLines,    \* lines that are no command
          Message      \* what echo writes

VARIABLES state,    \* proc.state: "unused", "used" or "zombie"
          parent,   \* proc.parent, 0 for init
          meant,    \* the command that was typed, Fail for a bad line
          cmd       \* what parsecmd() makes of the line

vars == <<fileVars, state, parent, meant, cmd>>
procVars == <<state, parent, meant, cmd>>

\* init holds the console open, on three descriptors.
Console == 1

Init ==
  /\ \/ meant \in Commands /\ cmd = parsecmd(Written(meant))
     \/ meant = Fail /\ \E line \in BadLines : cmd = parsecmd(line)
  /\ file = [f \in File |-> IF f = Console
               THEN [NoFile EXCEPT !.ref = 6, !.type = "inode", !.mode = "rw", !.name = "console"]
               ELSE NoFile]
  /\ pipe = [k \in Page |-> NoPipe]
  /\ ofile = [p \in Proc |-> [fd \in Fd |-> IF p = 1 /\ fd < 3 THEN Console ELSE 0]]
  /\ chan = [p \in Proc |-> Awake]
  /\ todo = [p \in Proc |-> IF p = 1 THEN <<<<"getcmd", 0>>>> ELSE << >>]
  /\ reg = [p \in Proc |-> NoReg]
  /\ disk = [n \in FileName |-> IF n = "console" THEN << >> ELSE <<"missing">>]
  /\ nfaults = 0
  /\ stream = [k \in Page |-> << >>]
  /\ state = [p \in Proc |-> IF p = 1 THEN "used" ELSE "unused"]
  /\ parent = [p \in Proc |-> 0]
-----------------------------------------------------------------------------
(* sh.c *)

\* main(): a line is read, and a child runs it.
getcmd(p) ==
  /\ At(p, "getcmd")
  /\ Then(p, <<<<"fork", <<<<"parsecmd", 0>>>>>>, <<"wait", 0>>>>)
  /\ UNCHANGED <<file, pipe, ofile, chan, reg, disk, nfaults, stream, procVars>>

\* panic() in the parser exits.
parse(p) ==
  /\ At(p, "parsecmd")
  /\ todo' = [todo EXCEPT ![p] = IF cmd = Fail THEN exit ELSE <<<<"runcmd", cmd>>>>]
  /\ UNCHANGED <<file, pipe, ofile, chan, reg, disk, nfaults, stream, procVars>>

Program(name) ==
  CASE name = "echo" -> <<<<"write", Message>>>> \o exit
    [] name = "cat" -> <<<<"read", 0>>, <<"copy", 0>>>>
    [] OTHER -> exit

\* The child at one end of a pipe, 0 for the left one: descriptor 1 or 0 becomes
\* p[1] or p[0].
End(k, c) ==
  <<<<"close", 1 - k>>, <<"dup", 2 - k>>, <<"closep", 1>>, <<"closep", 2>>, <<"runcmd", c>>>>

Steps(c) ==
  CASE c.type = "EXEC" -> IF c.argv = << >> THEN exit ELSE Program(c.argv[1])
    [] c.type = "REDIR" -> <<<<"close", IF c.mode = "r" THEN 0 ELSE 1>>,
                               <<"open", <<c.file, c.mode>>>>, <<"runcmd", c.cmd>>>>
    [] c.type = "LIST" -> <<<<"fork", <<<<"runcmd", c.left>>>>>>, <<"wait", 0>>,
                              <<"runcmd", c.right>>>>
    [] c.type = "PIPE" -> <<<<"pipe", 0>>, <<"fork", End(0, c.left)>>,
                              <<"fork", End(1, c.right)>>, <<"closep", 1>>, <<"closep", 2>>,
                              <<"wait", 0>>, <<"wait", 0>>>> \o exit
    [] c.type = "BACK" -> <<<<"fork", <<<<"runcmd", c.cmd>>>>>>>> \o exit

runcmd(p) ==
  /\ At(p, "runcmd")
  /\ todo' = [todo EXCEPT ![p] = Steps(Arg(p))]
  /\ UNCHANGED <<file, pipe, ofile, chan, reg, disk, nfaults, stream, procVars>>

\* close(p[0]) or close(p[1]).
closep(p) ==
  /\ At(p, "closep")
  /\ Then(p, <<<<"close", reg[p].fd[Arg(p)]>>>>)
  /\ UNCHANGED <<file, pipe, ofile, chan, reg, disk, nfaults, stream, procVars>>

\* The loop of cat, after a read().
copy(p) ==
  /\ At(p, "copy")
  /\ todo' = [todo EXCEPT ![p] = IF reg[p].buf = << >> THEN exit
                ELSE <<<<"write", reg[p].buf>>>> \o Program("cat")]
  /\ UNCHANGED <<file, pipe, ofile, chan, reg, disk, nfaults, stream, procVars>>
-----------------------------------------------------------------------------
(* fork(), exit() and wait() *)

\* Mutant of Inherited: fork() without filedup().
Inherited_bare(p) == file

\* filedup() of every open file.
Inherited(p) ==
  [f \in File |-> [file[f] EXCEPT !.ref = @ + Cardinality({fd \in Fd : ofile[p][fd] = f})]]

\* fork1(): the child does Arg(p).
fork(p) ==
  LET slots == {q \in Proc : state[q] = "unused"}
      q == Lowest(slots) IN
  /\ At(p, "fork")
  /\ \/ /\ slots = {}
        /\ nfaults' = nfaults + 1
        /\ Exit(p)
        /\ UNCHANGED <<file, ofile, reg, state, parent>>
     \/ /\ slots # {}
        /\ state' = [state EXCEPT ![q] = "used"]
        /\ parent' = [parent EXCEPT ![q] = p]
        /\ ofile' = [ofile EXCEPT ![q] = ofile[p]]
        /\ file' = Inherited(p)
        /\ reg' = [reg EXCEPT ![q] = reg[p]]
        /\ todo' = [todo EXCEPT ![p] = Tail(@), ![q] = Arg(p)]
        /\ UNCHANGED nfaults
  /\ UNCHANGED <<pipe, chan, disk, stream, meant, cmd>>

RECURSIVE CloseAll(_, _)
CloseAll(p, fd) ==
  IF fd = NOFILE THEN << >>
  ELSE (IF ofile[p][fd] = 0 THEN << >> ELSE <<<<"close", fd>>>>) \o CloseAll(p, fd + 1)

do_exit(p) ==
  /\ At(p, "exit")
  /\ Then(p, CloseAll(p, 0) \o <<<<"zombie", 0>>>>)
  /\ UNCHANGED <<file, pipe, ofile, chan, reg, disk, nfaults, stream, procVars>>

\* The end of exit(); init waits for its children.
zombie(p) ==
  /\ At(p, "zombie")
  /\ parent' = [q \in Proc |-> IF parent[q] = p THEN 0 ELSE parent[q]]
  /\ state' = [q \in Proc |->
       CASE q = p -> IF parent[p] = 0 THEN "unused" ELSE "zombie"
         [] parent[q] = p /\ state[q] = "zombie" -> "unused"
         [] OTHER -> state[q]]
  /\ reg' = [reg EXCEPT ![p] = NoReg]
  /\ Then(p, << >>)
  /\ UNCHANGED <<file, pipe, ofile, chan, disk, nfaults, stream, meant, cmd>>

\* Mutant of wait: it does not wait.
wait_not(p) ==
  /\ At(p, "wait")
  /\ Then(p, << >>)
  /\ UNCHANGED <<file, pipe, ofile, chan, reg, disk, nfaults, stream, procVars>>

wait(p) ==
  LET children == {q \in Proc : parent[q] = p /\ state[q] # "unused"}
      dead == {q \in children : state[q] = "zombie"} IN
  /\ At(p, "wait")
  /\ \/ /\ children = {}
        /\ UNCHANGED <<state, parent>>
     \/ \E q \in dead :
          /\ state' = [state EXCEPT ![q] = "unused"]
          /\ parent' = [parent EXCEPT ![q] = 0]
  /\ Then(p, << >>)
  /\ UNCHANGED <<file, pipe, ofile, chan, reg, disk, nfaults, stream, meant, cmd>>

Step(p) ==
  \/ FileStep(p) /\ UNCHANGED procVars
  \/ getcmd(p) \/ parse(p) \/ runcmd(p) \/ closep(p) \/ copy(p)
  \/ fork(p) \/ do_exit(p) \/ zombie(p) \/ wait(p)

Next == \E p \in Proc : Step(p)

\* The processor is never idle while a process can run.
Spec == Init /\ [][Next]_vars /\ WF_vars(Next)
-----------------------------------------------------------------------------
(* What a command means: its output, what is left of its input, and the files *)

RECURSIVE Meaning(_, _, _)
Meaning(c, in, fs) ==
  LET Is(out, rest, files) == [out |-> out, rest |-> rest, fs |-> files]
      Made(f) == [fs EXCEPT ![f] = IF @ = <<"missing">> THEN << >> ELSE @] IN
  CASE c.type = "FAIL" -> Is(<< >>, in, fs)
    [] c.type = "EXEC" /\ c.argv = <<"echo">> -> Is(Message, in, fs)
    [] c.type = "EXEC" /\ c.argv = <<"cat">> -> Is(in, << >>, fs)
    [] c.type = "EXEC" /\ c.argv \notin {<<"echo">>, <<"cat">>} -> Is(<< >>, in, fs)
    [] c.type = "REDIR" /\ c.mode = "w" ->
         LET m == Meaning(c.cmd, in, Made(c.file)) IN
         Is(<< >>, m.rest, [m.fs EXCEPT ![c.file] = Overwritten(@, 0, m.out)])
    [] c.type = "REDIR" /\ c.mode = "r" ->
         IF fs[c.file] = <<"missing">> THEN Is(<< >>, in, fs)
         ELSE [Meaning(c.cmd, fs[c.file], fs) EXCEPT !.rest = in]
    [] c.type = "LIST" -> LET l == Meaning(c.left, in, fs)
                              r == Meaning(c.right, l.rest, l.fs) IN
                          Is(l.out \o r.out, r.rest, r.fs)
    [] c.type = "PIPE" -> LET l == Meaning(c.left, in, fs) IN
                          [Meaning(c.right, l.out, l.fs) EXCEPT !.rest = l.rest]

RECURSIVE HasBack(_)
HasBack(c) ==
  \/ c.type = "BACK"
  \/ c.type = "REDIR" /\ HasBack(c.cmd)
  \/ c.type \in {"LIST", "PIPE"} /\ (HasBack(c.left) \/ HasBack(c.right))
-----------------------------------------------------------------------------
(* Properties *)

Prompt == todo[1] = << >>
AllDone == \A p \in Proc : todo[p] = << >>

Pending(p, op) == {i \in DOMAIN todo[p] : todo[p][i][1] = op}
InPipe(p) == Pending(p, "kalloc") \union Pending(p, "fdalloc") # {}

\* References to f: descriptors, the ends sys_pipe() has yet to install or to
\* give back, and init's.
Holders(f) ==
  Cardinality({x \in Proc \X Fd : ofile[x[1]][x[2]] = f})
  + Cardinality({x \in Proc \X {"rf", "wf"} : InPipe(x[1]) /\ reg[x[1]][x[2]] = f})
  + Cardinality(UNION {{<<p, i>> : i \in {j \in Pending(p, "fileclose") : todo[p][j][2] = f}}
                       : p \in Proc})
  + (IF f = Console THEN 3 ELSE 0)

\* The file table, the pipes and the process table keep their types.
TypeOK ==
  /\ \A f \in File : file[f].ref \in Nat /\ file[f].pipe \in Page \union {0}
  /\ \A k \in Page : pipe[k].nread \in 0 .. UINT - 1 /\ pipe[k].nwrite \in 0 .. UINT - 1
  /\ ofile \in [Proc -> [Fd -> File \union {0}]]
  /\ chan \in [Proc -> Channel \union {Awake}]
  /\ state \in [Proc -> {"unused", "used", "zombie"}]
  /\ parent \in [Proc -> Proc \union {0}]

\* f->ref counts the references to a file, in the error paths of sys_pipe() too:
\* no file is closed under a descriptor and none is left over.  An end of a pipe
\* is open exactly as long as a file stands for it or is being closed, so the
\* page of a pipe is given back when both are gone and not before.  Every
\* variable keeps its type.
RefsAreCounted ==
  /\ TypeOK
  /\ \A f \in File : file[f].ref = Holders(f)
  /\ \A k \in Page, m \in {"r", "w"} :
       (IF m = "r" THEN pipe[k].readopen ELSE pipe[k].writeopen) =
         \/ \E f \in File : file[f].ref > 0 /\ file[f].type = "pipe"
                            /\ file[f].pipe = k /\ file[f].mode = m
         \/ \E p \in Proc : \E i \in Pending(p, "pipeclose") : todo[p][i][2] = <<k, m>>

\* The ring of a pipe is a queue of at most PIPESIZE bytes, also where nread and
\* nwrite wrap around.
RingIsQueue ==
  \A k \in Page : pipe[k].readopen \/ pipe[k].writeopen =>
    Used(k) <= PIPESIZE /\ Ring(k) = stream[k]

\* The parser gives back the command that the line was written for.
ParsesBack == cmd = meant

\* However its processes interleave, a command line leaves on the console and in
\* the files what it means, unless a table was full or memory ran out.
RunsAsMeant ==
  Prompt /\ nfaults = 0 /\ ~HasBack(meant) =>
    LET m == Meaning(meant, << >>, [n \in FileName |->
               IF n = "console" THEN << >> ELSE <<"missing">>]) IN
    disk = [m.fs EXCEPT !["console"] = m.out]

\* Every command line comes to an end: no process waits in a pipe whose other
\* end is left open, the shell prompts again and nothing is left behind.
Finishes == <>[](AllDone /\ \A p \in Proc \ {1} : state[p] = "unused")
=============================================================================
