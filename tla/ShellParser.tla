---------------------------- MODULE ShellParser ----------------------------
(***************************************************************************)
(* The parser of sh.c, over the tokens gettoken() cuts a line into.  Each  *)
(* function gives the command and the tokens that are left; Fail is what   *)
(* panic() makes of it.                                                    *)
(***************************************************************************)
EXTENDS Integers, Sequences

CONSTANT MAXARGS   \* size of argv

Symbols == {"<", "|", ">", ">>", "&", ";", "(", ")"}
Fail == [type |-> "FAIL"]

execcmd(argv) == [type |-> "EXEC", argv |-> argv]
redircmd(c, file, mode) == [type |-> "REDIR", cmd |-> c, file |-> file, mode |-> mode]
pipecmd(l, r) == [type |-> "PIPE", left |-> l, right |-> r]
listcmd(l, r) == [type |-> "LIST", left |-> l, right |-> r]
backcmd(c) == [type |-> "BACK", cmd |-> c]

Parsed(c, ts) == [cmd |-> c, rest |-> ts]
Failed(x) == x.cmd.type = "FAIL"
peek(ts, toks) == ts # << >> /\ Head(ts) \in toks
IsWord(ts) == ts # << >> /\ Head(ts) \notin Symbols

\* Redirections are wrapped around a command, the last one outermost: runcmd()
\* opens its file first.
RECURSIVE parseredirs(_, _)
parseredirs(c, ts) ==
  IF ~peek(ts, {"<", ">", ">>"}) THEN Parsed(c, ts)
  ELSE IF ~IsWord(Tail(ts)) THEN Parsed(Fail, ts)
  ELSE parseredirs(redircmd(c, ts[2], IF ts[1] = "<" THEN "r" ELSE "w"), Tail(Tail(ts)))

\* The redirections found among the arguments, around the command as it is when
\* all of them are known.
RECURSIVE Around(_, _)
Around(c, inner) ==
  IF c.type = "REDIR" THEN [c EXCEPT !.cmd = Around(@, inner)] ELSE inner

RECURSIVE parseargs(_, _, _)
parseargs(ret, argv, ts) ==
  IF peek(ts, {"|", ")", "&", ";"}) \/ ts = << >>
    THEN Parsed(Around(ret, execcmd(argv)), ts)
  ELSE IF ~IsWord(ts) \/ Len(argv) + 1 >= MAXARGS THEN Parsed(Fail, ts)
  ELSE LET x == parseredirs(ret, Tail(ts)) IN
       IF Failed(x) THEN x ELSE parseargs(x.cmd, Append(argv, Head(ts)), x.rest)

RECURSIVE parseline(_), parsepipe(_), parseblock(_), parsebacks(_)

parseblock(ts) ==
  LET x == parseline(Tail(ts)) IN
  IF Failed(x) THEN x
  ELSE IF ~peek(x.rest, {")"}) THEN Parsed(Fail, x.rest)
  ELSE parseredirs(x.cmd, Tail(x.rest))

parseexec(ts) ==
  IF peek(ts, {"("}) THEN parseblock(ts)
  ELSE LET x == parseredirs(execcmd(<< >>), ts) IN
       IF Failed(x) THEN x ELSE parseargs(x.cmd, << >>, x.rest)

parsepipe(ts) ==
  LET x == parseexec(ts) IN
  IF Failed(x) \/ ~peek(x.rest, {"|"}) THEN x
  ELSE LET y == parsepipe(Tail(x.rest)) IN
       IF Failed(y) THEN y ELSE Parsed(pipecmd(x.cmd, y.cmd), y.rest)

parsebacks(x) ==
  IF Failed(x) \/ ~peek(x.rest, {"&"}) THEN x
  ELSE parsebacks(Parsed(backcmd(x.cmd), Tail(x.rest)))

parseline(ts) ==
  LET x == parsebacks(parsepipe(ts)) IN
  IF Failed(x) \/ ~peek(x.rest, {";"}) THEN x
  ELSE LET y == parseline(Tail(x.rest)) IN
       IF Failed(y) THEN y ELSE Parsed(listcmd(x.cmd, y.cmd), y.rest)

\* Mutant of parsecmd: what is left over is ignored.
parsecmd_loose(ts) == parseline(ts).cmd

\* A line with tokens left over is a syntax error.
parsecmd(ts) ==
  LET x == parseline(ts) IN IF Failed(x) \/ x.rest # << >> THEN Fail ELSE x.cmd
-----------------------------------------------------------------------------
(* How a command is written *)

RECURSIVE Written(_)
Written(c) ==
  LET Part(d) == IF d.type \in {"EXEC", "REDIR"} THEN Written(d)
                 ELSE <<"(">> \o Written(d) \o <<")">> IN
  CASE c.type = "EXEC" -> c.argv
    [] c.type = "REDIR" ->
         Part(c.cmd) \o <<IF c.mode = "r" THEN "<" ELSE ">", c.file>>
    [] c.type = "PIPE" -> Part(c.left) \o <<"|">>
         \o (IF c.right.type = "PIPE" THEN Written(c.right) ELSE Part(c.right))
    [] c.type = "BACK" -> Part(c.cmd) \o <<"&">>
    [] c.type = "LIST" -> Part(c.left) \o <<";">>
         \o (IF c.right.type = "LIST" THEN Written(c.right) ELSE Part(c.right))
=============================================================================
