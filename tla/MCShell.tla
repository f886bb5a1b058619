------------------------------ MODULE MCShell ------------------------------
(* The command lines of the instance, for TLC. *)
EXTENDS Shell

echo == execcmd(<<"echo">>)
cat == execcmd(<<"cat">>)
true == execcmd(<<"true">>)
To(c, f) == redircmd(c, f, "w")
From(c, f) == redircmd(c, f, "r")

MCCommands == {
  pipecmd(echo, cat),
  pipecmd(echo, true),
  pipecmd(echo, pipecmd(cat, To(cat, "f"))),
  listcmd(To(echo, "f"), From(cat, "f")),
  From(cat, "f"),
  To(listcmd(echo, echo), "f"),
  pipecmd(listcmd(echo, echo), cat),
  pipecmd(echo, pipecmd(true, pipecmd(true, true))),
  listcmd(backcmd(pipecmd(echo, cat)), echo)}

MCMessage == <<"x", "y", "z">>

MCBadLines == {
  <<"echo", "|", "(", "cat">>, <<"echo", ">", ";">>, <<"echo", "&", "cat">>,
  <<"cat", "cat", "cat", "cat">>, <<"(", "echo", ")", "cat">>}
=============================================================================
