----------------------------- MODULE MCConsole -----------------------------
(* What is typed, for TLC: single keys, and a few keys in a row. *)
EXTENDS Console

MCBursts ==
  {<<k>> : k \in {"a", "\n", "^D", "^H", "^U", "^S", "^F", "left", "right", "up", "down"}}
  \union {<<"b", "\n">>, <<"^S", "a", "b">>, <<"left", "left">>,
          <<"1", "/", "2", "=", "?">>, <<"-", "1", "+", "-", "5", "=", "?">>}
=============================================================================
