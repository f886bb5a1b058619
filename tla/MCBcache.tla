------------------------------ MODULE MCBcache ------------------------------
(* A block is changed and logged, and written by a commit.  Another is held  *)
(* while it is read, as bmap() holds the indirect block during balloc().     *)
(* Two more are read in turn: there are more blocks than buffers, and just   *)
(* as many buffers as can be in use at once.                                 *)
EXTENDS Bcache

Logged(b) == <<<<"bget", b>>, <<"change", b>>, <<"log_write", b>>, <<"brelse", b>>>>
Written(b) == <<<<"bget", b>>, <<"change", b>>, <<"bwrite", b>>, <<"brelse", b>>>>
Nested(b, c) == <<<<"bget", b>>, <<"bget", c>>, <<"brelse", c>>, <<"brelse", b>>>>

Read(b) == <<<<"bget", b>>, <<"brelse", b>>>>

MCScripts == {Logged(1), Written(1), Nested(2, 1), Read(3) \o Read(4)}
=============================================================================
