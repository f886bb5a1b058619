----------------------------- MODULE MCMoveFile -----------------------------
(* The calls of the instance, for TLC: the file b goes into a, and back. *)
EXTENDS MoveFile

B == Path(FALSE, <<"b">>)
AB == Path(TRUE, <<"a", "b">>)

MCUnlinks == {AB}
MCCreates == {AB}
MCMoves == {<<B, Path(TRUE, <<"a">>)>>, <<AB, Path(TRUE, << >>)>>}
MCNone == {}
=============================================================================
