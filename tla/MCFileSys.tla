----------------------------- MODULE MCFileSys -----------------------------
(* Few processes, inodes and paths, for TLC. *)
EXTENDS FileSys

A == Path(TRUE, <<"a">>)
B == Path(TRUE, <<"b">>)
AB == Path(TRUE, <<"a", "b">>)
RelB == Path(FALSE, <<"b">>)

MCOpens == {AB}
MCCreates == {RelB}
MCMkdirs == {AB}
MCMknods == {B}
MCLinks == {<<B, AB>>}
MCUnlinks == {A, B, AB}
MCChdirs == {A}
=============================================================================
