----------------------------- MODULE MCFileData -----------------------------
(* Blocks of two bytes, one direct and two indirect blocks to a file, and a  *)
(* bitmap in two blocks whose border is among the free blocks.               *)
EXTENDS FileData, TLC

MCImage == <<<<5, 6, 7>>>>
\* Neither the processes nor the entries of the file table are told apart.
MCSymmetry == Permutations(Proc) \union Permutations(File)

MCSources == {<<1>>, <<2, 3, 4>>, <<3, 1, 2, 4>>}
=============================================================================
