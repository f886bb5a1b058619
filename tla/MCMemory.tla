------------------------------ MODULE MCMemory ------------------------------
(* Two processes and eighteen pages; pages of two bytes, eight of them in the   *)
(* user's part of the address space and four to a page table.                *)
EXTENDS Umalloc

Seg(vaddr, memsz, filesz, readable) ==
  [vaddr |-> vaddr, memsz |-> memsz, filesz |-> filesz, readable |-> readable]

\* A page of text; text and a second segment with more memory than text; one
\* whose second segment is not aligned or cannot be read; one whose memory
\* wraps around; one with too many arguments; no program at all.
MCPrograms ==
  LET P(segs, args, elf, first) == [segs |-> segs, args |-> args, elf |-> elf, first |-> first] IN
  { P(<<Seg(0, 2, 1, TRUE)>>, 1, TRUE, TRUE),
    P(<<Seg(0, 2, 2, TRUE), Seg(2, 3, 1, TRUE)>>, 2, TRUE, FALSE),
    P(<<Seg(0, 2, 2, TRUE), Seg(3, 2, 1, TRUE)>>, 1, TRUE, FALSE),
    P(<<Seg(0, 4, 2, FALSE)>>, 1, TRUE, FALSE),
    P(<<Seg(8, 30, 2, TRUE)>>, 1, TRUE, FALSE),
    P(<<Seg(0, 2, 2, TRUE)>>, 3, TRUE, FALSE),
    P(<<>>, 1, FALSE, FALSE) }

MCDeltas == {-7, -6, -1, 3, 15}
MCBudgets == {18} \union 0 .. 8
MCSizes == {1, 2}
=============================================================================
