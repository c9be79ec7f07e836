--------------------------- MODULE MCAddressSpace ---------------------------
(* Two processes, sixteen pages of four bytes in four tables.  The program *)
(* starts on page 3, the last of its table.                                *)
EXTENDS AddressSpace

Seg(v, o, f, m, w) == [vaddr |-> v, offset |-> o, filesz |-> f, memsz |-> m, w |-> w]
Flat(n) == [flat |-> TRUE, size |-> n, segs |-> <<>>]
Elf(n, segs) == [flat |-> FALSE, size |-> n, segs |-> segs]

(* Two sizes of flat binary; a file of one page; one segment at every      *)
(* offset, congruent or not, with and without memory beyond the blocks of  *)
(* the file; two segments; a segment whose end wraps.                      *)
MCImages ==
    {Flat(3), Flat(5), Elf(4, <<Seg(12, 0, 4, 4, TRUE)>>)}
    \cup {Elf(6, <<Seg(12 + x, o, 6 - o, m - o, TRUE)>>) : x \in {0, 1}, o \in 0 .. 1, m \in {6, 9}}
    \cup {Elf(8, <<Seg(12, 0, 4, 4, FALSE), Seg(v, o, 3, 4, TRUE)>>) : v \in {17}, o \in {4, 5}}
    \cup {Elf(4, <<Seg(12, 0, 4, 48, TRUE)>>)}

ProcSymmetry == Permutations(Procs)
=============================================================================
