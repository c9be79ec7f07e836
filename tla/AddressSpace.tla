---------------------------- MODULE AddressSpace ----------------------------
(***************************************************************************)
(* The address spaces of processes: what process_map_memory,               *)
(* process_malloc and process_free (task/process.c) and                    *)
(* copy_string_from_task (task/task.c) do to the page directories.         *)
(*                                                                         *)
(* An image is what the loader read: size in bytes, flat or not, and the   *)
(* program headers [vaddr, offset, filesz, memsz, w].  The contents of     *)
(* memory are abstracted to physical addresses.  Blocks of the heap and    *)
(* pages have the same size; the heap is first fit (module Heap), and only *)
(* its blocks for images, stacks and user allocations are kept; the blocks *)
(* of an image that is forgotten stay taken, by Lost.                      *)
(***************************************************************************)
EXTENDS Paging, FiniteSetsExt, SequencesExt

CONSTANTS
    Procs,          \* processes
    Images,         \* the programs that may be loaded
    HeapPages,      \* the pages of the heap
    ProgramPage,    \* BKE_TASK_PROGRAM_VIRTUAL_ADDR, as a page
    StackPage,      \* BKE_TASK_PROGRAM_VIRTUAL_STACK_ADDR_END, as a page
    StackPages,     \* BKE_TASK_USER_STACK_SIZE, in pages
    Sizes,          \* sizes of user allocations, in bytes
    StringLength,   \* bound: characters of a string passed to the kernel
    Lost,           \* the owner of blocks that nothing points to any more
    None

(* An image.  The segments of an ELF file are not empty, have no more file *)
(* than memory, and leave the first and the last page of the address space *)
(* alone; a flat binary ends before the last page.                         *)
Segment == [vaddr : Nat, offset : Nat, filesz : Nat, memsz : Nat \ {0}, w : BOOLEAN]
IsImage(img) ==
    /\ img.flat \in BOOLEAN /\ img.size \in 1 .. Space - PageSize
    /\ img.segs \in Seq(Segment)
    /\ \A i \in DOMAIN img.segs :
          LET s == img.segs[i]
          IN  s.filesz <= s.memsz /\ s.vaddr >= PageSize /\ s.vaddr + s.memsz + PageSize <= Space
    /\ img.flat => img.segs = <<>> /\ ProgramPage * PageSize + img.size + PageSize <= Space

(* The entries of page tables.                                             *)
Entry == [frame : {q * PageSize : q \in 0 .. PagesTotal - 1}, flags : SUBSET FullAccess]

(* The heap ends below the last page and lies apart from the stack that    *)
(* programs see.                                                           *)
ASSUME AddressSpaceAssumption ==
    /\ HeapPages \subseteq 0 .. PagesTotal - 2
    /\ {ProgramPage, StackPage, StackPages, StringLength} \subseteq Nat
    /\ StackPages > 0 /\ StackPage + StackPages <= PagesTotal
    /\ \A q \in StackPage .. StackPage + StackPages - 1 : q \notin HeapPages
    /\ Sizes \subseteq 1 .. Space - PageSize
    /\ \A img \in Images : IsImage(img)
    /\ None \notin Procs /\ Lost \notin Procs /\ Lost # None
    /\ None \notin [img : Images, base : Nat, stack : Nat]
    /\ None \notin [0 .. Tables - 1 -> [0 .. Entries - 1 -> Entry]]

VARIABLES
    dir,        \* the page directory of each process
    prog,       \* the program of each process: image, base, stack
    blocks,     \* the owner of each block of the heap
    allocs,     \* allocations of each process: ptr and bytes
    freed,      \* pages each process had allocated and has freed
    copied      \* the last string copied from a process

vars == <<dir, prog, blocks, allocs, freed, copied>>

PagesOf(bytes) == paging_align_address(bytes) \div PageSize

(* heap_get_start_block when there is room.                                *)
Runs(b, n) == {s \in HeapPages : \A i \in s .. s + n - 1 : i \in HeapPages /\ b[i] = None}
FirstFit(b, n) == Min(Runs(b, n))
Take(b, s, n, owner) == [i \in HeapPages |-> IF i \in s .. s + n - 1 THEN owner ELSE b[i]]

(* Faulty variants of operators below, used only to show that the          *)
(* properties can fail.                                                    *)
(* The place of the segment in the file is forgotten.                      *)
MapSegmentAtBase(d, s, base) ==
    paging_map_to(d, paging_align_to_lower_page_addr(s.vaddr), base,
        paging_align_address(base + s.memsz),
        {PRESENT, ACCESS_ALL} \cup (IF s.w THEN {WRITABLE} ELSE {}))
(* The string is read through the kernel's directory.                      *)
CopyFromKernel(d, v, tmp, n) == [dir |-> d, bytes |-> [i \in 1 .. n |-> v + i - 1]]
(* The page stays as it was.                                               *)
UnmapNothing(d, a) == d

----------------------------------------------------------------------------
process_map_binary(d, img, base) ==
    [paging_map_to(d, ProgramPage * PageSize, base, paging_align_address(base + img.size), FullAccess)
        EXCEPT !.res = 0]

(* elf_phdr_compute_physical_address.                                      *)
PhysicalAddress(s, base) == (base + s.offset) % Space

(* One segment, from the page its address is in.                           *)
SegmentFlags(s) == {PRESENT, ACCESS_ALL} \cup (IF s.w THEN {WRITABLE} ELSE {})
MapSegment(d, s, base) ==
    paging_map_to(d, paging_align_to_lower_page_addr(s.vaddr),
        paging_align_to_lower_page_addr(PhysicalAddress(s, base)),
        paging_align_address((PhysicalAddress(s, base) + s.memsz) % Space), SegmentFlags(s))

(* The segments in turn, up to the first that fails; M[i] is the directory *)
(* after i of them.                                                        *)
process_map_elf(d, img, base) ==
    LET M[i \in 0 .. Len(img.segs)] ==
            IF i = 0 THEN [dir |-> d, res |-> 0]
            ELSE IF M[i - 1].res < 0 THEN M[i - 1]
            ELSE MapSegment(M[i - 1].dir, img.segs[i], base)
    IN  M[Len(img.segs)]

process_map_memory(d, img, base, stack) ==
    LET m == IF img.flat THEN process_map_binary(d, img, base) ELSE process_map_elf(d, img, base)
    IN  IF m.res < 0 THEN m
        ELSE [m EXCEPT !.dir = paging_map_to(m.dir, StackPage * PageSize, stack,
                                  paging_align_address(stack + StackPages * PageSize), FullAccess).dir]

(* The page tables part of process_free: the pages of an allocation get no *)
(* flags.                                                                  *)
Unmap(d, a) == paging_map_to(d, a.ptr, a.ptr, paging_align_address(a.ptr + a.size), {}).dir

(* A buffer of the kernel is mapped into the process at its own address,   *)
(* filled with the string under the directory of the process, and the      *)
(* entry put back.                                                         *)
copy_string_from_task(d, v, tmp, n) ==
    LET old == paging_get(d, tmp)
        m == paging_map(d, tmp, tmp, FullAccess).dir
    IN  [dir |-> paging_set(m, tmp, old).dir,
         bytes |-> [i \in 1 .. n |-> paging_get_physical_address(m, v + i - 1)]]

----------------------------------------------------------------------------
NothingCopied == [proc |-> None, at |-> 0, bytes |-> <<>>]

Init ==
    /\ dir = [p \in Procs |-> None]
    /\ prog = [p \in Procs |-> None]
    /\ blocks = [b \in HeapPages |-> None]
    /\ allocs = [p \in Procs |-> {}]
    /\ freed = [p \in Procs |-> {}]
    /\ copied = NothingCopied

(* process_load_for_slot: image, stack, directory, map.  A flat binary was *)
(* first read by elf_load, which forgets what it read of a file that is no *)
(* ELF file.  When the map of an ELF file fails, kfree(_process->ptr)      *)
(* frees the record of the file only and its image is forgotten as well;   *)
(* stack and directory are released.  (A flat binary is never refused.)    *)
process_load(p, img) ==
    LET n == PagesOf(img.size)
        read == IF img.flat THEN Take(blocks, FirstFit(blocks, n), n, Lost) ELSE blocks
        b == FirstFit(read, n)
        withImage == Take(read, b, n, p)
        s == FirstFit(withImage, StackPages)
        m == process_map_memory(_gen_paging_4gb({PRESENT, ACCESS_ALL}), img, b * PageSize, s * PageSize)
    IN  /\ prog[p] = None
        /\ Runs(blocks, n) # {}
        /\ Runs(read, n) # {}
        /\ Runs(withImage, StackPages) # {}
        /\ copied' = NothingCopied
        /\ IF m.res < 0
           THEN blocks' = Take(read, b, n, Lost) /\ UNCHANGED <<dir, prog>>
           ELSE /\ dir' = [dir EXCEPT ![p] = m.dir]
                /\ prog' = [prog EXCEPT ![p] = [img |-> img, base |-> b * PageSize, stack |-> s * PageSize]]
                /\ blocks' = Take(withImage, s, StackPages, p)
        /\ UNCHANGED <<allocs, freed>>

process_terminate(p) ==
    /\ prog[p] # None
    /\ dir' = [dir EXCEPT ![p] = None]
    /\ prog' = [prog EXCEPT ![p] = None]
    /\ blocks' = [b \in HeapPages |-> IF blocks[b] = p THEN None ELSE blocks[b]]
    /\ allocs' = [allocs EXCEPT ![p] = {}]
    /\ freed' = [freed EXCEPT ![p] = {}]
    /\ copied' = NothingCopied

AllocPages(a) == {k \div PageSize : k \in a.ptr .. a.ptr + a.size - 1}

process_malloc(p, size) ==
    LET n == PagesOf(size)
        b == FirstFit(blocks, n)
        a == [ptr |-> b * PageSize, size |-> size]
    IN  /\ prog[p] # None
        /\ Runs(blocks, n) # {}
        /\ dir' = [dir EXCEPT ![p] =
                     paging_map_to(@, a.ptr, a.ptr, paging_align_address(a.ptr + size), FullAccess).dir]
        /\ blocks' = Take(blocks, b, n, p)
        /\ allocs' = [allocs EXCEPT ![p] = @ \cup {a}]
        /\ freed' = [freed EXCEPT ![p] = @ \ AllocPages(a)]
        /\ copied' = NothingCopied
        /\ UNCHANGED prog

process_free(p, a) ==
    /\ dir' = [dir EXCEPT ![p] = Unmap(@, a)]
    /\ blocks' = [b \in HeapPages |-> IF b \in AllocPages(a) THEN None ELSE blocks[b]]
    /\ allocs' = [allocs EXCEPT ![p] = @ \ {a}]
    /\ freed' = [freed EXCEPT ![p] = @ \cup AllocPages(a)]
    /\ copied' = NothingCopied
    /\ UNCHANGED prog

(* Virtual pages that belong to a process: its program, stack and          *)
(* allocations.                                                            *)
SegFrames(base, s) ==
    LET x == PhysicalAddress(s, base) IN {k \div PageSize : k \in x .. x + s.memsz - 1}
SegPages(base, s) ==
    LET first == s.vaddr \div PageSize
    IN  first .. first + Cardinality(SegFrames(base, s)) - 1
ProgramPages(p) ==
    IF prog[p].img.flat THEN ProgramPage .. ProgramPage + PagesOf(prog[p].img.size) - 1
    ELSE UNION {SegPages(prog[p].base, prog[p].img.segs[i]) : i \in DOMAIN prog[p].img.segs}
StackRange == StackPage .. StackPage + StackPages - 1
OwnPages(p) == ProgramPages(p) \cup StackRange \cup UNION {AllocPages(a) : a \in allocs[p]}

(* A system call that reads a string the process has in its memory.        *)
copy_string(p, v) ==
    LET c == copy_string_from_task(dir[p], v, FirstFit(blocks, 1) * PageSize, StringLength)
    IN  /\ prog[p] # None
        /\ Runs(blocks, 1) # {}
        /\ \A i \in 0 .. StringLength - 1 : (v + i) \div PageSize \in OwnPages(p)
        /\ dir' = [dir EXCEPT ![p] = c.dir]
        /\ copied' = [proc |-> p, at |-> v, bytes |-> c.bytes]
        /\ UNCHANGED <<prog, blocks, allocs, freed>>

Next == \E p \in Procs :
    \/ \E img \in Images : process_load(p, img)
    \/ process_terminate(p)
    \/ \E size \in Sizes : process_malloc(p, size)
    \/ \E a \in allocs[p] : process_free(p, a)
    \/ \E v \in Addresses : copy_string(p, v)

Spec == Init /\ [][Next]_vars

----------------------------------------------------------------------------
TypeOK ==
    /\ dir \in [Procs -> [0 .. Tables - 1 -> [0 .. Entries - 1 -> Entry]] \cup {None}]
    /\ \A p \in Procs : prog[p] = None <=> dir[p] = None
    /\ blocks \in [HeapPages -> Procs \cup {None, Lost}]

(* What page q of process p should be.                                     *)
Identity(q, flags) == [frame |-> q * PageSize, flags |-> flags]
ProgramEntry(p, q) ==
    LET pr == prog[p]
        on == {i \in DOMAIN pr.img.segs : q \in SegPages(pr.base, pr.img.segs[i])}
        s == pr.img.segs[Max(on)]
        shift == q - s.vaddr \div PageSize
    IN  IF pr.img.flat
        THEN [frame |-> pr.base + (q - ProgramPage) * PageSize, flags |-> FullAccess]
        ELSE [frame |-> (PhysicalAddress(s, pr.base) \div PageSize + shift) * PageSize,
              flags |-> SegmentFlags(s)]
Expected(p, q) ==
    IF \E a \in allocs[p] : q \in AllocPages(a) THEN Identity(q, FullAccess)
    ELSE IF q \in freed[p] THEN Identity(q, {})
    ELSE IF q \in StackRange
    THEN [frame |-> prog[p].stack + (q - StackPage) * PageSize, flags |-> FullAccess]
    ELSE IF q \in ProgramPages(p) THEN ProgramEntry(p, q)
    ELSE Identity(q, {PRESENT, ACCESS_ALL})

(* The two-level directory holds for every page the last mapping given to  *)
(* it, through any sequence of loads, allocations, frees and copies by any *)
(* process: paging_get_indexes, paging_map_range and paging_map_to reach   *)
(* exactly the pages they should, across tables, and copy_string_from_task *)
(* leaves no trace.                                                        *)
PagesExact ==
    /\ TypeOK
    /\ \A p \in Procs : prog[p] # None =>
          \A q \in 0 .. PagesTotal - 1 : paging_get(dir[p], q * PageSize) = Expected(p, q)

(* A loaded program finds every byte of its file at the address it was     *)
(* linked for, when its segments lie in the file, are congruent to their   *)
(* offsets, share no page and stay off the stack and off the heap, whose   *)
(* pages are mapped over the program when they are allocated               *)
(* (process_map_elf).                                                      *)
ImageMapped ==
    \A p \in Procs : prog[p] # None =>
        LET pr == prog[p]
            segs == pr.img.segs
            Pg(i) == SegPages(pr.base, segs[i])
            proper == \A i \in DOMAIN segs :
                        /\ segs[i].offset + segs[i].filesz <= pr.img.size
                        /\ segs[i].vaddr % PageSize = segs[i].offset % PageSize
                        /\ Pg(i) \cap (StackRange \cup HeapPages) = {}
                        /\ \A j \in DOMAIN segs \ {i} : Pg(i) \cap Pg(j) = {}
        IN  proper => \A i \in DOMAIN segs : \A k \in 0 .. segs[i].filesz - 1 :
                paging_get_physical_address(dir[p], segs[i].vaddr + k) = pr.base + segs[i].offset + k

(* The memory of every segment lies in the blocks of the file; and, when   *)
(* that is not so, the frames outside these blocks that writable segments  *)
(* are given.                                                              *)
Fits(pr) ==
    \A i \in DOMAIN pr.img.segs :
        pr.img.segs[i].offset + pr.img.segs[i].memsz <= PagesOf(pr.img.size) * PageSize
ImageRun(pr) == pr.base \div PageSize .. pr.base \div PageSize + PagesOf(pr.img.size) - 1
Overhang(pr) ==
    IF Fits(pr) THEN {}
    ELSE LET writable == {i \in DOMAIN pr.img.segs : pr.img.segs[i].w}
         IN  (UNION {SegFrames(pr.base, pr.img.segs[i]) : i \in writable}) \ ImageRun(pr)

(* Whatever is loaded, allocated, freed and copied by anyone, a process    *)
(* can write only to blocks of the heap that are its own, and to the       *)
(* frames its own segments claim behind its image because nothing compares *)
(* their memory with the blocks of the file: no more is exposed by         *)
(* process_map_elf, and nothing by process_malloc, process_free, a failed  *)
(* load or another process.                                                *)
OwnWritable ==
    \A p \in Procs : prog[p] # None =>
        \A q \in 0 .. PagesTotal - 1 :
            LET e == paging_get(dir[p], q * PageSize)
            IN  WRITABLE \in e.flags =>
                    e.frame \div PageSize \in {b \in HeapPages : blocks[b] = p} \cup Overhang(prog[p])

(* A string given to a system call is read where the process has it, with  *)
(* the kernel's buffer mapped over the process's own pages meanwhile, as   *)
(* long as the program does not reach into the pages of the heap.          *)
CopyReadsTask ==
    (copied.proc # None /\ ProgramPages(copied.proc) \cap HeapPages = {}) =>
        \A i \in DOMAIN copied.bytes :
            LET v == copied.at + i - 1
            IN  copied.bytes[i] = Expected(copied.proc, v \div PageSize).frame + (v % PageSize)
=============================================================================
