------------------------------ MODULE HeapOps ------------------------------
(***************************************************************************)
(* The block table of the kernel heap (memory/heap/heap.c) as operators on *)
(* a table value.  Addresses are counted in blocks relative to             *)
(* heap->base_addr: block 0 is the first byte of the heap, and the null    *)
(* pointer is block -HeapBase.                                             *)
(*                                                                         *)
(* In the kernel (config.h): TotalEntries = 25600, BlockSize = 4096,       *)
(* HeapBase = 0x01000000 / 4096 = 4096, AddrBlocks = 2^32 / 4096 = 2^20.   *)
(***************************************************************************)
EXTENDS FiniteSetsExt

CONSTANTS
    TotalEntries,   \* table->total_entries
    BlockSize,      \* HEAP_BLOCK_SIZE, in bytes
    HeapBase,       \* HEAP_BASE_ADDRESS, in blocks
    AddrBlocks      \* blocks in the 32-bit address space

(* -ENOMEM (status.h) is the failure code of heap_get_start_block.         *)
ENOMEM == 3

ASSUME HeapAssumption ==
    /\ TotalEntries \in Nat \ {0}
    /\ BlockSize \in Nat \ {0}
    /\ HeapBase \in Nat /\ HeapBase > ENOMEM
    /\ AddrBlocks \in Nat /\ HeapBase + TotalEntries <= AddrBlocks

Table == 0 .. TotalEntries - 1

(* The null pointer, as a block relative to the heap's base address.       *)
NULL == -HeapBase

(* A table entry is the set of its flag bits: bit 0x01, 0x40 and 0x80.     *)
TAKEN == "taken"
FIRST == "first"
EXTENDS_NEXT == "extends_next"
Entry == SUBSET {TAKEN, FIRST, EXTENDS_NEXT}
FREE == {}

----------------------------------------------------------------------------
(* Faulty variants of the operators below, used only to show that the      *)
(* properties can fail.                                                    *)

(* Only the first block is cleared; the extends bit is never looked at.    *)
MarkFreeFirstOnly(e, b) == [i \in Table |-> IF i = b THEN {} ELSE e[i]]
MarkFreeToEnd(e, b) == [i \in Table |-> IF i >= b THEN {} ELSE e[i]]
(* A pointer below the heap taken for its first block.                     *)
AddressToBlockClamped(a) == IF a < 0 THEN 0 ELSE a
(* The scan keeps going after it has found a run.                          *)
LastFit(e, n) ==
    LET R == {s \in Table : /\ s + n <= TotalEntries
                            /\ \A i \in s .. s + n - 1 : TAKEN \notin e[i]}
    IN  IF R # {} THEN Max(R) ELSE -ENOMEM

----------------------------------------------------------------------------
(* Requests.  size_t arithmetic is modulo 2^32 = AddrBlocks * BlockSize:   *)
(* aligning a size in the last block of the range wraps to 0.              *)

heap_align_size(size) ==
    IF size % BlockSize = 0
    THEN size
    ELSE (size + (BlockSize - (size % BlockSize))) % (AddrBlocks * BlockSize)

(* Faulty: the whole blocks before the last one, of a size not aligned.    *)
LastBlockOffset(size) == size \div BlockSize - 1

(* heap_alloc: the number of blocks a request is turned into.              *)
BlocksFor(size) == heap_align_size(size) \div BlockSize

----------------------------------------------------------------------------
(* heap_get_start_block.  The scan returns the lowest run of total_blocks  *)
(* free blocks.  When there is none the loop ends with bs at the start of  *)
(* the free run that touches the end of the table, and that is returned,   *)
(* however short it is; only with the last block taken is bs = -1.  With   *)
(* total_blocks = 0 the exit test bc == total_blocks never succeeds.       *)

IsFree(e, i) == TAKEN \notin e[i]

Runs(e, n) ==
    {s \in Table : s + n <= TotalEntries /\ \A i \in s .. s + n - 1 : IsFree(e, i)}

TrailingRun(e) == {s \in Table : \A i \in s .. TotalEntries - 1 : IsFree(e, i)}

(* A request the heap can really meet.                                     *)
CanServe(e, n) == n > 0 /\ Runs(e, n) # {}

heap_get_start_block(e, n) ==
    IF CanServe(e, n) THEN Min(Runs(e, n))
    ELSE IF TrailingRun(e) # {} THEN Min(TrailingRun(e))
    ELSE -ENOMEM

(* The same function as its loop, heap.c:64-77.  bc is the length of the   *)
(* free run being scanned, bs its first block (-1 for none), done that the *)
(* loop was left by break; st[i] is the state after i iterations.          *)
ScanStep(e, n, x, b) ==
    IF x.done THEN x
    ELSE IF ~IsFree(e, b) THEN [bc |-> 0, bs |-> -1, done |-> FALSE]
    ELSE [bc |-> x.bc + 1,
          bs |-> IF x.bs = -1 THEN b ELSE x.bs,
          done |-> x.bc + 1 = n]

scan(e, n) ==
    LET st[i \in 0 .. TotalEntries] ==
            IF i = 0 THEN [bc |-> 0, bs |-> -1, done |-> FALSE]
            ELSE ScanStep(e, n, st[i - 1], i - 1)
    IN  IF st[TotalEntries].bs = -1 THEN -ENOMEM ELSE st[TotalEntries].bs

----------------------------------------------------------------------------
(* heap_mark_blocks_as_taken.  Block start_block + total_blocks - 1 is the *)
(* last; every other block says that the allocation extends into the next. *)
(* The writes are not checked against the table; those that fall outside   *)
(* change memory that is no part of this model.                            *)

Region(s, n) == s .. s + n - 1

EntryAt(s, n, i) ==
    {TAKEN} \cup (IF i = s THEN {FIRST} ELSE {})
            \cup (IF i < s + n - 1 THEN {EXTENDS_NEXT} ELSE {})

heap_mark_blocks_as_taken(e, s, n) ==
    [i \in Table |-> IF i \in Region(s, n) THEN EntryAt(s, n, i) ELSE e[i]]

(* heap_address_to_block: an unsigned division, so an address below the    *)
(* base becomes a block far above the table.                               *)
heap_address_to_block(a) == a % AddrBlocks

(* heap_mark_blocks_as_free: clear from the first block until one that     *)
(* does not extend into the next, or the end of the table.                 *)
heap_mark_blocks_as_free(e, b) ==
    [i \in Table |->
        IF i >= b /\ \A j \in b .. i - 1 : EXTENDS_NEXT \in e[j]
        THEN FREE ELSE e[i]]
=============================================================================
