-------------------------------- MODULE Heap --------------------------------
(***************************************************************************)
(* The kernel heap with its callers (memory/heap/heap.c and kheap.c).      *)
(* A client is a pointer variable of the kernel that receives a kmalloc    *)
(* and is later passed to kfree.  Kernel code runs with interrupts off, so *)
(* each call is one step.                                                  *)
(*                                                                         *)
(* The heap does not recognise the requests it cannot meet (see            *)
(* heap_get_start_block in HeapOps), so the properties speak about the     *)
(* behaviour up to the first such request: served is TRUE as long as every *)
(* request asked for at least one block and a run of that length was free. *)
(***************************************************************************)
EXTENDS HeapOps

CONSTANTS
    Clients,    \* pointer variables of the kernel
    Sizes       \* the sizes requested, in bytes

ASSUME SizesAssumption == Sizes \subseteq 0 .. AddrBlocks * BlockSize - 1

VARIABLES
    entries,    \* kernel_heap_table.entries
    ptr,        \* the address each client holds, NULL for none
    blocks,     \* how many blocks that allocation was given
    served      \* every request so far could be met

vars == <<entries, ptr, blocks, served>>

(* What the client may use: the blocks from its pointer on.                *)
Holding(c) == ptr[c] # NULL
Held(c) == Region(ptr[c], blocks[c])

----------------------------------------------------------------------------
(* kheap_init and make_heap: the table is cleared.  Its alignment and      *)
(* length checks hold for the constants of config.h.                       *)
Init ==
    /\ entries = [i \in Table |-> FREE]
    /\ ptr = [c \in Clients |-> NULL]
    /\ blocks = [c \in Clients |-> 0]
    /\ served = TRUE

(* kmalloc(size), through heap_alloc and heap_alloc_blocks.  start_block   *)
(* is unsigned there, so the failure code passes the test start_block < 0  *)
(* and is used as a block number.                                          *)
kmalloc(c, size) ==
    LET n == BlocksFor(size)
        s == heap_get_start_block(entries, n)
    IN  /\ ~Holding(c)
        /\ entries' = heap_mark_blocks_as_taken(entries, s, n)
        /\ ptr' = [ptr EXCEPT ![c] = s]
        /\ blocks' = [blocks EXCEPT ![c] = n]
        /\ served' = (served /\ CanServe(entries, n))

(* kfree(ptr), also of a null pointer; the caller forgets the pointer.     *)
kfree(c) ==
    /\ entries' = heap_mark_blocks_as_free(entries, heap_address_to_block(ptr[c]))
    /\ ptr' = [ptr EXCEPT ![c] = NULL]
    /\ blocks' = [blocks EXCEPT ![c] = 0]
    /\ UNCHANGED served

Next == \E c \in Clients : (\E size \in Sizes : kmalloc(c, size)) \/ kfree(c)

Spec == Init /\ [][Next]_vars

----------------------------------------------------------------------------
(* Every variable has its type; pointers may lie below the heap.           *)
TypeOK ==
    /\ entries \in [Table -> Entry]
    /\ ptr \in [Clients -> Int]
    /\ blocks \in [Clients -> Nat]
    /\ served \in BOOLEAN

(* No two callers of kmalloc are ever given the same block, and every      *)
(* block they are given lies in the heap: heap_get_start_block and the     *)
(* marking agree over any history of allocations and frees.                *)
Exclusive ==
    served =>
        /\ \A c \in Clients : Held(c) \subseteq Table
        /\ \A c, d \in Clients : c # d => Held(c) \cap Held(d) = {}

(* The table describes the allocations that exist, flag by flag, and       *)
(* nothing else is marked: kfree finds the end of the allocation from the  *)
(* flags alone, and a freed block is free again (no block is lost).        *)
TableExact ==
    served =>
        /\ \A c \in Clients : \A i \in Held(c) :
              entries[i] = EntryAt(ptr[c], blocks[c], i)
        /\ \A i \in Table :
              (\A c \in Clients : i \notin Held(c)) => entries[i] = FREE

(* A step for one client never touches the table entries of an allocation  *)
(* that another client holds before and after it: kfree stops at the end   *)
(* of the freed allocation, kmalloc writes only free blocks.               *)
NeighboursKept ==
    [][ served' =>
          \A c \in Clients : (Holding(c) /\ ptr'[c] = ptr[c]) =>
              \A i \in Held(c) : entries'[i] = entries[i] ]_vars

(* On every table that kmalloc and kfree can produce, and for every        *)
(* request, the loop returns what heap_get_start_block of HeapOps says.    *)
ScanIsFirstFit ==
    \A n \in 0 .. TotalEntries + 2 : scan(entries, n) = heap_get_start_block(entries, n)

----------------------------------------------------------------------------
(* The heap implements the pool of blocks.                                 *)
CONSTANT Nobody     \* the owner of a free block

ASSUME NobodyAssumption == Nobody \notin Clients

OwnerOf(i) ==
    IF served /\ \E c \in Clients : i \in Held(c)
    THEN CHOOSE c \in Clients : i \in Held(c)
    ELSE Nobody

Pool == INSTANCE BlockPool WITH
    Blocks <- Table,
    owner <- [i \in Table |-> OwnerOf(i)],
    void <- ~served

(* Seen through the blocks that clients hold, the heap is a pool that      *)
(* hands out unowned runs and takes back exactly what it handed out.       *)
ImplementsPool == Pool!Spec

----------------------------------------------------------------------------
(* What the code says of itself where it does not hold.                    *)

(* "find enough room for these blocks." (heap.c:126): whatever was         *)
(* requested before, a caller of kmalloc holds blocks of the heap or       *)
(* nothing.  It fails when no run is long enough: a free run at the end of *)
(* the table is returned although it is too short, and with no free block  *)
(* at all the error code passes the unsigned comparison and is used as a   *)
(* block number.  Both write table entries past the table.                 *)
AllocationsInHeap == \A c \in Clients : Held(c) \subseteq Table
=============================================================================
