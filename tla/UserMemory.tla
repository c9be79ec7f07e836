----------------------------- MODULE UserMemory -----------------------------
(***************************************************************************)
(* The memory of user programs: process_malloc and process_free            *)
(* (task/process.c) on top of the kernel heap and the page tables.  A      *)
(* process sees the whole memory read-only at its physical addresses; an   *)
(* allocation makes its pages writable, and a free makes them unmapped.    *)
(* Blocks of the heap and pages have the same size.                        *)
(*                                                                         *)
(* granted is what served is in module Heap: every request so far asked    *)
(* for at least one block and a run of that length was free.               *)
(***************************************************************************)
EXTENDS HeapOps

CONSTANTS
    Processes,      \* the processes that run
    MaxAllocations, \* BasicOS_MAX_ALLOCATIONS_ALLOWED_PER_PROCESS
    Requests        \* the sizes requested, in bytes

ASSUME UserMemoryAssumption ==
    /\ MaxAllocations \in Nat \ {0}
    /\ Requests \subseteq 0 .. TotalEntries * BlockSize

Slots == 0 .. MaxAllocations - 1

VARIABLES
    mem,        \* the heap table, the allocation tables, the writable pages
    granted     \* every request so far could be met

userVars == <<mem, granted>>

NoAllocation == [ptr |-> NULL, pages |-> 0]

----------------------------------------------------------------------------
(* Faulty variants of the operators below, used only to show that the      *)
(* properties can fail.                                                    *)

(* The block goes back to the heap but the page stays writable.            *)
FreeKeepsPages(m, p, a) ==
    LET hits == {i \in Slots : m.allocations[p][i].ptr = a}
    IN  IF hits = {} THEN m
        ELSE [m EXCEPT !.entries = heap_mark_blocks_as_free(@, heap_address_to_block(a)),
                       !.allocations[p][Min(hits)] = NoAllocation]
(* Any pointer is handed to the heap, recorded or not.                     *)
FreeUnchecked(m, p, a) ==
    LET hits == {i \in Slots : m.allocations[p][i].ptr = a}
        n == IF hits = {} THEN 1 ELSE m.allocations[p][Min(hits)].pages
    IN  [m EXCEPT !.entries = heap_mark_blocks_as_free(@, heap_address_to_block(a)),
                  !.writable[p] = @ \ Region(a, n),
                  !.allocations[p] = [i \in Slots |->
                       IF i \in hits THEN NoAllocation ELSE @[i]]]
(* Only the first allocation of a process is released at its end.          *)
TerminalFirstOnly(m, p) ==
    IF m.allocations[p][0].ptr = NULL THEN m
    ELSE FreeKeepsPages(m, p, m.allocations[p][0].ptr)

----------------------------------------------------------------------------
(* process_find_free_allocation_slot.                                      *)
FreeSlotsOf(p) == {i \in Slots : mem.allocations[p][i].ptr = NULL}

(* process_free: the first slot with this pointer is unmapped, cleared and *)
(* given back.  The null pointer matches an empty slot and kfree ignores   *)
(* it.                                                                     *)
process_free(m, p, a) ==
    LET hits == {i \in Slots : m.allocations[p][i].ptr = a}
        i == Min(hits)
    IN  IF hits = {} THEN m
        ELSE [m EXCEPT !.writable[p] = @ \ Region(a, m.allocations[p][i].pages),
                       !.allocations[p][i] = NoAllocation,
                       !.entries = heap_mark_blocks_as_free(@, heap_address_to_block(a))]

(* process_terminal_allocations: every slot in turn; after[k] is the       *)
(* memory once the slots below k have been looked at.                      *)
process_terminal_allocations(m, p) ==
    LET after[k \in 0 .. MaxAllocations] ==
            IF k = 0 THEN m
            ELSE IF after[k - 1].allocations[p][k - 1].ptr = NULL THEN after[k - 1]
            ELSE process_free(after[k - 1], p, after[k - 1].allocations[p][k - 1].ptr)
    IN  after[MaxAllocations]

----------------------------------------------------------------------------
UserInit ==
    /\ mem = [entries |-> [i \in Table |-> FREE],
              allocations |-> [p \in Processes |-> [i \in Slots |-> NoAllocation]],
              writable |-> [p \in Processes |-> {}]]
    /\ granted = TRUE

(* sys_malloc: with no slot left the process gets the null pointer and     *)
(* nothing changes.  The pages from the pointer to the aligned end of the  *)
(* allocation become writable.                                             *)
sys_malloc(p, size) ==
    LET n == BlocksFor(size)
        s == heap_get_start_block(mem.entries, n)
    IN  /\ FreeSlotsOf(p) # {}
        /\ mem' = [mem EXCEPT
                     !.entries = heap_mark_blocks_as_taken(@, s, n),
                     !.writable[p] = @ \cup Region(s, n),
                     !.allocations[p][Min(FreeSlotsOf(p))] = [ptr |-> s, pages |-> n]]
        /\ granted' = (granted /\ CanServe(mem.entries, n))

(* isr_sys_free, with any pointer the program likes.                       *)
isr_sys_free(p, a) ==
    /\ mem' = process_free(mem, p, a)
    /\ UNCHANGED granted

(* The end of a process; its place goes to a new one, with an empty        *)
(* allocation table and page tables of its own.                            *)
process_terminate(p) ==
    /\ mem' = [process_terminal_allocations(mem, p) EXCEPT
                 !.writable[p] = {},
                 !.allocations[p] = [i \in Slots |-> NoAllocation]]
    /\ UNCHANGED granted

UserNext ==
    \E p \in Processes :
        \/ \E size \in Requests : sys_malloc(p, size)
        \/ \E a \in Table \cup {NULL, -ENOMEM} : isr_sys_free(p, a)
        \/ process_terminate(p)

UserSpec == UserInit /\ [][UserNext]_userVars

----------------------------------------------------------------------------
Pages(p, i) == Region(mem.allocations[p][i].ptr, mem.allocations[p][i].pages)

UserTypeOK ==
    /\ mem.entries \in [Table -> Entry]
    /\ mem.allocations \in [Processes -> [Slots -> [ptr : Int, pages : Nat]]]
    /\ \A p \in Processes : mem.writable[p] \subseteq Int
    /\ granted \in BOOLEAN

(* A process can write exactly the pages of its allocations: mapping,      *)
(* allocation table and heap agree after any history of calls, and no two  *)
(* processes can write the same page.                                      *)
Isolation ==
    granted =>
        /\ \A p \in Processes : mem.writable[p] = UNION {Pages(p, i) : i \in Slots}
        /\ \A p, q \in Processes : p # q => mem.writable[p] \cap mem.writable[q] = {}

(* The heap holds nothing but what some process has recorded: whatever a   *)
(* program frees, twice, in any order or with wrong pointers, and whatever *)
(* it leaves behind at its end, no block is lost and none is freed under   *)
(* its owner.                                                              *)
NothingLost ==
    granted =>
        \A b \in Table : mem.entries[b] # FREE <=>
            \E p \in Processes, i \in Slots : b \in Pages(p, i)

(* A process that frees, or ends, never changes the heap's record of what  *)
(* another process holds.                                                  *)
OthersKept ==
    [][ granted' =>
          \A p \in Processes :
              (mem'.allocations[p] = mem.allocations[p]) =>
                  \A i \in Slots : \A b \in Pages(p, i) : mem'.entries[b] = mem.entries[b] ]_userVars
=============================================================================
