------------------------------- MODULE Paging -------------------------------
(***************************************************************************)
(* Page directories (memory/paging/paging.c) as operators.  A directory    *)
(* is a function from directory index to table, a table one from table     *)
(* index to entry, an entry a physical page address with the flags of its  *)
(* low bits.  Addresses wrap at the end of the address space.              *)
(***************************************************************************)
EXTENDS Naturals, Integers

CONSTANTS
    PageSize,       \* PAGING_PAGE_SIZE
    Tables,         \* PAGING_TOTAL_TABLE_ENTRIES_PER_DIRECTORY
    Entries         \* PAGING_TOTAL_ENTRIES_PER_TABLE

(* paging_get_indexes divides by the number of tables where the size of a  *)
(* table is meant; both are 0x400.                                         *)
ASSUME PagingAssumption ==
    /\ {PageSize, Tables} \subseteq Nat \ {0}
    /\ Entries = Tables

PagesTotal == Tables * Entries
Space == PagesTotal * PageSize
Addresses == 0 .. Space - 1

EINVARG == 2

WRITABLE == "w"
PRESENT == "p"
ACCESS_ALL == "u"
FullAccess == {WRITABLE, PRESENT, ACCESS_ALL}

(* A fault: the table index of the next page.                              *)
IndexesOffByOne(v) ==
    [d |-> v \div (Tables * PageSize), t |-> (((v + PageSize) % (Entries * PageSize)) \div PageSize)]

----------------------------------------------------------------------------
paging_align_address(a) ==
    IF a % PageSize # 0 THEN (a + PageSize - (a % PageSize)) % Space ELSE a

paging_align_to_lower_page_addr(a) == a - (a % PageSize)

(* Every page at its own address.                                          *)
_gen_paging_4gb(flags) ==
    [i \in 0 .. Tables - 1 |-> [j \in 0 .. Entries - 1 |->
        [frame |-> i * Entries * PageSize + j * PageSize, flags |-> flags]]]

paging_get_indexes(v) ==
    [d |-> v \div (Tables * PageSize), t |-> (v % (Entries * PageSize)) \div PageSize]

paging_set(dir, v, entry) ==
    IF v % PageSize # 0 THEN [dir |-> dir, res |-> -EINVARG]
    ELSE LET x == paging_get_indexes(v)
         IN  [dir |-> [dir EXCEPT ![x.d][x.t] = entry], res |-> 0]

paging_map(dir, v, p, flags) ==
    IF v % PageSize # 0 \/ p % PageSize # 0 THEN [dir |-> dir, res |-> -EINVARG]
    ELSE paging_set(dir, v, [frame |-> p, flags |-> flags])

(* The loop ends at the first page that cannot be mapped; the pages before *)
(* stay mapped.                                                            *)
paging_map_range(dir, v, p, count, flags) ==
    LET M[i \in 0 .. count] ==
            IF i = 0 THEN [dir |-> dir, res |-> 0]
            ELSE IF M[i - 1].res < 0 THEN M[i - 1]
            ELSE paging_map(M[i - 1].dir, (v + (i - 1) * PageSize) % Space,
                            (p + (i - 1) * PageSize) % Space, flags)
    IN  M[count]

paging_map_to(dir, v, p, p_end, flags) ==
    IF v % PageSize # 0 \/ p % PageSize # 0 \/ p_end % PageSize # 0 \/ p_end < p
    THEN [dir |-> dir, res |-> -EINVARG]
    ELSE paging_map_range(dir, v, p, (p_end - p) \div PageSize, flags)

(* The tables of a process are always present.                             *)
paging_get(dir, v) ==
    LET x == paging_get_indexes(v) IN dir[x.d][x.t]

paging_get_physical_address(dir, v) ==
    LET page == paging_align_to_lower_page_addr(v)
    IN  paging_get(dir, page).frame + (v - page)
=============================================================================
