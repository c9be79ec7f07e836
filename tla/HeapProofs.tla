----------------------------- MODULE HeapProofs -----------------------------
(***************************************************************************)
(* Proofs about the kernel heap and about the memory of user programs,     *)
(* which is taken from it, for every table length, block size, set of      *)
(* clients, set of processes and length of the allocation tables.          *)
(*                                                                         *)
(* First what the operators of the block table return, for every table;    *)
(* the two specifications share these facts.                               *)
(*                                                                         *)
(* Heap.  The inductive invariant IInv adds to the properties of Heap the  *)
(* shape of an allocation: a client with a pointer holds at least one      *)
(* block, a client without one holds none.  Without it kfree could not be  *)
(* shown to clear exactly the blocks of the freed pointer.                 *)
(*                                                                         *)
(* UserMemory.  Isolation and NothingLost are not inductive: what          *)
(* process_free does to the heap depends on the flags of the blocks it is  *)
(* given.  UserIInv therefore says what a slot of an allocation table      *)
(* looks like, that no two slots of any two processes share a block, that  *)
(* the heap's flags describe each slot, and that a page is writable        *)
(* exactly if it belongs to a slot.  It is stated on a value of mem,       *)
(* because it is also the invariant of the loop in                         *)
(* process_terminal_allocations.                                           *)
(***************************************************************************)
EXTENDS Heap, UserMemory, BasicLemmas

(* The block table.                                                        *)

(* Min of a set of naturals that is not empty is its least element: the    *)
(* first slot or block that a scanning loop meets.                         *)
LEMMA MinIsElement ==
    ASSUME NEW S \in SUBSET Nat, S # {}
    PROVE  Min(S) \in S /\ \A y \in S : Min(S) <= y
BY LeastElement DEF Min

(* The number of blocks of a request is a natural number.                  *)
LEMMA BlocksForType ==
    ASSUME NEW size \in 0 .. AddrBlocks * BlockSize - 1
    PROVE  BlocksFor(size) \in Nat
<1> DEFINE M == AddrBlocks * BlockSize
<1>1. M \in Nat /\ M > 0
  BY HeapAssumption DEF ENOMEM
<1> HIDE DEF M
<1>2. size \in Nat /\ BlockSize \in Nat /\ BlockSize > 0
  BY HeapAssumption, <1>1 DEF M
<1>3. size % BlockSize \in 0 .. BlockSize - 1
  BY <1>2
<1>4. (size + (BlockSize - (size % BlockSize))) % M \in Nat
  BY <1>1, <1>2, <1>3
<1>5. heap_align_size(size) \in Nat
  BY <1>2, <1>4 DEF heap_align_size, M
<1> QED
  BY <1>2, <1>5 DEF BlocksFor

(* The scan finds a run whenever there is one.                             *)
LEMMA StartBlockServes ==
    ASSUME NEW e, NEW n \in Nat, CanServe(e, n)
    PROVE  heap_get_start_block(e, n) \in Runs(e, n)
<1>1. Runs(e, n) \in SUBSET Nat /\ Runs(e, n) # {}
  BY HeapAssumption DEF Runs, CanServe, Table
<1> QED
  BY <1>1, MinIsElement DEF heap_get_start_block

(* Whatever the table, the scan returns an integer above the null block.   *)
LEMMA StartBlockType ==
    ASSUME NEW e, NEW n \in Nat
    PROVE  /\ heap_get_start_block(e, n) \in Int
           /\ heap_get_start_block(e, n) # NULL
<1>1. CASE CanServe(e, n)
  BY <1>1, StartBlockServes, HeapAssumption DEF Runs, Table, NULL, ENOMEM
<1>2. CASE ~CanServe(e, n) /\ TrailingRun(e) # {}
  <2>1. TrailingRun(e) \in SUBSET Nat
    BY HeapAssumption DEF TrailingRun, Table
  <2>2. Min(TrailingRun(e)) \in Nat
    BY <2>1, <1>2, MinIsElement
  <2> QED
    BY <1>2, <2>2, HeapAssumption DEF heap_get_start_block, NULL, ENOMEM
<1>3. CASE ~CanServe(e, n) /\ TrailingRun(e) = {}
  BY <1>3, HeapAssumption DEF heap_get_start_block, NULL, ENOMEM
<1> QED
  BY <1>1, <1>2, <1>3

(* Entries keep their type when blocks are marked.                         *)
LEMMA MarkTakenType ==
    ASSUME NEW e \in [Table -> Entry], NEW s \in Int, NEW n \in Nat
    PROVE  heap_mark_blocks_as_taken(e, s, n) \in [Table -> Entry]
BY DEF heap_mark_blocks_as_taken, EntryAt, Entry

(* heap_mark_blocks_as_free writes table entries and nothing else.         *)
LEMMA MarkFreeType ==
    ASSUME NEW e \in [Table -> Entry], NEW b
    PROVE  heap_mark_blocks_as_free(e, b) \in [Table -> Entry]
BY DEF heap_mark_blocks_as_free, FREE, Entry

(* The block number of a pointer into the heap is the block itself, and    *)
(* that of the null pointer lies past the table.                           *)
LEMMA AddressToBlock ==
    /\ \A a \in Table : heap_address_to_block(a) = a
    /\ heap_address_to_block(NULL) \in Nat
    /\ heap_address_to_block(NULL) >= TotalEntries
<1>1. /\ AddrBlocks \in Nat /\ HeapBase \in Nat /\ TotalEntries \in Nat
      /\ TotalEntries > 0 /\ HeapBase > 0 /\ HeapBase + TotalEntries <= AddrBlocks
  BY HeapAssumption DEF ENOMEM
<1>2. \A a \in Table : a % AddrBlocks = a
  BY <1>1 DEF Table
<1>3. (-HeapBase) % AddrBlocks = AddrBlocks - HeapBase
  BY <1>1
<1> QED
  BY <1>1, <1>2, <1>3 DEF heap_address_to_block, NULL

(* heap_mark_blocks_as_free clears exactly the blocks of the allocation    *)
(* whose flags it follows: it stops at the first block that does not       *)
(* extend into the next.                                                   *)
LEMMA FreeClearsRegion ==
    ASSUME NEW e, NEW s \in Table, NEW n \in Nat, n >= 1, s + n <= TotalEntries,
           \A j \in Region(s, n) : e[j] = EntryAt(s, n, j)
    PROVE  \A i \in Table :
              heap_mark_blocks_as_free(e, heap_address_to_block(s))[i]
                = IF i \in Region(s, n) THEN FREE ELSE e[i]
<1>1. s \in Nat /\ TotalEntries \in Nat /\ heap_address_to_block(s) = s
  BY HeapAssumption, AddressToBlock DEF Table
<1>2. \A j \in s .. s + n - 1 : (EXTENDS_NEXT \in e[j]) <=> (j < s + n - 1)
  BY <1>1 DEF Region, EntryAt, TAKEN, FIRST, EXTENDS_NEXT
<1>3. ASSUME NEW i \in Table
      PROVE  (i >= s /\ \A j \in s .. i - 1 : EXTENDS_NEXT \in e[j])
                <=> i \in Region(s, n)
  <2>1. i \in Nat
    BY DEF Table
  <2>2. CASE i \in Region(s, n)
    BY <1>1, <1>2, <2>1, <2>2 DEF Region
  <2>3. CASE i \notin Region(s, n) /\ i >= s
    <3>1. s + n - 1 \in s .. i - 1 /\ s + n - 1 \in s .. s + n - 1
      BY <1>1, <2>1, <2>3 DEF Region
    <3>2. EXTENDS_NEXT \notin e[s + n - 1]
      BY <1>1, <1>2, <3>1
    <3> QED
      BY <2>3, <3>1, <3>2
  <2>4. CASE ~(i >= s)
    BY <1>1, <2>1, <2>4 DEF Region
  <2> QED
    BY <2>2, <2>3, <2>4
<1> QED
  BY <1>1, <1>3 DEF heap_mark_blocks_as_free

(* Freeing the null pointer clears nothing: its block lies past the table. *)
LEMMA FreeNullClears ==
    ASSUME NEW e
    PROVE  \A i \in Table :
              heap_mark_blocks_as_free(e, heap_address_to_block(NULL))[i] = e[i]
<1>1. \A i \in Table : ~(i >= heap_address_to_block(NULL))
  BY AddressToBlock, HeapAssumption DEF Table
<1> QED
  BY <1>1 DEF heap_mark_blocks_as_free

----------------------------------------------------------------------------
(* The loop of heap_get_start_block.                                       *)

(* The variables of the loop of heap_get_start_block.                      *)
ScanState == [bc : Nat, bs : Int, done : BOOLEAN]

(* Block s starts a run of n free blocks that ends before block i.         *)
RunBefore(e, n, i, s) == s \in Runs(e, n) /\ s + n <= i

(* The loop invariant, after i iterations.  While the loop goes on, the    *)
(* last bc blocks are free, the block before them is not, they are fewer   *)
(* than the request and no run has been passed; once it is left, bs is the *)
(* least run.                                                              *)
ScanInv(e, n, i, x) ==
    IF x.done
    THEN n > 0 /\ x.bs \in Runs(e, n) /\ \A s \in Runs(e, n) : x.bs <= s
    ELSE /\ x.bc <= i
         /\ x.bs = IF x.bc = 0 THEN -1 ELSE i - x.bc
         /\ \A k \in i - x.bc .. i - 1 : IsFree(e, k)
         /\ x.bc < i => ~IsFree(e, i - x.bc - 1)
         /\ n > 0 => x.bc < n /\ \A s \in Table : ~RunBefore(e, n, i, s)

(* An iteration keeps the loop invariant.                                  *)
LEMMA ScanStepKeeps ==
    ASSUME NEW e, NEW n \in Nat, NEW i \in Table, NEW x \in ScanState, ScanInv(e, n, i, x)
    PROVE  ScanStep(e, n, x, i) \in ScanState /\ ScanInv(e, n, i + 1, ScanStep(e, n, x, i))
<1> DEFINE y == ScanStep(e, n, x, i)
<1>1. i \in Nat /\ TotalEntries \in Nat /\ i + 1 <= TotalEntries
  BY HeapAssumption DEF Table
<1>2. x.bc \in Nat /\ x.bs \in Int /\ x.done \in BOOLEAN
  BY DEF ScanState
<1>3. CASE x.done
  <2>1. y = x
    BY <1>3 DEF ScanStep
  <2> QED
    BY <1>3, <2>1 DEF ScanInv
<1>4. CASE ~x.done /\ ~IsFree(e, i)
  <2>1. y = [bc |-> 0, bs |-> -1, done |-> FALSE]
    BY <1>4 DEF ScanStep
  <2>2. y.bc = 0 /\ y.bs = -1 /\ y.done = FALSE /\ y \in ScanState
    BY <2>1 DEF ScanState
  <2>3. ASSUME n > 0, NEW s \in Table, RunBefore(e, n, i + 1, s)
        PROVE  FALSE
    <3>1. s \in Nat /\ s + n <= i + 1 /\ \A k \in s .. s + n - 1 : IsFree(e, k)
      BY <2>3 DEF RunBefore, Runs, Table
    <3>2. CASE s + n <= i
      BY <1>4, <2>3, <3>2 DEF ScanInv, RunBefore
    <3>3. CASE s + n = i + 1
      <4>1. i \in s .. s + n - 1
        BY <1>1, <2>3, <3>1, <3>3
      <4> QED
        BY <1>4, <3>1, <4>1
    <3> QED
      BY <1>1, <3>1, <3>2, <3>3
  <2> HIDE DEF y
  <2>4. (i + 1) - y.bc .. (i + 1) - 1 = {} /\ (i + 1) - y.bc - 1 = i
    BY <1>1, <2>2
  <2> QED
    BY <1>1, <1>4, <2>2, <2>3, <2>4 DEF ScanInv, y
<1>5. CASE ~x.done /\ IsFree(e, i)
  <2>1. y = [bc |-> x.bc + 1, bs |-> IF x.bs = -1 THEN i ELSE x.bs, done |-> x.bc + 1 = n]
    BY <1>5 DEF ScanStep
  <2>2. /\ x.bc <= i
        /\ x.bs = IF x.bc = 0 THEN -1 ELSE i - x.bc
        /\ \A k \in i - x.bc .. i - 1 : IsFree(e, k)
        /\ x.bc < i => ~IsFree(e, i - x.bc - 1)
        /\ n > 0 => x.bc < n
        /\ n > 0 => \A s \in Table : ~RunBefore(e, n, i, s)
    BY <1>5 DEF ScanInv
  <2>3. y.bs = i - x.bc
    <3>1. CASE x.bc = 0
      <4>1. x.bs = -1
        BY <2>2, <3>1
      <4> QED
        BY <1>1, <2>1, <3>1, <4>1
    <3>2. CASE x.bc # 0
      <4>1. x.bs = i - x.bc /\ x.bs # -1
        BY <1>1, <1>2, <2>2, <3>2
      <4> QED
        BY <2>1, <4>1
    <3> QED
      BY <3>1, <3>2
  <2>4. y.bc = x.bc + 1 /\ y.done = (x.bc + 1 = n)
    BY <2>1
  <2>5. y \in ScanState
    BY <1>1, <1>2, <2>1 DEF ScanState
  <2> HIDE DEF y
  <2>6. \A k \in i - x.bc .. i : IsFree(e, k)
    <3>1. \A k \in i - x.bc .. i : k = i \/ k \in i - x.bc .. i - 1
      BY <1>1, <1>2
    <3> QED
      BY <1>5, <2>2, <3>1
  <2>7. CASE x.bc + 1 = n
    <3>0. y.done
      BY <2>4, <2>7
    <3>1. n > 0 /\ i - x.bc \in Table /\ (i - x.bc) + n = i + 1
      BY <1>1, <1>2, <2>2, <2>7 DEF Table
    <3>2. (i - x.bc) + n - 1 = i
      BY <1>1, <1>2, <2>7
    <3>3. y.bs \in Runs(e, n)
      BY <1>1, <2>3, <2>6, <3>1, <3>2 DEF Runs
    <3>4. ASSUME NEW s \in Runs(e, n) PROVE y.bs <= s
      <4>1. s \in Table /\ s \in Nat
        BY DEF Runs, Table
      <4>2. ~(s + n <= i)
        BY <2>2, <3>1, <4>1 DEF RunBefore
      <4> QED
        BY <1>1, <1>2, <2>3, <2>7, <4>1, <4>2
    <3> QED
      BY <2>5, <3>0, <3>1, <3>3, <3>4 DEF ScanInv, y
  <2>8. CASE x.bc + 1 # n
    <3>1. ~y.done
      BY <2>4, <2>8
    <3>2. /\ y.bc <= i + 1 /\ y.bc # 0 /\ y.bs = (i + 1) - y.bc
          /\ (i + 1) - y.bc = i - x.bc /\ (i + 1) - 1 = i
          /\ (i + 1) - y.bc - 1 = i - x.bc - 1
          /\ (y.bc < i + 1) = (x.bc < i)
          /\ n > 0 => y.bc < n
      BY <1>1, <1>2, <2>2, <2>3, <2>4, <2>8
    <3>3. ASSUME n > 0, NEW s \in Table, RunBefore(e, n, i + 1, s)
          PROVE  FALSE
      <4>1. s \in Nat /\ s + n <= i + 1 /\ \A k \in s .. s + n - 1 : IsFree(e, k)
        BY <3>3 DEF RunBefore, Runs, Table
      <4>2. CASE s + n <= i
        BY <2>2, <3>3, <4>2 DEF RunBefore
      <4>3. CASE s + n = i + 1
        <5>1. x.bc < i /\ i - x.bc - 1 \in s .. s + n - 1
          BY <1>1, <1>2, <2>2, <2>8, <3>3, <4>1, <4>3
        <5> QED
          BY <2>2, <4>1, <5>1
      <4> QED
        BY <1>1, <4>1, <4>2, <4>3
    <3>4. /\ y.bc <= i + 1
          /\ y.bs = IF y.bc = 0 THEN -1 ELSE (i + 1) - y.bc
          /\ \A k \in (i + 1) - y.bc .. (i + 1) - 1 : IsFree(e, k)
          /\ y.bc < i + 1 => ~IsFree(e, (i + 1) - y.bc - 1)
          /\ n > 0 => y.bc < n /\ \A s \in Table : ~RunBefore(e, n, i + 1, s)
      BY <2>2, <2>6, <3>2, <3>3
    <3> QED
      BY <2>5, <3>1, <3>4 DEF ScanInv, y
  <2> QED
    BY <2>7, <2>8
<1> QED
  BY <1>2, <1>3, <1>4, <1>5

(* The states of the loop exist, and its result is the last one's.         *)
LEMMA ScanRuns ==
    ASSUME NEW e, NEW n \in Nat
    PROVE  \E st : /\ st[0] = [bc |-> 0, bs |-> -1, done |-> FALSE]
                   /\ \A i \in 1 .. TotalEntries : st[i] = ScanStep(e, n, st[i - 1], i - 1)
                   /\ scan(e, n) = IF st[TotalEntries].bs = -1 THEN -ENOMEM
                                   ELSE st[TotalEntries].bs
<1> DEFINE first == [bc |-> 0, bs |-> -1, done |-> FALSE]
           Is(g) == g = [i \in 0 .. TotalEntries |->
                            IF i = 0 THEN first ELSE ScanStep(e, n, g[i - 1], i - 1)]
           st == CHOOSE g : Is(g)
           F == [z \in ScanState \X Nat |-> ScanStep(e, n, z[1], z[2])]
<1>1. TotalEntries \in Nat /\ first \in ScanState
  BY HeapAssumption DEF ScanState
<1>2. F \in [ScanState \X Nat -> ScanState]
  <2> SUFFICES ASSUME NEW x \in ScanState, NEW b \in Nat
               PROVE  ScanStep(e, n, x, b) \in ScanState
    OBVIOUS
  <2>1. x.bc \in Nat /\ x.bs \in Int
    BY DEF ScanState
  <2>2. (x.bc + 1 = n) \in BOOLEAN /\ x.bc + 1 \in Nat
        /\ (IF x.bs = -1 THEN b ELSE x.bs) \in Int
    BY <2>1
  <2> QED
    BY <2>2 DEF ScanStep, ScanState
<1>3. \A x \in ScanState, b \in Nat : F[<<x, b>>] = ScanStep(e, n, x, b)
  OBVIOUS
<1> HIDE DEF F
<1>4. PICK g \in [0 .. TotalEntries -> ScanState] :
         LoopRun(g, first, F, TotalEntries)
  BY <1>1, <1>2, LoopRuns, Zenon
<1>5. Is(g)
  <2>1. ASSUME NEW i \in 0 .. TotalEntries
        PROVE  g[i] = IF i = 0 THEN first ELSE ScanStep(e, n, g[i - 1], i - 1)
    <3>1. CASE i = 0
      BY <1>4, <3>1 DEF LoopRun
    <3>2. CASE i # 0
      <4>1. i \in 1 .. TotalEntries /\ i - 1 \in 0 .. TotalEntries /\ i - 1 \in Nat
        BY <1>1, <3>2
      <4>2. g[i - 1] \in ScanState
        BY <4>1
      <4> QED
        BY <1>3, <1>4, <3>2, <4>1, <4>2 DEF LoopRun
    <3> QED
      BY <3>1, <3>2
  <2> QED
    BY <2>1
<1>6. Is(st)
  <2> HIDE DEF Is
  <2> QED
    BY <1>5
<1>7. scan(e, n) = IF st[TotalEntries].bs = -1 THEN -ENOMEM ELSE st[TotalEntries].bs
  BY DEF scan
<1> HIDE DEF st
<1>8. st[0] = first
      /\ \A i \in 1 .. TotalEntries : st[i] = ScanStep(e, n, st[i - 1], i - 1)
  <2>1. 0 \in 0 .. TotalEntries
        /\ \A i \in 1 .. TotalEntries : i \in 0 .. TotalEntries /\ i # 0
    BY <1>1
  <2>2. \A i \in 0 .. TotalEntries :
           st[i] = IF i = 0 THEN first ELSE ScanStep(e, n, st[i - 1], i - 1)
    BY <1>6
  <2> HIDE DEF first
  <2> QED
    BY <2>1, <2>2
<1> QED
  BY <1>7, <1>8

(* The loop returns the first block of the lowest run that is long enough; *)
(* when there is none, the first block of the free run at the end of the   *)
(* table, or -ENOMEM if the last block is taken.                           *)
LEMMA ScanFindsFirstFit ==
    ASSUME NEW e, NEW n \in Nat
    PROVE  scan(e, n) = heap_get_start_block(e, n)
<1>1. PICK st : /\ st[0] = [bc |-> 0, bs |-> -1, done |-> FALSE]
                /\ \A i \in 1 .. TotalEntries : st[i] = ScanStep(e, n, st[i - 1], i - 1)
                /\ scan(e, n) = IF st[TotalEntries].bs = -1 THEN -ENOMEM
                                ELSE st[TotalEntries].bs
  BY ScanRuns
<1>2. TotalEntries \in Nat /\ TotalEntries > 0
  BY HeapAssumption
<1> DEFINE S == {i \in Nat : i <= TotalEntries =>
                    st[i] \in ScanState /\ ScanInv(e, n, i, st[i])}
<1>3. 0 \in S
  <2>1. st[0] \in ScanState /\ st[0].bc = 0 /\ st[0].bs = -1 /\ st[0].done = FALSE
    BY <1>1 DEF ScanState
  <2>2. \A s \in Table : n > 0 => ~RunBefore(e, n, 0, s)
    BY DEF RunBefore, Table
  <2>3. 0 - st[0].bc .. 0 - 1 = {} /\ ~(st[0].bc < 0)
    BY <2>1
  <2>4. ScanInv(e, n, 0, st[0])
    BY <2>1, <2>2, <2>3 DEF ScanInv
  <2> QED
    BY <2>1, <2>4
<1>4. ASSUME NEW i \in Nat, i \in S PROVE i + 1 \in S
  <2>1. CASE i + 1 > TotalEntries
    BY <1>2, <2>1
  <2>2. CASE i + 1 <= TotalEntries
    <3>1. i \in Table /\ i + 1 \in 1 .. TotalEntries /\ (i + 1) - 1 = i /\ i <= TotalEntries
      BY <1>2, <2>2 DEF Table
    <3>2. st[i] \in ScanState /\ ScanInv(e, n, i, st[i])
      BY <1>4, <3>1
    <3>3. st[i + 1] = ScanStep(e, n, st[i], i)
      BY <1>1, <3>1
    <3>4. st[i + 1] \in ScanState /\ ScanInv(e, n, i + 1, st[i + 1])
      BY <3>1, <3>2, <3>3, ScanStepKeeps
    <3> QED
      BY <3>4
  <2> QED
    BY <1>2, <2>1, <2>2
<1> HIDE DEF S
<1>5. TotalEntries \in S
  BY <1>2, <1>3, <1>4, SetInduction
<1> DEFINE x == st[TotalEntries]
<1>6. x \in ScanState /\ ScanInv(e, n, TotalEntries, x)
  BY <1>2, <1>5 DEF S
<1>7. scan(e, n) = IF x.bs = -1 THEN -ENOMEM ELSE x.bs
  BY <1>1
<1> HIDE DEF x
<1>8. x.bc \in Nat /\ x.bs \in Int /\ x.done \in BOOLEAN
  BY <1>6 DEF ScanState
<1>9. \A s \in Table : s \in Nat /\ s <= TotalEntries - 1
  BY <1>2 DEF Table
<1>10. CASE x.done
  <2>1. n > 0 /\ x.bs \in Runs(e, n) /\ \A s \in Runs(e, n) : x.bs <= s
    BY <1>6, <1>10 DEF ScanInv
  <2>2. Runs(e, n) \in SUBSET Nat /\ Runs(e, n) # {}
    BY <1>9, <2>1 DEF Runs
  <2>3. Min(Runs(e, n)) = x.bs
    <3>1. /\ Min(Runs(e, n)) \in Nat /\ x.bs \in Nat
          /\ Min(Runs(e, n)) <= x.bs /\ x.bs <= Min(Runs(e, n))
      BY <2>1, <2>2, MinIsElement
    <3> QED
      BY <3>1
  <2>4. x.bs # -1
    BY <2>1, <2>2
  <2> QED
    BY <1>7, <2>1, <2>2, <2>3, <2>4 DEF heap_get_start_block, CanServe
<1>11. CASE ~x.done
  <2>1. /\ x.bc <= TotalEntries
        /\ x.bs = IF x.bc = 0 THEN -1 ELSE TotalEntries - x.bc
        /\ \A k \in TotalEntries - x.bc .. TotalEntries - 1 : IsFree(e, k)
        /\ x.bc < TotalEntries => ~IsFree(e, TotalEntries - x.bc - 1)
        /\ n > 0 => \A s \in Table : ~RunBefore(e, n, TotalEntries, s)
    BY <1>6, <1>11 DEF ScanInv
  <2>2. ~CanServe(e, n)
    BY <2>1 DEF CanServe, Runs, RunBefore
  <2>3. ASSUME NEW s \in TrailingRun(e)
        PROVE  s \in Nat /\ s <= TotalEntries - 1 /\ s >= TotalEntries - x.bc
    <3>1. s \in Nat /\ s <= TotalEntries - 1 /\ \A k \in s .. TotalEntries - 1 : IsFree(e, k)
      BY <1>9 DEF TrailingRun
    <3>2. ASSUME s < TotalEntries - x.bc PROVE FALSE
      <4>1. x.bc < TotalEntries /\ TotalEntries - x.bc - 1 \in s .. TotalEntries - 1
        BY <1>2, <1>8, <3>1, <3>2
      <4> QED
        BY <2>1, <3>1, <4>1
    <3> QED
      BY <1>2, <1>8, <3>1, <3>2
  <2>4. CASE x.bc = 0
    <3>1. TrailingRun(e) = {}
      BY <1>2, <2>3, <2>4
    <3>2. x.bs = -1
      BY <2>1, <2>4
    <3> QED
      BY <1>7, <2>2, <3>1, <3>2 DEF heap_get_start_block
  <2>5. CASE x.bc # 0
    <3>1. x.bs = TotalEntries - x.bc
      BY <2>1, <2>5
    <3>2. x.bs \in Table /\ x.bs # -1
      BY <1>2, <1>8, <2>1, <2>5, <3>1 DEF Table
    <3>3. x.bs \in TrailingRun(e)
      BY <2>1, <3>1, <3>2 DEF TrailingRun
    <3>4. TrailingRun(e) \in SUBSET Nat
      BY <2>3
    <3>5. /\ Min(TrailingRun(e)) \in Nat /\ x.bs \in Nat
          /\ Min(TrailingRun(e)) <= x.bs /\ x.bs <= Min(TrailingRun(e))
      BY <2>3, <3>1, <3>3, <3>4, MinIsElement
    <3>6. Min(TrailingRun(e)) = x.bs
      BY <3>5
    <3> QED
      BY <1>7, <2>2, <3>2, <3>3, <3>6 DEF heap_get_start_block
  <2> QED
    BY <2>4, <2>5
<1> QED
  BY <1>8, <1>10, <1>11

----------------------------------------------------------------------------
(* The heap and its clients.                                               *)

(* What a client's pointer looks like while every request is met.          *)
Shaped(c) ==
    \/ ptr[c] = NULL /\ blocks[c] = 0
    \/ ptr[c] \in Table /\ blocks[c] >= 1 /\ ptr[c] + blocks[c] <= TotalEntries

(* Every client has such a pointer; no two hold a block in common; the     *)
(* table describes what each holds; and a block nobody holds is free.      *)
AllShaped == \A c \in Clients : Shaped(c)
Disjoint == \A c, d \in Clients : c # d => Held(c) \cap Held(d) = {}
Marked == \A c \in Clients : \A i \in Held(c) :
              entries[i] = EntryAt(ptr[c], blocks[c], i)
NoneLost == \A i \in Table :
              (\A c \in Clients : i \notin Held(c)) => entries[i] = FREE

(* The inductive invariant.                                                *)
IInv == TypeOK /\ (served => AllShaped /\ Disjoint /\ Marked /\ NoneLost)

----------------------------------------------------------------------------
(* Types hold in every state.                                              *)
LEMMA TypeStep == TypeOK /\ [Next]_vars => TypeOK'
<1> SUFFICES ASSUME TypeOK, [Next]_vars PROVE TypeOK'
  OBVIOUS
<1>1. ASSUME NEW c \in Clients, NEW size \in Sizes, kmalloc(c, size)
      PROVE  TypeOK'
  <2> DEFINE n == BlocksFor(size)
             s == heap_get_start_block(entries, n)
  <2>1. n \in Nat
    BY BlocksForType, SizesAssumption
  <2>2. s \in Int
    BY <2>1, StartBlockType
  <2>3. entries' \in [Table -> Entry]
    BY <1>1, <2>1, <2>2, MarkTakenType DEF kmalloc, TypeOK
  <2>4. CanServe(entries, n) \in BOOLEAN
    BY DEF CanServe
  <2> HIDE DEF n, s
  <2>5. /\ ptr' = [ptr EXCEPT ![c] = s] /\ blocks' = [blocks EXCEPT ![c] = n]
        /\ served' = (served /\ CanServe(entries, n))
    BY <1>1 DEF kmalloc, n, s
  <2>6. served' \in BOOLEAN
    BY <2>4, <2>5, Zenon DEF TypeOK
  <2> QED
    BY <2>1, <2>2, <2>3, <2>5, <2>6 DEF TypeOK
<1>2. ASSUME NEW c \in Clients, kfree(c)
      PROVE  TypeOK'
  <2>1. entries' \in [Table -> Entry]
    BY <1>2, MarkFreeType DEF kfree, TypeOK
  <2>2. NULL \in Int
    BY HeapAssumption DEF NULL
  <2> QED
    BY <1>2, <2>1, <2>2 DEF kfree, TypeOK
<1>3. CASE UNCHANGED vars
  BY <1>3 DEF vars, TypeOK
<1> QED
  BY <1>1, <1>2, <1>3 DEF Next

----------------------------------------------------------------------------
(* A request that can be met is given blocks nobody holds.                 *)
LEMMA MallocTakesFree ==
    ASSUME IInv, NEW c \in Clients, NEW size \in Sizes, kmalloc(c, size), served'
    PROVE  \E s \in Table, n \in Nat \ {0} :
              /\ served /\ ptr[c] = NULL
              /\ entries' = heap_mark_blocks_as_taken(entries, s, n)
              /\ ptr' = [ptr EXCEPT ![c] = s]
              /\ blocks' = [blocks EXCEPT ![c] = n]
              /\ s + n <= TotalEntries
              /\ \A d \in Clients : Held(d) \cap Region(s, n) = {}
<1> DEFINE n == BlocksFor(size)
           s == heap_get_start_block(entries, n)
<1>1. n \in Nat
  BY BlocksForType, SizesAssumption
<1>2. served /\ CanServe(entries, n)
  BY DEF kmalloc
<1>3. s \in Runs(entries, n)
  BY <1>1, <1>2, StartBlockServes
<1> HIDE DEF n, s
<1>4. /\ ptr[c] = NULL
      /\ entries' = heap_mark_blocks_as_taken(entries, s, n)
      /\ ptr' = [ptr EXCEPT ![c] = s]
      /\ blocks' = [blocks EXCEPT ![c] = n]
  BY DEF kmalloc, Holding, n, s
<1>5. n > 0 /\ s \in Table /\ s + n <= TotalEntries
  BY <1>2, <1>3 DEF CanServe, Runs
<1>6. \A i \in Region(s, n) : TAKEN \notin entries[i]
  BY <1>3 DEF Runs, Region, IsFree
<1>7. ASSUME NEW d \in Clients, NEW i \in Held(d), i \in Region(s, n)
      PROVE  FALSE
  <2>1. TAKEN \in entries[i]
    BY <1>2 DEF IInv, Marked, EntryAt
  <2> QED
    BY <2>1, <1>6, <1>7
<1>8. \A d \in Clients : Held(d) \cap Region(s, n) = {}
  BY <1>7
<1> s \in Table /\ n \in Nat \ {0}
  BY <1>1, <1>5
<1> WITNESS s \in Table, n \in Nat \ {0}
<1> QED
  BY <1>2, <1>4, <1>5, <1>8

(* The table marks what was handed out: kmalloc keeps the invariant.       *)
LEMMA MallocStep ==
    ASSUME IInv, NEW c \in Clients, NEW size \in Sizes, kmalloc(c, size), served'
    PROVE  (AllShaped /\ Disjoint /\ Marked /\ NoneLost)'
<1>1. PICK s \in Table, n \in Nat \ {0} :
              /\ served /\ ptr[c] = NULL
              /\ entries' = heap_mark_blocks_as_taken(entries, s, n)
              /\ ptr' = [ptr EXCEPT ![c] = s]
              /\ blocks' = [blocks EXCEPT ![c] = n]
              /\ s + n <= TotalEntries
              /\ \A d \in Clients : Held(d) \cap Region(s, n) = {}
  BY MallocTakesFree
<1>2. n \in Nat /\ n > 0
  OBVIOUS
<1>3. s \in Table /\ s + n <= TotalEntries
  BY <1>1
<1>4. TotalEntries \in Nat /\ s \in Nat
  BY HeapAssumption DEF Table
<1>5. TypeOK /\ AllShaped /\ Disjoint /\ Marked /\ NoneLost
  BY <1>1 DEF IInv
<1>6. Region(s, n) \subseteq Table
  BY <1>2, <1>3, <1>4 DEF Region, Table
<1>7. \A d \in Clients : Held(d) \cap Region(s, n) = {}
  BY <1>1
<1>8. \A d \in Clients \ {c} : ptr'[d] = ptr[d] /\ blocks'[d] = blocks[d]
  BY <1>1, <1>5 DEF TypeOK
<1>9. ptr'[c] = s /\ blocks'[c] = n
  BY <1>1, <1>5 DEF TypeOK
<1>10. \A d \in Clients \ {c} : Held(d)' = Held(d)
  BY <1>8 DEF Held
<1>11. Held(c)' = Region(s, n)
  BY <1>9 DEF Held
<1>12. Held(c) = {}
  BY <1>1, <1>3, <1>4, <1>5, HeapAssumption
     DEF AllShaped, Shaped, Held, Region, Table, NULL, ENOMEM
<1>13. AllShaped'
  BY <1>2, <1>3, <1>4, <1>5, <1>8, <1>9 DEF AllShaped, Shaped
<1>14. Disjoint'
  BY <1>5, <1>7, <1>10, <1>11 DEF Disjoint
<1>15. \A i \in Table : entries'[i] = IF i \in Region(s, n)
                                      THEN EntryAt(s, n, i) ELSE entries[i]
  BY <1>1 DEF heap_mark_blocks_as_taken
<1>16. \A d \in Clients : Held(d) \subseteq Table
  BY <1>4, <1>5, HeapAssumption
     DEF AllShaped, Shaped, Held, Region, Table, NULL, TypeOK, ENOMEM
<1>17. Marked'
  <2> SUFFICES ASSUME NEW d \in Clients, NEW i \in Held(d)'
               PROVE  entries'[i] = EntryAt(ptr'[d], blocks'[d], i)
    BY DEF Marked
  <2>1. CASE d = c
    BY <2>1, <1>6, <1>9, <1>11, <1>15
  <2>2. CASE d # c
    <3>1. i \in Held(d) /\ i \in Table /\ i \notin Region(s, n)
      BY <2>2, <1>7, <1>10, <1>16
    <3> QED
      BY <3>1, <2>2, <1>5, <1>8, <1>15 DEF Marked
  <2> QED
    BY <2>1, <2>2
<1>18. NoneLost'
  BY <1>5, <1>10, <1>11, <1>12, <1>15 DEF NoneLost
<1> QED
  BY <1>13, <1>14, <1>17, <1>18

(* kfree clears exactly the blocks of the pointer it is given, none for    *)
(* the null pointer.                                                       *)
LEMMA FreeClears ==
    ASSUME IInv, served, NEW c \in Clients
    PROVE  \A i \in Table :
              heap_mark_blocks_as_free(entries, heap_address_to_block(ptr[c]))[i]
                = IF i \in Held(c) THEN FREE ELSE entries[i]
<1>1. TypeOK /\ AllShaped /\ Marked
  BY DEF IInv
<1>2. CASE ptr[c] = NULL
  <2>1. Held(c) = {}
    BY <1>1, <1>2, HeapAssumption
       DEF AllShaped, Shaped, Held, Region, Table, NULL, ENOMEM
  <2> QED
    BY <1>2, <2>1, FreeNullClears
<1>3. CASE ptr[c] # NULL
  <2>1. /\ ptr[c] \in Table /\ blocks[c] \in Nat /\ blocks[c] >= 1
        /\ ptr[c] + blocks[c] <= TotalEntries
    BY <1>1, <1>3 DEF AllShaped, Shaped, TypeOK
  <2>2. \A j \in Region(ptr[c], blocks[c]) : entries[j] = EntryAt(ptr[c], blocks[c], j)
    BY <1>1 DEF Marked, Held
  <2> QED
    BY <2>1, <2>2, FreeClearsRegion DEF Held
<1> QED
  BY <1>2, <1>3

(* kfree keeps the invariant.                                              *)
LEMMA FreeStep ==
    ASSUME IInv, NEW c \in Clients, kfree(c), served
    PROVE  (AllShaped /\ Disjoint /\ Marked /\ NoneLost)'
<1>1. TypeOK /\ AllShaped /\ Disjoint /\ Marked /\ NoneLost
  BY DEF IInv
<1>2. \A i \in Table : entries'[i] = IF i \in Held(c) THEN FREE ELSE entries[i]
  BY FreeClears DEF kfree
<1>3. /\ ptr' = [ptr EXCEPT ![c] = NULL]
      /\ blocks' = [blocks EXCEPT ![c] = 0]
  BY DEF kfree
<1>4. \A d \in Clients \ {c} : ptr'[d] = ptr[d] /\ blocks'[d] = blocks[d]
  BY <1>1, <1>3 DEF TypeOK
<1>5. ptr'[c] = NULL /\ blocks'[c] = 0
  BY <1>1, <1>3 DEF TypeOK
<1>6. \A d \in Clients \ {c} : Held(d)' = Held(d)
  BY <1>4 DEF Held
<1>7. Held(c)' = {}
  BY <1>5, HeapAssumption DEF Held, Region, NULL
<1>8. AllShaped'
  BY <1>1, <1>4, <1>5 DEF AllShaped, Shaped
<1>9. Disjoint'
  BY <1>1, <1>6, <1>7 DEF Disjoint
<1>10. \A d \in Clients : Held(d) \subseteq Table
  BY <1>1, HeapAssumption
     DEF AllShaped, Shaped, Held, Region, Table, NULL, TypeOK, ENOMEM
<1>11. Marked'
  <2> SUFFICES ASSUME NEW d \in Clients, NEW i \in Held(d)'
               PROVE  entries'[i] = EntryAt(ptr'[d], blocks'[d], i)
    BY DEF Marked
  <2>1. d # c /\ i \in Held(d) /\ i \in Table
    BY <1>6, <1>7, <1>10
  <2>2. i \notin Held(c)
    BY <1>1, <2>1 DEF Disjoint
  <2> QED
    BY <1>1, <1>2, <1>4, <2>1, <2>2 DEF Marked
<1>12. NoneLost'
  BY <1>1, <1>2, <1>6, <1>7 DEF NoneLost
<1> QED
  BY <1>1, <1>3, <1>8, <1>9, <1>11, <1>12

----------------------------------------------------------------------------
(* make_heap leaves a table in which every block is free.                  *)
LEMMA InitIInv == Init => IInv
<1> SUFFICES ASSUME Init PROVE IInv
  OBVIOUS
<1>1. NULL \in Int
  BY HeapAssumption DEF NULL
<1>2. TypeOK
  BY <1>1 DEF Init, TypeOK, Entry, FREE
<1>3. \A c \in Clients : ptr[c] = NULL /\ blocks[c] = 0
  BY DEF Init
<1>4. \A c \in Clients : Held(c) = {}
  BY <1>3, HeapAssumption DEF Held, Region, NULL
<1>5. AllShaped /\ Disjoint /\ Marked
  BY <1>3, <1>4 DEF AllShaped, Shaped, Disjoint, Marked
<1>6. NoneLost
  BY DEF Init, NoneLost
<1> QED
  BY <1>2, <1>5, <1>6 DEF IInv

(* kmalloc and kfree, of any client, keep the inductive invariant.         *)
LEMMA NextIInv == IInv /\ [Next]_vars => IInv'
<1> SUFFICES ASSUME IInv, [Next]_vars PROVE IInv'
  OBVIOUS
<1>1. TypeOK'
  BY TypeStep DEF IInv
<1>2. ASSUME served' PROVE (AllShaped /\ Disjoint /\ Marked /\ NoneLost)'
  <2>1. ASSUME NEW c \in Clients, NEW size \in Sizes, kmalloc(c, size)
        PROVE  (AllShaped /\ Disjoint /\ Marked /\ NoneLost)'
    BY <1>2, <2>1, MallocStep
  <2>2. ASSUME NEW c \in Clients, kfree(c)
        PROVE  (AllShaped /\ Disjoint /\ Marked /\ NoneLost)'
    <3>1. served
      BY <1>2, <2>2 DEF kfree
    <3> QED
      BY <2>2, <3>1, FreeStep
  <2>3. CASE UNCHANGED vars
    <3>1. served /\ AllShaped /\ Disjoint /\ Marked /\ NoneLost
      BY <1>2, <2>3 DEF vars, IInv
    <3> QED
      BY <2>3, <3>1 DEF vars, AllShaped, Shaped, Disjoint, Marked, NoneLost, Held
  <2> QED
    BY <2>1, <2>2, <2>3 DEF Next
<1> QED
  BY <1>1, <1>2 DEF IInv

(* The inductive invariant holds in every state of the heap.               *)
THEOREM Invariance == Spec => []IInv
BY InitIInv, NextIInv, PTL DEF Spec

(* Every variable of the heap keeps its type, also after a request that    *)
(* could not be met.                                                       *)
THEOREM TypeCorrect == Spec => []TypeOK
<1>1. IInv => TypeOK
  BY DEF IInv
<1> QED
  BY <1>1, Invariance, PTL

(* kmalloc never gives a block to two callers, for any table length and    *)
(* any number of callers, as long as every request could be met.           *)
THEOREM AllocationsExclusive == Spec => []Exclusive
<1>1. IInv => Exclusive
  BY HeapAssumption
     DEF IInv, Exclusive, AllShaped, Shaped, Disjoint, Held, Region, Table, NULL,
         TypeOK, ENOMEM
<1> QED
  BY <1>1, Invariance, PTL

(* The table marks exactly the blocks that are held: none is lost.         *)
THEOREM TableIsExact == Spec => []TableExact
<1>1. IInv => TableExact
  BY DEF IInv, TableExact, Marked, NoneLost
<1> QED
  BY <1>1, Invariance, PTL

(* The loop of heap_get_start_block is a first fit: on every table and for *)
(* every request it finds the lowest run that is long enough, and without  *)
(* one it returns the free run at the end of the table.  The lemma it      *)
(* rests on, ScanFindsFirstFit, is proved from an invariant of the loop.   *)
THEOREM ScanIsCorrect == Spec => []ScanIsFirstFit
<1>1. ScanIsFirstFit
  BY ScanFindsFirstFit, HeapAssumption DEF ScanIsFirstFit
<1> QED
  BY <1>1, PTL

----------------------------------------------------------------------------
(* A call never changes the table entries of an allocation that some other *)
(* caller keeps.                                                           *)
THEOREM NeighboursAreKept == Spec => NeighboursKept
<1> DEFINE Kept == served' =>
              \A c \in Clients : (Holding(c) /\ ptr'[c] = ptr[c]) =>
                 \A i \in Held(c) : entries'[i] = entries[i]
<1>1. IInv /\ [Next]_vars => [Kept]_vars
  <2> SUFFICES ASSUME IInv, Next, served',
                      NEW d \in Clients, Holding(d), ptr'[d] = ptr[d],
                      NEW i \in Held(d)
               PROVE  entries'[i] = entries[i]
    BY DEF Next
  <2>1. ASSUME NEW c \in Clients, NEW size \in Sizes, kmalloc(c, size)
        PROVE  entries'[i] = entries[i]
    <3>1. served
      BY <2>1 DEF kmalloc
    <3>2. i \in Table
      BY <3>1, HeapAssumption
         DEF IInv, AllShaped, Shaped, Held, Region, Table, NULL, TypeOK, ENOMEM
    <3>3. PICK s \in Table, n \in Nat \ {0} :
             /\ entries' = heap_mark_blocks_as_taken(entries, s, n)
             /\ \A e \in Clients : Held(e) \cap Region(s, n) = {}
      BY <2>1, MallocTakesFree
    <3> QED
      BY <3>2, <3>3 DEF heap_mark_blocks_as_taken
  <2>2. ASSUME NEW c \in Clients, kfree(c)
        PROVE  entries'[i] = entries[i]
    <3>1. served /\ ptr' = [ptr EXCEPT ![c] = NULL]
      BY <2>2 DEF kfree
    <3>2. d # c
      BY <3>1 DEF IInv, TypeOK, Holding
    <3>3. i \in Table
      BY <3>1, HeapAssumption
         DEF IInv, AllShaped, Shaped, Held, Region, Table, NULL, TypeOK, ENOMEM
    <3>4. i \notin Held(c)
      BY <3>1, <3>2 DEF IInv, Disjoint
    <3> QED
      BY <2>2, <3>1, <3>3, <3>4, FreeClears DEF kfree
  <2> QED
    BY <2>1, <2>2 DEF Next
<1> QED
  BY <1>1, Invariance, PTL DEF Spec, NeighboursKept

----------------------------------------------------------------------------
(* The owner of a block in the pool is the client that holds it.           *)
LEMMA OwnerIsHolder ==
    ASSUME IInv, NEW i \in Table
    PROVE  /\ \A c \in Clients : (OwnerOf(i) = c) <=> (served /\ i \in Held(c))
           /\ (OwnerOf(i) = Nobody)
                 <=> ~(served /\ \E c \in Clients : i \in Held(c))
<1>1. CASE served /\ \E c \in Clients : i \in Held(c)
  <2>1. OwnerOf(i) \in Clients /\ i \in Held(OwnerOf(i))
    BY <1>1, Zenon DEF OwnerOf
  <2>2. \A c \in Clients : i \in Held(c) => c = OwnerOf(i)
    BY <1>1, <2>1 DEF IInv, Disjoint
  <2> QED
    BY <1>1, <2>1, <2>2, NobodyAssumption
<1>2. CASE ~(served /\ \E c \in Clients : i \in Held(c))
  <2>1. OwnerOf(i) = Nobody
    BY <1>2, Zenon DEF OwnerOf
  <2> QED
    BY <1>2, <2>1, NobodyAssumption
<1> QED
  BY <1>1, <1>2

(* The same in the next state.                                             *)
LEMMA OwnerIsHolderNext ==
    ASSUME IInv', NEW i \in Table
    PROVE  /\ \A c \in Clients : (OwnerOf(i)' = c) <=> (served' /\ i \in Held(c)')
           /\ (OwnerOf(i)' = Nobody)
                 <=> ~(served' /\ \E c \in Clients : i \in Held(c)')
<1>1. CASE served' /\ \E c \in Clients : i \in Held(c)'
  <2>1. OwnerOf(i)' \in Clients /\ i \in Held(OwnerOf(i))'
    BY <1>1, Zenon DEF OwnerOf
  <2>2. \A c \in Clients : i \in Held(c)' => c = OwnerOf(i)'
    BY <1>1, <2>1 DEF IInv, Disjoint
  <2> QED
    BY <1>1, <2>1, <2>2, NobodyAssumption
<1>2. CASE ~(served' /\ \E c \in Clients : i \in Held(c)')
  <2>1. OwnerOf(i)' = Nobody
    BY <1>2, Zenon DEF OwnerOf
  <2> QED
    BY <1>2, <2>1, NobodyAssumption
<1> QED
  BY <1>1, <1>2

(* A call that is served takes a run nobody owned.                         *)
LEMMA MallocTakes ==
    ASSUME IInv, IInv', NEW c \in Clients, NEW size \in Sizes,
           kmalloc(c, size), served'
    PROVE  Pool!Take(c)
<1>1. PICK s \in Table, n \in Nat \ {0} :
              /\ served /\ ptr[c] = NULL
              /\ entries' = heap_mark_blocks_as_taken(entries, s, n)
              /\ ptr' = [ptr EXCEPT ![c] = s]
              /\ blocks' = [blocks EXCEPT ![c] = n]
              /\ s + n <= TotalEntries
              /\ \A d \in Clients : Held(d) \cap Region(s, n) = {}
  BY MallocTakesFree
<1> DEFINE hi == s + n - 1
<1>2. hi \in Table /\ s <= hi /\ s .. hi = Region(s, n) /\ Region(s, n) \subseteq Table
  BY <1>1, HeapAssumption DEF Table, Region
<1>3. Held(c) = {} /\ Held(c)' = Region(s, n)
  BY <1>1, HeapAssumption
     DEF IInv, AllShaped, Shaped, Held, Region, Table, NULL, ENOMEM, TypeOK
<1>4. \A d \in Clients \ {c} : Held(d)' = Held(d)
  BY <1>1 DEF IInv, TypeOK, Held
<1>5. {i \in Table : OwnerOf(i) = c} = {}
  BY <1>3, OwnerIsHolder
<1>6. \A i \in Region(s, n) : OwnerOf(i) = Nobody
  BY <1>1, <1>2, OwnerIsHolder
<1>7. ASSUME NEW i \in Table
      PROVE  OwnerOf(i)' = IF i \in Region(s, n) THEN c ELSE OwnerOf(i)
  <2>1. CASE i \in Region(s, n)
    BY <2>1, <1>3, OwnerIsHolderNext
  <2>2. CASE i \notin Region(s, n) /\ \E d \in Clients : i \in Held(d)
    <3>1. PICK d \in Clients : i \in Held(d)
      BY <2>2
    <3>2. d # c /\ i \in Held(d)'
      BY <1>3, <1>4, <3>1
    <3> QED
      BY <1>1, <2>2, <3>1, <3>2, OwnerIsHolder, OwnerIsHolderNext
  <2>3. CASE i \notin Region(s, n) /\ ~ \E d \in Clients : i \in Held(d)
    BY <2>3, <1>3, <1>4, OwnerIsHolder, OwnerIsHolderNext
  <2> QED
    BY <2>1, <2>2, <2>3
<1> HIDE DEF hi
<1>8. /\ ~(~served) /\ (~served)' = ~served
      /\ {i \in Table : [j \in Table |-> OwnerOf(j)][i] = c} = {}
      /\ \A i \in s .. hi : [j \in Table |-> OwnerOf(j)][i] = Nobody
      /\ [j \in Table |-> OwnerOf(j)'] =
            [i \in Table |-> IF i \in s .. hi THEN c
                             ELSE [j \in Table |-> OwnerOf(j)][i]]
  BY <1>1, <1>2, <1>5, <1>6, <1>7
<1> QED
  BY <1>2, <1>8 DEF Pool!Take, Pool!Owned

(* A call that is not served ends the promise.                             *)
LEMMA MallocDefaults ==
    ASSUME IInv', served, ~served', served' \in BOOLEAN
    PROVE  Pool!Default
<1>1. \A i \in Table : OwnerOf(i)' = Nobody
  BY OwnerIsHolderNext
<1> QED
  BY <1>1 DEF Pool!Default

(* Freeing a pointer gives its run back; freeing the null pointer changes  *)
(* nothing.                                                                *)
LEMMA FreeGives ==
    ASSUME IInv, IInv', NEW c \in Clients, kfree(c), served
    PROVE  Pool!Give(c) \/ UNCHANGED Pool!poolVars
<1>1. /\ ptr' = [ptr EXCEPT ![c] = NULL]
      /\ blocks' = [blocks EXCEPT ![c] = 0]
      /\ served' /\ served' = served
  BY DEF kfree
<1>2. Held(c)' = {}
  BY <1>1, HeapAssumption DEF IInv, TypeOK, Held, Region, NULL
<1>3. \A d \in Clients \ {c} : Held(d)' = Held(d)
  BY <1>1 DEF IInv, TypeOK, Held
<1>4. Held(c) \subseteq Table
  BY HeapAssumption, SMTT(20)
     DEF IInv, AllShaped, Shaped, Held, Region, Table, NULL, TypeOK, ENOMEM
<1>5. ASSUME NEW i \in Table
      PROVE  OwnerOf(i)' = IF OwnerOf(i) = c THEN Nobody ELSE OwnerOf(i)
  <2>1. CASE i \in Held(c)
    <3>1. OwnerOf(i) = c /\ \A d \in Clients \ {c} : i \notin Held(d)
      BY <2>1, OwnerIsHolder DEF IInv, Disjoint
    <3> QED
      BY <3>1, <1>2, <1>3, OwnerIsHolderNext
  <2>2. CASE i \notin Held(c) /\ \E d \in Clients : i \in Held(d)
    <3>1. PICK d \in Clients : i \in Held(d)
      BY <2>2
    <3>2. d # c /\ i \in Held(d)'
      BY <2>2, <1>3, <3>1
    <3> QED
      BY <1>1, <3>1, <3>2, OwnerIsHolder, OwnerIsHolderNext
  <2>3. CASE ~ \E d \in Clients : i \in Held(d)
    BY <2>3, <1>2, <1>3, OwnerIsHolder, OwnerIsHolderNext, NobodyAssumption
  <2> QED
    BY <2>1, <2>2, <2>3
<1>6. CASE Held(c) # {}
  <2>1. {i \in Table : [j \in Table |-> OwnerOf(j)][i] = c} # {}
    BY <1>4, <1>6, OwnerIsHolder
  <2>2. [j \in Table |-> OwnerOf(j)'] =
            [i \in Table |-> IF [j \in Table |-> OwnerOf(j)][i] = c THEN Nobody
                             ELSE [j \in Table |-> OwnerOf(j)][i]]
    BY <1>5
  <2> QED
    BY <1>1, <2>1, <2>2 DEF Pool!Give, Pool!Owned
<1>7. CASE Held(c) = {}
  <2>1. \A i \in Table : OwnerOf(i)' = OwnerOf(i)
    BY <1>5, <1>7, OwnerIsHolder
  <2> QED
    BY <1>1, <2>1 DEF Pool!poolVars
<1> QED
  BY <1>6, <1>7

(* kmalloc and kfree implement the pool: up to the first request that      *)
(* cannot be met a caller gets a run nobody owns and gives back exactly    *)
(* that run.                                                               *)
THEOREM HeapImplementsPool == Spec => ImplementsPool
<1>1. Init => Pool!Init
  <2> SUFFICES ASSUME Init PROVE Pool!Init
    OBVIOUS
  <2>1. \A i \in Table, c \in Clients : i \notin Held(c)
    BY HeapAssumption DEF Init, Held, Region, NULL
  <2>2. \A i \in Table : OwnerOf(i) = Nobody
    BY <2>1, InitIInv, OwnerIsHolder
  <2> QED
    BY <2>2 DEF Init, Pool!Init
<1>2. IInv /\ IInv' /\ [Next]_vars => [Pool!Next]_(Pool!poolVars)
  <2> SUFFICES ASSUME IInv, IInv', [Next]_vars
               PROVE  Pool!Next \/ UNCHANGED Pool!poolVars
    OBVIOUS
  <2>1. ASSUME ~served, served' = served
        PROVE  UNCHANGED Pool!poolVars
    <3>1. \A i \in Table : OwnerOf(i) = Nobody /\ OwnerOf(i)' = Nobody
      BY <2>1, OwnerIsHolder, OwnerIsHolderNext
    <3> QED
      BY <2>1, <3>1 DEF Pool!poolVars
  <2>2. ASSUME NEW c \in Clients, NEW size \in Sizes, kmalloc(c, size)
        PROVE  Pool!Next \/ UNCHANGED Pool!poolVars
    <3>1. CASE served'
      BY <2>2, <3>1, MallocTakes DEF Pool!Next
    <3>2. CASE served /\ ~served'
      BY <3>2, MallocDefaults DEF Pool!Next, IInv, TypeOK
    <3>3. CASE ~served /\ ~served'
      BY <2>1, <3>3 DEF IInv, TypeOK
    <3> QED
      BY <3>1, <3>2, <3>3
  <2>3. ASSUME NEW c \in Clients, kfree(c)
        PROVE  Pool!Next \/ UNCHANGED Pool!poolVars
    <3>1. CASE served
      BY <2>3, <3>1, FreeGives DEF Pool!Next
    <3>2. CASE ~served
      BY <2>1, <2>3, <3>2 DEF kfree
    <3> QED
      BY <3>1, <3>2
  <2>4. CASE UNCHANGED vars
    BY <2>4 DEF vars, Pool!poolVars, OwnerOf, Held
  <2> QED
    BY <2>2, <2>3, <2>4 DEF Next
<1> QED
  BY <1>1, <1>2, Invariance, PTL DEF Spec, Pool!Spec, ImplementsPool

----------------------------------------------------------------------------
(* The memory of user programs.                                            *)

(* The values of mem: the heap table, the allocation table of each process *)
(* and its writable pages.                                                 *)
Memory == [entries : [Table -> Entry],
           allocations : [Processes -> [Slots -> [ptr : Int, pages : Nat]]],
           writable : [Processes -> SUBSET Int]]

(* The blocks recorded in slot i of process p.                             *)
Blocks(m, p, i) == Region(m.allocations[p][i].ptr, m.allocations[p][i].pages)

(* The slots of p that hold pointer a: process_free takes the first.       *)
Hits(m, p, a) == {k \in Slots : m.allocations[p][k].ptr = a}

(* A slot is empty or names a run of blocks inside the heap.               *)
ShapedSlot(x) ==
    \/ x.ptr = NULL /\ x.pages = 0
    \/ x.ptr \in Table /\ x.pages >= 1 /\ x.ptr + x.pages <= TotalEntries

(* Every slot is such; no two share a block; the heap table describes each *)
(* slot; a block in no slot is free; and a process can write exactly the   *)
(* blocks of its slots.                                                    *)
UserShaped(m) == \A p \in Processes, i \in Slots : ShapedSlot(m.allocations[p][i])
UserDisjoint(m) ==
    \A p, q \in Processes, i, j \in Slots :
        (p # q \/ i # j) => Blocks(m, p, i) \cap Blocks(m, q, j) = {}
UserMarked(m) ==
    \A p \in Processes, i \in Slots : \A b \in Blocks(m, p, i) :
        m.entries[b] = EntryAt(m.allocations[p][i].ptr, m.allocations[p][i].pages, b)
UserNoneLost(m) ==
    \A b \in Table :
        (\A p \in Processes, i \in Slots : b \notin Blocks(m, p, i)) => m.entries[b] = FREE
WritableExact(m) ==
    \A p \in Processes : \A b \in Int :
        b \in m.writable[p] <=> \E i \in Slots : b \in Blocks(m, p, i)

(* A memory is good when all of these hold of it; the lemmas carry Good    *)
(* through the steps of malloc, free and process_terminal_allocations.     *)
Good(m) == UserShaped(m) /\ UserDisjoint(m) /\ UserMarked(m) /\ UserNoneLost(m) /\ WritableExact(m)

(* The inductive invariant.                                                *)
UserIInv == mem \in Memory /\ granted \in BOOLEAN /\ (granted => Good(mem))

----------------------------------------------------------------------------
(* The slots are numbered by naturals, and there is one.                   *)
LEMMA SlotsAreNats == Slots \in SUBSET Nat /\ MaxAllocations \in Nat /\ 0 \in Slots
BY UserMemoryAssumption DEF Slots

(* The null pointer is an address outside the table, and an empty slot of  *)
(* the allocations has it.                                                 *)
LEMMA NullType == NULL \in Int /\ NULL \notin Table /\ NoAllocation \in [ptr : Int, pages : Nat]
BY HeapAssumption DEF NULL, Table, NoAllocation, ENOMEM

(* An empty slot records no block, and every block a slot records lies in  *)
(* the table.                                                              *)
LEMMA SlotBlocks ==
    ASSUME NEW m \in Memory, UserShaped(m), NEW p \in Processes, NEW i \in Slots
    PROVE  /\ Blocks(m, p, i) \subseteq Table
           /\ (m.allocations[p][i].ptr = NULL) <=> (Blocks(m, p, i) = {})
           /\ m.allocations[p][i].ptr # NULL =>
                 m.allocations[p][i].ptr \in Blocks(m, p, i)
<1> DEFINE x == m.allocations[p][i]
<1>1. x \in [ptr : Int, pages : Nat] /\ ShapedSlot(x)
  BY DEF Memory, UserShaped
<1>2. Blocks(m, p, i) = Region(x.ptr, x.pages)
  BY DEF Blocks
<1> HIDE DEF x
<1>3. CASE x.ptr = NULL
  <2>1. x.pages = 0 /\ x.ptr \in Int
    BY <1>1, <1>3, NullType DEF ShapedSlot
  <2>2. Region(x.ptr, x.pages) = {}
    BY <2>1 DEF Region
  <2> QED
    BY <1>2, <1>3, <2>2 DEF x
<1>4. CASE x.ptr # NULL
  <2>1. x.ptr \in Table /\ x.pages >= 1 /\ x.ptr + x.pages <= TotalEntries /\ x.pages \in Nat
    BY <1>1, <1>4 DEF ShapedSlot
  <2>2. Region(x.ptr, x.pages) \subseteq Table /\ x.ptr \in Region(x.ptr, x.pages)
    BY <2>1, HeapAssumption DEF Region, Table
  <2> QED
    BY <1>2, <1>4, <2>2 DEF x
<1> QED
  BY <1>3, <1>4

(* process_free on the fields of the memory.                               *)
LEMMA FreeFields ==
    ASSUME NEW m \in Memory, NEW p \in Processes, NEW a \in Int,
           NEW i \in Slots, i = Min(Hits(m, p, a)),
           Hits(m, p, a) # {}
    PROVE  /\ process_free(m, p, a) \in Memory
           /\ process_free(m, p, a).entries
                = heap_mark_blocks_as_free(m.entries, heap_address_to_block(a))
           /\ process_free(m, p, a).allocations[p][i] = NoAllocation
           /\ \A q \in Processes, j \in Slots : (q # p \/ j # i) =>
                 process_free(m, p, a).allocations[q][j] = m.allocations[q][j]
           /\ process_free(m, p, a).writable[p]
                = m.writable[p] \ Region(a, m.allocations[p][i].pages)
           /\ \A q \in Processes \ {p} :
                 process_free(m, p, a).writable[q] = m.writable[q]
<1> DEFINE e == heap_mark_blocks_as_free(m.entries, heap_address_to_block(a))
           R == Region(a, m.allocations[p][i].pages)
<1>1. process_free(m, p, a) = [m EXCEPT !.writable[p] = @ \ R,
                                        !.allocations[p][i] = NoAllocation,
                                        !.entries = e]
  BY DEF process_free, Hits
<1>2. e \in [Table -> Entry]
  BY MarkFreeType DEF Memory
<1> HIDE DEF e, R
<1>3. /\ m.allocations \in [Processes -> [Slots -> [ptr : Int, pages : Nat]]]
      /\ m.writable \in [Processes -> SUBSET Int]
      /\ m = [entries |-> m.entries, allocations |-> m.allocations,
              writable |-> m.writable]
  BY DEF Memory
<1>4. process_free(m, p, a) =
        [entries |-> e,
         allocations |-> [m.allocations EXCEPT ![p][i] = NoAllocation],
         writable |-> [m.writable EXCEPT ![p] = @ \ R]]
  BY <1>1, <1>3
<1>5. [m.allocations EXCEPT ![p][i] = NoAllocation]
         \in [Processes -> [Slots -> [ptr : Int, pages : Nat]]]
  BY <1>3, NullType
<1>6. [m.writable EXCEPT ![p] = @ \ R] \in [Processes -> SUBSET Int]
  BY <1>3
<1>7. process_free(m, p, a) \in Memory
  BY <1>2, <1>4, <1>5, <1>6 DEF Memory
<1>8. /\ process_free(m, p, a).allocations[p][i] = NoAllocation
      /\ \A q \in Processes, j \in Slots : (q # p \/ j # i) =>
            process_free(m, p, a).allocations[q][j] = m.allocations[q][j]
  BY <1>3, <1>4
<1>9. /\ process_free(m, p, a).writable[p] = m.writable[p] \ R
      /\ \A q \in Processes \ {p} : process_free(m, p, a).writable[q] = m.writable[q]
  BY <1>3, <1>4
<1>10. process_free(m, p, a).entries = e
  BY <1>4
<1> QED
  BY <1>7, <1>8, <1>9, <1>10 DEF e, R

(* Types: process_free of any pointer.                                     *)
LEMMA FreeType ==
    ASSUME NEW m \in Memory, NEW p \in Processes, NEW a \in Int
    PROVE  process_free(m, p, a) \in Memory
<1>1. CASE Hits(m, p, a) = {}
  BY <1>1 DEF process_free, Hits
<1>2. CASE Hits(m, p, a) # {}
  <2>1. Hits(m, p, a) \in SUBSET Nat
    BY SlotsAreNats DEF Hits
  <2>2. Min(Hits(m, p, a)) \in Hits(m, p, a)
    BY <1>2, <2>1, MinIsElement
  <2>3. /\ Min(Hits(m, p, a)) \in Slots
        /\ m.allocations[p][Min(Hits(m, p, a))].ptr = a
    BY <2>2 DEF Hits
  <2> QED
    BY <1>2, <2>3, FreeFields
<1> QED
  BY <1>1, <1>2

(* process_free of a recorded pointer empties its slot, gives back exactly *)
(* the blocks of that slot, and changes no other slot of any process.      *)
LEMMA FreeGood ==
    ASSUME NEW m \in Memory, Good(m), NEW p \in Processes, NEW a \in Int,
           NEW i \in Slots, i = Min(Hits(m, p, a)),
           Hits(m, p, a) # {}, m.allocations[p][i].ptr = a
    PROVE  Good(process_free(m, p, a))
<1> DEFINE x == process_free(m, p, a)
           n == m.allocations[p][i].pages
<1>1. /\ x \in Memory
      /\ x.entries = heap_mark_blocks_as_free(m.entries, heap_address_to_block(a))
      /\ x.allocations[p][i] = NoAllocation
      /\ \A q \in Processes, j \in Slots : (q # p \/ j # i) =>
            x.allocations[q][j] = m.allocations[q][j]
      /\ x.writable[p] = m.writable[p] \ Region(a, n)
      /\ \A q \in Processes \ {p} : x.writable[q] = m.writable[q]
  BY FreeFields
<1>2. /\ m.allocations \in [Processes -> [Slots -> [ptr : Int, pages : Nat]]]
      /\ m.writable \in [Processes -> SUBSET Int]
      /\ n \in Nat
  BY DEF Memory
<1>3. Region(a, n) = Blocks(m, p, i)
  BY DEF Blocks
<1>4. UserShaped(m) /\ UserDisjoint(m) /\ UserMarked(m) /\ UserNoneLost(m) /\ WritableExact(m)
  BY DEF Good
<1> HIDE DEF x
<1>5. \A b \in Table : x.entries[b] = IF b \in Blocks(m, p, i) THEN FREE ELSE m.entries[b]
  <2>1. CASE a = NULL
    <3>1. Blocks(m, p, i) = {}
      BY <1>4, <2>1, SlotBlocks
    <3> QED
      BY <1>1, <2>1, <3>1, FreeNullClears
  <2>2. CASE a # NULL
    <3>1. a \in Table /\ n >= 1 /\ a + n <= TotalEntries
      BY <1>4, <2>2 DEF UserShaped, ShapedSlot
    <3>2. \A b \in Region(a, n) : m.entries[b] = EntryAt(a, n, b)
      BY <1>3, <1>4 DEF UserMarked
    <3> HIDE DEF n
    <3> QED
      BY <1>1, <1>2, <1>3, <3>1, <3>2, FreeClearsRegion
  <2> QED
    BY <2>1, <2>2
<1>6. x.allocations[p][i] = NoAllocation
  BY <1>1, <1>2
<1>7. ASSUME NEW q \in Processes, NEW j \in Slots, q # p \/ j # i
      PROVE  x.allocations[q][j] = m.allocations[q][j]
  BY <1>1, <1>2, <1>7
<1>8. Blocks(x, p, i) = {}
  BY <1>6, HeapAssumption DEF Blocks, Region, NoAllocation, NULL
<1>9. ASSUME NEW q \in Processes, NEW j \in Slots, q # p \/ j # i
      PROVE  Blocks(x, q, j) = Blocks(m, q, j)
  BY <1>7, <1>9 DEF Blocks
<1>10. UserShaped(x)
  <2> SUFFICES ASSUME NEW q \in Processes, NEW j \in Slots
               PROVE  ShapedSlot(x.allocations[q][j])
    BY DEF UserShaped
  <2>1. CASE q = p /\ j = i
    <3>1. x.allocations[q][j].ptr = NULL /\ x.allocations[q][j].pages = 0
      BY <1>6, <2>1 DEF NoAllocation
    <3> QED
      BY <3>1 DEF ShapedSlot
  <2>2. CASE q # p \/ j # i
    BY <1>4, <1>7, <2>2 DEF UserShaped
  <2> QED
    BY <2>1, <2>2
<1>11. UserDisjoint(x)
  BY <1>4, <1>8, <1>9 DEF UserDisjoint
<1>12. UserMarked(x)
  <2> SUFFICES ASSUME NEW q \in Processes, NEW j \in Slots, NEW b \in Blocks(x, q, j)
               PROVE  x.entries[b] = EntryAt(x.allocations[q][j].ptr,
                                             x.allocations[q][j].pages, b)
    BY DEF UserMarked
  <2>1. q # p \/ j # i
    BY <1>8
  <2>2. b \in Blocks(m, q, j) /\ x.allocations[q][j] = m.allocations[q][j]
    BY <1>7, <1>9, <2>1
  <2>3. b \in Table /\ b \notin Blocks(m, p, i)
    BY <1>4, <2>1, <2>2, SlotBlocks DEF UserDisjoint
  <2> QED
    BY <1>4, <1>5, <2>2, <2>3 DEF UserMarked
<1>13. UserNoneLost(x)
  BY <1>4, <1>5, <1>8, <1>9 DEF UserNoneLost
<1>14. WritableExact(x)
  <2> SUFFICES ASSUME NEW q \in Processes, NEW b \in Int
               PROVE  b \in x.writable[q] <=> \E j \in Slots : b \in Blocks(x, q, j)
    BY DEF WritableExact
  <2>1. b \in m.writable[q] <=> \E j \in Slots : b \in Blocks(m, q, j)
    BY <1>4 DEF WritableExact
  <2>2. CASE q # p
    <3>1. x.writable[q] = m.writable[q]
      BY <1>1, <1>2, <2>2
    <3> QED
      BY <1>9, <2>1, <2>2, <3>1
  <2>3. CASE q = p
    <3>1. x.writable[p] = m.writable[p] \ Blocks(m, p, i)
      BY <1>1, <1>2, <1>3
    <3>2. \A j \in Slots \ {i} : Blocks(x, p, j) = Blocks(m, p, j)
                                /\ Blocks(m, p, j) \cap Blocks(m, p, i) = {}
      BY <1>4, <1>9 DEF UserDisjoint
    <3> QED
      BY <1>8, <2>1, <2>3, <3>1, <3>2
  <2> QED
    BY <2>2, <2>3
<1> QED
  BY <1>10, <1>11, <1>12, <1>13, <1>14 DEF Good, x

(* process_free keeps the invariant whatever pointer it is given.          *)
LEMMA FreeAny ==
    ASSUME NEW m \in Memory, Good(m), NEW p \in Processes, NEW a \in Int
    PROVE  Good(process_free(m, p, a))
<1>1. CASE Hits(m, p, a) = {}
  BY <1>1 DEF process_free, Hits
<1>2. CASE Hits(m, p, a) # {}
  <2>1. Hits(m, p, a) \in SUBSET Nat
    BY SlotsAreNats DEF Hits
  <2>2. Min(Hits(m, p, a)) \in Hits(m, p, a)
    BY <1>2, <2>1, MinIsElement
  <2>3. /\ Min(Hits(m, p, a)) \in Slots
        /\ m.allocations[p][Min(Hits(m, p, a))].ptr = a
    BY <2>2 DEF Hits
  <2> QED
    BY <1>2, <2>3, FreeGood
<1> QED
  BY <1>1, <1>2

----------------------------------------------------------------------------
(* process_terminal_allocations, one slot.                                 *)
Step(x, p, i) ==
    IF x.allocations[p][i].ptr = NULL THEN x
    ELSE process_free(x, p, x.allocations[p][i].ptr)

(* The slots of p below k are empty.                                       *)
Emptied(x, p, k) == \A i \in Slots : i < k => x.allocations[p][i] = NoAllocation

(* A round of the loop keeps the types, and while the invariant holds it   *)
(* keeps that too and leaves one more slot of p empty: no other slot holds *)
(* the same pointer, so the first match is the slot the loop is at.        *)
LEMMA RoundOf ==
    ASSUME NEW x \in Memory, NEW p \in Processes, NEW i \in Slots
    PROVE  /\ Step(x, p, i) \in Memory
           /\ Good(x) /\ Emptied(x, p, i) =>
                  Good(Step(x, p, i)) /\ Emptied(Step(x, p, i), p, i + 1)
<1> DEFINE a == x.allocations[p][i].ptr
<1>1. a \in Int
  BY DEF Memory
<1>2. CASE a = NULL
  <2>1. Step(x, p, i) = x
    BY <1>2 DEF Step
  <2>2. ASSUME Good(x), Emptied(x, p, i)
        PROVE  Emptied(x, p, i + 1)
    <3>1. x.allocations[p][i] \in [ptr : Int, pages : Nat]
      BY DEF Memory
    <3>2. x.allocations[p][i].pages = 0
      BY <1>2, <2>2, NullType DEF Good, UserShaped, ShapedSlot
    <3>3. x.allocations[p][i] = NoAllocation
      BY <1>2, <3>1, <3>2 DEF NoAllocation
    <3> QED
      BY <2>2, <3>3, SlotsAreNats DEF Emptied
  <2> QED
    BY <2>1, <2>2
<1>3. CASE a # NULL
  <2>1. Step(x, p, i) = process_free(x, p, a)
    BY <1>3 DEF Step
  <2>2. Step(x, p, i) \in Memory
    BY <1>1, <2>1, FreeType
  <2>3. ASSUME Good(x), Emptied(x, p, i)
        PROVE  Good(Step(x, p, i)) /\ Emptied(Step(x, p, i), p, i + 1)
    <3>1. ASSUME NEW k \in Hits(x, p, a) PROVE k = i
      <4>1. x.allocations[p][k].ptr = a /\ k \in Slots
        BY DEF Hits
      <4>2. a \in Blocks(x, p, k) /\ a \in Blocks(x, p, i)
        BY <1>3, <2>3, <4>1, SlotBlocks DEF Good
      <4> QED
        BY <2>3, <4>1, <4>2 DEF Good, UserDisjoint
    <3>2. Hits(x, p, a) # {} /\ Hits(x, p, a) \in SUBSET Nat
      BY SlotsAreNats DEF Hits
    <3>3. Min(Hits(x, p, a)) = i
      BY <3>1, <3>2, MinIsElement
    <3> HIDE DEF a
    <3>4. /\ process_free(x, p, a).allocations[p][i] = NoAllocation
          /\ \A k \in Slots \ {i} :
                process_free(x, p, a).allocations[p][k] = x.allocations[p][k]
      BY <1>1, <3>2, <3>3, FreeFields
    <3>5. Good(Step(x, p, i))
      BY <1>1, <2>1, <2>3, FreeAny
    <3>7. \A k \in Slots : k < i + 1 => k = i \/ k < i
      BY SlotsAreNats
    <3>8. Emptied(Step(x, p, i), p, i + 1)
      BY <2>1, <2>3, <3>4, <3>7 DEF Emptied
    <3> QED
      BY <3>5, <3>8
  <2> QED
    BY <2>2, <2>3
<1> QED
  BY <1>2, <1>3

(* process_terminal_allocations releases everything: when the loop has     *)
(* ended every slot of p is empty, and the invariant still holds.          *)
LEMMA TerminalReleases ==
    ASSUME NEW m \in Memory, NEW p \in Processes
    PROVE  /\ process_terminal_allocations(m, p) \in Memory
           /\ Good(m) => /\ Good(process_terminal_allocations(m, p))
                         /\ \A i \in Slots :
                               process_terminal_allocations(m, p).allocations[p][i]
                                 = NoAllocation
<1> DEFINE Is(g) == g = [k \in 0 .. MaxAllocations |->
                            IF k = 0 THEN m
                            ELSE IF g[k - 1].allocations[p][k - 1].ptr = NULL THEN g[k - 1]
                            ELSE process_free(g[k - 1], p, g[k - 1].allocations[p][k - 1].ptr)]
           after == CHOOSE g : Is(g)
<1>1. \E g : Is(g)
  <2> DEFINE F == [z \in Memory \X Nat |->
                     IF z[2] \in Slots THEN Step(z[1], p, z[2]) ELSE z[1]]
  <2>1. F \in [Memory \X Nat -> Memory]
    BY RoundOf
  <2>2. \A x \in Memory, i \in Slots : F[<<x, i>>] = Step(x, p, i)
    BY SlotsAreNats
  <2> HIDE DEF F
  <2>3. PICK g \in [0 .. MaxAllocations -> Memory] : LoopRun(g, m, F, MaxAllocations)
    BY <2>1, LoopRuns, SlotsAreNats, Zenon
  <2>4. ASSUME NEW k \in 0 .. MaxAllocations
        PROVE  g[k] = IF k = 0 THEN m ELSE Step(g[k - 1], p, k - 1)
    <3>1. CASE k = 0
      BY <2>3, <3>1 DEF LoopRun
    <3>2. CASE k # 0
      <4>1. k \in 1 .. MaxAllocations /\ k - 1 \in 0 .. MaxAllocations /\ k - 1 \in Slots
        BY <3>2, SlotsAreNats DEF Slots
      <4>2. g[k - 1] \in Memory
        BY <4>1
      <4> QED
        BY <2>2, <2>3, <3>2, <4>1, <4>2 DEF LoopRun
    <3> QED
      BY <3>1, <3>2
  <2>5. Is(g)
    BY <2>4 DEF Step
  <2> QED
    BY <2>5
<1>2. Is(after)
  <2> HIDE DEF Is
  <2> QED
    BY <1>1
<1>3. process_terminal_allocations(m, p) = after[MaxAllocations]
  BY DEF process_terminal_allocations
<1> HIDE DEF after
<1>4. /\ after[0] = m
      /\ \A k \in 1 .. MaxAllocations : after[k] = Step(after[k - 1], p, k - 1)
  <2>1. \A k \in 0 .. MaxAllocations : after[k] =
           IF k = 0 THEN m ELSE Step(after[k - 1], p, k - 1)
    BY <1>2, Zenon DEF Step
  <2>2. 0 \in 0 .. MaxAllocations
        /\ \A k \in 1 .. MaxAllocations : k \in 0 .. MaxAllocations /\ k # 0
    BY SlotsAreNats
  <2> QED
    BY <2>1, <2>2
<1> HIDE DEF Is
<1> DEFINE S == {k \in Nat : k <= MaxAllocations =>
                    /\ after[k] \in Memory
                    /\ Good(m) => Good(after[k]) /\ Emptied(after[k], p, k)}
<1>5. 0 \in S
  BY <1>4, SlotsAreNats DEF Emptied
<1>6. ASSUME NEW k \in Nat, k \in S PROVE k + 1 \in S
  <2>1. CASE k + 1 > MaxAllocations
    BY <2>1, SlotsAreNats
  <2>2. CASE k + 1 <= MaxAllocations
    <3>1. /\ k \in Slots /\ k + 1 \in 1 .. MaxAllocations
          /\ (k + 1) - 1 = k /\ k <= MaxAllocations /\ k + 1 \in Nat
      BY <2>2, SlotsAreNats DEF Slots
    <3>2. /\ after[k] \in Memory
          /\ Good(m) => Good(after[k]) /\ Emptied(after[k], p, k)
      BY <1>6, <3>1
    <3>3. after[k + 1] = Step(after[k], p, k)
      BY <1>4, <3>1
    <3>4. /\ after[k + 1] \in Memory
          /\ Good(m) => Good(after[k + 1]) /\ Emptied(after[k + 1], p, k + 1)
      BY <3>1, <3>2, <3>3, RoundOf
    <3> QED
      BY <3>1, <3>4
  <2> QED
    BY <2>1, <2>2, SlotsAreNats
<1> HIDE DEF S
<1>7. MaxAllocations \in S
  BY <1>5, <1>6, SetInduction, SlotsAreNats
<1>8. /\ after[MaxAllocations] \in Memory
      /\ Good(m) => Good(after[MaxAllocations]) /\ Emptied(after[MaxAllocations], p, MaxAllocations)
  BY <1>7, SlotsAreNats DEF S
<1>9. \A i \in Slots : i < MaxAllocations
  BY SlotsAreNats DEF Slots
<1> QED
  BY <1>3, <1>8, <1>9 DEF Emptied

----------------------------------------------------------------------------
(* A request of a program never wraps: it is smaller than the address      *)
(* space.                                                                  *)
LEMMA RequestType ==
    ASSUME NEW size \in Requests
    PROVE  BlocksFor(size) \in Nat
<1>1. /\ TotalEntries \in Nat /\ BlockSize \in Nat /\ AddrBlocks \in Nat
      /\ BlockSize >= 1 /\ TotalEntries + 1 <= AddrBlocks
  BY HeapAssumption DEF ENOMEM
<1>2. PICK d \in Nat : AddrBlocks = TotalEntries + 1 + d
  <2>1. AddrBlocks - (TotalEntries + 1) \in Nat
    BY <1>1
  <2> QED
    BY <1>1, <2>1
<1>3. AddrBlocks * BlockSize = TotalEntries * BlockSize + BlockSize + d * BlockSize
  BY <1>1, <1>2
<1> DEFINE A == AddrBlocks * BlockSize
           T == TotalEntries * BlockSize
           D == d * BlockSize
<1>4. A \in Nat /\ T \in Nat /\ D \in Nat
  BY <1>1
<1>5. size \in 0 .. T
  BY UserMemoryAssumption
<1> HIDE DEF A, T, D
<1>6. A = T + BlockSize + D
  BY <1>3 DEF A, T, D
<1>7. size \in 0 .. A - 1
  BY <1>1, <1>4, <1>5, <1>6
<1> QED
  BY <1>7, BlocksForType DEF A

(* sys_malloc on the fields of the memory.                                 *)
LEMMA MallocFields ==
    ASSUME mem \in Memory, NEW p \in Processes, NEW size \in Requests, sys_malloc(p, size)
    PROVE  \E i \in Slots, n \in Nat, s \in Int :
              /\ n = BlocksFor(size) /\ s = heap_get_start_block(mem.entries, n)
              /\ mem.allocations[p][i].ptr = NULL
              /\ mem' \in Memory
              /\ mem'.entries = heap_mark_blocks_as_taken(mem.entries, s, n)
              /\ mem'.allocations[p][i].ptr = s /\ mem'.allocations[p][i].pages = n
              /\ \A q \in Processes, j \in Slots : (q # p \/ j # i) =>
                    mem'.allocations[q][j] = mem.allocations[q][j]
              /\ mem'.writable[p] = mem.writable[p] \cup Region(s, n)
              /\ \A q \in Processes \ {p} : mem'.writable[q] = mem.writable[q]
<1> DEFINE n == BlocksFor(size)
           s == heap_get_start_block(mem.entries, n)
           e == heap_mark_blocks_as_taken(mem.entries, s, n)
           R == Region(s, n)
           i == Min(FreeSlotsOf(p))
<1>1. n \in Nat /\ s \in Int
  BY RequestType, StartBlockType
<1>2. e \in [Table -> Entry]
  BY <1>1, MarkTakenType DEF Memory
<1>3. i \in Slots /\ mem.allocations[p][i].ptr = NULL
  <2>1. FreeSlotsOf(p) # {} /\ FreeSlotsOf(p) \in SUBSET Nat
    BY SlotsAreNats DEF sys_malloc, FreeSlotsOf
  <2>2. i \in FreeSlotsOf(p)
    BY <2>1, MinIsElement
  <2> QED
    BY <2>2 DEF FreeSlotsOf
<1>4. mem' = [mem EXCEPT !.entries = e, !.writable[p] = @ \cup R,
                         !.allocations[p][i] = [ptr |-> s, pages |-> n]]
  BY DEF sys_malloc
<1>5. R \subseteq Int
  BY <1>1 DEF Region
<1> HIDE DEF n, s, e, R, i
<1>6. /\ mem.allocations \in [Processes -> [Slots -> [ptr : Int, pages : Nat]]]
      /\ mem.writable \in [Processes -> SUBSET Int]
      /\ mem = [entries |-> mem.entries, allocations |-> mem.allocations,
                writable |-> mem.writable]
  BY DEF Memory
<1>7. mem' = [entries |-> e,
              allocations |-> [mem.allocations EXCEPT ![p][i] = [ptr |-> s, pages |-> n]],
              writable |-> [mem.writable EXCEPT ![p] = @ \cup R]]
  BY <1>4, <1>6
<1>8. [mem.allocations EXCEPT ![p][i] = [ptr |-> s, pages |-> n]]
         \in [Processes -> [Slots -> [ptr : Int, pages : Nat]]]
  BY <1>1, <1>3, <1>6
<1>9. [mem.writable EXCEPT ![p] = @ \cup R] \in [Processes -> SUBSET Int]
  BY <1>5, <1>6
<1>10. mem' \in Memory
  BY <1>2, <1>7, <1>8, <1>9 DEF Memory
<1>11. /\ mem'.allocations[p][i].ptr = s /\ mem'.allocations[p][i].pages = n
       /\ \A q \in Processes, j \in Slots : (q # p \/ j # i) =>
             mem'.allocations[q][j] = mem.allocations[q][j]
  BY <1>3, <1>6, <1>7
<1>12. /\ mem'.writable[p] = mem.writable[p] \cup R
       /\ \A q \in Processes \ {p} : mem'.writable[q] = mem.writable[q]
  BY <1>6, <1>7
<1>13. mem'.entries = e
  BY <1>7
<1> i \in Slots /\ n \in Nat /\ s \in Int
  BY <1>1, <1>3
<1> WITNESS i \in Slots, n \in Nat, s \in Int
<1> QED
  BY <1>3, <1>10, <1>11, <1>12, <1>13 DEF n, s, e, R

(* sys_malloc that is granted keeps the invariant: the blocks it hands out  *)
(* are free, so they belong to no slot.                                    *)
LEMMA MallocGood ==
    ASSUME mem \in Memory, Good(mem), NEW p \in Processes, NEW size \in Requests,
           sys_malloc(p, size), granted'
    PROVE  Good(mem')
<1>1. PICK i \in Slots, n \in Nat, s \in Int :
              /\ n = BlocksFor(size) /\ s = heap_get_start_block(mem.entries, n)
              /\ mem.allocations[p][i].ptr = NULL
              /\ mem' \in Memory
              /\ mem'.entries = heap_mark_blocks_as_taken(mem.entries, s, n)
              /\ mem'.allocations[p][i].ptr = s /\ mem'.allocations[p][i].pages = n
              /\ \A q \in Processes, j \in Slots : (q # p \/ j # i) =>
                    mem'.allocations[q][j] = mem.allocations[q][j]
              /\ mem'.writable[p] = mem.writable[p] \cup Region(s, n)
              /\ \A q \in Processes \ {p} : mem'.writable[q] = mem.writable[q]
  BY MallocFields
<1>2. CanServe(mem.entries, n)
  BY <1>1 DEF sys_malloc
<1>3. s \in Runs(mem.entries, n)
  BY <1>1, <1>2, StartBlockServes
<1>4. n >= 1 /\ s \in Table /\ s + n <= TotalEntries
  BY <1>2, <1>3 DEF CanServe, Runs
<1>5. \A b \in Region(s, n) : TAKEN \notin mem.entries[b]
  BY <1>3 DEF Runs, Region, IsFree
<1>6. UserShaped(mem) /\ UserDisjoint(mem) /\ UserMarked(mem) /\ UserNoneLost(mem) /\ WritableExact(mem)
  BY DEF Good
<1>7. Region(s, n) \subseteq Table
  BY <1>4, HeapAssumption DEF Region, Table
<1>8. ASSUME NEW q \in Processes, NEW j \in Slots
      PROVE  Blocks(mem, q, j) \cap Region(s, n) = {}
  <2> SUFFICES ASSUME NEW b \in Blocks(mem, q, j), b \in Region(s, n)
               PROVE  FALSE
    OBVIOUS
  <2>1. TAKEN \in mem.entries[b]
    BY <1>6 DEF UserMarked, EntryAt
  <2> QED
    BY <1>5, <2>1
<1>9. Blocks(mem, p, i) = {} /\ Blocks(mem', p, i) = Region(s, n)
  <2>1. Blocks(mem, p, i) = {}
    BY <1>1, <1>6, SlotBlocks
  <2>2. Blocks(mem', p, i) = Region(s, n)
    BY <1>1 DEF Blocks
  <2> QED
    BY <2>1, <2>2
<1>10. ASSUME NEW q \in Processes, NEW j \in Slots, q # p \/ j # i
       PROVE  /\ mem'.allocations[q][j] = mem.allocations[q][j]
              /\ Blocks(mem', q, j) = Blocks(mem, q, j)
  <2>1. mem'.allocations[q][j] = mem.allocations[q][j]
    BY <1>1, <1>10
  <2> QED
    BY <2>1 DEF Blocks
<1>11. \A b \in Table : mem'.entries[b] =
          IF b \in Region(s, n) THEN EntryAt(s, n, b) ELSE mem.entries[b]
  BY <1>1 DEF heap_mark_blocks_as_taken
<1>12. UserShaped(mem')
  <2> SUFFICES ASSUME NEW q \in Processes, NEW j \in Slots
               PROVE  ShapedSlot(mem'.allocations[q][j])
    BY DEF UserShaped
  <2>1. CASE q = p /\ j = i
    BY <1>1, <1>4, <2>1 DEF ShapedSlot
  <2>2. CASE q # p \/ j # i
    BY <1>6, <1>10, <2>2 DEF UserShaped
  <2> QED
    BY <2>1, <2>2
<1>13. UserDisjoint(mem')
  BY <1>6, <1>8, <1>9, <1>10 DEF UserDisjoint
<1>14. UserMarked(mem')
  <2> SUFFICES ASSUME NEW q \in Processes, NEW j \in Slots, NEW b \in Blocks(mem', q, j)
               PROVE  mem'.entries[b] = EntryAt(mem'.allocations[q][j].ptr,
                                                mem'.allocations[q][j].pages, b)
    BY DEF UserMarked
  <2>1. CASE q = p /\ j = i
    BY <1>1, <1>7, <1>9, <1>11, <2>1
  <2>2. CASE q # p \/ j # i
    <3>1. /\ b \in Blocks(mem, q, j) /\ b \in Table /\ b \notin Region(s, n)
          /\ mem'.allocations[q][j] = mem.allocations[q][j]
      BY <1>6, <1>8, <1>10, <2>2, SlotBlocks
    <3> QED
      BY <1>6, <1>11, <3>1 DEF UserMarked
  <2> QED
    BY <2>1, <2>2
<1>15. UserNoneLost(mem')
  BY <1>6, <1>9, <1>10, <1>11 DEF UserNoneLost
<1>16. WritableExact(mem')
  <2> SUFFICES ASSUME NEW q \in Processes, NEW b \in Int
               PROVE  b \in mem'.writable[q] <=> \E j \in Slots : b \in Blocks(mem', q, j)
    BY DEF WritableExact
  <2>1. b \in mem.writable[q] <=> \E j \in Slots : b \in Blocks(mem, q, j)
    BY <1>6 DEF WritableExact
  <2>2. CASE q # p
    <3>1. mem'.writable[q] = mem.writable[q]
      BY <1>1, <2>2
    <3> QED
      BY <1>10, <2>1, <2>2, <3>1
  <2>3. CASE q = p
    <3>1. mem'.writable[p] = mem.writable[p] \cup Region(s, n)
      BY <1>1
    <3>2. \A j \in Slots \ {i} : Blocks(mem', p, j) = Blocks(mem, p, j)
      BY <1>10
    <3> QED
      BY <1>9, <2>1, <2>3, <3>1, <3>2
  <2> QED
    BY <2>2, <2>3
<1> QED
  BY <1>12, <1>13, <1>14, <1>15, <1>16 DEF Good

(* The end of a process keeps the invariant: when its slots are empty it   *)
(* has no writable page left, so clearing both for the next process        *)
(* changes nothing.                                                        *)
LEMMA TerminateGood ==
    ASSUME mem \in Memory, NEW p \in Processes, process_terminate(p)
    PROVE  mem' \in Memory /\ (Good(mem) => Good(mem'))
<1> DEFINE x == process_terminal_allocations(mem, p)
           none == [i \in Slots |-> NoAllocation]
<1>1. x \in Memory
  BY TerminalReleases
<1>2. Good(mem) => Good(x) /\ \A i \in Slots : x.allocations[p][i] = NoAllocation
  BY TerminalReleases
<1>3. mem' = [x EXCEPT !.writable[p] = {}, !.allocations[p] = none]
  BY DEF process_terminate
<1>4. none \in [Slots -> [ptr : Int, pages : Nat]]
  BY NullType
<1>5. \A f \in [Slots -> [ptr : Int, pages : Nat]] :
         (\A i \in Slots : f[i] = NoAllocation) => f = none
  OBVIOUS
<1> HIDE DEF x, none
<1>6. /\ x.entries \in [Table -> Entry]
      /\ x.allocations \in [Processes -> [Slots -> [ptr : Int, pages : Nat]]]
      /\ x.writable \in [Processes -> SUBSET Int]
      /\ x = [entries |-> x.entries, allocations |-> x.allocations, writable |-> x.writable]
  BY <1>1 DEF Memory
<1>7. mem' = [entries |-> x.entries,
              allocations |-> [x.allocations EXCEPT ![p] = none],
              writable |-> [x.writable EXCEPT ![p] = {}]]
  BY <1>3, <1>6
<1>8. mem' \in Memory
  BY <1>4, <1>6, <1>7 DEF Memory
<1>9. ASSUME Good(mem) PROVE mem' = x
  <2>1. x.allocations[p] = none
    BY <1>2, <1>5, <1>6, <1>9
  <2>2. \A i \in Slots : Blocks(x, p, i) = {}
    <3>1. \A i \in Slots : x.allocations[p][i].ptr = NULL
      BY <1>2, <1>9 DEF NoAllocation
    <3> QED
      BY <1>1, <1>2, <1>9, <3>1, SlotBlocks DEF Good
  <2>3. x.writable[p] = {}
    <3>1. x.writable[p] \subseteq Int
      BY <1>6
    <3>2. \A b \in Int : b \notin x.writable[p]
      BY <1>2, <1>9, <2>2 DEF Good, WritableExact
    <3> QED
      BY <3>1, <3>2
  <2>4. [x.allocations EXCEPT ![p] = none] = x.allocations
    BY <1>6, <2>1
  <2>5. [x.writable EXCEPT ![p] = {}] = x.writable
    BY <1>6, <2>3
  <2> QED
    BY <1>6, <1>7, <2>4, <2>5
<1> QED
  BY <1>2, <1>8, <1>9

----------------------------------------------------------------------------
(* A memory nobody uses is good.                                           *)
LEMMA UserInitIInv == UserInit => UserIInv
<1> SUFFICES ASSUME UserInit PROVE UserIInv
  OBVIOUS
<1>1. /\ mem.entries = [i \in Table |-> FREE]
      /\ mem.allocations = [p \in Processes |-> [i \in Slots |-> NoAllocation]]
      /\ mem.writable = [p \in Processes |-> {}]
      /\ granted = TRUE
  BY DEF UserInit
<1>2. mem \in Memory
  BY NullType DEF UserInit, Memory, Entry, FREE
<1>3. \A p \in Processes, i \in Slots :
         mem.allocations[p][i].ptr = NULL /\ mem.allocations[p][i].pages = 0
  BY <1>1 DEF NoAllocation
<1>4. \A p \in Processes, i \in Slots : Blocks(mem, p, i) = {}
  BY <1>3, NullType DEF Blocks, Region
<1>5. UserShaped(mem)
  BY <1>3 DEF UserShaped, ShapedSlot
<1>6. UserDisjoint(mem) /\ UserMarked(mem)
  BY <1>4 DEF UserDisjoint, UserMarked
<1>7. UserNoneLost(mem) /\ WritableExact(mem)
  BY <1>1, <1>4 DEF UserNoneLost, WritableExact
<1> QED
  BY <1>1, <1>2, <1>5, <1>6, <1>7 DEF UserIInv, Good

(* Every call of a process, and its end, keeps the memory good.            *)
LEMMA UserNextIInv == UserIInv /\ [UserNext]_userVars => UserIInv'
<1> SUFFICES ASSUME UserIInv, [UserNext]_userVars PROVE UserIInv'
  OBVIOUS
<1>1. mem \in Memory /\ granted \in BOOLEAN /\ (granted => Good(mem))
  BY DEF UserIInv
<1>2. ASSUME NEW p \in Processes, NEW size \in Requests, sys_malloc(p, size)
      PROVE  UserIInv'
  <2>1. mem' \in Memory
    BY <1>1, <1>2, MallocFields
  <2>2. CanServe(mem.entries, BlocksFor(size)) \in BOOLEAN
    BY DEF CanServe
  <2>3. granted' \in BOOLEAN /\ (granted' => granted)
    BY <1>1, <1>2, <2>2, Zenon DEF sys_malloc
  <2>4. granted' => Good(mem')
    BY <1>1, <1>2, <2>3, MallocGood
  <2> QED
    BY <2>1, <2>3, <2>4 DEF UserIInv
<1>3. ASSUME NEW p \in Processes, NEW a \in Table \cup {NULL, -ENOMEM}, isr_sys_free(p, a)
      PROVE  UserIInv'
  <2>1. a \in Int
    BY NullType DEF Table, ENOMEM
  <2>2. mem' = process_free(mem, p, a) /\ granted' = granted
    BY <1>3 DEF isr_sys_free
  <2> QED
    BY <1>1, <2>1, <2>2, FreeType, FreeAny DEF UserIInv
<1>4. ASSUME NEW p \in Processes, process_terminate(p)
      PROVE  UserIInv'
  <2>1. granted' = granted
    BY <1>4 DEF process_terminate
  <2> QED
    BY <1>1, <1>4, <2>1, TerminateGood DEF UserIInv
<1>5. CASE UNCHANGED userVars
  BY <1>1, <1>5 DEF userVars, UserIInv
<1> QED
  BY <1>2, <1>3, <1>4, <1>5 DEF UserNext

(* The inductive invariant holds in every state.                           *)
LEMMA UserInvariance == UserSpec => []UserIInv
BY UserInitIInv, UserNextIInv, PTL DEF UserSpec

(* Heap table, allocation tables and writable pages keep their types, also *)
(* after a request that could not be met.                                  *)
THEOREM UserTypesCorrect == UserSpec => []UserTypeOK
<1>1. UserIInv => UserTypeOK
  BY DEF UserIInv, UserTypeOK, Memory
<1> QED
  BY <1>1, UserInvariance, PTL

(* However many processes allocate, free any pointer they like and end, in *)
(* any order: a process can write exactly the pages of its own allocations *)
(* (process_malloc, process_free and process_terminal_allocations keep     *)
(* page tables and allocation table together), and no page is writable for *)
(* two processes.                                                          *)
THEOREM ProcessesAreIsolated == UserSpec => []Isolation
<1>1. UserIInv => Isolation
  <2> SUFFICES ASSUME UserIInv, granted PROVE
        /\ \A p \in Processes : mem.writable[p] = UNION {Pages(p, i) : i \in Slots}
        /\ \A p, q \in Processes : p # q => mem.writable[p] \cap mem.writable[q] = {}
    BY DEF Isolation
  <2>1. mem \in Memory /\ UserShaped(mem) /\ UserDisjoint(mem) /\ WritableExact(mem)
    BY DEF UserIInv, Good
  <2>2. \A p \in Processes, i \in Slots : Pages(p, i) = Blocks(mem, p, i)
                                          /\ Blocks(mem, p, i) \subseteq Int
    BY <2>1, SlotBlocks DEF Pages, Blocks, Table
  <2>3. \A p \in Processes : mem.writable[p] \subseteq Int
    BY <2>1 DEF Memory
  <2>4. ASSUME NEW p \in Processes
        PROVE  mem.writable[p] = UNION {Pages(p, i) : i \in Slots}
    BY <2>1, <2>2, <2>3 DEF WritableExact
  <2>5. ASSUME NEW p \in Processes, NEW q \in Processes, p # q
        PROVE  mem.writable[p] \cap mem.writable[q] = {}
    BY <2>1, <2>3, <2>5 DEF WritableExact, UserDisjoint
  <2> QED
    BY <2>4, <2>5
<1> QED
  BY <1>1, UserInvariance, PTL

(* No block is lost and none is freed under its owner: the heap holds      *)
(* exactly the blocks that some allocation table records.                  *)
THEOREM NothingIsLost == UserSpec => []NothingLost
<1>1. UserIInv => NothingLost
  <2> SUFFICES ASSUME UserIInv, granted, NEW b \in Table
               PROVE  mem.entries[b] # FREE <=>
                        \E p \in Processes, i \in Slots : b \in Pages(p, i)
    BY DEF NothingLost
  <2>1. UserMarked(mem) /\ UserNoneLost(mem)
    BY DEF UserIInv, Good
  <2>2. \A p \in Processes, i \in Slots : Pages(p, i) = Blocks(mem, p, i)
    BY DEF Pages, Blocks
  <2>3. ASSUME NEW p \in Processes, NEW i \in Slots, b \in Blocks(mem, p, i)
        PROVE  mem.entries[b] # FREE
    BY <2>1, <2>3 DEF UserMarked, EntryAt, FREE
  <2>4. ASSUME \A p \in Processes, i \in Slots : b \notin Blocks(mem, p, i)
        PROVE  mem.entries[b] = FREE
    BY <2>1, <2>4 DEF UserNoneLost
  <2> QED
    BY <2>2, <2>3, <2>4
<1> QED
  BY <1>1, UserInvariance, PTL

(* A call of one process, or its end, leaves the heap's record of every    *)
(* other process's blocks as it was.                                       *)
THEOREM OthersAreKept == UserSpec => OthersKept
<1> DEFINE Kept == granted' =>
          \A p \in Processes :
              (mem'.allocations[p] = mem.allocations[p]) =>
                  \A i \in Slots : \A b \in Pages(p, i) : mem'.entries[b] = mem.entries[b]
<1>1. UserIInv /\ UserIInv' /\ [UserNext]_userVars => [Kept]_userVars
  <2> SUFFICES ASSUME UserIInv, UserIInv', UserNext, granted', NEW p \in Processes,
                      mem'.allocations[p] = mem.allocations[p],
                      NEW i \in Slots, NEW b \in Pages(p, i)
               PROVE  mem'.entries[b] = mem.entries[b]
    OBVIOUS
  <2>1. granted
    BY DEF UserNext, sys_malloc, isr_sys_free, process_terminate
  <2>2. UserMarked(mem) /\ UserMarked(mem')
    BY <2>1 DEF UserIInv, Good
  <2>3. b \in Blocks(mem, p, i) /\ b \in Blocks(mem', p, i)
    BY DEF Pages, Blocks
  <2> QED
    BY <2>2, <2>3 DEF UserMarked
<1> QED
  BY <1>1, UserInvariance, PTL DEF UserSpec, OthersKept
=============================================================================
