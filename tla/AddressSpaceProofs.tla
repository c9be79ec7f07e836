------------------------- MODULE AddressSpaceProofs -------------------------
(***************************************************************************)
(* Proofs about page directories and the address spaces of processes, for  *)
(* every page size, number of tables, heap and set of images.              *)
(***************************************************************************)
EXTENDS AddressSpace, BasicLemmas, FiniteSetTheorems

(* Page numbers, directories, and the entry of page q.                     *)
Pages == 0 .. PagesTotal - 1
Dirs == [0 .. Tables - 1 -> [0 .. Entries - 1 -> Entry]]
Get(d, q) == paging_get(d, q * PageSize)

----------------------------------------------------------------------------
(* Arithmetic of addresses.                                                *)

LEMMA Constants ==
    /\ PageSize \in Nat \ {0} /\ Tables \in Nat \ {0} /\ Entries = Tables
    /\ PagesTotal \in Nat /\ PagesTotal = Tables * Tables
    /\ Space \in Nat /\ Space = PagesTotal * PageSize
<1>1. PageSize \in Nat \ {0} /\ Tables \in Nat \ {0} /\ Entries = Tables
  BY PagingAssumption
<1>2. PagesTotal = Tables * Tables /\ PagesTotal \in Nat
  BY <1>1 DEF PagesTotal
<1> HIDE DEF PagesTotal
<1>3. Space = PagesTotal * PageSize /\ Space \in Nat
  BY <1>1, <1>2 DEF Space
<1> QED
  BY <1>1, <1>2, <1>3

(* The pages of two addresses are ordered as their numbers are.            *)
LEMMA PageOrder ==
    ASSUME NEW x \in Nat, NEW y \in Nat
    PROVE  /\ x * PageSize \in Nat /\ y * PageSize \in Nat
           /\ x < y => x * PageSize + PageSize <= y * PageSize
           /\ x <= y => x * PageSize <= y * PageSize
           /\ x * PageSize < y * PageSize => x < y
           /\ x * PageSize <= y * PageSize => x <= y
<1>1. PageSize \in Nat \ {0}
  BY Constants
<1>2. PageSize * x = x * PageSize /\ PageSize * y = y * PageSize
  BY <1>1
<1>3. /\ PageSize * x \in Nat /\ PageSize * y \in Nat
      /\ x < y => PageSize * x + PageSize <= PageSize * y
      /\ x <= y => PageSize * x <= PageSize * y
      /\ PageSize * x < PageSize * y => x < y
      /\ PageSize * x <= PageSize * y => x <= y
  BY <1>1, TimesMonotonic, Zenon
<1> QED
  BY <1>2, <1>3, Zenon

(* A byte of page q.                                                       *)
LEMMA PageByte ==
    ASSUME NEW q \in Nat, NEW r \in 0 .. PageSize - 1
    PROVE  /\ q * PageSize \in Nat
           /\ (q * PageSize + r) \div PageSize = q
           /\ (q * PageSize + r) % PageSize = r
<1>1. PageSize \in Nat \ {0}
  BY Constants
<1>2. PageSize * q = q * PageSize /\ q * PageSize \in Nat
  BY <1>1
<1>3. (PageSize * q + r) % PageSize = r /\ (PageSize * q + r) \div PageSize = q
  BY <1>1, DivModOf
<1> QED
  BY <1>2, <1>3, Zenon

(* The first byte of page q.                                               *)
LEMMA PageStart ==
    ASSUME NEW q \in Nat
    PROVE  /\ q * PageSize \in Nat
           /\ (q * PageSize) \div PageSize = q
           /\ (q * PageSize) % PageSize = 0
<1>1. 0 \in 0 .. PageSize - 1 /\ q * PageSize \in Nat
  BY Constants
<1>2. q * PageSize + 0 = q * PageSize
  BY <1>1
<1> QED
  BY <1>1, <1>2, PageByte

(* An address is a byte of its page.                                       *)
LEMMA PageOf ==
    ASSUME NEW v \in Nat
    PROVE  /\ v \div PageSize \in Nat /\ v % PageSize \in 0 .. PageSize - 1
           /\ v = (v \div PageSize) * PageSize + (v % PageSize)
           /\ paging_align_to_lower_page_addr(v) = (v \div PageSize) * PageSize
<1> DEFINE q == v \div PageSize
           r == v % PageSize
<1>1. PageSize \in Nat \ {0}
  BY Constants
<1>2. q \in Nat /\ r \in 0 .. PageSize - 1 /\ v = PageSize * q + r
  BY <1>1, Division
<1>3. paging_align_to_lower_page_addr(v) = v - r
  BY DEF paging_align_to_lower_page_addr
<1> HIDE DEF q, r
<1>4. PageSize * q = q * PageSize /\ q * PageSize \in Nat
  BY <1>1, <1>2
<1>5. v - r = q * PageSize
  BY <1>2, <1>4
<1> QED
  BY <1>2, <1>3, <1>4, <1>5 DEF q, r

(* Two ways to write an address.                                           *)
LEMMA PageUnique ==
    ASSUME NEW v \in Nat, NEW q \in Nat, NEW r \in 0 .. PageSize - 1, v = q * PageSize + r
    PROVE  v \div PageSize = q /\ v % PageSize = r
BY PageByte

(* paging_get_indexes takes page q to the table and the entry of q.        *)
LEMMA IndexesOf ==
    ASSUME NEW q \in Nat
    PROVE  /\ paging_get_indexes(q * PageSize) = [d |-> q \div Tables, t |-> q % Tables]
           /\ q \div Tables \in Nat /\ q % Tables \in 0 .. Tables - 1
           /\ q = Tables * (q \div Tables) + (q % Tables)
<1> DEFINE a == q \div Tables
           b == q % Tables
           T == Tables * PageSize
<1>1. PageSize \in Nat \ {0} /\ Tables \in Nat \ {0} /\ Entries = Tables
  BY Constants
<1>2. a \in Nat /\ b \in 0 .. Tables - 1 /\ q = Tables * a + b
  BY <1>1, Division
<1>3. paging_get_indexes(q * PageSize) =
        [d |-> (q * PageSize) \div T, t |-> ((q * PageSize) % T) \div PageSize]
  BY <1>1 DEF paging_get_indexes
<1> HIDE DEF a, b
<1>4. T \in Nat \ {0}
  BY <1>1
<1>5. q * PageSize = T * a + b * PageSize
  BY <1>1, <1>2
<1>6. b * PageSize \in 0 .. T - 1
  <2>1. b \in Nat /\ b < Tables
    BY <1>1, <1>2
  <2>2. b * PageSize \in Nat /\ b * PageSize + PageSize <= Tables * PageSize
    BY <2>1, <1>1, PageOrder
  <2> QED
    BY <1>1, <1>4, <2>2
<1> HIDE DEF T
<1>7. (q * PageSize) \div T = a /\ (q * PageSize) % T = b * PageSize
  BY <1>2, <1>4, <1>5, <1>6, DivModOf
<1>8. (b * PageSize) \div PageSize = b
  <2>1. b \in Nat
    BY <1>2, <1>1
  <2> QED
    BY <2>1, PageStart
<1> QED
  BY <1>2, <1>3, <1>7, <1>8 DEF a, b

(* The indexes of a page exist, and no two pages share them.               *)
LEMMA IndexesExist ==
    ASSUME NEW q \in Pages
    PROVE  /\ q \in Nat /\ q \div Tables \in 0 .. Tables - 1 /\ q % Tables \in 0 .. Tables - 1
           /\ q = Tables * (q \div Tables) + (q % Tables)
<1> DEFINE a == q \div Tables
           b == q % Tables
<1>1. Tables \in Nat \ {0} /\ q \in Nat /\ q < Tables * Tables
  BY Constants DEF Pages
<1>2. a \in Nat /\ b \in 0 .. Tables - 1 /\ q = Tables * a + b
  BY <1>1, IndexesOf
<1> HIDE DEF a, b
<1>3. Tables * a < Tables * Tables
  <2>1. Tables * a \in Nat /\ Tables * Tables \in Nat
    BY <1>1, <1>2
  <2> QED
    BY <1>1, <1>2, <2>1
<1>4. a < Tables
  BY <1>1, <1>2, <1>3, TimesMonotonic
<1> QED
  BY <1>1, <1>2, <1>4 DEF a, b

----------------------------------------------------------------------------
(* Directories.                                                            *)

(* An entry of a directory is one.                                         *)
LEMMA GetIs ==
    ASSUME NEW d \in Dirs, NEW q \in Pages
    PROVE  Get(d, q) = d[q \div Tables][q % Tables] /\ Get(d, q) \in Entry
<1> DEFINE a == q \div Tables
           b == q % Tables
<1>1. q \in Nat /\ a \in 0 .. Tables - 1 /\ b \in 0 .. Entries - 1
  BY IndexesExist, Constants
<1>2. paging_get_indexes(q * PageSize) = [d |-> a, t |-> b]
  BY <1>1, IndexesOf, Zenon
<1> HIDE DEF a, b
<1>3. Get(d, q) = d[a][b]
  BY <1>2 DEF Get, paging_get
<1>4. d[a][b] \in Entry
  BY <1>1 DEF Dirs
<1> QED
  BY <1>3, <1>4 DEF a, b

(* Directory n is d with the entry of page q replaced.                     *)
Sets(d, n, q, e) ==
    n \in Dirs /\ \A r \in Pages : Get(n, r) = IF r = q THEN e ELSE Get(d, r)

(* paging_set changes the entry of one page.                               *)
LEMMA SetIs ==
    ASSUME NEW d \in Dirs, NEW q \in Pages, NEW e \in Entry
    PROVE  \E n : paging_set(d, q * PageSize, e) = [dir |-> n, res |-> 0] /\ Sets(d, n, q, e)
<1> DEFINE a == q \div Tables
           b == q % Tables
           n == [d EXCEPT ![a][b] = e]
<1>1. q \in Nat /\ a \in 0 .. Tables - 1 /\ b \in 0 .. Entries - 1 /\ q = Tables * a + b
  BY IndexesExist, Constants
<1>2. paging_get_indexes(q * PageSize) = [d |-> a, t |-> b]
  BY <1>1, IndexesOf, Zenon
<1>3. (q * PageSize) % PageSize = 0
  BY <1>1, PageStart
<1> HIDE DEF a, b
<1>4. paging_set(d, q * PageSize, e) = [dir |-> n, res |-> 0]
  BY <1>2, <1>3 DEF paging_set
<1>5. n \in Dirs
  BY <1>1 DEF Dirs
<1>6. ASSUME NEW r \in Pages PROVE Get(n, r) = IF r = q THEN e ELSE Get(d, r)
  <2> DEFINE x == r \div Tables
             y == r % Tables
  <2>1. x \in 0 .. Tables - 1 /\ y \in 0 .. Entries - 1 /\ r = Tables * x + y
    BY IndexesExist, Constants
  <2>2. Get(n, r) = n[x][y] /\ Get(d, r) = d[x][y]
    BY <1>5, GetIs
  <2> HIDE DEF x, y
  <2>3. n[x][y] = IF x = a /\ y = b THEN e ELSE d[x][y]
    BY <1>1, <2>1 DEF Dirs
  <2>4. r = q <=> (x = a /\ y = b)
    <3>1. CASE r = q
      BY <3>1 DEF x, y, a, b
    <3>2. CASE r # q
      BY <3>2, <1>1, <2>1
    <3> QED
      BY <3>1, <3>2
  <2> QED
    BY <2>2, <2>3, <2>4
<1> HIDE DEF n
<1>7. Sets(d, n, q, e)
  BY <1>5, <1>6 DEF Sets
<1> QED
  BY <1>4, <1>7, Zenon

(* A new directory has every page at its own address.                      *)
LEMMA GenIs ==
    ASSUME NEW flags \in SUBSET FullAccess
    PROVE  /\ _gen_paging_4gb(flags) \in Dirs
           /\ \A q \in Pages : Get(_gen_paging_4gb(flags), q) = Identity(q, flags)
<1> DEFINE g == _gen_paging_4gb(flags)
           At(i, j) == [frame |-> i * Entries * PageSize + j * PageSize, flags |-> flags]
<1>1. ASSUME NEW i \in 0 .. Tables - 1, NEW j \in 0 .. Entries - 1
      PROVE  /\ Tables * i + j \in Pages
             /\ i * Entries * PageSize + j * PageSize = (Tables * i + j) * PageSize
             /\ At(i, j) \in Entry
  <2>1. PageSize \in Nat \ {0} /\ Tables \in Nat \ {0} /\ Entries = Tables /\ PagesTotal = Tables * Tables
    BY Constants
  <2>2. i \in Nat /\ j \in Nat /\ i < Tables /\ j < Tables
    BY <2>1
  <2>3. Tables * i \in Nat /\ Tables * i + Tables <= Tables * Tables
    BY <2>1, <2>2, TimesMonotonic
  <2>4. Tables * i + j \in Pages
    BY <2>1, <2>2, <2>3 DEF Pages
  <2>5. i * Entries * PageSize + j * PageSize = (Tables * i + j) * PageSize
    BY <2>1, <2>2
  <2> QED
    BY <2>4, <2>5 DEF Entry, Pages
<1>2. g = [i \in 0 .. Tables - 1 |-> [j \in 0 .. Entries - 1 |-> At(i, j)]]
  BY DEF _gen_paging_4gb
<1> HIDE DEF g
<1>3. \A i \in 0 .. Tables - 1, j \in 0 .. Entries - 1 : At(i, j) \in Entry
  BY <1>1
<1>4. g \in Dirs
  <2> HIDE DEF At
  <2> QED
    BY <1>2, <1>3 DEF Dirs
<1>5. ASSUME NEW q \in Pages PROVE Get(g, q) = Identity(q, flags)
  <2> DEFINE a == q \div Tables
             b == q % Tables
  <2>1. a \in 0 .. Tables - 1 /\ b \in 0 .. Entries - 1 /\ q = Tables * a + b
    BY IndexesExist, Constants
  <2>2. Get(g, q) = g[a][b]
    BY <1>4, GetIs
  <2> HIDE DEF a, b
  <2>3. g[a][b] = At(a, b)
    <3> HIDE DEF At
    <3> QED
      BY <1>2, <2>1
  <2>4. a * Entries * PageSize + b * PageSize = q * PageSize
    BY <1>1, <2>1
  <2> QED
    BY <2>2, <2>3, <2>4 DEF Identity
<1> QED
  BY <1>4, <1>5 DEF g

(* An entry for page frame f.                                              *)
FrameEntry(f, flags) == [frame |-> f * PageSize, flags |-> flags]

LEMMA FrameEntryIs ==
    ASSUME NEW f \in Pages, NEW flags \in SUBSET FullAccess
    PROVE  FrameEntry(f, flags) \in Entry
BY DEF FrameEntry, Entry, Pages

(* paging_map of one page.                                                 *)
LEMMA MapIs ==
    ASSUME NEW d \in Dirs, NEW q \in Pages, NEW f \in Pages, NEW flags \in SUBSET FullAccess
    PROVE  \E n : /\ paging_map(d, q * PageSize, f * PageSize, flags) = [dir |-> n, res |-> 0]
                  /\ Sets(d, n, q, FrameEntry(f, flags))
<1>1. (q * PageSize) % PageSize = 0 /\ (f * PageSize) % PageSize = 0
  BY PageStart, IndexesExist
<1>2. paging_map(d, q * PageSize, f * PageSize, flags) = paging_set(d, q * PageSize, FrameEntry(f, flags))
  BY <1>1 DEF paging_map, FrameEntry
<1>3. FrameEntry(f, flags) \in Entry
  BY FrameEntryIs
<1> QED
  BY <1>2, <1>3, SetIs, Zenon


(* Directory n is d with k pages from q on mapped to the frames from f on. *)
Ranges(d, n, q, f, k, flags) ==
    /\ n \in Dirs
    /\ \A r \in Pages :
          Get(n, r) = IF r \in q .. q + k - 1 THEN FrameEntry(f + (r - q), flags) ELSE Get(d, r)

(* One more page.                                                          *)
LEMMA RangeStep ==
    ASSUME NEW d \in Dirs, NEW q \in Nat, NEW f \in Nat, NEW k \in Nat,
           q + k \in Pages, f + k \in Pages, NEW flags \in SUBSET FullAccess,
           NEW n, Ranges(d, n, q, f, k, flags),
           NEW m, Sets(n, m, q + k, FrameEntry(f + k, flags))
    PROVE  Ranges(d, m, q, f, k + 1, flags)
<1>1. m \in Dirs
  BY DEF Sets
<1>2. ASSUME NEW r \in Pages
      PROVE  Get(m, r) = IF r \in q .. q + (k + 1) - 1 THEN FrameEntry(f + (r - q), flags) ELSE Get(d, r)
  <2>1. r \in Nat
    BY IndexesExist
  <2>2. Get(m, r) = IF r = q + k THEN FrameEntry(f + k, flags) ELSE Get(n, r)
    BY DEF Sets
  <2>3. Get(n, r) = IF r \in q .. q + k - 1 THEN FrameEntry(f + (r - q), flags) ELSE Get(d, r)
    BY DEF Ranges
  <2>4. CASE r = q + k
    <3>1. r - q = k /\ r \in q .. q + (k + 1) - 1
      BY <2>4
    <3> QED
      BY <2>2, <2>4, <3>1
  <2>5. CASE r # q + k
    <3>1. r \in q .. q + (k + 1) - 1 <=> r \in q .. q + k - 1
      BY <2>1, <2>5
    <3> QED
      BY <2>2, <2>3, <2>5, <3>1
  <2> QED
    BY <2>4, <2>5
<1> QED
  BY <1>1, <1>2 DEF Ranges

(* paging_map_range of pages that exist maps them all.                     *)
LEMMA RangeIs ==
    ASSUME NEW d \in Dirs, NEW q \in Nat, NEW f \in Nat, NEW k \in Nat,
           q + k <= PagesTotal, f + k <= PagesTotal, NEW flags \in SUBSET FullAccess
    PROVE  \E n : /\ paging_map_range(d, q * PageSize, f * PageSize, k, flags) = [dir |-> n, res |-> 0]
                  /\ Ranges(d, n, q, f, k, flags)
<1> DEFINE v == q * PageSize
           p == f * PageSize
           Step(m, i) == IF m.res < 0 THEN m
                         ELSE paging_map(m.dir, (v + i * PageSize) % Space,
                                         (p + i * PageSize) % Space, flags)
           Is(g) == g = [i \in 0 .. k |->
                           IF i = 0 THEN [dir |-> d, res |-> 0]
                           ELSE IF g[i - 1].res < 0 THEN g[i - 1]
                           ELSE paging_map(g[i - 1].dir, (v + (i - 1) * PageSize) % Space,
                                           (p + (i - 1) * PageSize) % Space, flags)]
           W == CHOOSE g : Is(g)
<1>1. paging_map_range(d, v, p, k, flags) = W[k]
  BY DEF paging_map_range
<1>2. ASSUME NEW i \in Nat, i < k
      PROVE  /\ q + i \in Pages /\ f + i \in Pages
             /\ (v + i * PageSize) % Space = (q + i) * PageSize
             /\ (p + i * PageSize) % Space = (f + i) * PageSize
  <2>1. /\ PageSize \in Nat \ {0} /\ PagesTotal \in Nat /\ Space = PagesTotal * PageSize /\ Space \in Nat
    BY Constants
  <2>2. q + i \in Pages /\ f + i \in Pages
    BY <1>2, <2>1 DEF Pages
  <2>3. ASSUME NEW x \in Nat, x < PagesTotal PROVE (x * PageSize) % Space = x * PageSize
    <3>1. x * PageSize \in Nat /\ x * PageSize + PageSize <= PagesTotal * PageSize
      BY <2>1, <2>3, PageOrder
    <3>2. x * PageSize < Space
      BY <2>1, <3>1
    <3> QED
      BY <2>1, <3>1, <3>2
  <2>4. v + i * PageSize = (q + i) * PageSize /\ p + i * PageSize = (f + i) * PageSize
    BY <1>2, <2>1
  <2>5. q + i \in Nat /\ f + i \in Nat /\ q + i < PagesTotal /\ f + i < PagesTotal
    BY <1>2, <2>1
  <2> QED
    BY <2>2, <2>3, <2>4, <2>5
<1> HIDE DEF v, p
<1>3. \E g : Is(g)
  <2> DEFINE X == [dir : Dirs, res : Int]
             x0 == [dir |-> d, res |-> 0]
             In(m, i) == IF Step(m, i) \in X THEN Step(m, i) ELSE x0
             F == [z \in X \X Nat |-> In(z[1], z[2])]
  <2>1. x0 \in X
    OBVIOUS
  <2>2. \A m \in X, i \in Nat : In(m, i) \in X
    <3> HIDE DEF Step, X
    <3> QED
      BY <2>1
  <2> HIDE DEF In, x0, X
  <2>3. F \in [X \X Nat -> X]
    BY <2>2
  <2>4. \A m \in X, i \in Nat : F[<<m, i>>] = In(m, i)
    OBVIOUS
  <2> HIDE DEF F
  <2>5. PICK g \in [0 .. k -> X] : LoopRun(g, x0, F, k)
    BY <2>1, <2>3, LoopRuns
  <2>6. ASSUME NEW i \in 1 .. k PROVE g[i] = Step(g[i - 1], i - 1)
    <3>1. i - 1 \in Nat /\ i - 1 \in 0 .. k /\ i - 1 < k /\ g[i - 1] \in X
      BY <2>5
    <3>2. g[i] = In(g[i - 1], i - 1)
      BY <2>4, <2>5, <3>1 DEF LoopRun
    <3> DEFINE m == g[i - 1]
    <3>3. Step(m, i - 1) \in X
      <4>1. CASE m.res < 0
        BY <3>1, <4>1
      <4>2. CASE ~(m.res < 0)
        <5>1. m.dir \in Dirs
          BY <3>1 DEF X
        <5>2. /\ q + (i - 1) \in Pages /\ f + (i - 1) \in Pages
              /\ Step(m, i - 1) = paging_map(m.dir, (q + (i - 1)) * PageSize, (f + (i - 1)) * PageSize, flags)
          BY <1>2, <3>1, <4>2
        <5>3. PICK n : /\ Step(m, i - 1) = [dir |-> n, res |-> 0]
                       /\ Sets(m.dir, n, q + (i - 1), FrameEntry(f + (i - 1), flags))
          BY <5>1, <5>2, MapIs
        <5> QED
          BY <5>3 DEF X, Sets
      <4> QED
        BY <4>1, <4>2
    <3> HIDE DEF Step
    <3> QED
      BY <3>2, <3>3 DEF In
  <2>7. g[0] = x0
    BY <2>5 DEF LoopRun
  <2>8. Is(g)
    <3> DEFINE B(i) == IF i = 0 THEN x0 ELSE Step(g[i - 1], i - 1)
    <3>1. ASSUME NEW i \in 0 .. k PROVE g[i] = B(i)
      <4>1. CASE i = 0
        BY <2>7, <4>1
      <4>2. CASE i # 0
        <5>1. i \in 1 .. k
          BY <4>2
        <5> QED
          BY <2>6, <4>2, <5>1
      <4> QED
        BY <4>1, <4>2
    <3>2. g = [i \in 0 .. k |-> B(i)]
      <4> HIDE DEF B
      <4> QED
        BY <2>5, <3>1
    <3> QED
      BY <3>2 DEF x0
  <2> QED
    BY <2>8
<1>4. Is(W)
  <2> HIDE DEF Is
  <2> QED
    BY <1>3, Zenon
<1> HIDE DEF W
<1>5. W[0] = [dir |-> d, res |-> 0] /\ \A i \in 1 .. k : W[i] = Step(W[i - 1], i - 1)
  <2> DEFINE B(i) == IF i = 0 THEN [dir |-> d, res |-> 0] ELSE Step(W[i - 1], i - 1)
  <2>1. W = [i \in 0 .. k |-> B(i)]
    BY <1>4, Zenon
  <2> HIDE DEF B
  <2>2. \A i \in 0 .. k : W[i] = B(i)
    BY <2>1
  <2> USE DEF B
  <2> HIDE DEF Step
  <2>3. 0 \in 0 .. k /\ \A i \in 1 .. k : i \in 0 .. k /\ i # 0
    OBVIOUS
  <2> QED
    BY <2>2, <2>3
<1> HIDE DEF Is
<1> DEFINE Good(i) == \E n : W[i] = [dir |-> n, res |-> 0] /\ Ranges(d, n, q, f, i, flags)
           S == {i \in Nat : i <= k => Good(i)}
<1>6. 0 \in S
  <2>1. Ranges(d, d, q, f, 0, flags)
    <3>1. q .. q + 0 - 1 = {}
      OBVIOUS
    <3> QED
      BY <3>1 DEF Ranges
  <2> QED
    BY <1>5, <2>1
<1>7. ASSUME NEW i \in Nat, i \in S PROVE i + 1 \in S
  <2> SUFFICES ASSUME i + 1 <= k PROVE Good(i + 1)
    OBVIOUS
  <2>1. i < k /\ i + 1 \in 1 .. k /\ (i + 1) - 1 = i
    OBVIOUS
  <2>2. PICK n : W[i] = [dir |-> n, res |-> 0] /\ Ranges(d, n, q, f, i, flags)
    <3>1. Good(i)
      <4> HIDE DEF Good
      <4> QED
        BY <1>7, <2>1
    <3> QED
      BY <3>1
  <2>3. W[i + 1] = Step(W[i], i)
    BY <1>5, <2>1
  <2>4. Step(W[i], i) = paging_map(n, (q + i) * PageSize, (f + i) * PageSize, flags)
    BY <1>2, <2>1, <2>2
  <2>5. n \in Dirs /\ q + i \in Pages /\ f + i \in Pages
    BY <1>2, <2>1, <2>2 DEF Ranges
  <2>6. PICK m : /\ paging_map(n, (q + i) * PageSize, (f + i) * PageSize, flags) = [dir |-> m, res |-> 0]
                 /\ Sets(n, m, q + i, FrameEntry(f + i, flags))
    BY <2>5, MapIs
  <2>7. Ranges(d, m, q, f, i + 1, flags)
    BY <2>2, <2>5, <2>6, RangeStep
  <2> QED
    BY <2>3, <2>4, <2>6, <2>7
<1> HIDE DEF S
<1>8. k \in S
  BY <1>6, <1>7, SetInduction
<1>9. Good(k)
  <2> HIDE DEF Good
  <2> QED
    BY <1>8 DEF S
<1> QED
  BY <1>1, <1>9 DEF v, p

----------------------------------------------------------------------------
(* Alignment, and the pages a stretch of bytes lies on.                    *)

(* The number of the first page that starts at a or behind it.             *)
Up(a) == IF a % PageSize = 0 THEN a \div PageSize ELSE a \div PageSize + 1

LEMMA UpIs ==
    ASSUME NEW a \in Nat
    PROVE  Up(a) \in Nat /\ a <= Up(a) * PageSize /\ Up(a) * PageSize < a + PageSize
<1> DEFINE q == a \div PageSize
           r == a % PageSize
<1>1. PageSize \in Nat \ {0}
  BY Constants
<1>2. q \in Nat /\ r \in 0 .. PageSize - 1 /\ a = q * PageSize + r
  BY PageOf
<1>3. Up(a) = IF r = 0 THEN q ELSE q + 1
  BY DEF Up
<1> HIDE DEF q, r
<1>4. q * PageSize \in Nat /\ (q + 1) * PageSize = q * PageSize + PageSize
  BY <1>1, <1>2
<1>5. CASE r = 0
  BY <1>1, <1>2, <1>3, <1>4, <1>5
<1>6. CASE r # 0
  BY <1>1, <1>2, <1>3, <1>4, <1>6
<1> QED
  BY <1>5, <1>6

(* There is one number with these bounds.                                  *)
LEMMA UpUnique ==
    ASSUME NEW a \in Nat, NEW u \in Nat, a <= u * PageSize, u * PageSize < a + PageSize
    PROVE  Up(a) = u
<1>1. PageSize \in Nat \ {0} /\ u * PageSize \in Nat
  BY Constants
<1>2. Up(a) \in Nat /\ a <= Up(a) * PageSize /\ Up(a) * PageSize < a + PageSize /\ Up(a) * PageSize \in Nat
  BY UpIs, PageOrder
<1> DEFINE w == Up(a)
<1> HIDE DEF w
<1>3. ~(w < u)
  <2>1. w \in Nat /\ w < u => w * PageSize + PageSize <= u * PageSize
    BY PageOrder
  <2> QED
    BY <1>1, <1>2, <2>1 DEF w
<1>4. ~(u < w)
  <2>1. w \in Nat /\ u < w => u * PageSize + PageSize <= w * PageSize
    BY PageOrder
  <2> QED
    BY <1>1, <1>2, <2>1 DEF w
<1> QED
  BY <1>2, <1>3, <1>4 DEF w

(* Whole pages in front.                                                   *)
LEMMA UpShift ==
    ASSUME NEW b \in Nat, NEW s \in Nat
    PROVE  Up(b * PageSize + s) = b + Up(s)
<1> DEFINE u == Up(s)
<1>1. PageSize \in Nat \ {0} /\ b * PageSize \in Nat
  BY Constants
<1>2. u \in Nat /\ s <= u * PageSize /\ u * PageSize < s + PageSize
  BY UpIs
<1> HIDE DEF u
<1>3. (b + u) * PageSize = b * PageSize + u * PageSize /\ u * PageSize \in Nat
  BY <1>1, <1>2
<1>4. b * PageSize + s \in Nat /\ b + u \in Nat
  BY <1>1, <1>2
<1>5. b * PageSize + s <= (b + u) * PageSize /\ (b + u) * PageSize < b * PageSize + s + PageSize
  BY <1>1, <1>2, <1>3
<1> QED
  BY <1>4, <1>5, UpUnique DEF u

(* paging_align_address of an address before the last page.                *)
LEMMA AlignIs ==
    ASSUME NEW a \in Nat, a + PageSize <= Space
    PROVE  /\ paging_align_address(a) = Up(a) * PageSize
           /\ Up(a) \in Pages /\ Up(a) \in Nat /\ Up(a) < PagesTotal
<1> DEFINE q == a \div PageSize
           r == a % PageSize
<1>1. PageSize \in Nat \ {0} /\ Space \in Nat /\ PagesTotal \in Nat /\ Space = PagesTotal * PageSize
  BY Constants
<1>2. q \in Nat /\ r \in 0 .. PageSize - 1 /\ a = q * PageSize + r
  BY PageOf
<1>3. /\ paging_align_address(a) = IF r # 0 THEN (a + PageSize - r) % Space ELSE a
      /\ Up(a) = IF r = 0 THEN q ELSE q + 1
  BY DEF paging_align_address, Up
<1>4. Up(a) \in Nat /\ Up(a) * PageSize < a + PageSize /\ Up(a) * PageSize \in Nat
  BY UpIs, PageOrder
<1> HIDE DEF q, r
<1>5. q * PageSize \in Nat /\ (q + 1) * PageSize = q * PageSize + PageSize
  BY <1>1, <1>2
<1>6. paging_align_address(a) = Up(a) * PageSize
  <2>1. CASE r = 0
    BY <1>1, <1>2, <1>3, <1>5, <2>1
  <2>2. CASE r # 0
    <3>1. a + PageSize - r = (q + 1) * PageSize /\ a + PageSize - r \in 0 .. Space - 1
      BY <1>1, <1>2, <1>5, <2>2
    <3>2. (a + PageSize - r) % Space = a + PageSize - r
      BY <1>1, <3>1
    <3> QED
      BY <1>3, <2>2, <3>1, <3>2
  <2> QED
    BY <2>1, <2>2
<1>7. Up(a) < PagesTotal
  <2>1. Up(a) * PageSize < PagesTotal * PageSize
    BY <1>1, <1>4
  <2> QED
    BY <1>1, <1>4, <2>1, PageOrder
<1> QED
  BY <1>1, <1>4, <1>6, <1>7 DEF Pages

(* And of any address: what starts on the last page and is not its first   *)
(* byte is rounded to 0.                                                   *)
LEMMA AlignAny ==
    ASSUME NEW a \in 0 .. Space - 1
    PROVE  \/ /\ paging_align_address(a) = Up(a) * PageSize
              /\ Up(a) \in Nat /\ Up(a) < PagesTotal
           \/ paging_align_address(a) = 0 /\ a + PageSize > Space
<1>1. PageSize \in Nat \ {0} /\ Space \in Nat /\ a \in Nat
  BY Constants
<1>2. CASE a + PageSize <= Space
  BY <1>1, <1>2, AlignIs
<1>3. CASE a + PageSize > Space
  <2> DEFINE q == a \div PageSize
             r == a % PageSize
  <2>1. q \in Nat /\ r \in 0 .. PageSize - 1 /\ a = q * PageSize + r
    BY <1>1, PageOf
  <2>2. paging_align_address(a) = IF r # 0 THEN (a + PageSize - r) % Space ELSE a
    BY DEF paging_align_address
  <2> HIDE DEF q, r
  <2>3. PagesTotal \in Nat /\ Space = PagesTotal * PageSize /\ PagesTotal > 0
    <3>1. PagesTotal \in Nat /\ Space = PagesTotal * PageSize
      BY Constants
    <3>2. PagesTotal # 0
      BY <1>1, <3>1
    <3> QED
      BY <3>1, <3>2
  <2>4. q = PagesTotal - 1
    <3>1. q < PagesTotal
      <4>1. q * PageSize < PagesTotal * PageSize
        BY <1>1, <2>1, <2>3, PageOrder
      <4> QED
        BY <2>1, <2>3, <4>1, PageOrder
    <3>2. ~(q + 1 < PagesTotal)
      <4>1. (q + 1) * PageSize = q * PageSize + PageSize /\ q * PageSize \in Nat
        BY <1>1, <2>1
      <4>2. q + 1 \in Nat /\ (q + 1 < PagesTotal => (q + 1) * PageSize + PageSize <= PagesTotal * PageSize)
        BY <2>1, <2>3, PageOrder
      <4> QED
        BY <1>1, <1>3, <2>1, <2>3, <4>1, <4>2
    <3> QED
      BY <2>1, <2>3, <3>1, <3>2
  <2>5. (q + 1) * PageSize = q * PageSize + PageSize /\ q * PageSize \in Nat /\ q + 1 = PagesTotal
    BY <1>1, <2>1, <2>3, <2>4
  <2>6. q * PageSize + PageSize = Space
    BY <2>3, <2>5
  <2>7. r # 0
    BY <1>1, <1>3, <2>1, <2>5, <2>6
  <2>8. a + PageSize - r = Space
    BY <1>1, <2>1, <2>5, <2>6
  <2>9. Space % Space = 0
    BY <1>1
  <2> QED
    BY <1>3, <2>2, <2>7, <2>8, <2>9
<1> QED
  BY <1>1, <1>2, <1>3

(* heap_alloc rounds to whole pages.                                       *)
LEMMA PagesOfIs ==
    ASSUME NEW n \in 1 .. Space - PageSize
    PROVE  PagesOf(n) = Up(n) /\ Up(n) \in Nat \ {0}
<1>1. PageSize \in Nat \ {0} /\ Space \in Nat /\ n \in Nat /\ n + PageSize <= Space
  BY Constants
<1>2. paging_align_address(n) = Up(n) * PageSize /\ Up(n) \in Nat
  BY <1>1, AlignIs
<1>3. (Up(n) * PageSize) \div PageSize = Up(n)
  BY <1>2, PageStart
<1>4. n <= Up(n) * PageSize
  BY <1>1, UpIs
<1>5. Up(n) # 0
  BY <1>1, <1>4
<1> QED
  BY <1>2, <1>3, <1>5 DEF PagesOf

(* The page of a later address is not an earlier one.                      *)
LEMMA DivMonotonic ==
    ASSUME NEW a \in Nat, NEW b \in Nat, a <= b
    PROVE  a \div PageSize <= b \div PageSize
<1> DEFINE x == a \div PageSize
           y == b \div PageSize
           r == a % PageSize
           s == b % PageSize
<1>1. /\ x \in Nat /\ r \in 0 .. PageSize - 1 /\ a = x * PageSize + r
      /\ y \in Nat /\ s \in 0 .. PageSize - 1 /\ b = y * PageSize + s
  BY PageOf
<1> HIDE DEF x, y, r, s
<1>2. PageSize \in Nat \ {0}
  BY Constants
<1>3. x * PageSize \in Nat /\ y * PageSize \in Nat /\ (y < x => y * PageSize + PageSize <= x * PageSize)
  BY <1>1, PageOrder
<1>4. ~(y < x)
  BY <1>1, <1>2, <1>3
<1> QED
  BY <1>1, <1>4 DEF x, y

(* The page of the last byte before y.                                     *)
LEMMA LastPage ==
    ASSUME NEW y \in Nat \ {0}
    PROVE  (y - 1) \div PageSize = Up(y) - 1 /\ Up(y) \in Nat \ {0}
<1> DEFINE u == Up(y)
<1>1. PageSize \in Nat \ {0}
  BY Constants
<1>2. u \in Nat /\ y <= u * PageSize /\ u * PageSize < y + PageSize
  BY UpIs
<1> HIDE DEF u
<1>3. u # 0
  BY <1>1, <1>2
<1>4. (u - 1) * PageSize = u * PageSize - PageSize /\ u * PageSize \in Nat
  BY <1>1, <1>2
<1>5. (y - 1) - (u - 1) * PageSize \in 0 .. PageSize - 1 /\ y - 1 \in Nat /\ u - 1 \in Nat
  BY <1>1, <1>2, <1>3, <1>4
<1>6. y - 1 = (u - 1) * PageSize + ((y - 1) - (u - 1) * PageSize)
  BY <1>1, <1>2, <1>4
<1>7. (y - 1) \div PageSize = u - 1
  BY <1>5, <1>6, PageUnique
<1> QED
  BY <1>2, <1>3, <1>7 DEF u

(* The pages of m bytes from x on.                                         *)
LEMMA BytesOnPages ==
    ASSUME NEW x \in Nat, NEW m \in Nat \ {0}
    PROVE  LET frames == {k \div PageSize : k \in x .. x + m - 1}
           IN  /\ frames = x \div PageSize .. Up(x + m) - 1
               /\ x \div PageSize \in Nat /\ Up(x + m) \in Nat /\ x \div PageSize < Up(x + m)
               /\ Cardinality(frames) = Up(x + m) - x \div PageSize
<1> DEFINE a == x \div PageSize
           u == Up(x + m)
           frames == {k \div PageSize : k \in x .. x + m - 1}
<1>1. PageSize \in Nat \ {0}
  BY Constants
<1>2. /\ a \in Nat /\ x % PageSize \in 0 .. PageSize - 1 /\ x = a * PageSize + (x % PageSize)
  BY PageOf
<1>3. (x + m - 1) \div PageSize = u - 1 /\ u \in Nat \ {0}
  <2>1. x + m \in Nat \ {0} /\ (x + m) - 1 = x + m - 1
    OBVIOUS
  <2> QED
    BY <2>1, LastPage
<1>4. a <= u - 1
  <2>1. x + m - 1 \in Nat /\ x <= x + m - 1
    OBVIOUS
  <2> QED
    BY <1>3, <2>1, DivMonotonic
<1> HIDE DEF u
<1>5. ASSUME NEW k \in x .. x + m - 1 PROVE k \div PageSize \in a .. u - 1
  <2>1. k \in Nat /\ x + m - 1 \in Nat /\ x <= k /\ k <= x + m - 1
    OBVIOUS
  <2>2. k \div PageSize \in Nat
    BY <2>1, PageOf
  <2>3. a <= k \div PageSize /\ k \div PageSize <= (x + m - 1) \div PageSize
    BY <2>1, DivMonotonic
  <2> DEFINE z == k \div PageSize
  <2> HIDE DEF z, a
  <2>4. z \in Nat /\ a <= z /\ z <= u - 1
    BY <1>3, <2>2, <2>3 DEF z
  <2> QED
    BY <1>2, <1>3, <2>4 DEF z
<1>6. ASSUME NEW j \in a .. u - 1 PROVE \E k \in x .. x + m - 1 : k \div PageSize = j
  <2>1. CASE j = a
    <3>1. x \in x .. x + m - 1
      OBVIOUS
    <3> QED
      BY <2>1, <3>1
  <2>2. CASE j # a
    <3> DEFINE y == x + m - 1
               z == y \div PageSize
               r == x % PageSize
    <3>1. y \in Nat
      OBVIOUS
    <3>2. z \in Nat /\ y % PageSize \in 0 .. PageSize - 1 /\ y = z * PageSize + (y % PageSize) /\ z = u - 1
      BY <1>3, <3>1, PageOf
    <3>3. j \in Nat /\ a < j /\ j <= z
      <4> HIDE DEF a, z
      <4> QED
        BY <1>2, <1>3, <2>2, <3>2
    <3> HIDE DEF a, z, y, r
    <3>4. a * PageSize + PageSize <= j * PageSize /\ j * PageSize <= z * PageSize /\ j * PageSize \in Nat
      BY <1>2, <3>2, <3>3, PageOrder
    <3>5. z * PageSize \in Nat /\ a * PageSize \in Nat
      BY <1>2, <3>2, PageOrder
    <3>6. x < a * PageSize + PageSize
      BY <1>1, <1>2, <3>5
    <3>7. z * PageSize <= y
      BY <1>1, <3>1, <3>2, <3>5
    <3>8. x <= j * PageSize /\ j * PageSize <= y
      BY <1>1, <3>1, <3>4, <3>5, <3>6, <3>7
    <3>9. (j * PageSize) \div PageSize = j
      BY <3>3, PageStart
    <3>10. j * PageSize \in x .. x + m - 1
      BY <3>4, <3>8 DEF y
    <3> QED
      BY <3>9, <3>10
  <2> QED
    BY <2>1, <2>2
<1>7. frames = a .. u - 1
  BY <1>5, <1>6
<1> HIDE DEF frames, a
<1>8. Cardinality(a .. u - 1) = u - a
  <2>1. a \in Int /\ u - 1 \in Int
    BY <1>2, <1>3
  <2>2. Cardinality(a .. u - 1) = IF a > u - 1 THEN 0 ELSE (u - 1) - a + 1
    BY <2>1, FS_Interval
  <2> QED
    BY <1>2, <1>3, <1>4, <2>2
<1>9. /\ frames = a .. u - 1
      /\ a \in Nat /\ u \in Nat /\ a < u
      /\ Cardinality(frames) = u - a
  BY <1>2, <1>3, <1>4, <1>7, <1>8
<1> QED
  BY <1>9, Zenon DEF frames, a, u

----------------------------------------------------------------------------
(* Ranges of pages.                                                        *)

(* paging_map_to of the frames from f up to g.                             *)
LEMMA MapToIs ==
    ASSUME NEW d \in Dirs, NEW q \in Nat, NEW f \in Nat, NEW g \in Nat, f <= g,
           g <= PagesTotal, q + (g - f) <= PagesTotal, NEW flags \in SUBSET FullAccess
    PROVE  \E n : /\ paging_map_to(d, q * PageSize, f * PageSize, g * PageSize, flags) = [dir |-> n, res |-> 0]
                  /\ Ranges(d, n, q, f, g - f, flags)
<1>1. PageSize \in Nat \ {0} /\ PagesTotal \in Nat
  BY Constants
<1>2. /\ (q * PageSize) % PageSize = 0 /\ (f * PageSize) % PageSize = 0 /\ (g * PageSize) % PageSize = 0
      /\ f * PageSize \in Nat /\ g * PageSize \in Nat
  BY PageStart
<1>3. ~(g * PageSize < f * PageSize)
  BY <1>2, PageOrder
<1>4. (g * PageSize - f * PageSize) \div PageSize = g - f
  <2>1. g * PageSize - f * PageSize = (g - f) * PageSize /\ g - f \in Nat
    BY <1>1
  <2> QED
    BY <2>1, PageStart
<1>5. paging_map_to(d, q * PageSize, f * PageSize, g * PageSize, flags)
        = paging_map_range(d, q * PageSize, f * PageSize, g - f, flags)
  BY <1>2, <1>3, <1>4 DEF paging_map_to
<1>6. g - f \in Nat /\ f + (g - f) <= PagesTotal
  BY <1>1
<1>7. \E n : /\ paging_map_range(d, q * PageSize, f * PageSize, g - f, flags) = [dir |-> n, res |-> 0]
             /\ Ranges(d, n, q, f, g - f, flags)
  BY <1>6, RangeIs
<1> QED
  BY <1>5, <1>7, Zenon

(* paging_map_to from the end to the front is refused.                     *)
LEMMA MapToFails ==
    ASSUME NEW d, NEW v, NEW p, NEW e, NEW flags, e < p
    PROVE  paging_map_to(d, v, p, e, flags) = [dir |-> d, res |-> -EINVARG]
BY DEF paging_map_to

(* n bytes from the start of page b, with a page to spare behind them.     *)
LEMMA RunOfPages ==
    ASSUME NEW b \in Nat, NEW n \in Nat \ {0}, b + Up(n) < PagesTotal
    PROVE  /\ paging_align_address(b * PageSize + n) = (b + Up(n)) * PageSize
           /\ {k \div PageSize : k \in b * PageSize .. b * PageSize + n - 1} = b .. b + Up(n) - 1
           /\ Up(n) \in Nat \ {0}
<1> DEFINE u == Up(n)
           x == b * PageSize
           frames == {k \div PageSize : k \in x .. x + n - 1}
<1>1. PageSize \in Nat \ {0} /\ PagesTotal \in Nat /\ Space \in Nat /\ Space = PagesTotal * PageSize
  BY Constants
<1>2. u \in Nat \ {0} /\ n <= u * PageSize
  BY UpIs, LastPage
<1>3. x \in Nat /\ x \div PageSize = b
  BY PageStart
<1>4. Up(x + n) = b + u
  BY UpShift
<1>5. /\ frames = x \div PageSize .. Up(x + n) - 1
  BY <1>3, BytesOnPages
<1>6. x + n + PageSize <= Space
  <2> HIDE DEF u
  <2>1. b + u \in Nat /\ b + u < PagesTotal
    BY <1>1, <1>2 DEF u
  <2>2. (b + u) * PageSize \in Nat /\ (b + u) * PageSize + PageSize <= PagesTotal * PageSize
    BY <1>1, <2>1, PageOrder
  <2>3. (b + u) * PageSize = x + u * PageSize
    BY <1>1, <1>2
  <2>4. u * PageSize \in Nat
    BY <1>1, <1>2
  <2> HIDE DEF x
  <2> QED
    BY <1>1, <1>2, <1>3, <2>2, <2>3, <2>4
<1>7. paging_align_address(x + n) = Up(x + n) * PageSize
  <2> HIDE DEF x
  <2>1. x + n \in Nat
    BY <1>3
  <2> QED
    BY <1>6, <2>1, AlignIs
<1> HIDE DEF u, x, frames
<1>8. /\ paging_align_address(x + n) = (b + u) * PageSize
      /\ frames = b .. b + u - 1 /\ u \in Nat \ {0}
  BY <1>2, <1>3, <1>4, <1>5, <1>7
<1> QED
  BY <1>8, Zenon DEF u, x, frames

----------------------------------------------------------------------------
(* The heap.                                                               *)

(* Pages of the heap are pages, and not the last.                          *)
LEMMA HeapIsPages ==
    ASSUME NEW b \in HeapPages
    PROVE  b \in Nat /\ b \in Pages /\ b < PagesTotal - 1 /\ b + 1 < PagesTotal
BY AddressSpaceAssumption, Constants DEF Pages

(* The first fit is a run of free blocks.                                  *)
LEMMA FirstFitIs ==
    ASSUME NEW B, NEW n \in Nat \ {0}, Runs(B, n) # {}
    PROVE  LET b == FirstFit(B, n)
           IN  /\ b \in HeapPages /\ b \in Nat
               /\ \A i \in b .. b + n - 1 : i \in HeapPages /\ B[i] = None
               /\ b + n < PagesTotal
<1> DEFINE b == FirstFit(B, n)
<1>1. Runs(B, n) \in SUBSET Nat
  BY HeapIsPages DEF Runs
<1>2. b \in Runs(B, n)
  BY <1>1, MinIs DEF FirstFit
<1> HIDE DEF b
<1>3. b \in HeapPages /\ b \in Nat /\ \A i \in b .. b + n - 1 : i \in HeapPages /\ B[i] = None
  BY <1>2, HeapIsPages DEF Runs
<1>4. b + n - 1 \in HeapPages
  <2>1. b + n - 1 \in b .. b + n - 1
    BY <1>3
  <2> QED
    BY <1>3, <2>1
<1>5. b + n - 1 < PagesTotal - 1 /\ PagesTotal \in Nat
  BY <1>4, HeapIsPages, Constants
<1>6. b + n < PagesTotal
  BY <1>3, <1>5
<1> QED
  BY <1>3, <1>6 DEF b

----------------------------------------------------------------------------
(* Segments.                                                               *)

(* What an image promises of a segment, its first page and frame, and how  *)
(* many there are.                                                         *)
IsSegment(s) ==
    s \in Segment /\ s.filesz <= s.memsz /\ s.vaddr >= PageSize /\ s.vaddr + s.memsz + PageSize <= Space
SegPage(s) == s.vaddr \div PageSize
SegFrame(s, base) == PhysicalAddress(s, base) \div PageSize
SegCount(s, base) == Up(PhysicalAddress(s, base) + s.memsz) - SegFrame(s, base)

LEMMA SegmentTypes ==
    ASSUME NEW s, IsSegment(s), NEW base \in Nat
    PROVE  /\ s.vaddr \in Nat /\ s.offset \in Nat /\ s.filesz \in Nat /\ s.memsz \in Nat \ {0}
           /\ s.vaddr >= PageSize /\ s.vaddr + s.memsz + PageSize <= Space /\ s.filesz <= s.memsz
           /\ PhysicalAddress(s, base) \in 0 .. Space - 1 /\ PhysicalAddress(s, base) \in Nat
           /\ SegmentFlags(s) \in SUBSET FullAccess
<1>1. /\ s.vaddr \in Nat /\ s.offset \in Nat /\ s.filesz \in Nat /\ s.memsz \in Nat \ {0}
      /\ s.vaddr >= PageSize /\ s.vaddr + s.memsz + PageSize <= Space /\ s.filesz <= s.memsz
  BY DEF IsSegment, Segment
<1>2. Space \in Nat \ {0}
  <2>1. Space \in Nat /\ PageSize \in Nat \ {0}
    BY Constants
  <2> QED
    BY <1>1, <2>1
<1>3. base + s.offset \in Nat
  BY <1>1
<1>4. PhysicalAddress(s, base) \in 0 .. Space - 1
  BY <1>2, <1>3, Division DEF PhysicalAddress
<1>5. SegmentFlags(s) \in SUBSET FullAccess
  BY DEF SegmentFlags, FullAccess
<1> QED
  BY <1>1, <1>2, <1>4, <1>5

(* The pages of a segment, which all exist.                                *)
LEMMA SegPagesAre ==
    ASSUME NEW s, IsSegment(s), NEW base \in Nat
    PROVE  /\ SegPages(base, s) = SegPage(s) .. SegPage(s) + SegCount(s, base) - 1
           /\ SegPage(s) \in Nat /\ SegFrame(s, base) \in Nat /\ SegCount(s, base) \in Nat \ {0}
           /\ SegPage(s) + SegCount(s, base) <= PagesTotal
           /\ SegFrame(s, base) * PageSize <= PhysicalAddress(s, base)
           /\ PhysicalAddress(s, base) < SegFrame(s, base) * PageSize + PageSize
<1> DEFINE x == PhysicalAddress(s, base)
           m == s.memsz
           first == SegPage(s)
           f == SegFrame(s, base)
           u == Up(x + m)
           c == SegCount(s, base)
           v == s.vaddr
           frames == {k \div PageSize : k \in x .. x + m - 1}
<1>1. /\ PageSize \in Nat \ {0} /\ PagesTotal \in Nat /\ Space \in Nat /\ Space = PagesTotal * PageSize
  BY Constants
<1>2. x \in Nat /\ m \in Nat \ {0} /\ v \in Nat /\ v >= PageSize /\ v + m + PageSize <= Space
  BY SegmentTypes
<1>3. SegPages(base, s) = first .. first + Cardinality(frames) - 1
  BY DEF SegPages, SegFrames, SegPage
<1> HIDE DEF x, m, v
<1>4. f = x \div PageSize /\ first = v \div PageSize /\ c = u - f
  BY DEF SegFrame, SegPage, SegCount, x, v, m
<1>5. /\ x \div PageSize \in Nat /\ u \in Nat /\ x \div PageSize < u
      /\ Cardinality(frames) = u - x \div PageSize
  BY <1>2, BytesOnPages
<1>6. v \div PageSize \in Nat /\ v % PageSize \in 0 .. PageSize - 1 /\ v = (v \div PageSize) * PageSize + (v % PageSize)
  BY <1>2, PageOf
<1>7. x \div PageSize \in Nat /\ x % PageSize \in 0 .. PageSize - 1 /\ x = (x \div PageSize) * PageSize + (x % PageSize)
  BY <1>2, PageOf
<1>8. u * PageSize < x + m + PageSize
  BY <1>2, UpIs
<1> HIDE DEF u, first, f, c, frames
<1>9. first \in Nat /\ f \in Nat /\ u \in Nat /\ f < u /\ c = u - f /\ Cardinality(frames) = c
  BY <1>4, <1>5, <1>6
<1>10. first * PageSize \in Nat /\ f * PageSize \in Nat /\ u * PageSize \in Nat
  BY <1>9, PageOrder
<1>11. first * PageSize <= v /\ x < f * PageSize + PageSize /\ f * PageSize <= x
  <2> DEFINE i == v % PageSize
             j == x % PageSize
  <2>1. /\ v = first * PageSize + i /\ x = f * PageSize + j
        /\ i \in 0 .. PageSize - 1 /\ j \in 0 .. PageSize - 1
    BY <1>4, <1>6, <1>7
  <2> HIDE DEF i, j
  <2> QED
    BY <1>1, <1>10, <2>1
<1>12. (first + c) * PageSize = first * PageSize + u * PageSize - f * PageSize
  BY <1>1, <1>9
<1>13. (first + c) * PageSize < Space + PageSize
  BY <1>1, <1>2, <1>8, <1>10, <1>11, <1>12
<1>14. first + c <= PagesTotal
  <2>1. first + c \in Nat /\ PagesTotal + 1 \in Nat
    BY <1>1, <1>9
  <2>2. (PagesTotal + 1) * PageSize = Space + PageSize
    BY <1>1
  <2>3. (first + c) * PageSize < (PagesTotal + 1) * PageSize => first + c < PagesTotal + 1
    BY <2>1, PageOrder
  <2> QED
    BY <1>1, <1>13, <2>1, <2>2, <2>3
<1>15. c \in Nat \ {0}
  BY <1>9
<1> QED
  BY <1>3, <1>9, <1>11, <1>14, <1>15 DEF first, f, c, x

(* One segment is refused or mapped whole.                                 *)
LEMMA MapSegmentIs ==
    ASSUME NEW s, IsSegment(s), NEW base \in Nat, NEW d \in Dirs
    PROVE  \/ MapSegment(d, s, base) = [dir |-> d, res |-> -EINVARG]
           \/ \E n : /\ MapSegment(d, s, base) = [dir |-> n, res |-> 0]
                     /\ Ranges(d, n, SegPage(s), SegFrame(s, base), SegCount(s, base), SegmentFlags(s))
<1> DEFINE x == PhysicalAddress(s, base)
           m == s.memsz
           y == (x + m) % Space
           first == SegPage(s)
           f == SegFrame(s, base)
           c == SegCount(s, base)
           fl == SegmentFlags(s)
           e == paging_align_address(y)
<1>1. /\ PageSize \in Nat \ {0} /\ PagesTotal \in Nat /\ Space \in Nat /\ Space = PagesTotal * PageSize
  BY Constants
<1>2. /\ x \in Nat /\ x < Space /\ m \in Nat \ {0} /\ s.vaddr \in Nat /\ m + 2 * PageSize <= Space
      /\ fl \in SUBSET FullAccess
  BY <1>1, SegmentTypes
<1>3. /\ first \in Nat /\ f \in Nat /\ c \in Nat \ {0} /\ first + c <= PagesTotal
      /\ f * PageSize <= x /\ x < f * PageSize + PageSize
  BY SegPagesAre
<1>4. /\ paging_align_to_lower_page_addr(s.vaddr) = first * PageSize
      /\ paging_align_to_lower_page_addr(x) = f * PageSize
  BY <1>2, PageOf DEF SegPage, SegFrame
<1>5. MapSegment(d, s, base) = paging_map_to(d, first * PageSize, f * PageSize, e, fl)
  BY <1>4, Zenon DEF MapSegment
<1>6. c = Up(x + m) - f
  BY DEF SegCount
<1> HIDE DEF x, m, first, f, c, fl
<1>7. f * PageSize \in Nat
  BY <1>3, PageOrder
<1>8. CASE x + m < Space
  <2>1. y = x + m
    BY <1>1, <1>2, <1>8
  <2>2. x + m \in 0 .. Space - 1
    BY <1>1, <1>2, <1>8
  <2> DEFINE u == Up(x + m)
  <2>3. \/ e = u * PageSize /\ u \in Nat /\ u < PagesTotal
        \/ e = 0 /\ x + m + PageSize > Space
    BY <2>1, <2>2, AlignAny
  <2> HIDE DEF u, e
  <2>4. CASE e = u * PageSize /\ u \in Nat /\ u < PagesTotal
    <3>1. c = u - f
      BY <1>6 DEF u
    <3>2. f <= u /\ u <= PagesTotal /\ first + (u - f) <= PagesTotal
      BY <1>1, <1>3, <2>4, <3>1
    <3>3. \E n : /\ paging_map_to(d, first * PageSize, f * PageSize, u * PageSize, fl) = [dir |-> n, res |-> 0]
                 /\ Ranges(d, n, first, f, u - f, fl)
      BY <1>2, <1>3, <2>4, <3>2, MapToIs
    <3>4. \E n : MapSegment(d, s, base) = [dir |-> n, res |-> 0] /\ Ranges(d, n, first, f, c, fl)
      BY <1>5, <2>4, <3>1, <3>3
    <3> QED
      BY <3>4 DEF first, f, c, fl
  <2>5. CASE e = 0 /\ x + m + PageSize > Space
    <3>1. f * PageSize > 0
      BY <1>1, <1>2, <1>3, <1>7, <2>5
    <3>2. MapSegment(d, s, base) = [dir |-> d, res |-> -EINVARG]
      BY <1>5, <2>5, <3>1, MapToFails
    <3> QED
      BY <3>2
  <2> QED
    BY <2>3, <2>4, <2>5
<1>9. CASE ~(x + m < Space)
  <2>1. y = x + m - Space
    <3>1. x + m - Space \in 0 .. Space - 1 /\ x + m = Space * 1 + (x + m - Space)
      BY <1>1, <1>2, <1>9
    <3>2. Space \in Nat \ {0}
      BY <1>1, <1>2
    <3>3. (Space * 1 + (x + m - Space)) % Space = x + m - Space
      BY <3>1, <3>2, DivModOf
    <3> QED
      BY <3>1, <3>3
  <2>2. y \in 0 .. Space - 1 /\ y + 2 * PageSize <= x /\ y \in Nat
    BY <1>1, <1>2, <1>9, <2>1
  <2> HIDE DEF y
  <2>3. e < f * PageSize
    <3>1. \/ paging_align_address(y) = Up(y) * PageSize
          \/ paging_align_address(y) = 0 /\ y + PageSize > Space
      BY <2>2, AlignAny
    <3>2. Up(y) \in Nat /\ Up(y) * PageSize < y + PageSize
      BY <2>2, UpIs
    <3>3. Up(y) * PageSize \in Nat
      BY <3>2, PageOrder
    <3> DEFINE z == Up(y) * PageSize
    <3> HIDE DEF z
    <3>4. z \in Nat /\ z < y + PageSize /\ (e = z \/ (e = 0 /\ y + PageSize > Space))
      BY <3>1, <3>2, <3>3 DEF z
    <3> QED
      BY <1>1, <1>2, <1>3, <1>7, <2>2, <3>4
  <2>4. MapSegment(d, s, base) = [dir |-> d, res |-> -EINVARG]
    <3> HIDE DEF e
    <3> QED
      BY <1>5, <2>3, MapToFails
  <2> QED
    BY <2>4
<1> QED
  BY <1>8, <1>9

(* Directory n is d with the first i segments mapped, the later over the   *)
(* earlier.                                                                *)
SegEntry(s, base, r) == FrameEntry(SegFrame(s, base) + (r - SegPage(s)), SegmentFlags(s))
LoadsAt(d, n, segs, base, i, r) ==
    \/ /\ \A j \in 1 .. i : r \notin SegPages(base, segs[j])
       /\ Get(n, r) = Get(d, r)
    \/ \E j \in 1 .. i : /\ r \in SegPages(base, segs[j])
                         /\ \A l \in j + 1 .. i : r \notin SegPages(base, segs[l])
                         /\ Get(n, r) = SegEntry(segs[j], base, r)
Loads(d, n, segs, base, i) ==
    n \in Dirs /\ \A r \in Pages : LoadsAt(d, n, segs, base, i, r)

(* One more segment.                                                       *)
LEMMA LoadsStep ==
    ASSUME NEW segs, NEW base \in Nat, NEW i \in Nat, NEW s, s = segs[i + 1], IsSegment(s),
           NEW d, NEW n, Loads(d, n, segs, base, i),
           NEW m, Ranges(n, m, SegPage(s), SegFrame(s, base), SegCount(s, base), SegmentFlags(s))
    PROVE  Loads(d, m, segs, base, i + 1)
<1>1. m \in Dirs
  BY DEF Ranges
<1>2. i + 1 \in 1 .. i + 1 /\ (i + 1) + 1 .. i + 1 = {}
  OBVIOUS
<1>3. \A j \in 1 .. i + 1 : j # i + 1 => j \in 1 .. i
  OBVIOUS
<1>4. \A j \in 1 .. i : j \in 1 .. i + 1 /\ \A l \in j + 1 .. i + 1 : l # i + 1 => l \in j + 1 .. i
  OBVIOUS
<1> DEFINE Pg(j) == SegPages(base, segs[j])
           E(j, r) == SegEntry(segs[j], base, r)
           Never(x, r) == (\A j \in 1 .. i + 1 : r \notin Pg(j)) /\ Get(x, r) = Get(d, r)
           Latest(x, r) == \E j \in 1 .. i + 1 : /\ r \in Pg(j)
                                                 /\ \A l \in j + 1 .. i + 1 : r \notin Pg(l)
                                                 /\ Get(x, r) = E(j, r)
<1>5. ASSUME NEW r \in Pages PROVE LoadsAt(d, m, segs, base, i + 1, r)
  <2>1. Get(m, r) = IF r \in Pg(i + 1) THEN E(i + 1, r) ELSE Get(n, r)
    BY SegPagesAre DEF Ranges, SegEntry
  <2>2. \/ (\A j \in 1 .. i : r \notin Pg(j)) /\ Get(n, r) = Get(d, r)
        \/ \E j \in 1 .. i : r \in Pg(j) /\ (\A l \in j + 1 .. i : r \notin Pg(l)) /\ Get(n, r) = E(j, r)
    BY DEF Loads, LoadsAt
  <2> HIDE DEF Pg, E
  <2>3. Never(m, r) \/ Latest(m, r)
    <3>1. CASE r \in Pg(i + 1)
      BY <1>2, <2>1, <3>1
    <3>2. CASE r \notin Pg(i + 1) /\ (\A j \in 1 .. i : r \notin Pg(j)) /\ Get(n, r) = Get(d, r)
      <4>1. \A j \in 1 .. i + 1 : r \notin Pg(j)
        BY <1>3, <3>2, Zenon
      <4> QED
        BY <2>1, <3>2, <4>1, Zenon
    <3>3. CASE /\ r \notin Pg(i + 1)
               /\ \E j \in 1 .. i : r \in Pg(j) /\ (\A l \in j + 1 .. i : r \notin Pg(l)) /\ Get(n, r) = E(j, r)
      <4>1. PICK j \in 1 .. i : r \in Pg(j) /\ (\A l \in j + 1 .. i : r \notin Pg(l)) /\ Get(n, r) = E(j, r)
        BY <3>3
      <4>2. \A l \in j + 1 .. i + 1 : r \notin Pg(l)
        BY <1>4, <3>3, <4>1, Zenon
      <4>3. Get(m, r) = E(j, r)
        BY <2>1, <3>3, <4>1
      <4> QED
        BY <1>4, <4>1, <4>2, <4>3, Zenon
    <3> QED
      BY <2>2, <3>1, <3>2, <3>3
  <2>4. CASE Never(m, r)
    BY <2>4 DEF LoadsAt, Pg
  <2>5. CASE Latest(m, r)
    BY <2>5 DEF LoadsAt, Pg, E
  <2> QED
    BY <2>3, <2>4, <2>5
<1> QED
  BY <1>1, <1>5 DEF Loads

(* The segments of an image are segments.                                  *)
LEMMA SegmentsAre ==
    ASSUME NEW img, IsImage(img)
    PROVE  /\ Len(img.segs) \in Nat /\ DOMAIN img.segs = 1 .. Len(img.segs)
           /\ \A i \in 1 .. Len(img.segs) : IsSegment(img.segs[i])
<1>1. img.segs \in Seq(Segment)
  BY DEF IsImage
<1>2. Len(img.segs) \in Nat /\ DOMAIN img.segs = 1 .. Len(img.segs)
  BY <1>1, LenProperties
<1>3. \A i \in 1 .. Len(img.segs) : img.segs[i] \in Segment
  BY <1>1, <1>2, ElementOfSeq
<1> QED
  BY <1>2, <1>3 DEF IsImage, IsSegment

(* process_map_elf fails or maps every segment.                            *)
LEMMA MapElfIs ==
    ASSUME NEW img, IsImage(img), NEW base \in Nat, NEW d \in Dirs
    PROVE  \/ process_map_elf(d, img, base).res < 0
           \/ \E n : /\ process_map_elf(d, img, base) = [dir |-> n, res |-> 0]
                     /\ Loads(d, n, img.segs, base, Len(img.segs))
<1> DEFINE segs == img.segs
           k == Len(segs)
           Step(m, i) == IF m.res < 0 THEN m ELSE MapSegment(m.dir, segs[i + 1], base)
           Is(g) == g = [i \in 0 .. k |->
                           IF i = 0 THEN [dir |-> d, res |-> 0]
                           ELSE IF g[i - 1].res < 0 THEN g[i - 1]
                           ELSE MapSegment(g[i - 1].dir, segs[i], base)]
           W == CHOOSE g : Is(g)
<1>1. process_map_elf(d, img, base) = W[k]
  BY DEF process_map_elf
<1>2. k \in Nat /\ \A i \in 1 .. k : IsSegment(segs[i])
  BY SegmentsAre
<1> HIDE DEF segs, k
<1>3. \E g : Is(g)
  <2> DEFINE X == [dir : Dirs, res : Int]
             x0 == [dir |-> d, res |-> 0]
             In(m, i) == IF Step(m, i) \in X THEN Step(m, i) ELSE x0
             F == [z \in X \X Nat |-> In(z[1], z[2])]
  <2>1. x0 \in X
    OBVIOUS
  <2>2. \A m \in X, i \in Nat : In(m, i) \in X
    <3> HIDE DEF Step, X
    <3> QED
      BY <2>1
  <2> HIDE DEF In, x0, X
  <2>3. F \in [X \X Nat -> X]
    BY <2>2
  <2>4. \A m \in X, i \in Nat : F[<<m, i>>] = In(m, i)
    OBVIOUS
  <2> HIDE DEF F
  <2>5. PICK g \in [0 .. k -> X] : LoopRun(g, x0, F, k)
    BY <1>2, <2>1, <2>3, LoopRuns
  <2>6. ASSUME NEW i \in 1 .. k PROVE g[i] = Step(g[i - 1], i - 1)
    <3>1. i - 1 \in Nat /\ i - 1 \in 0 .. k /\ (i - 1) + 1 = i /\ g[i - 1] \in X
      BY <1>2, <2>5
    <3>2. g[i] = In(g[i - 1], i - 1)
      BY <2>4, <2>5, <3>1 DEF LoopRun
    <3> DEFINE m == g[i - 1]
    <3>3. Step(m, i - 1) \in X
      <4>1. CASE m.res < 0
        BY <3>1, <4>1
      <4>2. CASE ~(m.res < 0)
        <5>1. m.dir \in Dirs /\ IsSegment(segs[i])
          BY <1>2, <3>1 DEF X
        <5>2. Step(m, i - 1) = MapSegment(m.dir, segs[i], base)
          BY <3>1, <4>2
        <5>3. \/ MapSegment(m.dir, segs[i], base) = [dir |-> m.dir, res |-> -EINVARG]
              \/ \E n : MapSegment(m.dir, segs[i], base) = [dir |-> n, res |-> 0] /\ n \in Dirs
          BY <5>1, MapSegmentIs DEF Ranges
        <5>4. -EINVARG \in Int
          BY DEF EINVARG
        <5>5. \A n \in Dirs, z \in Int : [dir |-> n, res |-> z] \in X
          BY DEF X
        <5> DEFINE y == MapSegment(m.dir, segs[i], base)
        <5> HIDE DEF y
        <5>6. y = [dir |-> m.dir, res |-> -EINVARG] \/ \E n \in Dirs : y = [dir |-> n, res |-> 0]
          BY <5>3 DEF y
        <5>7. y \in X
          <6> HIDE DEF m
          <6> QED
            BY <5>1, <5>4, <5>5, <5>6
        <5> QED
          BY <5>2, <5>7 DEF y
      <4> QED
        BY <4>1, <4>2
    <3> HIDE DEF Step
    <3> QED
      BY <3>2, <3>3 DEF In
  <2>7. g[0] = x0
    BY <2>5 DEF LoopRun
  <2>8. Is(g)
    <3> DEFINE B(i) == IF i = 0 THEN x0 ELSE IF g[i - 1].res < 0 THEN g[i - 1]
                                             ELSE MapSegment(g[i - 1].dir, segs[i], base)
    <3>1. ASSUME NEW i \in 0 .. k PROVE g[i] = B(i)
      <4>1. CASE i = 0
        BY <2>7, <4>1
      <4>2. CASE i # 0
        <5>1. i \in 1 .. k /\ (i - 1) + 1 = i
          BY <1>2, <4>2
        <5> QED
          BY <2>6, <4>2, <5>1
      <4> QED
        BY <4>1, <4>2
    <3>2. g = [i \in 0 .. k |-> B(i)]
      <4> HIDE DEF B
      <4> QED
        BY <2>5, <3>1
    <3> QED
      BY <3>2 DEF x0
  <2> QED
    BY <2>8
<1>4. Is(W)
  <2> HIDE DEF Is
  <2> QED
    BY <1>3, Zenon
<1> HIDE DEF W
<1>5. W[0] = [dir |-> d, res |-> 0] /\ \A i \in Nat : i + 1 <= k => W[i + 1] = Step(W[i], i)
  <2> DEFINE B(i) == IF i = 0 THEN [dir |-> d, res |-> 0]
                     ELSE IF W[i - 1].res < 0 THEN W[i - 1] ELSE MapSegment(W[i - 1].dir, segs[i], base)
  <2>1. W = [i \in 0 .. k |-> B(i)]
    BY <1>4, Zenon
  <2> HIDE DEF B
  <2>2. \A i \in 0 .. k : W[i] = B(i)
    BY <2>1
  <2>3. 0 \in 0 .. k /\ \A i \in Nat : i + 1 <= k => i + 1 \in 0 .. k /\ i + 1 # 0 /\ (i + 1) - 1 = i
    BY <1>2
  <2>4. W[0] = [dir |-> d, res |-> 0]
    BY <2>2, <2>3 DEF B
  <2>5. ASSUME NEW i \in Nat, i + 1 <= k PROVE W[i + 1] = Step(W[i], i)
    <3>1. W[i + 1] = B(i + 1)
      BY <2>2, <2>3, <2>5
    <3>2. i + 1 # 0 /\ (i + 1) - 1 = i
      OBVIOUS
    <3> QED
      BY <3>1, <3>2 DEF B
  <2> QED
    BY <2>4, <2>5
<1> HIDE DEF Is
<1> DEFINE Good(i) == W[i].res < 0 \/ \E n : W[i] = [dir |-> n, res |-> 0] /\ Loads(d, n, segs, base, i)
           S == {i \in Nat : i <= k => Good(i)}
<1>6. 0 \in S
  <2>1. Loads(d, d, segs, base, 0)
    <3>1. 1 .. 0 = {}
      OBVIOUS
    <3> QED
      BY <3>1 DEF Loads, LoadsAt
  <2> QED
    BY <1>5, <2>1
<1>7. ASSUME NEW i \in Nat, i \in S PROVE i + 1 \in S
  <2> SUFFICES ASSUME i + 1 <= k PROVE Good(i + 1)
    OBVIOUS
  <2>1. i <= k /\ i + 1 \in 1 .. k
    BY <1>2
  <2>2. W[i + 1] = Step(W[i], i)
    BY <1>5
  <2>3. Good(i)
    <3> HIDE DEF Good
    <3> QED
      BY <1>7, <2>1
  <2>4. CASE W[i].res < 0
    BY <2>2, <2>4
  <2>5. CASE \E n : W[i] = [dir |-> n, res |-> 0] /\ Loads(d, n, segs, base, i)
    <3>1. PICK n : W[i] = [dir |-> n, res |-> 0] /\ Loads(d, n, segs, base, i)
      BY <2>5
    <3> DEFINE s == segs[i + 1]
    <3>2. IsSegment(s) /\ n \in Dirs
      BY <1>2, <2>1, <3>1 DEF Loads
    <3>3. W[i + 1] = MapSegment(n, s, base)
      BY <2>2, <3>1
    <3>4. \/ MapSegment(n, s, base) = [dir |-> n, res |-> -EINVARG]
          \/ \E m : /\ MapSegment(n, s, base) = [dir |-> m, res |-> 0]
                    /\ Ranges(n, m, SegPage(s), SegFrame(s, base), SegCount(s, base), SegmentFlags(s))
      BY <3>2, MapSegmentIs
    <3>5. CASE MapSegment(n, s, base) = [dir |-> n, res |-> -EINVARG]
      <4>1. W[i + 1].res < 0
        BY <3>3, <3>5 DEF EINVARG
      <4> QED
        BY <4>1
    <3>6. CASE \E m : /\ MapSegment(n, s, base) = [dir |-> m, res |-> 0]
                      /\ Ranges(n, m, SegPage(s), SegFrame(s, base), SegCount(s, base), SegmentFlags(s))
      <4>1. PICK m : /\ MapSegment(n, s, base) = [dir |-> m, res |-> 0]
                     /\ Ranges(n, m, SegPage(s), SegFrame(s, base), SegCount(s, base), SegmentFlags(s))
        BY <3>6
      <4>2. Loads(d, m, segs, base, i + 1)
        BY <3>1, <3>2, <4>1, LoadsStep
      <4> QED
        BY <3>3, <4>1, <4>2
    <3> QED
      BY <3>4, <3>5, <3>6
  <2> QED
    BY <2>3, <2>4, <2>5
<1> HIDE DEF S
<1>8. k \in S
  BY <1>2, <1>6, <1>7, SetInduction
<1>9. Good(k)
  <2> HIDE DEF Good
  <2>1. k <= k
    BY <1>2
  <2> QED
    BY <1>8, <2>1 DEF S
<1> QED
  BY <1>1, <1>9 DEF segs, k

----------------------------------------------------------------------------
(* A whole program.                                                        *)

(* ProgramPages, ProgramEntry and Expected for a program pr, allocations   *)
(* al and freed pages fr.                                                  *)
PagesIn(pr) ==
    IF pr.img.flat THEN ProgramPage .. ProgramPage + PagesOf(pr.img.size) - 1
    ELSE UNION {SegPages(pr.base, pr.img.segs[i]) : i \in DOMAIN pr.img.segs}
EntryIn(pr, q) ==
    LET on == {i \in DOMAIN pr.img.segs : q \in SegPages(pr.base, pr.img.segs[i])}
        s == pr.img.segs[Max(on)]
        shift == q - s.vaddr \div PageSize
    IN  IF pr.img.flat
        THEN [frame |-> pr.base + (q - ProgramPage) * PageSize, flags |-> FullAccess]
        ELSE [frame |-> (PhysicalAddress(s, pr.base) \div PageSize + shift) * PageSize,
              flags |-> SegmentFlags(s)]
ExpectedIn(pr, al, fr, q) ==
    IF \E a \in al : q \in AllocPages(a) THEN Identity(q, FullAccess)
    ELSE IF q \in fr THEN Identity(q, {})
    ELSE IF q \in StackRange
    THEN [frame |-> pr.stack + (q - StackPage) * PageSize, flags |-> FullAccess]
    ELSE IF q \in PagesIn(pr) THEN EntryIn(pr, q)
    ELSE Identity(q, {PRESENT, ACCESS_ALL})

LEMMA ExpectedIs ==
    ASSUME NEW p, NEW q
    PROVE  ProgramPages(p) = PagesIn(prog[p]) /\ Expected(p, q) = ExpectedIn(prog[p], allocs[p], freed[p], q)
<1>1. ProgramPages(p) = PagesIn(prog[p])
  BY Zenon DEF ProgramPages, PagesIn
<1>2. ProgramEntry(p, q) = EntryIn(prog[p], q)
  BY Zenon DEF ProgramEntry, EntryIn
<1> QED
  BY <1>1, <1>2, Zenon DEF Expected, ExpectedIn

(* The entry of a page that segment j covers and none behind it does.      *)
LEMMA EntryOfLast ==
    ASSUME NEW pr, IsImage(pr.img), ~pr.img.flat, pr.base \in Nat, NEW q \in Nat,
           NEW j \in 1 .. Len(pr.img.segs), q \in SegPages(pr.base, pr.img.segs[j]),
           \A l \in j + 1 .. Len(pr.img.segs) : q \notin SegPages(pr.base, pr.img.segs[l])
    PROVE  EntryIn(pr, q) = SegEntry(pr.img.segs[j], pr.base, q) /\ q \in PagesIn(pr)
<1> DEFINE segs == pr.img.segs
           k == Len(segs)
           on == {i \in DOMAIN segs : q \in SegPages(pr.base, segs[i])}
<1>1. k \in Nat /\ DOMAIN segs = 1 .. k
  BY SegmentsAre
<1>2. on \in SUBSET (1 .. k) /\ j \in on
  BY <1>1
<1>3. \A i \in on : i <= j
  <2> SUFFICES ASSUME NEW i \in on, ~(i <= j) PROVE FALSE
    OBVIOUS
  <2>1. i \in j + 1 .. k
    BY <1>1, <1>2
  <2> QED
    BY <2>1
<1>4. Max(on) \in on /\ \A i \in on : i <= Max(on)
  BY <1>1, <1>2, MaxIs, Zenon
<1>5. Max(on) = j
  <2> DEFINE x == Max(on)
  <2> HIDE DEF x
  <2>1. x \in 1 .. k /\ x <= j /\ j <= x
    BY <1>2, <1>3, <1>4 DEF x
  <2> QED
    BY <1>1, <2>1 DEF x
<1>6. EntryIn(pr, q) = [frame |-> (PhysicalAddress(segs[j], pr.base) \div PageSize
                                    + (q - segs[j].vaddr \div PageSize)) * PageSize,
                        flags |-> SegmentFlags(segs[j])]
  BY <1>5, Zenon DEF EntryIn
<1>7. q \in PagesIn(pr)
  BY <1>1, <1>2 DEF PagesIn
<1> QED
  BY <1>6, <1>7, Zenon DEF SegEntry, FrameEntry, SegFrame, SegPage

(* A page no segment covers is not of the program.                         *)
LEMMA NotOfProgram ==
    ASSUME NEW pr, IsImage(pr.img), ~pr.img.flat, NEW q,
           \A j \in 1 .. Len(pr.img.segs) : q \notin SegPages(pr.base, pr.img.segs[j])
    PROVE  q \notin PagesIn(pr)
<1>1. DOMAIN pr.img.segs = 1 .. Len(pr.img.segs)
  BY SegmentsAre
<1> QED
  BY <1>1 DEF PagesIn

(* Directory n has the program and nothing else.                           *)
HasProgram(n, pr) ==
    /\ n \in Dirs
    /\ \A q \in Pages : Get(n, q) = IF q \in PagesIn(pr) THEN EntryIn(pr, q)
                                    ELSE Identity(q, {PRESENT, ACCESS_ALL})

(* process_map_elf on a new directory.                                     *)
LEMMA ElfProgram ==
    ASSUME NEW pr, IsImage(pr.img), ~pr.img.flat, pr.base \in Nat,
           NEW n, Loads(_gen_paging_4gb({PRESENT, ACCESS_ALL}), n, pr.img.segs, pr.base, Len(pr.img.segs))
    PROVE  HasProgram(n, pr)
<1> DEFINE d == _gen_paging_4gb({PRESENT, ACCESS_ALL})
<1>1. n \in Dirs
  BY DEF Loads
<1>2. ASSUME NEW q \in Pages
      PROVE  Get(n, q) = IF q \in PagesIn(pr) THEN EntryIn(pr, q) ELSE Identity(q, {PRESENT, ACCESS_ALL})
  <2>1. q \in Nat
    BY IndexesExist
  <2>2. Get(d, q) = Identity(q, {PRESENT, ACCESS_ALL})
    <3>1. {PRESENT, ACCESS_ALL} \in SUBSET FullAccess
      BY DEF FullAccess
    <3> QED
      BY <3>1, GenIs, Zenon
  <2> HIDE DEF d
  <2>3. CASE (\A j \in 1 .. Len(pr.img.segs) : q \notin SegPages(pr.base, pr.img.segs[j])) /\ Get(n, q) = Get(d, q)
    BY <2>2, <2>3, NotOfProgram
  <2>4. CASE \E j \in 1 .. Len(pr.img.segs) :
                /\ q \in SegPages(pr.base, pr.img.segs[j])
                /\ \A l \in j + 1 .. Len(pr.img.segs) : q \notin SegPages(pr.base, pr.img.segs[l])
                /\ Get(n, q) = SegEntry(pr.img.segs[j], pr.base, q)
    BY <2>1, <2>4, EntryOfLast
  <2> QED
    BY <2>3, <2>4, Zenon DEF Loads, LoadsAt, d
<1> QED
  BY <1>1, <1>2 DEF HasProgram

(* process_map_binary on a new directory.                                  *)
LEMMA FlatProgram ==
    ASSUME NEW pr, IsImage(pr.img), pr.img.flat, NEW b \in Nat, pr.base = b * PageSize,
           b + Up(pr.img.size) < PagesTotal
    PROVE  \E n : /\ process_map_binary(_gen_paging_4gb({PRESENT, ACCESS_ALL}), pr.img, pr.base) = [dir |-> n, res |-> 0]
                  /\ HasProgram(n, pr)
<1> DEFINE d == _gen_paging_4gb({PRESENT, ACCESS_ALL})
           size == pr.img.size
           u == Up(size)
<1>1. PageSize \in Nat \ {0} /\ PagesTotal \in Nat /\ Space \in Nat /\ Space = PagesTotal * PageSize
  BY Constants
<1>2. size \in 1 .. Space - PageSize /\ ProgramPage * PageSize + size + PageSize <= Space /\ ProgramPage \in Nat
  BY AddressSpaceAssumption DEF IsImage
<1>3. PagesOf(size) = u /\ u \in Nat \ {0}
  BY <1>2, PagesOfIs
<1>4. size \in Nat \ {0} /\ u * PageSize < size + PageSize
  BY <1>1, <1>2, UpIs
<1>5. paging_align_address(b * PageSize + size) = (b + u) * PageSize
  BY <1>4, RunOfPages
<1>6. d \in Dirs /\ \A q \in Pages : Get(d, q) = Identity(q, {PRESENT, ACCESS_ALL})
  <2>1. {PRESENT, ACCESS_ALL} \in SUBSET FullAccess
    BY DEF FullAccess
  <2> QED
    BY <2>1, GenIs, Zenon
<1>7. b + u < PagesTotal
  OBVIOUS
<1> HIDE DEF u, d, size
<1>8. ProgramPage + u <= PagesTotal
  <2>1. (ProgramPage + u) * PageSize = ProgramPage * PageSize + u * PageSize
    BY <1>1, <1>2, <1>3
  <2>2. ProgramPage * PageSize \in Nat /\ u * PageSize \in Nat
    BY <1>1, <1>2, <1>3
  <2>3. (ProgramPage + u) * PageSize < PagesTotal * PageSize
    BY <1>1, <1>2, <1>4, <2>1, <2>2
  <2>4. ProgramPage + u \in Nat
    BY <1>2, <1>3
  <2>5. ProgramPage + u < PagesTotal
    BY <1>1, <2>3, <2>4, PageOrder
  <2> QED
    BY <1>1, <2>4, <2>5
<1>9. \E n : /\ paging_map_to(d, ProgramPage * PageSize, b * PageSize, (b + u) * PageSize, FullAccess) = [dir |-> n, res |-> 0]
             /\ Ranges(d, n, ProgramPage, b, (b + u) - b, FullAccess)
  <2>1. b + u \in Nat /\ b <= b + u /\ b + u <= PagesTotal /\ ProgramPage + ((b + u) - b) <= PagesTotal
    BY <1>1, <1>2, <1>3, <1>7, <1>8
  <2> QED
    BY <1>2, <1>6, <2>1, MapToIs
<1>10. PICK n : /\ paging_map_to(d, ProgramPage * PageSize, b * PageSize, (b + u) * PageSize, FullAccess) = [dir |-> n, res |-> 0]
                /\ Ranges(d, n, ProgramPage, b, (b + u) - b, FullAccess)
  BY <1>9
<1>11. process_map_binary(d, pr.img, pr.base) = [dir |-> n, res |-> 0]
  BY <1>5, <1>10 DEF process_map_binary, size
<1>12. ASSUME NEW q \in Pages
       PROVE  Get(n, q) = IF q \in PagesIn(pr) THEN EntryIn(pr, q) ELSE Identity(q, {PRESENT, ACCESS_ALL})
  <2>1. q \in Nat
    BY IndexesExist
  <2>2. PagesIn(pr) = ProgramPage .. ProgramPage + u - 1
    BY <1>3 DEF PagesIn, size
  <2>3. (b + u) - b = u
    BY <1>3
  <2>4. Get(n, q) = IF q \in PagesIn(pr) THEN FrameEntry(b + (q - ProgramPage), FullAccess) ELSE Get(d, q)
    BY <1>10, <2>2, <2>3 DEF Ranges
  <2>5. (b + (q - ProgramPage)) * PageSize = pr.base + (q - ProgramPage) * PageSize
    BY <1>1, <1>2, <2>1
  <2>6. EntryIn(pr, q) = FrameEntry(b + (q - ProgramPage), FullAccess)
    BY <2>5, Zenon DEF EntryIn, FrameEntry
  <2> QED
    BY <1>6, <2>4, <2>6
<1>13. HasProgram(n, pr)
  BY <1>10, <1>12 DEF HasProgram, Ranges
<1> QED
  BY <1>11, <1>13 DEF d

(* The pages of the stack.                                                 *)
LEMMA StackIs ==
    /\ StackPage \in Nat /\ StackPages \in Nat \ {0} /\ StackPage + StackPages <= PagesTotal
    /\ \A q \in StackRange : q \in Nat /\ q \in Pages /\ q \notin HeapPages
<1>1. PagesTotal \in Nat
  BY Constants
<1>2. /\ StackPage \in Nat /\ StackPages \in Nat \ {0} /\ StackPage + StackPages <= PagesTotal
      /\ \A q \in StackRange : q \notin HeapPages
  BY AddressSpaceAssumption DEF StackRange
<1> QED
  BY <1>1, <1>2 DEF Pages, StackRange

(* process_map_memory fails or gives every page what it should have.       *)
LEMMA MapMemoryIs ==
    ASSUME NEW pr, IsImage(pr.img), NEW b \in Nat, pr.base = b * PageSize, b + Up(pr.img.size) < PagesTotal,
           NEW st \in Nat, pr.stack = st * PageSize, st + StackPages < PagesTotal
    PROVE  LET m == process_map_memory(_gen_paging_4gb({PRESENT, ACCESS_ALL}), pr.img, pr.base, pr.stack)
           IN  \/ m.res < 0
               \/ /\ m.res = 0 /\ m.dir \in Dirs
                  /\ \A q \in Pages : Get(m.dir, q) = ExpectedIn(pr, {}, {}, q)
<1> DEFINE d == _gen_paging_4gb({PRESENT, ACCESS_ALL})
           o == IF pr.img.flat THEN process_map_binary(d, pr.img, pr.base) ELSE process_map_elf(d, pr.img, pr.base)
           To(x) == paging_map_to(x, StackPage * PageSize, pr.stack,
                                  paging_align_address(pr.stack + StackPages * PageSize), FullAccess)
           m == process_map_memory(d, pr.img, pr.base, pr.stack)
<1>1. m = IF o.res < 0 THEN o ELSE [o EXCEPT !.dir = To(o.dir).dir]
  BY DEF process_map_memory
<1>2. PageSize \in Nat \ {0} /\ PagesTotal \in Nat
  BY Constants
<1>3. d \in Dirs
  <2>1. {PRESENT, ACCESS_ALL} \in SUBSET FullAccess
    BY DEF FullAccess
  <2> QED
    BY <2>1, GenIs
<1>4. b * PageSize \in Nat /\ pr.img.flat \in BOOLEAN
  BY PageOrder DEF IsImage
<1>5. o.res < 0 \/ \E n : o = [dir |-> n, res |-> 0] /\ HasProgram(n, pr)
  <2>1. CASE pr.img.flat
    BY <2>1, FlatProgram
  <2>2. CASE ~pr.img.flat
    <3>1. \/ process_map_elf(d, pr.img, pr.base).res < 0
          \/ \E n : /\ process_map_elf(d, pr.img, pr.base) = [dir |-> n, res |-> 0]
                    /\ Loads(d, n, pr.img.segs, pr.base, Len(pr.img.segs))
      BY <1>3, <1>4, MapElfIs
    <3>2. \A n : Loads(d, n, pr.img.segs, pr.base, Len(pr.img.segs)) => HasProgram(n, pr)
      BY <1>4, <2>2, ElfProgram
    <3> QED
      BY <2>2, <3>1, <3>2
  <2> QED
    BY <2>1, <2>2
<1> HIDE DEF o, d
<1>6. CASE o.res < 0
  BY <1>1, <1>6 DEF d
<1>7. CASE \E n : o = [dir |-> n, res |-> 0] /\ HasProgram(n, pr)
  <2>1. PICK n : o = [dir |-> n, res |-> 0] /\ HasProgram(n, pr)
    BY <1>7
  <2>2. StackPage \in Nat /\ StackPages \in Nat \ {0} /\ StackPage + StackPages <= PagesTotal
    BY StackIs
  <2>3. paging_align_address(pr.stack + StackPages * PageSize) = (st + StackPages) * PageSize
    <3>1. pr.stack + StackPages * PageSize = (st + StackPages) * PageSize
      BY <1>2, <2>2
    <3>2. ((st + StackPages) * PageSize) % PageSize = 0
      BY <2>2, PageStart
    <3> QED
      BY <3>1, <3>2 DEF paging_align_address
  <2>4. n \in Dirs
    BY <2>1 DEF HasProgram
  <2>5. \E x : /\ paging_map_to(n, StackPage * PageSize, st * PageSize, (st + StackPages) * PageSize, FullAccess) = [dir |-> x, res |-> 0]
               /\ Ranges(n, x, StackPage, st, (st + StackPages) - st, FullAccess)
    <3>1. /\ st + StackPages \in Nat /\ st <= st + StackPages /\ st + StackPages <= PagesTotal
          /\ StackPage + ((st + StackPages) - st) <= PagesTotal
      BY <1>2, <2>2
    <3> QED
      BY <2>2, <2>4, <3>1, MapToIs
  <2>6. PICK x : To(n) = [dir |-> x, res |-> 0] /\ Ranges(n, x, StackPage, st, (st + StackPages) - st, FullAccess)
    BY <2>3, <2>5
  <2>7. m.res = 0 /\ m.dir = x
    <3> HIDE DEF To, m
    <3> QED
      BY <1>1, <2>1, <2>6
  <2>8. ASSUME NEW q \in Pages PROVE Get(x, q) = ExpectedIn(pr, {}, {}, q)
    <3>1. q \in Nat
      BY IndexesExist
    <3>2. (st + StackPages) - st = StackPages
      BY <2>2
    <3>3. Get(x, q) = IF q \in StackRange THEN FrameEntry(st + (q - StackPage), FullAccess) ELSE Get(n, q)
      BY <2>6, <3>2 DEF Ranges, StackRange
    <3>4. Get(n, q) = IF q \in PagesIn(pr) THEN EntryIn(pr, q) ELSE Identity(q, {PRESENT, ACCESS_ALL})
      BY <2>1 DEF HasProgram
    <3>5. (st + (q - StackPage)) * PageSize = pr.stack + (q - StackPage) * PageSize
      BY <1>2, <2>2, <3>1
    <3>6. FrameEntry(st + (q - StackPage), FullAccess)
            = [frame |-> pr.stack + (q - StackPage) * PageSize, flags |-> FullAccess]
      BY <3>5, Zenon DEF FrameEntry
    <3>7. ExpectedIn(pr, {}, {}, q) =
            IF q \in StackRange THEN [frame |-> pr.stack + (q - StackPage) * PageSize, flags |-> FullAccess]
            ELSE IF q \in PagesIn(pr) THEN EntryIn(pr, q) ELSE Identity(q, {PRESENT, ACCESS_ALL})
      BY DEF ExpectedIn
    <3> QED
      BY <3>3, <3>4, <3>6, <3>7
  <2>9. x \in Dirs
    BY <2>6 DEF Ranges
  <2> HIDE DEF m
  <2>10. m.res = 0 /\ m.dir \in Dirs /\ \A q \in Pages : Get(m.dir, q) = ExpectedIn(pr, {}, {}, q)
    BY <2>7, <2>8, <2>9
  <2> QED
    BY <2>10 DEF m, d
<1> QED
  BY <1>5, <1>6, <1>7

----------------------------------------------------------------------------
(* The inductive invariant.                                                *)

(* A program in memory, and an allocation.                                 *)
HeapAddress == {b * PageSize : b \in HeapPages}
Program == [img : Images, base : HeapAddress, stack : HeapAddress]
Allocation == [ptr : HeapAddress, size : Sizes]

(* Blocks that process p has.                                              *)
Has(p, S) == \A b \in S : b \in HeapPages /\ blocks[b] = p
StackRun(pr) == pr.stack \div PageSize .. pr.stack \div PageSize + StackPages - 1

Typed ==
    /\ TypeOK
    /\ prog \in [Procs -> Program \cup {None}]
    /\ allocs \in [Procs -> SUBSET Allocation]
    /\ freed \in [Procs -> SUBSET HeapPages]

(* What a process has in the heap, and none of it twice.                   *)
Owns(p) ==
    /\ prog[p] = None => allocs[p] = {} /\ freed[p] = {}
    /\ prog[p] # None => Has(p, ImageRun(prog[p])) /\ Has(p, StackRun(prog[p]))
    /\ \A a \in allocs[p] :
          /\ Has(p, AllocPages(a))
          /\ AllocPages(a) \cap (ImageRun(prog[p]) \cup StackRun(prog[p]) \cup freed[p]) = {}
          /\ \A c \in allocs[p] \ {a} : AllocPages(a) \cap AllocPages(c) = {}

Exact(p) == prog[p] # None => \A q \in Pages : Get(dir[p], q) = Expected(p, q)

IInv == Typed /\ (\A p \in Procs : Owns(p) /\ Exact(p)) /\ CopyReadsTask

LEMMA ExpectedNext ==
    ASSUME NEW p, NEW q
    PROVE  ProgramPages(p)' = PagesIn(prog'[p]) /\ Expected(p, q)' = ExpectedIn(prog'[p], allocs'[p], freed'[p], q)
<1>1. ProgramPages(p)' = PagesIn(prog'[p])
  BY Zenon DEF ProgramPages, PagesIn
<1>2. ProgramEntry(p, q)' = EntryIn(prog'[p], q)
  BY Zenon DEF ProgramEntry, EntryIn
<1> QED
  BY <1>1, <1>2, Zenon DEF Expected, ExpectedIn

(* A step that leaves a process its blocks and its record.                 *)
LEMMA Frame ==
    ASSUME NEW r \in Procs, Owns(r), Exact(r), prog'[r] = prog[r], dir'[r] = dir[r],
           allocs'[r] = allocs[r], freed'[r] = freed[r],
           \A b \in HeapPages : blocks[b] = r => blocks'[b] = r
    PROVE  Owns(r)' /\ Exact(r)'
<1>1. \A S : Has(r, S) => Has(r, S)'
  BY DEF Has
<1>2. Owns(r)'
  BY <1>1, Zenon DEF Owns
<1>3. \A q : Expected(r, q)' = Expected(r, q)
  BY ExpectedIs, ExpectedNext
<1> QED
  BY <1>2, <1>3 DEF Exact

(* The pages of an allocation.                                             *)
LEMMA AllocationIs ==
    ASSUME NEW b \in HeapPages, NEW n \in Sizes
    PROVE  /\ AllocPages([ptr |-> b * PageSize, size |-> n]) = b .. b + Up(n) - 1
           /\ b \in Nat /\ n \in Nat \ {0} /\ PagesOf(n) = Up(n) /\ Up(n) \in Nat \ {0}
<1> DEFINE x == b * PageSize
           frames == {k \div PageSize : k \in x .. x + n - 1}
<1>1. b \in Nat /\ n \in 1 .. Space - PageSize /\ Space \in Nat /\ PageSize \in Nat \ {0}
  BY HeapIsPages, AddressSpaceAssumption, Constants
<1>2. n \in Nat \ {0}
  BY <1>1
<1>3. PagesOf(n) = Up(n) /\ Up(n) \in Nat \ {0}
  BY <1>1, PagesOfIs
<1>4. x \in Nat /\ x \div PageSize = b
  BY <1>1, PageStart
<1>5. frames = x \div PageSize .. Up(x + n) - 1
  BY <1>2, <1>4, BytesOnPages
<1>6. Up(x + n) = b + Up(n)
  BY <1>1, <1>2, UpShift
<1>7. AllocPages([ptr |-> x, size |-> n]) = frames
  BY DEF AllocPages
<1> HIDE DEF frames, x
<1>8. AllocPages([ptr |-> x, size |-> n]) = b .. b + Up(n) - 1
  BY <1>1, <1>3, <1>4, <1>5, <1>6, <1>7
<1> QED
  BY <1>1, <1>2, <1>3, <1>8 DEF x

(* The pages of an allocation at their own address, with other flags: what *)
(* process_malloc and process_free do to the directory.                    *)
LEMMA RemapIs ==
    ASSUME NEW d \in Dirs, NEW b \in HeapPages, NEW n \in Sizes, b + Up(n) < PagesTotal,
           NEW flags \in SUBSET FullAccess
    PROVE  \E m \in Dirs :
              /\ paging_map_to(d, b * PageSize, b * PageSize, paging_align_address(b * PageSize + n), flags).dir = m
              /\ \A q \in Pages : Get(m, q) = IF q \in AllocPages([ptr |-> b * PageSize, size |-> n])
                                             THEN Identity(q, flags) ELSE Get(d, q)
<1> DEFINE a == [ptr |-> b * PageSize, size |-> n]
           u == Up(n)
           m == paging_map_to(d, b * PageSize, b * PageSize, paging_align_address(b * PageSize + n), flags).dir
<1>1. AllocPages(a) = b .. b + u - 1 /\ b \in Nat /\ n \in Nat \ {0} /\ u \in Nat \ {0}
  BY AllocationIs
<1>2. paging_align_address(b * PageSize + n) = (b + u) * PageSize
  BY <1>1, RunOfPages
<1>3. PagesTotal \in Nat /\ b + u < PagesTotal
  BY Constants
<1> HIDE DEF u, a
<1>4. \E x : /\ paging_map_to(d, b * PageSize, b * PageSize, (b + u) * PageSize, flags) = [dir |-> x, res |-> 0]
             /\ Ranges(d, x, b, b, (b + u) - b, flags)
  <2>1. b + u \in Nat /\ b <= b + u /\ b + u <= PagesTotal /\ b + ((b + u) - b) <= PagesTotal
    BY <1>1, <1>3
  <2> QED
    BY <1>1, <2>1, MapToIs
<1>5. PICK x : /\ paging_map_to(d, b * PageSize, b * PageSize, (b + u) * PageSize, flags) = [dir |-> x, res |-> 0]
               /\ Ranges(d, x, b, b, (b + u) - b, flags)
  BY <1>4
<1>6. m = x
  BY <1>2, <1>5
<1> HIDE DEF m
<1>7. m \in Dirs
  BY <1>5, <1>6 DEF Ranges
<1>8. ASSUME NEW q \in Pages PROVE Get(m, q) = IF q \in AllocPages(a) THEN Identity(q, flags) ELSE Get(d, q)
  <2>1. q \in Nat
    BY IndexesExist
  <2>2. (b + u) - b = u /\ b + (q - b) = q
    BY <1>1, <2>1
  <2> QED
    BY <1>1, <1>5, <1>6, <2>2 DEF Ranges, FrameEntry, Identity
<1>9. \A q \in Pages : Get(m, q) = IF q \in AllocPages(a) THEN Identity(q, flags) ELSE Get(d, q)
  BY <1>8
<1> QED
  BY <1>7, <1>9, Zenon DEF m, a

(* Blocks taken from the free ones.                                        *)
Owners == [HeapPages -> Procs \cup {None, Lost}]
Takers == Procs \cup {Lost}
LEMMA TakeIs ==
    ASSUME NEW B \in Owners, NEW p \in Takers, NEW s, NEW n,
           \A i \in s .. s + n - 1 : i \in HeapPages /\ B[i] = None
    PROVE  LET T == Take(B, s, n, p)
           IN  /\ T \in Owners
               /\ \A b \in s .. s + n - 1 : b \in HeapPages /\ T[b] = p
               /\ \A r \in Procs, b \in HeapPages : B[b] = r => T[b] = r
<1> DEFINE run == s .. s + n - 1
           T == Take(B, s, n, p)
<1>1. T = [i \in HeapPages |-> IF i \in run THEN p ELSE B[i]]
  BY DEF Take
<1>2. \A i \in run : i \in HeapPages /\ B[i] = None
  OBVIOUS
<1>3. None \notin Procs
  BY AddressSpaceAssumption
<1> HIDE DEF run, T
<1>4. T \in Owners
  BY <1>1 DEF Owners, Takers
<1>5. \A b \in run : b \in HeapPages /\ T[b] = p
  BY <1>1, <1>2
<1>6. \A r \in Procs, b \in HeapPages : B[b] = r => T[b] = r
  BY <1>1, <1>2, <1>3
<1> QED
  BY <1>4, <1>5, <1>6 DEF run, T

(* A program in memory.                                                    *)
LEMMA ProgramIs ==
    ASSUME NEW pr \in Program
    PROVE  \E b \in HeapPages, st \in HeapPages :
              /\ b \in Nat /\ st \in Nat /\ pr.img \in Images /\ IsImage(pr.img)
              /\ pr.base = b * PageSize /\ pr.stack = st * PageSize
              /\ PagesOf(pr.img.size) = Up(pr.img.size) /\ Up(pr.img.size) \in Nat \ {0}
              /\ ImageRun(pr) = b .. b + Up(pr.img.size) - 1
              /\ StackRun(pr) = st .. st + StackPages - 1
<1> DEFINE i == pr.img
<1>1. i \in Images /\ pr.base \in HeapAddress /\ pr.stack \in HeapAddress
  BY DEF Program
<1> HIDE DEF i
<1>2. PICK b \in HeapPages, st \in HeapPages : pr.base = b * PageSize /\ pr.stack = st * PageSize
  BY <1>1 DEF HeapAddress
<1>3. b \in Nat /\ st \in Nat /\ IsImage(i)
  BY <1>1, HeapIsPages, AddressSpaceAssumption
<1>4. PagesOf(i.size) = Up(i.size) /\ Up(i.size) \in Nat \ {0}
  BY <1>3, PagesOfIs DEF IsImage
<1>5. (b * PageSize) \div PageSize = b /\ (st * PageSize) \div PageSize = st
  BY <1>3, PageStart
<1>6. ImageRun(pr) = b .. b + Up(pr.img.size) - 1 /\ StackRun(pr) = st .. st + StackPages - 1
  BY <1>2, <1>4, <1>5 DEF ImageRun, StackRun, i
<1> QED
  BY <1>1, <1>2, <1>3, <1>4, <1>6 DEF i

(* The states of processes.                                                *)
LEMMA TypedIs ==
    Typed <=> /\ dir \in [Procs -> Dirs \cup {None}]
              /\ \A p \in Procs : prog[p] = None <=> dir[p] = None
              /\ blocks \in Owners
              /\ prog \in [Procs -> Program \cup {None}]
              /\ allocs \in [Procs -> SUBSET Allocation]
              /\ freed \in [Procs -> SUBSET HeapPages]
BY Zenon DEF Typed, TypeOK, Dirs, Owners

LEMMA TypedNext ==
    Typed' <=> /\ dir' \in [Procs -> Dirs \cup {None}]
               /\ \A p \in Procs : prog'[p] = None <=> dir'[p] = None
               /\ blocks' \in Owners
               /\ prog' \in [Procs -> Program \cup {None}]
               /\ allocs' \in [Procs -> SUBSET Allocation]
               /\ freed' \in [Procs -> SUBSET HeapPages]
BY Zenon DEF Typed, TypeOK, Dirs, Owners

(* No directory and no program is None.                                    *)
LEMMA NotNone ==
    None \notin Dirs /\ None \notin Program /\ None \notin Procs
<1>1. None \notin Dirs /\ None \notin Procs /\ None \notin [img : Images, base : Nat, stack : Nat]
  BY AddressSpaceAssumption DEF Dirs
<1>2. Program \subseteq [img : Images, base : Nat, stack : Nat]
  <2>1. HeapAddress \subseteq Nat
    BY HeapIsPages, PageStart DEF HeapAddress
  <2> QED
    BY <2>1 DEF Program
<1> QED
  BY <1>1, <1>2

(* Records of the right form are programs and allocations.                 *)
LEMMA RecordsAre ==
    /\ \A a \in Allocation : \E b \in HeapPages, n \in Sizes : a = [ptr |-> b * PageSize, size |-> n]
    /\ \A i \in Images, b \in HeapPages, s \in HeapPages :
          [img |-> i, base |-> b * PageSize, stack |-> s * PageSize] \in Program
    /\ \A b \in HeapPages, n \in Sizes : [ptr |-> b * PageSize, size |-> n] \in Allocation
<1>1. ASSUME NEW i \in Images, NEW b \in HeapPages, NEW s \in HeapPages
      PROVE  [img |-> i, base |-> b * PageSize, stack |-> s * PageSize] \in Program
  BY DEF Program, HeapAddress
<1>2. ASSUME NEW b \in HeapPages, NEW n \in Sizes
      PROVE  [ptr |-> b * PageSize, size |-> n] \in Allocation
  BY DEF Allocation, HeapAddress
<1>3. ASSUME NEW a \in Allocation
      PROVE  \E b \in HeapPages, n \in Sizes : a = [ptr |-> b * PageSize, size |-> n]
  <2>1. a = [ptr |-> a.ptr, size |-> a.size] /\ a.ptr \in HeapAddress /\ a.size \in Sizes
    BY DEF Allocation
  <2>2. PICK b \in HeapPages : a.ptr = b * PageSize
    BY <2>1 DEF HeapAddress
  <2> QED
    BY <2>1, <2>2
<1> QED
  BY <1>1, <1>2, <1>3

(* A step that copies nothing keeps the promise about copies.              *)
LEMMA NothingToRead ==
    ASSUME copied' = NothingCopied
    PROVE  CopyReadsTask'
BY DEF CopyReadsTask, NothingCopied

----------------------------------------------------------------------------
(* The steps.                                                              *)

LEMMA InitIInv == Init => IInv
<1> SUFFICES ASSUME Init PROVE IInv
  OBVIOUS
<1>1. Typed
  BY TypedIs DEF Init, Owners
<1>2. \A p \in Procs : Owns(p) /\ Exact(p)
  BY DEF Init, Owns, Exact
<1>3. CopyReadsTask
  BY DEF Init, CopyReadsTask, NothingCopied
<1> QED
  BY <1>1, <1>2, <1>3 DEF IInv

(* A process is loaded, or no process is touched by the attempt.           *)
LEMMA LoadStep ==
    ASSUME IInv, NEW p \in Procs, NEW img \in Images, process_load(p, img)
    PROVE  IInv'
<1> DEFINE n == PagesOf(img.size)
           R == IF img.flat THEN Take(blocks, FirstFit(blocks, n), n, Lost) ELSE blocks
           b == FirstFit(R, n)
           W == Take(R, b, n, p)
           L == Take(R, b, n, Lost)
           s == FirstFit(W, StackPages)
           pr == [img |-> img, base |-> b * PageSize, stack |-> s * PageSize]
           m == process_map_memory(_gen_paging_4gb({PRESENT, ACCESS_ALL}), img, b * PageSize, s * PageSize)
           T == Take(W, s, StackPages, p)
<1>1. /\ dir \in [Procs -> Dirs \cup {None}]
      /\ \A r \in Procs : prog[r] = None <=> dir[r] = None
      /\ blocks \in Owners
      /\ prog \in [Procs -> Program \cup {None}]
      /\ allocs \in [Procs -> SUBSET Allocation]
      /\ freed \in [Procs -> SUBSET HeapPages]
  BY TypedIs DEF IInv
<1>2. \A r \in Procs : Owns(r) /\ Exact(r)
  BY DEF IInv
<1>3. /\ prog[p] = None /\ Runs(blocks, n) # {} /\ Runs(R, n) # {} /\ Runs(W, StackPages) # {}
      /\ copied' = NothingCopied
      /\ \/ m.res < 0 /\ blocks' = L /\ UNCHANGED <<dir, prog>>
         \/ /\ ~(m.res < 0)
            /\ dir' = [dir EXCEPT ![p] = m.dir]
            /\ prog' = [prog EXCEPT ![p] = pr]
            /\ blocks' = T
      /\ UNCHANGED <<allocs, freed>>
  BY DEF process_load
<1>4. CopyReadsTask'
  BY <1>3, NothingToRead
<1>5. IsImage(img)
  BY AddressSpaceAssumption
<1>6. n = Up(img.size) /\ n \in Nat \ {0}
  BY <1>5, PagesOfIs DEF IsImage
<1>7. StackPages \in Nat \ {0}
  BY StackIs
<1> HIDE DEF n
<1>7a. p \in Takers /\ Lost \in Takers
  BY DEF Takers
<1>7b. R \in Owners /\ \A r \in Procs, i \in HeapPages : blocks[i] = r => R[i] = r
  <2> DEFINE t == FirstFit(blocks, n)
  <2>1. \A i \in t .. t + n - 1 : i \in HeapPages /\ blocks[i] = None
    BY <1>3, <1>6, FirstFitIs
  <2> HIDE DEF t
  <2>2. LET T1 == Take(blocks, t, n, Lost)
        IN  T1 \in Owners /\ \A r \in Procs, i \in HeapPages : blocks[i] = r => T1[i] = r
    BY <1>1, <1>7a, <2>1, TakeIs
  <2> QED
    BY <1>1, <2>2 DEF t
<1> HIDE DEF R
<1>8. /\ b \in HeapPages /\ b \in Nat
      /\ \A i \in b .. b + n - 1 : i \in HeapPages /\ R[i] = None
      /\ b + n < PagesTotal
  BY <1>3, <1>6, FirstFitIs
<1> HIDE DEF b
<1>9. /\ W \in Owners
      /\ \A i \in b .. b + n - 1 : i \in HeapPages /\ W[i] = p
      /\ \A r \in Procs, i \in HeapPages : blocks[i] = r => W[i] = r
  <2>1. \A r \in Procs, i \in HeapPages : R[i] = r => W[i] = r
    BY <1>7a, <1>7b, <1>8, TakeIs
  <2> QED
    BY <1>7a, <1>7b, <1>8, <2>1, TakeIs
<1>9a. L \in Owners /\ \A r \in Procs, i \in HeapPages : blocks[i] = r => L[i] = r
  <2>1. \A r \in Procs, i \in HeapPages : R[i] = r => L[i] = r
    BY <1>7a, <1>7b, <1>8, TakeIs
  <2> QED
    BY <1>7a, <1>7b, <1>8, <2>1, TakeIs
<1> HIDE DEF W, L
<1>10. /\ s \in HeapPages /\ s \in Nat
       /\ \A i \in s .. s + StackPages - 1 : i \in HeapPages /\ W[i] = None
       /\ s + StackPages < PagesTotal
  BY <1>3, <1>7, FirstFitIs
<1> HIDE DEF s
<1>11. /\ T \in Owners
       /\ \A i \in s .. s + StackPages - 1 : i \in HeapPages /\ T[i] = p
       /\ \A r \in Procs, i \in HeapPages : W[i] = r => T[i] = r
  BY <1>7a, <1>9, <1>10, TakeIs
<1> HIDE DEF T
<1>12. pr \in Program
  BY <1>8, <1>10, RecordsAre
<1>13. pr.img = img /\ pr.base = b * PageSize /\ pr.stack = s * PageSize
  OBVIOUS
<1> HIDE DEF pr
<1>14. \/ m.res < 0
       \/ /\ m.res = 0 /\ m.dir \in Dirs
          /\ \A q \in Pages : Get(m.dir, q) = ExpectedIn(pr, {}, {}, q)
  BY <1>5, <1>6, <1>8, <1>10, <1>13, MapMemoryIs
<1> HIDE DEF m
<1>15. CASE m.res < 0 /\ blocks' = L /\ UNCHANGED <<dir, prog>>
  <2>1. ASSUME NEW r \in Procs PROVE Owns(r)' /\ Exact(r)'
    <3>1. \A i \in HeapPages : blocks[i] = r => blocks'[i] = r
      BY <1>9a, <1>15
    <3> QED
      BY <1>2, <1>3, <1>15, <3>1, Frame
  <2>2. Typed'
    BY <1>1, <1>3, <1>9a, <1>15, TypedNext
  <2> QED
    BY <1>4, <2>1, <2>2 DEF IInv
<1>16. CASE /\ ~(m.res < 0)
            /\ dir' = [dir EXCEPT ![p] = m.dir]
            /\ prog' = [prog EXCEPT ![p] = pr]
            /\ blocks' = T
  <2>1. m.dir \in Dirs /\ \A q \in Pages : Get(m.dir, q) = ExpectedIn(pr, {}, {}, q)
    BY <1>14, <1>16
  <2>2. m.dir # None /\ pr # None
    BY <1>12, <2>1, NotNone
  <2>3. Typed'
    <3>1. dir' \in [Procs -> Dirs \cup {None}] /\ prog' \in [Procs -> Program \cup {None}]
      BY <1>1, <1>12, <1>16, <2>1
    <3>2. \A r \in Procs : prog'[r] = None <=> dir'[r] = None
      BY <1>1, <1>16, <2>2
    <3> QED
      BY <1>1, <1>3, <1>11, <1>16, <3>1, <3>2, TypedNext
  <2>4. ASSUME NEW r \in Procs, r # p PROVE Owns(r)' /\ Exact(r)'
    <3>1. prog'[r] = prog[r] /\ dir'[r] = dir[r] /\ allocs'[r] = allocs[r] /\ freed'[r] = freed[r]
      BY <1>1, <1>3, <1>16, <2>4
    <3>2. \A i \in HeapPages : blocks[i] = r => blocks'[i] = r
      BY <1>9, <1>11, <1>16
    <3> QED
      BY <1>2, <3>1, <3>2, Frame
  <2>5. prog'[p] = pr /\ dir'[p] = m.dir /\ allocs'[p] = {} /\ freed'[p] = {}
    BY <1>1, <1>2, <1>3, <1>16 DEF Owns
  <2>6. Owns(p)'
    <3>1. ImageRun(pr) = b .. b + n - 1 /\ StackRun(pr) = s .. s + StackPages - 1
      <4>1. (b * PageSize) \div PageSize = b /\ (s * PageSize) \div PageSize = s
        BY <1>8, <1>10, PageStart
      <4> QED
        BY <1>13, <4>1 DEF ImageRun, StackRun, n
    <3>2. \A i \in ImageRun(pr) : i \in HeapPages /\ blocks'[i] = p
      BY <1>9, <1>11, <1>16, <3>1
    <3>3. \A i \in StackRun(pr) : i \in HeapPages /\ blocks'[i] = p
      BY <1>11, <1>16, <3>1
    <3> QED
      BY <2>2, <2>5, <3>2, <3>3 DEF Owns, Has
  <2>7. Exact(p)'
    BY <2>1, <2>5, ExpectedNext DEF Exact
  <2> QED
    BY <1>4, <2>3, <2>4, <2>6, <2>7 DEF IInv
<1> QED
  BY <1>3, <1>15, <1>16

(* A process ends.                                                         *)
LEMMA TerminateStep ==
    ASSUME IInv, NEW p \in Procs, process_terminate(p)
    PROVE  IInv'
<1>1. /\ dir \in [Procs -> Dirs \cup {None}]
      /\ \A r \in Procs : prog[r] = None <=> dir[r] = None
      /\ blocks \in Owners
      /\ prog \in [Procs -> Program \cup {None}]
      /\ allocs \in [Procs -> SUBSET Allocation]
      /\ freed \in [Procs -> SUBSET HeapPages]
  BY TypedIs DEF IInv
<1>2. CopyReadsTask'
  BY NothingToRead DEF process_terminate
<1>3. Typed'
  <2>1. dir' \in [Procs -> Dirs \cup {None}] /\ prog' \in [Procs -> Program \cup {None}]
    BY <1>1 DEF process_terminate
  <2>2. allocs' \in [Procs -> SUBSET Allocation] /\ freed' \in [Procs -> SUBSET HeapPages]
    BY <1>1 DEF process_terminate
  <2>3. \A r \in Procs : prog'[r] = None <=> dir'[r] = None
    BY <1>1 DEF process_terminate
  <2>4. blocks' \in Owners
    BY <1>1 DEF process_terminate, Owners
  <2> QED
    BY <2>1, <2>2, <2>3, <2>4, TypedNext
<1>4. ASSUME NEW r \in Procs, r # p PROVE Owns(r)' /\ Exact(r)'
  <2>1. prog'[r] = prog[r] /\ dir'[r] = dir[r] /\ allocs'[r] = allocs[r] /\ freed'[r] = freed[r]
    BY <1>1, <1>4 DEF process_terminate
  <2>2. \A i \in HeapPages : blocks[i] = r => blocks'[i] = r
    BY <1>4 DEF process_terminate
  <2> QED
    BY <2>1, <2>2, Frame DEF IInv
<1>5. prog'[p] = None /\ allocs'[p] = {} /\ freed'[p] = {}
  BY <1>1 DEF process_terminate
<1>6. Owns(p)' /\ Exact(p)'
  BY <1>5 DEF Owns, Exact
<1> QED
  BY <1>2, <1>3, <1>4, <1>6 DEF IInv

(* An allocation.                                                          *)
LEMMA MallocStep ==
    ASSUME IInv, NEW p \in Procs, NEW size \in Sizes, process_malloc(p, size)
    PROVE  IInv'
<1> DEFINE n == PagesOf(size)
           b == FirstFit(blocks, n)
           a == [ptr |-> b * PageSize, size |-> size]
           m == paging_map_to(dir[p], b * PageSize, b * PageSize,
                              paging_align_address(b * PageSize + size), FullAccess).dir
           T == Take(blocks, b, n, p)
           al == allocs[p]
           fr == freed[p]
           pr == prog[p]
<1>1. /\ dir \in [Procs -> Dirs \cup {None}]
      /\ \A r \in Procs : prog[r] = None <=> dir[r] = None
      /\ blocks \in Owners
      /\ prog \in [Procs -> Program \cup {None}]
      /\ allocs \in [Procs -> SUBSET Allocation]
      /\ freed \in [Procs -> SUBSET HeapPages]
  BY TypedIs DEF IInv
<1>2. Owns(p) /\ Exact(p)
  BY DEF IInv
<1>3. /\ pr # None /\ Runs(blocks, n) # {}
      /\ dir' = [dir EXCEPT ![p] = m]
      /\ blocks' = T
      /\ allocs' = [allocs EXCEPT ![p] = al \cup {a}]
      /\ freed' = [freed EXCEPT ![p] = fr \ AllocPages(a)]
      /\ copied' = NothingCopied /\ prog' = prog
  BY DEF process_malloc
<1>4. n \in Nat \ {0} /\ n = Up(size)
  BY PagesOfIs, AddressSpaceAssumption
<1> HIDE DEF n
<1>5. /\ b \in HeapPages /\ b \in Nat
      /\ \A i \in b .. b + n - 1 : i \in HeapPages /\ blocks[i] = None
      /\ b + n < PagesTotal
  BY <1>3, <1>4, FirstFitIs
<1> HIDE DEF b
<1>6. AllocPages(a) = b .. b + n - 1
  BY <1>4, <1>5, AllocationIs
<1>7. /\ T \in Owners
      /\ \A i \in b .. b + n - 1 : i \in HeapPages /\ T[i] = p
      /\ \A r \in Procs, i \in HeapPages : blocks[i] = r => T[i] = r
  <2>1. p \in Takers
    BY DEF Takers
  <2> QED
    BY <1>1, <1>5, <2>1, TakeIs
<1>8. dir[p] \in Dirs
  BY <1>1, <1>3
<1>9. /\ m \in Dirs
      /\ \A q \in Pages : Get(m, q) = IF q \in AllocPages(a) THEN Identity(q, FullAccess) ELSE Get(dir[p], q)
  <2>1. b + Up(size) < PagesTotal /\ FullAccess \in SUBSET FullAccess
    BY <1>4, <1>5
  <2>2. \E y \in Dirs :
            /\ paging_map_to(dir[p], b * PageSize, b * PageSize,
                             paging_align_address(b * PageSize + size), FullAccess).dir = y
            /\ \A q \in Pages : Get(y, q) = IF q \in AllocPages([ptr |-> b * PageSize, size |-> size])
                                           THEN Identity(q, FullAccess) ELSE Get(dir[p], q)
    BY <1>5, <1>8, <2>1, RemapIs
  <2>3. PICK y \in Dirs :
            /\ m = y
            /\ \A q \in Pages : Get(y, q) = IF q \in AllocPages(a)
                                           THEN Identity(q, FullAccess) ELSE Get(dir[p], q)
    BY <2>2, Zenon
  <2> HIDE DEF m, a
  <2> QED
    BY <2>3
<1>10. a \in Allocation
  BY <1>5, RecordsAre
<1> DEFINE A == AllocPages(a)
<1>11. \A i \in A : i \in HeapPages /\ blocks[i] = None /\ T[i] = p
  BY <1>5, <1>6, <1>7
<1> HIDE DEF a, m, T, A
<1>12. CopyReadsTask'
  BY <1>3, NothingToRead
<1>13. Typed'
  <2>1. dir' \in [Procs -> Dirs \cup {None}] /\ allocs' \in [Procs -> SUBSET Allocation]
        /\ freed' \in [Procs -> SUBSET HeapPages]
    BY <1>1, <1>3, <1>9, <1>10
  <2>2. m # None
    BY <1>9, NotNone
  <2>3. \A r \in Procs : prog'[r] = None <=> dir'[r] = None
    BY <1>1, <1>3, <2>2
  <2> QED
    BY <1>1, <1>3, <1>7, <2>1, <2>3, TypedNext
<1>14. ASSUME NEW r \in Procs, r # p PROVE Owns(r)' /\ Exact(r)'
  <2>1. prog'[r] = prog[r] /\ dir'[r] = dir[r] /\ allocs'[r] = allocs[r] /\ freed'[r] = freed[r]
    BY <1>1, <1>3, <1>14
  <2>2. \A i \in HeapPages : blocks[i] = r => blocks'[i] = r
    BY <1>3, <1>7
  <2> QED
    BY <2>1, <2>2, Frame DEF IInv
<1>15. /\ prog'[p] = pr /\ dir'[p] = m /\ allocs'[p] = al \cup {a} /\ freed'[p] = fr \ A
  BY <1>1, <1>3 DEF A
<1>16. Owns(p)'
  <2> DEFINE Keeps(S) == \A i \in S : i \in HeapPages /\ blocks'[i] = p
  <2>1. \A S : Has(p, S) => Keeps(S) /\ S \cap A = {}
    BY <1>3, <1>7, <1>11, NotNone DEF Has
  <2>2. Keeps(A)
    BY <1>3, <1>11
  <2> DEFINE I == ImageRun(pr)
             S == StackRun(pr)
  <2>3. Has(p, I) /\ Has(p, S)
    BY <1>2, <1>3 DEF Owns
  <2>4. \A c \in al : /\ Has(p, AllocPages(c)) /\ AllocPages(c) \cap (I \cup S \cup fr) = {}
                      /\ \A e \in al \ {c} : AllocPages(c) \cap AllocPages(e) = {}
    BY <1>2 DEF Owns
  <2> HIDE DEF I, S, Keeps
  <2>5. Keeps(I) /\ Keeps(S) /\ I \cap A = {} /\ S \cap A = {}
    BY <2>1, <2>3
  <2>6. \A c \in al : Keeps(AllocPages(c)) /\ AllocPages(c) \cap A = {}
    BY <2>1, <2>4
  <2>7. ASSUME NEW c \in al \cup {a}
        PROVE  /\ Keeps(AllocPages(c)) /\ AllocPages(c) \cap (I \cup S \cup (fr \ A)) = {}
               /\ \A e \in (al \cup {a}) \ {c} : AllocPages(c) \cap AllocPages(e) = {}
    <3>1. CASE c = a
      BY <2>2, <2>5, <2>6, <3>1 DEF A
    <3>2. CASE c # a
      <4>1. c \in al
        BY <3>2
      <4> QED
        BY <2>4, <2>6, <4>1 DEF A
    <3> QED
      BY <3>1, <3>2
  <2>8. \A c \in allocs'[p] : /\ Keeps(AllocPages(c))
                              /\ AllocPages(c) \cap (ImageRun(prog'[p]) \cup StackRun(prog'[p]) \cup freed'[p]) = {}
                              /\ \A e \in allocs'[p] \ {c} : AllocPages(c) \cap AllocPages(e) = {}
    BY <1>15, <2>7 DEF I, S
  <2>9. prog'[p] # None /\ Keeps(ImageRun(prog'[p])) /\ Keeps(StackRun(prog'[p]))
    BY <1>3, <1>15, <2>5 DEF I, S
  <2> QED
    BY <2>8, <2>9 DEF Owns, Has, Keeps
<1>17. Exact(p)'
  <2> SUFFICES ASSUME NEW q \in Pages PROVE Get(m, q) = ExpectedIn(pr, al \cup {a}, fr \ A, q)
    BY <1>15, ExpectedNext DEF Exact
  <2>1. Get(m, q) = IF q \in A THEN Identity(q, FullAccess) ELSE Get(dir[p], q)
    BY <1>9 DEF A
  <2>2. Get(dir[p], q) = ExpectedIn(pr, al, fr, q)
    BY <1>2, <1>3, ExpectedIs DEF Exact
  <2>3. CASE q \in A
    <3>1. \E c \in al \cup {a} : q \in AllocPages(c)
      BY <2>3 DEF A
    <3> QED
      BY <2>1, <2>3, <3>1 DEF ExpectedIn
  <2>4. CASE q \notin A
    <3>1. (\E c \in al \cup {a} : q \in AllocPages(c)) <=> \E c \in al : q \in AllocPages(c)
      BY <2>4 DEF A
    <3>2. q \in fr \ A <=> q \in fr
      BY <2>4
    <3>3. ExpectedIn(pr, al \cup {a}, fr \ A, q) = ExpectedIn(pr, al, fr, q)
      BY <3>1, <3>2, Zenon DEF ExpectedIn
    <3> QED
      BY <2>1, <2>2, <2>4, <3>3
  <2> QED
    BY <2>3, <2>4
<1> QED
  BY <1>12, <1>13, <1>14, <1>16, <1>17 DEF IInv

(* A free: the pages stay at their own address and lose their flags.       *)
LEMMA FreeStep ==
    ASSUME IInv, NEW p \in Procs, NEW a \in allocs[p], process_free(p, a)
    PROVE  IInv'
<1> DEFINE A == AllocPages(a)
           al == allocs[p]
           fr == freed[p]
           pr == prog[p]
           m == Unmap(dir[p], a)
<1>1. /\ dir \in [Procs -> Dirs \cup {None}]
      /\ \A r \in Procs : prog[r] = None <=> dir[r] = None
      /\ blocks \in Owners
      /\ prog \in [Procs -> Program \cup {None}]
      /\ allocs \in [Procs -> SUBSET Allocation]
      /\ freed \in [Procs -> SUBSET HeapPages]
  BY TypedIs DEF IInv
<1>2. Owns(p) /\ Exact(p)
  BY DEF IInv
<1>3. /\ dir' = [dir EXCEPT ![p] = m]
      /\ blocks' = [i \in HeapPages |-> IF i \in A THEN None ELSE blocks[i]]
      /\ allocs' = [allocs EXCEPT ![p] = al \ {a}]
      /\ freed' = [freed EXCEPT ![p] = fr \cup A]
      /\ copied' = NothingCopied /\ prog' = prog
  BY DEF process_free
<1>4. pr # None
  BY <1>2 DEF Owns
<1>5. dir[p] \in Dirs /\ a \in Allocation
  BY <1>1, <1>4
<1>6. \A i \in A : i \in HeapPages /\ blocks[i] = p
  BY <1>2 DEF Owns, Has
<1>7. m \in Dirs /\ \A q \in Pages : Get(m, q) = IF q \in A THEN Identity(q, {}) ELSE Get(dir[p], q)
  <2>1. PICK b \in HeapPages, n \in Sizes : a = [ptr |-> b * PageSize, size |-> n]
    BY <1>5, RecordsAre
  <2>2. A = b .. b + Up(n) - 1 /\ b \in Nat /\ Up(n) \in Nat \ {0}
    BY <2>1, AllocationIs
  <2>3. b + Up(n) - 1 \in A
    BY <2>2
  <2>4. b + Up(n) < PagesTotal
    <3>1. b + Up(n) - 1 < PagesTotal - 1 /\ PagesTotal \in Nat
      BY <1>6, <2>3, HeapIsPages, Constants
    <3> QED
      BY <2>2, <3>1
  <2>5. {} \in SUBSET FullAccess
    OBVIOUS
  <2>6. \E y \in Dirs :
            /\ paging_map_to(dir[p], b * PageSize, b * PageSize,
                             paging_align_address(b * PageSize + n), {}).dir = y
            /\ \A q \in Pages : Get(y, q) = IF q \in AllocPages([ptr |-> b * PageSize, size |-> n])
                                           THEN Identity(q, {}) ELSE Get(dir[p], q)
    BY <1>5, <2>4, <2>5, RemapIs
  <2>7. m = paging_map_to(dir[p], b * PageSize, b * PageSize, paging_align_address(b * PageSize + n), {}).dir
    BY <2>1 DEF Unmap
  <2>8. PICK y \in Dirs :
            m = y /\ \A q \in Pages : Get(y, q) = IF q \in A THEN Identity(q, {}) ELSE Get(dir[p], q)
    <3> HIDE DEF m
    <3> QED
      BY <2>1, <2>6, <2>7, Zenon
  <2> HIDE DEF m, A
  <2> QED
    BY <2>8
<1> HIDE DEF A, m
<1>8. CopyReadsTask'
  BY <1>3, NothingToRead
<1>9. Typed'
  <2>1. /\ dir' \in [Procs -> Dirs \cup {None}] /\ allocs' \in [Procs -> SUBSET Allocation]
        /\ freed' \in [Procs -> SUBSET HeapPages]
    BY <1>1, <1>3, <1>6, <1>7
  <2>2. m # None
    BY <1>7, NotNone
  <2>3. \A r \in Procs : prog'[r] = None <=> dir'[r] = None
    BY <1>1, <1>3, <1>4, <2>2
  <2>4. blocks' \in Owners
    BY <1>1, <1>3 DEF Owners
  <2> QED
    BY <1>1, <1>3, <2>1, <2>3, <2>4, TypedNext
<1>10. ASSUME NEW r \in Procs, r # p PROVE Owns(r)' /\ Exact(r)'
  <2>1. prog'[r] = prog[r] /\ dir'[r] = dir[r] /\ allocs'[r] = allocs[r] /\ freed'[r] = freed[r]
    BY <1>1, <1>3, <1>10
  <2>2. \A i \in HeapPages : blocks[i] = r => blocks'[i] = r
    BY <1>3, <1>6, <1>10
  <2> QED
    BY <2>1, <2>2, Frame DEF IInv
<1>11. /\ prog'[p] = pr /\ dir'[p] = m /\ allocs'[p] = al \ {a} /\ freed'[p] = fr \cup A
  BY <1>1, <1>3
<1> DEFINE I == ImageRun(pr)
           S == StackRun(pr)
<1>12. \A c \in al : /\ Has(p, AllocPages(c)) /\ AllocPages(c) \cap (I \cup S \cup fr) = {}
                     /\ \A e \in al \ {c} : AllocPages(c) \cap AllocPages(e) = {}
  BY <1>2 DEF Owns
<1>13. \A c \in al \ {a} : AllocPages(c) \cap A = {}
  BY <1>12 DEF A
<1>14. Owns(p)'
  <2> DEFINE Keeps(X) == \A i \in X : i \in HeapPages /\ blocks'[i] = p
  <2>1. \A X : Has(p, X) /\ X \cap A = {} => Keeps(X)
    BY <1>3 DEF Has
  <2>2. Has(p, I) /\ Has(p, S)
    BY <1>2, <1>4 DEF Owns
  <2> HIDE DEF I, S, Keeps
  <2>3. Keeps(I) /\ Keeps(S)
    <3>1. A \cap (I \cup S \cup fr) = {}
      BY <1>12 DEF A
    <3>2. I \cap A = {} /\ S \cap A = {}
      BY <3>1
    <3> QED
      BY <2>1, <2>2, <3>2
  <2>4. ASSUME NEW c \in al \ {a}
        PROVE  /\ Keeps(AllocPages(c)) /\ AllocPages(c) \cap (I \cup S \cup (fr \cup A)) = {}
               /\ \A e \in (al \ {a}) \ {c} : AllocPages(c) \cap AllocPages(e) = {}
    <3>1. AllocPages(c) \cap A = {} /\ Has(p, AllocPages(c)) /\ AllocPages(c) \cap (I \cup S \cup fr) = {}
      BY <1>12, <1>13
    <3>2. Keeps(AllocPages(c))
      BY <2>1, <3>1
    <3>3. AllocPages(c) \cap (I \cup S \cup (fr \cup A)) = {}
      BY <3>1
    <3>4. \A e \in (al \ {a}) \ {c} : AllocPages(c) \cap AllocPages(e) = {}
      BY <1>12
    <3> QED
      BY <3>2, <3>3, <3>4
  <2>5. \A c \in allocs'[p] : /\ Keeps(AllocPages(c))
                              /\ AllocPages(c) \cap (ImageRun(prog'[p]) \cup StackRun(prog'[p]) \cup freed'[p]) = {}
                              /\ \A e \in allocs'[p] \ {c} : AllocPages(c) \cap AllocPages(e) = {}
    BY <1>11, <2>4 DEF I, S
  <2>6. prog'[p] # None /\ Keeps(ImageRun(prog'[p])) /\ Keeps(StackRun(prog'[p]))
    BY <1>4, <1>11, <2>3 DEF I, S
  <2> QED
    BY <2>5, <2>6 DEF Owns, Has, Keeps
<1>15. Exact(p)'
  <2> SUFFICES ASSUME NEW q \in Pages PROVE Get(m, q) = ExpectedIn(pr, al \ {a}, fr \cup A, q)
    BY <1>11, ExpectedNext DEF Exact
  <2>1. Get(m, q) = IF q \in A THEN Identity(q, {}) ELSE Get(dir[p], q)
    BY <1>7
  <2>2. Get(dir[p], q) = ExpectedIn(pr, al, fr, q)
    BY <1>2, <1>4, ExpectedIs DEF Exact
  <2>3. CASE q \in A
    <3>1. ~ \E c \in al \ {a} : q \in AllocPages(c)
      BY <1>13, <2>3
    <3> QED
      BY <2>1, <2>3, <3>1 DEF ExpectedIn
  <2>4. CASE q \notin A
    <3>1. (\E c \in al \ {a} : q \in AllocPages(c)) <=> \E c \in al : q \in AllocPages(c)
      BY <2>4 DEF A
    <3>2. q \in fr \cup A <=> q \in fr
      BY <2>4
    <3>3. ExpectedIn(pr, al \ {a}, fr \cup A, q) = ExpectedIn(pr, al, fr, q)
      BY <3>1, <3>2, Zenon DEF ExpectedIn
    <3> QED
      BY <2>1, <2>2, <2>4, <3>3
  <2> QED
    BY <2>3, <2>4
<1> QED
  BY <1>8, <1>9, <1>10, <1>14, <1>15 DEF IInv

(* The pages of a program exist.                                           *)
LEMMA ProgramOnPages ==
    ASSUME NEW pr \in Program, NEW q \in PagesIn(pr)
    PROVE  q \in Pages /\ q \in Nat
<1>1. PICK b \in HeapPages, st \in HeapPages :
          /\ b \in Nat /\ IsImage(pr.img) /\ pr.base = b * PageSize
          /\ PagesOf(pr.img.size) = Up(pr.img.size) /\ Up(pr.img.size) \in Nat \ {0}
  BY ProgramIs
<1>2. PageSize \in Nat \ {0} /\ PagesTotal \in Nat /\ Space \in Nat /\ Space = PagesTotal * PageSize
  BY Constants
<1>3. CASE pr.img.flat
  <2> DEFINE size == pr.img.size
             u == Up(size)
  <2>1. size \in 1 .. Space - PageSize /\ ProgramPage * PageSize + size + PageSize <= Space /\ ProgramPage \in Nat
    BY <1>1, <1>3, AddressSpaceAssumption DEF IsImage
  <2>2. size \in Nat /\ u * PageSize < size + PageSize
    BY <1>2, <2>1, UpIs
  <2>3. q \in ProgramPage .. ProgramPage + u - 1 /\ u \in Nat \ {0}
    BY <1>1, <1>3 DEF PagesIn
  <2> HIDE DEF size, u
  <2>4. (ProgramPage + u) * PageSize = ProgramPage * PageSize + u * PageSize
    BY <1>2, <2>1, <2>3
  <2>5. ProgramPage * PageSize \in Nat /\ u * PageSize \in Nat /\ ProgramPage + u \in Nat
    BY <1>2, <2>1, <2>3
  <2>6. (ProgramPage + u) * PageSize < PagesTotal * PageSize
    BY <1>2, <2>1, <2>2, <2>4, <2>5
  <2>7. ProgramPage + u < PagesTotal
    BY <1>2, <2>5, <2>6, PageOrder
  <2> QED
    BY <1>2, <2>1, <2>3, <2>7 DEF Pages
<1>4. CASE ~pr.img.flat
  <2>1. PICK i \in DOMAIN pr.img.segs : q \in SegPages(pr.base, pr.img.segs[i])
    BY <1>4 DEF PagesIn
  <2>2. IsSegment(pr.img.segs[i]) /\ pr.base \in Nat
    BY <1>1, SegmentsAre, PageOrder
  <2> DEFINE f == SegPage(pr.img.segs[i])
             c == SegCount(pr.img.segs[i], pr.base)
  <2>3. q \in f .. f + c - 1 /\ f \in Nat /\ c \in Nat \ {0} /\ f + c <= PagesTotal
    BY <2>1, <2>2, SegPagesAre
  <2> HIDE DEF f, c
  <2> QED
    BY <1>2, <2>3 DEF Pages
<1> QED
  BY <1>3, <1>4

(* A system call reads a string.                                           *)
LEMMA CopyStep ==
    ASSUME IInv, NEW p \in Procs, NEW v \in Addresses, copy_string(p, v)
    PROVE  IInv'
<1> DEFINE t == FirstFit(blocks, 1)
           d == dir[p]
           pr == prog[p]
           c == copy_string_from_task(d, v, t * PageSize, StringLength)
           old == paging_get(d, t * PageSize)
           m == paging_map(d, t * PageSize, t * PageSize, FullAccess).dir
           z == paging_set(m, t * PageSize, old).dir
           B == [i \in 1 .. StringLength |-> paging_get_physical_address(m, v + i - 1)]
<1>1. /\ dir \in [Procs -> Dirs \cup {None}]
      /\ \A r \in Procs : prog[r] = None <=> dir[r] = None
      /\ blocks \in Owners
      /\ prog \in [Procs -> Program \cup {None}]
      /\ allocs \in [Procs -> SUBSET Allocation]
      /\ freed \in [Procs -> SUBSET HeapPages]
  BY TypedIs DEF IInv
<1>2. Owns(p) /\ Exact(p)
  BY DEF IInv
<1>3. /\ pr # None /\ Runs(blocks, 1) # {}
      /\ \A i \in 0 .. StringLength - 1 : (v + i) \div PageSize \in OwnPages(p)
      /\ dir' = [dir EXCEPT ![p] = c.dir]
      /\ copied' = [proc |-> p, at |-> v, bytes |-> c.bytes]
      /\ UNCHANGED <<prog, blocks, allocs, freed>>
  BY DEF copy_string
<1>4. c.dir = z /\ c.bytes = B
  BY DEF copy_string_from_task
<1> HIDE DEF c
<1>5. d \in Dirs /\ pr \in Program
  BY <1>1, <1>3
<1>6. t \in HeapPages /\ t \in Nat /\ t \in Pages /\ blocks[t] = None
  <2>1. /\ t \in HeapPages /\ t \in Nat
        /\ \A i \in t .. t + 1 - 1 : i \in HeapPages /\ blocks[i] = None
    BY <1>3, FirstFitIs
  <2>2. t \in t .. t + 1 - 1
    BY <2>1
  <2> QED
    BY <2>1, <2>2, HeapIsPages
<1> HIDE DEF t, d
<1>7. m \in Dirs /\ \A q \in Pages : q # t => Get(m, q) = Get(d, q)
  <2>1. \E n : /\ paging_map(d, t * PageSize, t * PageSize, FullAccess) = [dir |-> n, res |-> 0]
               /\ Sets(d, n, t, FrameEntry(t, FullAccess))
    BY <1>5, <1>6, MapIs
  <2>2. PICK n : m = n /\ Sets(d, n, t, FrameEntry(t, FullAccess))
    BY <2>1
  <2> HIDE DEF m
  <2> QED
    BY <2>2 DEF Sets
<1>8. z \in Dirs /\ \A q \in Pages : Get(z, q) = Get(d, q)
  <2>1. old = Get(d, t) /\ old \in Entry
    BY <1>5, <1>6, GetIs DEF Get
  <2> HIDE DEF m, old
  <2>2. \E n : paging_set(m, t * PageSize, old) = [dir |-> n, res |-> 0] /\ Sets(m, n, t, old)
    BY <1>6, <1>7, <2>1, SetIs
  <2>3. PICK n : z = n /\ Sets(m, n, t, old)
    BY <2>2
  <2> HIDE DEF z
  <2> QED
    BY <1>7, <2>1, <2>3 DEF Sets
<1> HIDE DEF m, z, old
<1>9. Typed'
  <2>1. dir' \in [Procs -> Dirs \cup {None}]
    BY <1>1, <1>3, <1>4, <1>8
  <2>2. z # None
    BY <1>8, NotNone
  <2>3. \A r \in Procs : prog'[r] = None <=> dir'[r] = None
    BY <1>1, <1>3, <1>4, <2>2
  <2> QED
    BY <1>1, <1>3, <2>1, <2>3, TypedNext
<1>10. ASSUME NEW r \in Procs, r # p PROVE Owns(r)' /\ Exact(r)'
  <2>1. prog'[r] = prog[r] /\ dir'[r] = dir[r] /\ allocs'[r] = allocs[r] /\ freed'[r] = freed[r] /\ blocks' = blocks
    BY <1>1, <1>3, <1>10
  <2> QED
    BY <2>1, Frame DEF IInv
<1>11. Owns(p)'
  BY <1>2, <1>3, Zenon DEF Owns, Has
<1>12. \A q : Expected(p, q)' = Expected(p, q)
  BY <1>3, ExpectedIs, ExpectedNext
<1>13. Exact(p)'
  <2>1. dir'[p] = z
    BY <1>1, <1>3, <1>4
  <2> QED
    BY <1>2, <1>3, <1>8, <1>12, <2>1 DEF Exact, d
<1>14. CopyReadsTask'
  <2>1. copied'.proc = p /\ copied'.at = v /\ copied'.bytes = B
    BY <1>3, <1>4
  <2>2. ProgramPages(p)' = ProgramPages(p)
    BY <1>3, ExpectedIs, ExpectedNext
  <2>3. SUFFICES ASSUME ProgramPages(p) \cap HeapPages = {}, NEW i \in 1 .. StringLength
                 PROVE  B[i] = Expected(p, (v + i - 1) \div PageSize).frame + ((v + i - 1) % PageSize)
    <3>1. DOMAIN B = 1 .. StringLength
      OBVIOUS
    <3> HIDE DEF B
    <3> QED
      BY <1>12, <2>1, <2>2, <3>1 DEF CopyReadsTask
  <2> DEFINE w == v + i - 1
             q == w \div PageSize
  <2>4. w \in Nat /\ i - 1 \in 0 .. StringLength - 1 /\ v + (i - 1) = w
    <3>1. v \in Nat /\ StringLength \in Nat
      BY AddressSpaceAssumption, Constants DEF Addresses
    <3> QED
      BY <3>1
  <2>5. B[i] = paging_get_physical_address(m, w)
    OBVIOUS
  <2>6. q \in OwnPages(p)
    <3> HIDE DEF w
    <3>1. (v + (i - 1)) \div PageSize \in OwnPages(p)
      BY <1>3, <2>4
    <3> QED
      BY <2>4, <3>1
  <2> HIDE DEF w, B
  <2>7. q \in Nat /\ w % PageSize \in 0 .. PageSize - 1 /\ w = q * PageSize + (w % PageSize)
        /\ paging_align_to_lower_page_addr(w) = q * PageSize
    BY <2>4, PageOf
  <2> HIDE DEF q
  <2>8. q \in Pages /\ q # t
    <3>1. CASE q \in ProgramPages(p)
      <4>1. q \in PagesIn(pr)
        BY <3>1, ExpectedIs
      <4> QED
        BY <1>5, <1>6, <2>3, <3>1, <4>1, ProgramOnPages
    <3>2. CASE q \in StackRange
      BY <1>6, <3>2, StackIs
    <3>3. CASE \E a \in allocs[p] : q \in AllocPages(a)
      <4>1. q \in HeapPages /\ blocks[q] = p
        BY <1>2, <3>3 DEF Owns, Has
      <4> QED
        BY <1>6, <4>1, HeapIsPages, NotNone
    <3> QED
      BY <2>6, <3>1, <3>2, <3>3 DEF OwnPages
  <2>9. Get(m, q) = Expected(p, q)
    BY <1>2, <1>3, <1>7, <2>8 DEF Exact, d
  <2>10. paging_get_physical_address(m, w) = Get(m, q).frame + (w - q * PageSize)
    BY <2>7 DEF paging_get_physical_address, Get
  <2>11. w - q * PageSize = w % PageSize
    <3> DEFINE x == w % PageSize
    <3>1. x \in 0 .. PageSize - 1 /\ w = q * PageSize + x /\ q * PageSize \in Nat /\ PageSize \in Nat
      BY <2>7, PageOrder, Constants
    <3> HIDE DEF x
    <3>2. w - q * PageSize = x
      BY <3>1
    <3> QED
      BY <3>2 DEF x
  <2>12. B[i] = Expected(p, q).frame + (w % PageSize)
    BY <2>5, <2>9, <2>10, <2>11
  <2> QED
    BY <2>12 DEF q, w
<1> QED
  BY <1>9, <1>10, <1>11, <1>13, <1>14 DEF IInv

LEMMA NextIInv == IInv /\ [Next]_vars => IInv'
<1> SUFFICES ASSUME IInv, [Next]_vars PROVE IInv'
  OBVIOUS
<1>1. ASSUME NEW p \in Procs, NEW img \in Images, process_load(p, img) PROVE IInv'
  BY <1>1, LoadStep
<1>2. ASSUME NEW p \in Procs, process_terminate(p) PROVE IInv'
  BY <1>2, TerminateStep
<1>3. ASSUME NEW p \in Procs, NEW size \in Sizes, process_malloc(p, size) PROVE IInv'
  BY <1>3, MallocStep
<1>4. ASSUME NEW p \in Procs, NEW a \in allocs[p], process_free(p, a) PROVE IInv'
  BY <1>4, FreeStep
<1>5. ASSUME NEW p \in Procs, NEW v \in Addresses, copy_string(p, v) PROVE IInv'
  BY <1>5, CopyStep
<1>6. CASE UNCHANGED vars
  <2>1. dir' = dir /\ prog' = prog /\ blocks' = blocks /\ allocs' = allocs /\ freed' = freed /\ copied' = copied
    BY <1>6 DEF vars
  <2>2. \A p \in Procs : Owns(p)' /\ Exact(p)'
    BY <2>1, Frame DEF IInv
  <2>3. Typed'
    BY <2>1, TypedIs, TypedNext DEF IInv
  <2>4. CopyReadsTask'
    <3>1. \A p, q : Expected(p, q)' = Expected(p, q) /\ ProgramPages(p)' = ProgramPages(p)
      BY <2>1, ExpectedIs, ExpectedNext
    <3> QED
      BY <2>1, <3>1 DEF IInv, CopyReadsTask
  <2> QED
    BY <2>2, <2>3, <2>4 DEF IInv
<1> QED
  BY <1>1, <1>2, <1>3, <1>4, <1>5, <1>6, Zenon DEF Next

----------------------------------------------------------------------------
(* What the invariant says of a loaded process.                            *)

(* The frames of a writable segment, outside the image.                    *)
LEMMA OverhangHas ==
    ASSUME NEW pr, ~Fits(pr), NEW n \in DOMAIN pr.img.segs, pr.img.segs[n].w,
           NEW f \in SegFrames(pr.base, pr.img.segs[n]), f \notin ImageRun(pr)
    PROVE  f \in Overhang(pr)
BY DEF Overhang

(* Every writable page has a frame of the process, or one that a segment   *)
(* too long for its file claims behind the image.                          *)
LEMMA WritableIsOwn == IInv => OwnWritable
<1> SUFFICES ASSUME IInv, NEW p \in Procs, prog[p] # None, NEW q \in Pages,
                    WRITABLE \in Get(dir[p], q).flags
             PROVE  Get(dir[p], q).frame \div PageSize
                        \in {b \in HeapPages : blocks[b] = p} \cup Overhang(prog[p])
  BY DEF OwnWritable, Pages, Get
<1> DEFINE pr == prog[p]
           e == Get(dir[p], q)
           Own == {b \in HeapPages : blocks[b] = p}
<1>1. pr \in Program /\ Owns(p) /\ Exact(p)
  BY TypedIs DEF IInv
<1>2. e = ExpectedIn(pr, allocs[p], freed[p], q) /\ WRITABLE \in e.flags
  BY <1>1, ExpectedIs DEF Exact
<1>3. PageSize \in Nat \ {0} /\ PagesTotal \in Nat /\ q \in Nat
  BY Constants, IndexesExist
<1>4. PICK b \in HeapPages, st \in HeapPages :
              /\ b \in Nat /\ st \in Nat /\ IsImage(pr.img)
              /\ pr.base = b * PageSize /\ pr.stack = st * PageSize
              /\ PagesOf(pr.img.size) = Up(pr.img.size) /\ Up(pr.img.size) \in Nat \ {0}
              /\ ImageRun(pr) = b .. b + Up(pr.img.size) - 1
              /\ StackRun(pr) = st .. st + StackPages - 1
  BY <1>1, ProgramIs
<1>5. Has(p, ImageRun(pr)) /\ Has(p, StackRun(pr)) /\ \A a \in allocs[p] : Has(p, AllocPages(a))
  BY <1>1 DEF Owns
<1>6. \A f \in Nat : (f * PageSize) \div PageSize = f
  BY PageStart
<1>7. \A X, g : \A f \in Nat : Has(p, X) /\ f \in X /\ g = f * PageSize => g \div PageSize \in Own
  <2>1. \A X : \A f \in Nat : Has(p, X) /\ f \in X => (f * PageSize) \div PageSize \in Own
    BY <1>6 DEF Has
  <2> QED
    BY <2>1, Zenon
<1> SUFFICES e.frame \div PageSize \in Own \cup Overhang(pr)
  OBVIOUS
<1>8. e.frame \div PageSize \in Own => e.frame \div PageSize \in Own \cup Overhang(pr)
  OBVIOUS
<1> HIDE DEF e, Own, pr
<1>9. CASE \E a \in allocs[p] : q \in AllocPages(a)
  <2>1. e = Identity(q, FullAccess)
    BY <1>2, <1>9 DEF ExpectedIn
  <2>2. e.frame = q * PageSize
    BY <2>1 DEF Identity
  <2> QED
    BY <1>3, <1>5, <1>7, <1>8, <1>9, <2>2, Zenon
<1>10. CASE ~(\E a \in allocs[p] : q \in AllocPages(a)) /\ q \in freed[p]
  <2>1. e = Identity(q, {})
    BY <1>2, <1>10 DEF ExpectedIn
  <2> QED
    BY <1>2, <2>1 DEF Identity
<1>11. CASE ~(\E a \in allocs[p] : q \in AllocPages(a)) /\ q \notin freed[p] /\ q \in StackRange
  <2>1. e.frame = pr.stack + (q - StackPage) * PageSize
    BY <1>2, <1>11 DEF ExpectedIn
  <2> DEFINE f == st + (q - StackPage)
  <2>2. StackPage \in Nat /\ StackPages \in Nat
    BY StackIs
  <2>3. f \in StackRun(pr) /\ f \in Nat
    BY <1>3, <1>4, <1>11, <2>2, SMTT(20) DEF StackRange
  <2>4. e.frame = f * PageSize
    BY <1>3, <1>4, <2>1, <2>2
  <2> HIDE DEF f
  <2> QED
    BY <1>5, <1>7, <1>8, <2>3, <2>4, Zenon
<1>12. CASE /\ ~(\E a \in allocs[p] : q \in AllocPages(a)) /\ q \notin freed[p] /\ q \notin StackRange
            /\ q \in PagesIn(pr)
  <2>1. e = EntryIn(pr, q)
    BY <1>2, <1>12 DEF ExpectedIn
  <2>2. CASE pr.img.flat
    <3>1. e.frame = pr.base + (q - ProgramPage) * PageSize
      BY <2>1, <2>2 DEF EntryIn
    <3> DEFINE f == b + (q - ProgramPage)
    <3>2. ProgramPage \in Nat
      BY AddressSpaceAssumption
    <3>3. q \in ProgramPage .. ProgramPage + Up(pr.img.size) - 1
      BY <1>4, <1>12, <2>2 DEF PagesIn
    <3>4. f \in ImageRun(pr) /\ f \in Nat
      BY <1>3, <1>4, <3>2, <3>3
    <3>5. e.frame = f * PageSize
      BY <1>3, <1>4, <3>1, <3>2
    <3> HIDE DEF f
    <3> QED
      BY <1>5, <1>7, <1>8, <3>4, <3>5, Zenon
  <2>3. CASE ~pr.img.flat
    <3> DEFINE segs == pr.img.segs
               on == {i \in DOMAIN segs : q \in SegPages(pr.base, segs[i])}
               j == Max(on)
               s == segs[j]
    <3>1. on # {} /\ on \in SUBSET (1 .. Len(segs)) /\ Len(segs) \in Nat
      <4>1. DOMAIN segs = 1 .. Len(segs) /\ Len(segs) \in Nat
        BY <1>4, SegmentsAre
      <4> QED
        BY <1>12, <2>3, <4>1 DEF PagesIn
    <3>2. j \in on
      BY <3>1, MaxIs, Zenon
    <3>3. e.frame = (PhysicalAddress(s, pr.base) \div PageSize + (q - s.vaddr \div PageSize)) * PageSize
      <4>1. EntryIn(pr, q).frame = (PhysicalAddress(s, pr.base) \div PageSize + (q - s.vaddr \div PageSize)) * PageSize
        BY <2>3 DEF EntryIn
      <4> QED
        BY <2>1, <4>1
    <3>4. /\ j \in 1 .. Len(segs) /\ j \in DOMAIN segs /\ q \in SegPages(pr.base, s)
          /\ Fits(pr) => s.offset + s.memsz <= Up(pr.img.size) * PageSize
      <4> HIDE DEF j
      <4> QED
        BY <1>4, <3>1, <3>2 DEF Fits
    <3>4a. s.w
      <4>1. EntryIn(pr, q).flags = SegmentFlags(s)
        BY <2>3 DEF EntryIn
      <4> QED
        BY <1>2, <2>1, <4>1 DEF SegmentFlags, WRITABLE, PRESENT, ACCESS_ALL
    <3> HIDE DEF on, j
    <3>5. IsSegment(s) /\ pr.base \in Nat
      BY <1>4, <3>4, SegmentsAre, PageOrder
    <3> DEFINE x == PhysicalAddress(s, pr.base)
               u == Up(pr.img.size)
               sf == SegFrame(s, pr.base)
               sp == SegPage(s)
               c == SegCount(s, pr.base)
               w == Up(x + s.memsz)
               f == sf + (q - sp)
    <3>6. q \in sp .. sp + c - 1 /\ sp \in Nat /\ sf \in Nat /\ c \in Nat \ {0} /\ c = w - sf
      BY <3>4, <3>5, SegPagesAre DEF SegCount
    <3>7. s.offset \in Nat /\ s.memsz \in Nat \ {0} /\ x \in Nat
      BY <3>5, SegmentTypes
    <3>8. e.frame = f * PageSize
      BY <3>3 DEF SegFrame, SegPage
    <3>8a. f \in SegFrames(pr.base, s) /\ f \in Nat
      <4>1. SegFrames(pr.base, s) = sf .. w - 1 /\ w \in Nat
        BY <3>7, BytesOnPages DEF SegFrames, SegFrame
      <4> HIDE DEF x, sf, sp, c, w
      <4> QED
        BY <1>3, <3>6, <4>1
    <3>8b. CASE ~Fits(pr) /\ f \notin ImageRun(pr)
      <4> HIDE DEF f
      <4>1. f \in Overhang(pr)
        BY <3>4, <3>4a, <3>8a, <3>8b, OverhangHas
      <4>2. e.frame \div PageSize = f
        BY <1>6, <3>8, <3>8a
      <4> QED
        BY <4>1, <4>2
    <3>8c. CASE f \in ImageRun(pr)
      <4> HIDE DEF f
      <4> QED
        BY <1>5, <1>7, <1>8, <3>8, <3>8a, <3>8c, Zenon
    <3>8d. CASE Fits(pr)
      <4>1. b + u - 1 \in HeapPages
        <5>1. b + u - 1 \in ImageRun(pr)
          BY <1>4
        <5> QED
          BY <1>5, <5>1 DEF Has
      <4>2. b + u < PagesTotal
        <5>1. b + u - 1 < PagesTotal - 1
          BY <4>1, HeapIsPages
        <5> HIDE DEF u
        <5>2. u \in Nat
          BY <1>4 DEF u
        <5> QED
          BY <1>3, <1>4, <5>1, <5>2
      <4>3. x = b * PageSize + s.offset /\ x + s.memsz <= (b + u) * PageSize
        <5> HIDE DEF x, u, s, segs
        <5>1. u \in Nat /\ b * PageSize \in Nat /\ u * PageSize \in Nat /\ b + u \in Nat
              /\ s.offset + s.memsz <= u * PageSize
          BY <1>3, <1>4, <3>4, <3>8d DEF u
        <5>2. (b + u) * PageSize = b * PageSize + u * PageSize
          BY <1>3, <1>4, <5>1
        <5>3. (b + u) * PageSize \in Nat /\ (b + u) * PageSize + PageSize <= PagesTotal * PageSize
          BY <1>3, <4>2, <5>1, PageOrder
        <5>4. Space = PagesTotal * PageSize /\ Space \in Nat
          BY Constants
        <5>5. b * PageSize + s.offset \in 0 .. Space - 1
          BY <1>3, <3>7, <5>1, <5>2, <5>3, <5>4
        <5>6. x = (b * PageSize + s.offset) % Space
          BY <1>4 DEF PhysicalAddress, x
        <5> DEFINE y == b * PageSize + s.offset
        <5>7. y % Space = y
          <6> HIDE DEF y
          <6>1. y \in 0 .. Space - 1
            BY <5>5 DEF y
          <6> QED
            BY <5>4, <6>1
        <5>8. x = y
          BY <5>6, <5>7
        <5> QED
          BY <3>7, <5>1, <5>2, <5>8
      <4>4. b <= sf /\ w <= b + u
        <5> HIDE DEF x, u, s, segs
        <5>1. sf = x \div PageSize
          BY DEF SegFrame, x
        <5>2. u \in Nat /\ b * PageSize \in Nat /\ b * PageSize <= x /\ (b * PageSize) \div PageSize = b
          BY <1>3, <1>4, <1>6, <3>7, <4>3 DEF u
        <5>3. b <= sf
          BY <3>7, <5>1, <5>2, DivMonotonic
        <5>4. x + s.memsz \in Nat /\ b + u \in Nat
          <6> HIDE DEF sf, sp, c, w, f
          <6>1. x + s.memsz \in Nat
            BY <3>7
          <6>2. b + u \in Nat
            BY <1>3, <5>2
          <6> QED
            BY <6>1, <6>2
        <5>5. w \in Nat /\ w * PageSize < x + s.memsz + PageSize
          BY <5>4, UpIs
        <5> HIDE DEF w, sf
        <5>6. (b + u + 1) * PageSize = (b + u) * PageSize + PageSize /\ (b + u) * PageSize \in Nat
          BY <1>3, <5>4
        <5>7. w * PageSize < (b + u + 1) * PageSize
          <6>1. w * PageSize \in Nat
            BY <5>5, PageOrder
          <6> QED
            BY <1>3, <3>7, <4>3, <5>5, <5>6, <6>1
        <5>8. w < b + u + 1
          BY <5>4, <5>5, <5>7, PageOrder
        <5> QED
          BY <5>3, <5>4, <5>5, <5>8
      <4>5. f \in ImageRun(pr) /\ f \in Nat
        <5>1. u \in Nat /\ ImageRun(pr) = b .. b + u - 1
          BY <1>4
        <5>2. w \in Nat
          BY <3>7, UpIs
        <5> HIDE DEF sf, sp, c, w, u, x
        <5> QED
          BY <1>3, <1>4, <3>6, <4>4, <5>1, <5>2
      <4> HIDE DEF f
      <4> QED
        BY <1>5, <1>7, <1>8, <3>8, <4>5, Zenon
    <3> QED
      BY <3>8b, <3>8c, <3>8d
  <2> QED
    BY <2>2, <2>3
<1>13. CASE /\ ~(\E a \in allocs[p] : q \in AllocPages(a)) /\ q \notin freed[p] /\ q \notin StackRange
            /\ q \notin PagesIn(pr)
  <2>1. e = Identity(q, {PRESENT, ACCESS_ALL})
    BY <1>2, <1>13 DEF ExpectedIn
  <2> QED
    BY <1>2, <2>1 DEF Identity, WRITABLE, PRESENT, ACCESS_ALL
<1> QED
  BY <1>9, <1>10, <1>11, <1>12, <1>13

(* Two addresses with the same rest, k bytes on.                           *)
LEMMA SameRest ==
    ASSUME NEW v \in Nat, NEW x \in Nat, NEW k \in Nat, v % PageSize = x % PageSize
    PROVE  \E h \in Nat, g \in 0 .. PageSize - 1 :
              /\ (v + k) \div PageSize = v \div PageSize + h /\ v + k = (v \div PageSize + h) * PageSize + g
              /\ (x + k) \div PageSize = x \div PageSize + h /\ x + k = (x \div PageSize + h) * PageSize + g
<1> DEFINE vq == v \div PageSize
           xq == x \div PageSize
           r == v % PageSize
           h == (r + k) \div PageSize
           g == (r + k) % PageSize
<1>1. PageSize \in Nat \ {0}
  BY Constants
<1>2. /\ vq \in Nat /\ r \in 0 .. PageSize - 1 /\ v = vq * PageSize + r
      /\ xq \in Nat /\ x = xq * PageSize + r
  BY PageOf
<1> HIDE DEF vq, xq, r
<1>3. r + k \in Nat
  BY <1>1, <1>2
<1>4. h \in Nat /\ g \in 0 .. PageSize - 1 /\ r + k = h * PageSize + g
  BY <1>3, PageOf
<1> HIDE DEF h, g
<1>5. /\ (vq + h) * PageSize = vq * PageSize + h * PageSize /\ vq * PageSize \in Nat
      /\ (xq + h) * PageSize = xq * PageSize + h * PageSize /\ xq * PageSize \in Nat
      /\ h * PageSize \in Nat
  BY <1>1, <1>2, <1>4
<1>6. v + k = (vq + h) * PageSize + g /\ x + k = (xq + h) * PageSize + g
  BY <1>1, <1>2, <1>4, <1>5
<1>7. vq + h \in Nat /\ xq + h \in Nat /\ v + k \in Nat /\ x + k \in Nat
  BY <1>2, <1>4
<1>8. (v + k) \div PageSize = vq + h /\ (x + k) \div PageSize = xq + h
  BY <1>4, <1>6, <1>7, PageUnique
<1>9. \E i \in Nat, j \in 0 .. PageSize - 1 :
              /\ (v + k) \div PageSize = vq + i /\ v + k = (vq + i) * PageSize + j
              /\ (x + k) \div PageSize = xq + i /\ x + k = (xq + i) * PageSize + j
  BY <1>4, <1>6, <1>8, Zenon
<1> QED
  BY <1>9, Zenon DEF vq, xq

(* Every byte of the file is where the program expects it.                 *)
LEMMA FileIsMapped == IInv => ImageMapped
<1> SUFFICES ASSUME IInv, NEW p \in Procs, prog[p] # None,
                    \A i \in DOMAIN prog[p].img.segs :
                        /\ prog[p].img.segs[i].offset + prog[p].img.segs[i].filesz <= prog[p].img.size
                        /\ prog[p].img.segs[i].vaddr % PageSize = prog[p].img.segs[i].offset % PageSize
                        /\ SegPages(prog[p].base, prog[p].img.segs[i]) \cap (StackRange \cup HeapPages) = {}
                        /\ \A j \in DOMAIN prog[p].img.segs \ {i} :
                              SegPages(prog[p].base, prog[p].img.segs[i]) \cap SegPages(prog[p].base, prog[p].img.segs[j]) = {},
                    NEW i \in DOMAIN prog[p].img.segs, NEW k \in 0 .. prog[p].img.segs[i].filesz - 1
             PROVE  paging_get_physical_address(dir[p], prog[p].img.segs[i].vaddr + k)
                        = prog[p].base + prog[p].img.segs[i].offset + k
  BY Zenon DEF ImageMapped
<1> DEFINE pr == prog[p]
           segs == pr.img.segs
           s == segs[i]
           Pg(j) == SegPages(pr.base, segs[j])
           u == Up(pr.img.size)
           x == PhysicalAddress(s, pr.base)
<1>1. pr \in Program /\ Owns(p) /\ Exact(p) /\ freed[p] \subseteq HeapPages
  BY TypedIs DEF IInv
<1>2. PICK b \in HeapPages, st \in HeapPages :
              /\ b \in Nat /\ IsImage(pr.img) /\ pr.base = b * PageSize
              /\ PagesOf(pr.img.size) = u /\ u \in Nat \ {0}
              /\ ImageRun(pr) = b .. b + u - 1
  BY <1>1, ProgramIs
<1>3. /\ s.offset + s.filesz <= pr.img.size /\ s.vaddr % PageSize = s.offset % PageSize
      /\ Pg(i) \cap (StackRange \cup HeapPages) = {}
      /\ \A j \in DOMAIN segs \ {i} : Pg(i) \cap Pg(j) = {}
      /\ i \in DOMAIN segs /\ k \in 0 .. s.filesz - 1
  OBVIOUS
<1>4. DOMAIN segs = 1 .. Len(segs) /\ Len(segs) \in Nat /\ IsSegment(s) /\ ~pr.img.flat
  <2>1. DOMAIN segs = 1 .. Len(segs) /\ Len(segs) \in Nat /\ \A j \in 1 .. Len(segs) : IsSegment(segs[j])
    BY <1>2, SegmentsAre
  <2>2. pr.img.flat => segs = <<>>
    BY <1>2 DEF IsImage
  <2>3. segs # <<>>
    BY <1>3
  <2> QED
    BY <1>3, <2>1, <2>2, <2>3
<1>5. PageSize \in Nat \ {0} /\ PagesTotal \in Nat /\ Space \in Nat /\ Space = PagesTotal * PageSize
  BY Constants
<1>6. pr.base \in Nat /\ pr.img.size \in Nat
  <2>1. pr.img.size \in 1 .. Space - PageSize
    BY <1>2 DEF IsImage
  <2> QED
    BY <1>2, <1>5, <2>1, PageOrder
<1>7. s.vaddr \in Nat /\ s.offset \in Nat /\ s.filesz \in Nat /\ s.memsz \in Nat \ {0} /\ s.filesz <= s.memsz /\ x \in Nat
  BY <1>4, <1>6, SegmentTypes
<1>8. k \in Nat /\ k < s.filesz
  BY <1>3, <1>7, SMTT(20)
<1>9. x = pr.base + s.offset
  <2>1. b + u - 1 \in ImageRun(pr)
    BY <1>2
  <2>2. b + u - 1 \in HeapPages
    BY <1>1, <2>1 DEF Owns, Has
  <2>3. b + u - 1 < PagesTotal - 1
    BY <2>2, HeapIsPages
  <2>4. pr.img.size <= u * PageSize
    BY <1>6, UpIs
  <2> HIDE DEF u
  <2>5. b + u \in Nat /\ b + u < PagesTotal
    BY <1>2, <1>5, <2>3
  <2>6. (b + u) * PageSize \in Nat /\ (b + u) * PageSize + PageSize <= PagesTotal * PageSize
    BY <1>5, <2>5, PageOrder
  <2>7. (b + u) * PageSize = b * PageSize + u * PageSize /\ u * PageSize \in Nat /\ b * PageSize \in Nat
    BY <1>2, <1>5
  <2> DEFINE y == pr.base + s.offset
  <2>8. y \in 0 .. Space - 1
    <3> DEFINE o == s.offset
               f == s.filesz
               z == pr.img.size
               B == b * PageSize
               U == u * PageSize
    <3>1. /\ o \in Nat /\ f \in Nat /\ z \in Nat /\ B \in Nat /\ U \in Nat
          /\ o + f <= z /\ z <= U /\ B + U + PageSize <= Space /\ k < f /\ k \in Nat
      BY <1>3, <1>5, <1>6, <1>7, <1>8, <2>4, <2>6, <2>7
    <3>2. y = B + o
      BY <1>2
    <3> HIDE DEF o, f, z, B, U, y
    <3> QED
      BY <1>5, <3>1, <3>2
  <2>9. x = y % Space
    BY DEF PhysicalAddress
  <2> HIDE DEF y, x
  <2>10. y % Space = y
    BY <1>5, <2>8
  <2> QED
    BY <2>9, <2>10 DEF y
<1>10. s.vaddr % PageSize = x % PageSize
  <2> DEFINE oq == s.offset \div PageSize
             r == s.offset % PageSize
  <2>1. oq \in Nat /\ r \in 0 .. PageSize - 1 /\ s.offset = oq * PageSize + r
    BY <1>7, PageOf
  <2>2. s.vaddr % PageSize = r
    BY <1>3
  <2> HIDE DEF oq, r, x, s
  <2>3. (b + oq) * PageSize = b * PageSize + oq * PageSize /\ b * PageSize \in Nat /\ oq * PageSize \in Nat
    BY <1>2, <1>5, <2>1
  <2>4. x = (b + oq) * PageSize + r /\ b + oq \in Nat
    BY <1>2, <1>5, <1>9, <2>1, <2>3
  <2>5. x % PageSize = r
    BY <1>7, <2>1, <2>4, PageUnique
  <2> QED
    BY <2>2, <2>5
<1> DEFINE v == s.vaddr
           vq == v \div PageSize
           xq == x \div PageSize
<1>11. PICK h \in Nat, g \in 0 .. PageSize - 1 :
              /\ (v + k) \div PageSize = vq + h /\ v + k = (vq + h) * PageSize + g
              /\ (x + k) \div PageSize = xq + h /\ x + k = (xq + h) * PageSize + g
  <2>1. v \in Nat /\ x \in Nat /\ k \in Nat /\ v % PageSize = x % PageSize
    BY <1>7, <1>8, <1>10
  <2> HIDE DEF v, x
  <2> QED
    BY <2>1, SameRest
<1> DEFINE q == vq + h
           c == SegCount(s, pr.base)
<1>12. /\ Pg(i) = vq .. vq + c - 1 /\ vq \in Nat /\ xq \in Nat /\ c \in Nat \ {0} /\ vq + c <= PagesTotal
       /\ c = Up(x + s.memsz) - xq
  BY <1>4, <1>6, SegPagesAre DEF SegPage, SegFrame, SegCount
<1>13. h < c
  <2>1. x + s.memsz \in Nat \ {0} /\ x + k \in Nat /\ (x + s.memsz) - 1 \in Nat /\ x + k <= (x + s.memsz) - 1
    <3> HIDE DEF x, s
    <3> QED
      BY <1>7, <1>8
  <2>2. ((x + s.memsz) - 1) \div PageSize = Up(x + s.memsz) - 1 /\ Up(x + s.memsz) \in Nat \ {0}
    BY <2>1, LastPage
  <2>3. (x + k) \div PageSize <= ((x + s.memsz) - 1) \div PageSize
    BY <2>1, DivMonotonic
  <2> DEFINE w == Up(x + s.memsz)
  <2>4. xq + h <= w - 1 /\ w \in Nat /\ c = w - xq
    BY <1>11, <1>12, <2>2, <2>3
  <2>5. xq \in Nat
    BY <1>12
  <2> HIDE DEF w, xq, c
  <2> QED
    BY <2>4, <2>5
<1>14. q \in Pg(i) /\ q \in Nat /\ q \in Pages
  <2>1. Pg(i) = vq .. vq + c - 1 /\ vq \in Nat /\ c \in Nat \ {0} /\ vq + c <= PagesTotal
    BY <1>12
  <2> HIDE DEF vq, c, Pg
  <2>2. vq + h \in vq .. vq + c - 1 /\ vq + h \in Nat /\ vq + h \in Pages
    BY <1>5, <1>13, <2>1 DEF Pages
  <2> QED
    BY <2>1, <2>2
<1>15. \A l \in i + 1 .. Len(segs) : q \notin Pg(l)
  <2> SUFFICES ASSUME NEW l \in i + 1 .. Len(segs) PROVE q \notin Pg(l)
    OBVIOUS
  <2>1. l \in DOMAIN segs \ {i}
    <3> HIDE DEF segs
    <3> QED
      BY <1>3, <1>4
  <2> HIDE DEF Pg, q
  <2> QED
    BY <1>3, <1>14, <2>1
<1>16. EntryIn(pr, q) = SegEntry(s, pr.base, q) /\ q \in PagesIn(pr)
  <2>1. i \in 1 .. Len(segs)
    BY <1>3, <1>4
  <2> HIDE DEF q
  <2> QED
    BY <1>2, <1>4, <1>6, <1>14, <1>15, <2>1, EntryOfLast
<1>17. Get(dir[p], q) = SegEntry(s, pr.base, q)
  <2> HIDE DEF q, Pg
  <2>1. q \notin HeapPages /\ q \notin StackRange
    BY <1>3, <1>14
  <2>2. ~ \E a \in allocs[p] : q \in AllocPages(a)
    BY <1>1, <2>1 DEF Owns, Has
  <2>3. ExpectedIn(pr, allocs[p], freed[p], q) = EntryIn(pr, q)
    BY <1>1, <1>16, <2>1, <2>2 DEF ExpectedIn
  <2> QED
    BY <1>1, <1>14, <1>16, <2>3, ExpectedIs DEF Exact
<1>18. Get(dir[p], q).frame = (xq + h) * PageSize
  <2>1. SegEntry(s, pr.base, q).frame = (xq + (q - vq)) * PageSize
    BY DEF SegEntry, FrameEntry, SegFrame, SegPage
  <2> HIDE DEF xq, vq, x, s, pr
  <2>2. q - vq = h
    BY <1>11, <1>12
  <2> HIDE DEF q
  <2> QED
    BY <1>17, <2>1, <2>2
<1>19. paging_align_to_lower_page_addr(v + k) = q * PageSize
  <2>1. v + k \in Nat
    BY <1>7, <1>8
  <2> QED
    BY <1>11, <2>1, PageOf
<1>20. paging_get_physical_address(dir[p], v + k) = (xq + h) * PageSize + ((v + k) - q * PageSize)
  <2> HIDE DEF q, v, xq
  <2> QED
    BY <1>18, <1>19 DEF paging_get_physical_address, Get
<1>21. (v + k) - q * PageSize = g
  <2> DEFINE y == v + k
             z == q * PageSize
  <2>1. y = z + g
    BY <1>11
  <2>2. z \in Nat /\ g \in Nat
    <3>1. q \in Nat
      BY <1>14
    <3>2. PageSize \in Nat /\ g \in Nat
      BY <1>5
    <3> HIDE DEF q
    <3> QED
      BY <3>1, <3>2
  <2> HIDE DEF y, z
  <2>3. y - z = g
    BY <2>1, <2>2
  <2> QED
    BY <2>3 DEF y, z
<1>22. paging_get_physical_address(dir[p], v + k) = x + k
  BY <1>11, <1>20, <1>21, Zenon
<1> QED
  BY <1>9, <1>22

----------------------------------------------------------------------------
LEMMA Invariance == Spec => []IInv
BY InitIInv, NextIInv, PTL DEF Spec

(* Whatever processes load, allocate, free and pass to system calls, every *)
(* page of every directory is what the last mapping made it, and nothing   *)
(* else was touched.                                                       *)
THEOREM DirectoriesAreExact == Spec => []PagesExact
<1>1. IInv => PagesExact
  BY DEF IInv, PagesExact, Typed, Exact, Get, Pages
<1> QED
  BY <1>1, Invariance, PTL

(* A program whose segments are congruent to their place in the file and   *)
(* apart from each other sees every byte of its file, whatever happens     *)
(* after the load.                                                         *)
THEOREM ProgramsSeeTheirFile == Spec => []ImageMapped
BY FileIsMapped, Invariance, PTL

(* A process never has a writable page of another process, of the kernel   *)
(* or of free memory, except those its own segments claim behind its image *)
(* when they are longer than the file's blocks.                            *)
THEOREM ProcessesWriteTheirOwn == Spec => []OwnWritable
BY WritableIsOwn, Invariance, PTL

(* copy_string_from_task reads the string of the process although it maps  *)
(* a buffer over one of the process's pages.                               *)
THEOREM StringsComeFromTheTask == Spec => []CopyReadsTask
<1>1. IInv => CopyReadsTask
  BY DEF IInv
<1> QED
  BY <1>1, Invariance, PTL
=============================================================================
