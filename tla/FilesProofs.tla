---------------------------- MODULE FilesProofs ----------------------------
(***************************************************************************)
(* Proofs about files: from the bytes a disk stream returns, through       *)
(* clusters and block reads, to what a caller of fread gets; about the     *)
(* search of the root directory; and about descriptors.                    *)
(*                                                                         *)
(* The first part gives each recursive function its value:                 *)
(* diskstreamer_read is a span of consecutive bytes,                       *)
(* fat16_read_internal_from_stream is one when the read starts in the      *)
(* first cluster and is no longer than a cluster, and fails otherwise,     *)
(* because the FAT entry is read from the wrong place and no value of it   *)
(* is accepted (NoNextCluster). The second part is the inductive           *)
(* invariant: NumbersAreStable needs that a descriptor carries its own     *)
(* number, because file_free_descriptor clears the slot of that number,    *)
(* and OpenFilesBacked needs that every slot in use has an open file, for  *)
(* fclose to free what was allocated.                                      *)
(***************************************************************************)
EXTENDS Files, Loader, BasicLemmas, FiniteSetTheorems

(* n consecutive addresses from a.                                         *)
Span(a, n) == [i \in 1 .. n |-> a + i - 1]

(* A span is a sequence of addresses.                                      *)
LEMMA SpanIsSeq ==
    ASSUME NEW a \in Int, NEW n \in Nat
    PROVE  Span(a, n) \in Seq(Int) /\ Len(Span(a, n)) = n /\ DOMAIN Span(a, n) = 1 .. n
<1>1. Span(a, n) \in [1 .. n -> Int]
  BY DEF Span
<1> QED
  BY <1>1, FunctionIsSeq

(* A span continued by the one behind it is a span: one read after         *)
(* another.                                                                *)
LEMMA SpanConcat ==
    ASSUME NEW a \in Int, NEW m \in Nat, NEW n \in Nat
    PROVE  Span(a, m) \o Span(a + m, n) = Span(a, m + n)
<1> DEFINE s == Span(a, m)
           t == Span(a + m, n)
           u == Span(a, m + n)
           c == s \o t
<1>1. /\ s \in Seq(Int) /\ Len(s) = m /\ t \in Seq(Int) /\ Len(t) = n
      /\ u \in Seq(Int) /\ Len(u) = m + n /\ DOMAIN u = 1 .. m + n
  <2>1. a + m \in Int /\ m + n \in Nat
    OBVIOUS
  <2> QED
    BY <2>1, SpanIsSeq
<1>2. /\ \A i \in 1 .. m : s[i] = a + i - 1
      /\ \A i \in 1 .. n : t[i] = a + m + i - 1
      /\ \A i \in 1 .. m + n : u[i] = a + i - 1
  BY DEF Span
<1> HIDE DEF s, t, u
<1>3. /\ c \in Seq(Int) /\ Len(c) = Len(s) + Len(t)
      /\ \A i \in 1 .. Len(s) + Len(t) : c[i] = IF i <= Len(s) THEN s[i] ELSE t[i - Len(s)]
  BY <1>1, ConcatProperties, Zenon
<1> HIDE DEF c
<1>4. \A i \in 1 .. m + n : c[i] = u[i]
  <2> SUFFICES ASSUME NEW i \in 1 .. m + n PROVE c[i] = u[i]
    OBVIOUS
  <2>1. CASE i <= m
    BY <1>1, <1>2, <1>3, <2>1
  <2>2. CASE ~(i <= m)
    <3>1. i - m \in 1 .. n
      BY <2>2
    <3>2. c[i] = t[i - m]
      BY <1>1, <1>3, <2>2
    <3>3. t[i - m] = a + m + (i - m) - 1
      BY <1>2, <3>1
    <3> QED
      BY <1>2, <3>2, <3>3
  <2> QED
    BY <2>1, <2>2
<1>5. c = u
  BY <1>1, <1>3, <1>4, SeqEqual
<1> QED
  BY <1>5 DEF c, s, t, u

----------------------------------------------------------------------------
(* diskstreamer_read is n consecutive bytes.                               *)
Chunk(pos, total, n) ==
    LET p == pos + total - n
        off == p % SectorSize
    IN  IF off + n >= SectorSize THEN SectorSize - off ELSE n

(* One round of the loop of diskstreamer_read: the part of a sector it     *)
(* copies starts where the read stands, is not empty and does not pass the *)
(* end of the read.                                                        *)
LEMMA ChunkIs ==
    ASSUME NEW pos \in Nat, NEW total \in Nat, NEW n \in 1 .. total
    PROVE  LET p == pos + total - n
               k == Chunk(pos, total, n)
           IN  /\ p \in Nat /\ k \in 1 .. n /\ n - k \in 0 .. total /\ n - k < n
               /\ [i \in 1 .. k |-> (p \div SectorSize) * SectorSize + (p % SectorSize) + i - 1]
                     = Span(p, k)
<1> DEFINE p == pos + total - n
           k == Chunk(pos, total, n)
<1>1. p \in Nat /\ SectorSize \in Nat \ {0}
  BY GeometryAssumption
<1> HIDE DEF p
<1>2. p % SectorSize \in 0 .. SectorSize - 1 /\ p = (p \div SectorSize) * SectorSize + (p % SectorSize)
      /\ p \div SectorSize \in Nat
  <2> DEFINE a == p \div SectorSize
             b == p % SectorSize
  <2>1. a \in Nat /\ b \in 0 .. SectorSize - 1 /\ p = SectorSize * a + b
    BY <1>1, Division
  <2> HIDE DEF a, b
  <2>2. SectorSize * a = a * SectorSize
    BY <1>1, <2>1
  <2> QED
    BY <2>1, <2>2 DEF a, b
<1>3. k \in 1 .. n
  BY <1>1, <1>2 DEF Chunk, p
<1> HIDE DEF k
<1>4. n - k \in 0 .. total /\ n - k < n
  BY <1>3
<1>5. [i \in 1 .. k |-> (p \div SectorSize) * SectorSize + (p % SectorSize) + i - 1] = Span(p, k)
  <2>1. (p \div SectorSize) * SectorSize + (p % SectorSize) = p
    BY <1>2
  <2> QED
    BY <2>1 DEF Span
<1> QED
  BY <1>1, <1>3, <1>4, <1>5 DEF p, k

(* diskstreamer_read returns the bytes from pos on, through any number of  *)
(* sectors.                                                                *)
LEMMA StreamReads ==
    ASSUME NEW pos \in Nat, NEW total \in Nat
    PROVE  diskstreamer_read(pos, total) = Span(pos, total)
<1> DEFINE Body(g, n) == IF n = 0 THEN <<>>
                         ELSE Span(pos + total - n, Chunk(pos, total, n)) \o g[n - Chunk(pos, total, n)]
           Is(g) == g = [n \in 0 .. total |->
               IF n = 0 THEN <<>>
               ELSE LET p == pos + total - n
                        off == p % SectorSize
                        k == IF off + n >= SectorSize THEN SectorSize - off ELSE n
                    IN  [i \in 1 .. k |-> (p \div SectorSize) * SectorSize + off + i - 1] \o g[n - k]]
           R == CHOOSE g : Is(g)
           h == [n \in 0 .. total |-> Span(pos + total - n, n)]
<1>1. diskstreamer_read(pos, total) = R[total]
  BY DEF diskstreamer_read
<1>2. \A g : Is(g) <=> g = [n \in 0 .. total |-> Body(g, n)]
  <2> SUFFICES ASSUME NEW g
               PROVE  Is(g) <=> g = [n \in 0 .. total |-> Body(g, n)]
    OBVIOUS
  <2>1. ASSUME NEW n \in 0 .. total
        PROVE  (IF n = 0 THEN <<>>
                ELSE LET p == pos + total - n
                         off == p % SectorSize
                         k == IF off + n >= SectorSize THEN SectorSize - off ELSE n
                     IN  [i \in 1 .. k |-> (p \div SectorSize) * SectorSize + off + i - 1] \o g[n - k])
                = Body(g, n)
    <3>1. CASE n = 0
      BY <3>1
    <3>2. CASE n # 0
      <4>1. n \in 1 .. total
        BY <3>2
      <4> DEFINE p == pos + total - n
                 k == Chunk(pos, total, n)
      <4>2. [i \in 1 .. k |-> (p \div SectorSize) * SectorSize + (p % SectorSize) + i - 1] = Span(p, k)
        BY <4>1, ChunkIs
      <4>3. k = IF (p % SectorSize) + n >= SectorSize THEN SectorSize - (p % SectorSize) ELSE n
        BY DEF Chunk
      <4> HIDE DEF p, k
      <4> QED
        BY <3>2, <4>2, <4>3 DEF p, k
    <3> QED
      BY <3>1, <3>2
  <2> QED
    BY <2>1, Zenon
<1> HIDE DEF Is
<1>3. \A n \in 1 .. total :
          LET k == Chunk(pos, total, n)
          IN  /\ k \in 1 .. n /\ n - k \in 0 .. total /\ n - k < n
              /\ Span(pos + total - n, k) \o Span(pos + total - (n - k), n - k) = Span(pos + total - n, n)
  <2> SUFFICES ASSUME NEW n \in 1 .. total
               PROVE  LET k == Chunk(pos, total, n)
                      IN  /\ k \in 1 .. n /\ n - k \in 0 .. total /\ n - k < n
                          /\ Span(pos + total - n, k) \o Span(pos + total - (n - k), n - k)
                                = Span(pos + total - n, n)
    OBVIOUS
  <2> DEFINE p == pos + total - n
             k == Chunk(pos, total, n)
  <2>1. p \in Nat /\ k \in 1 .. n /\ n - k \in 0 .. total /\ n - k < n
    BY ChunkIs
  <2>2. pos + total - (n - k) = p + k /\ k + (n - k) = n /\ p \in Int /\ k \in Nat /\ n - k \in Nat
    BY <2>1
  <2> HIDE DEF p, k
  <2>3. Span(p, k) \o Span(p + k, n - k) = Span(p, k + (n - k))
    BY <2>2, SpanConcat
  <2> QED
    BY <2>1, <2>2, <2>3 DEF p, k
<1>4. Is(h)
  <2>1. ASSUME NEW n \in 0 .. total
        PROVE  h[n] = Body(h, n)
    <3>1. CASE n = 0
      BY <3>1 DEF Span
    <3>2. CASE n # 0
      <4>1. n \in 1 .. total
        BY <3>2
      <4> DEFINE k == Chunk(pos, total, n)
      <4>2. /\ n - k \in 0 .. total
            /\ Span(pos + total - n, k) \o Span(pos + total - (n - k), n - k) = Span(pos + total - n, n)
        BY <1>3, <4>1
      <4> HIDE DEF k
      <4>3. h[n - k] = Span(pos + total - (n - k), n - k) /\ h[n] = Span(pos + total - n, n)
        BY <4>2
      <4>4. h[n] = Span(pos + total - n, k) \o h[n - k]
        BY <4>2, <4>3, Zenon
      <4> QED
        BY <3>2, <4>4 DEF k
    <3> QED
      BY <3>1, <3>2
  <2>2. h = [n \in 0 .. total |-> Body(h, n)]
    <3> HIDE DEF Body
    <3> QED
      BY <2>1
  <2> QED
    BY <1>2, <2>2
<1>5. Is(R)
  BY <1>4, Zenon
<1> HIDE DEF R
<1>6. \A n \in 0 .. total : R[n] = Body(R, n)
  <2>1. R = [n \in 0 .. total |-> Body(R, n)]
    BY <1>2, <1>5
  <2> HIDE DEF Body
  <2> QED
    BY <2>1, Zenon
<1>7. \A n \in Nat : n \in {m \in Nat : m <= total => R[m] = Span(pos + total - m, m)}
  <2> DEFINE S == {m \in Nat : m <= total => R[m] = Span(pos + total - m, m)}
  <2>1. ASSUME NEW n \in Nat, \A m \in 0 .. n - 1 : m \in S
        PROVE  n \in S
    <3> SUFFICES ASSUME n <= total PROVE R[n] = Span(pos + total - n, n)
      OBVIOUS
    <3>1. CASE n = 0
      <4>1. R[0] = <<>>
        BY <1>6, <3>1
      <4> QED
        BY <3>1, <4>1 DEF Span
    <3>2. CASE n # 0
      <4>1. n \in 1 .. total /\ n \in 0 .. total
        BY <3>2
      <4> DEFINE k == Chunk(pos, total, n)
      <4>2. /\ k \in 1 .. n /\ n - k \in 0 .. total /\ n - k < n
            /\ Span(pos + total - n, k) \o Span(pos + total - (n - k), n - k) = Span(pos + total - n, n)
        BY <1>3, <4>1
      <4>3. R[n] = Span(pos + total - n, k) \o R[n - k]
        BY <1>6, <3>2, <4>1
      <4> HIDE DEF k
      <4>4. n - k \in 0 .. n - 1 /\ n - k <= total
        BY <4>2
      <4>5. R[n - k] = Span(pos + total - (n - k), n - k)
        BY <2>1, <4>4
      <4> QED
        BY <4>2, <4>3, <4>5, Zenon
    <3> QED
      BY <3>1, <3>2
  <2> HIDE DEF S
  <2>2. \A n \in Nat : n \in S
    BY <2>1, StrongInduction
  <2> QED
    BY <2>2 DEF S
<1>8. R[total] = Span(pos + total - total, total)
  BY <1>7
<1>9. pos + total - total = pos
  OBVIOUS
<1> QED
  BY <1>1, <1>8, <1>9

----------------------------------------------------------------------------
(* The FAT holds numbers.                                                  *)
LEMMA FatEntryIsNat ==
    ASSUME NEW d, IsDisk(d), NEW c
    PROVE  FatEntry(d, c) \in Nat
<1> DEFINE in == {f \in Files : \E i \in DOMAIN d.chain[f] : d.chain[f][i] = c}
           f == CHOOSE f \in in : TRUE
           i == CHOOSE i \in DOMAIN d.chain[f] : d.chain[f][i] = c
<1>1. CASE in = {}
  BY <1>1 DEF FatEntry
<1>2. CASE in # {}
  <2>1. f \in in
    BY <1>2, Zenon
  <2>2. f \in Files /\ \E j \in DOMAIN d.chain[f] : d.chain[f][j] = c
    BY <2>1
  <2>3. i \in DOMAIN d.chain[f]
    BY <2>2, Zenon
  <2>4. FatEntry(d, c) = IF i = Len(d.chain[f]) THEN 65535 ELSE d.chain[f][i + 1]
    <3>1. FatEntry(d, c) = IF in = {} THEN 0
                           ELSE IF i = Len(d.chain[f]) THEN 65535 ELSE d.chain[f][i + 1]
      BY DEF FatEntry
    <3> HIDE DEF in, f, i
    <3> QED
      BY <1>2, <3>1
  <2>5. d.chain[f] \in Seq(Nat \ {0, 1})
    BY <2>2 DEF IsDisk
  <2> HIDE DEF in, f, i
  <2>6. CASE i = Len(d.chain[f])
    BY <2>4, <2>6
  <2>7. CASE i # Len(d.chain[f])
    <3>1. Len(d.chain[f]) \in Nat /\ DOMAIN d.chain[f] = 1 .. Len(d.chain[f])
      BY <2>5, LenProperties
    <3>2. i + 1 \in 1 .. Len(d.chain[f])
      BY <2>3, <2>7, <3>1
    <3>3. d.chain[f][i + 1] \in Nat
      BY <2>5, <3>1, <3>2
    <3> QED
      BY <2>4, <2>7, <3>3
  <2> QED
    BY <2>6, <2>7
<1> QED
  BY <1>1, <1>2

(* No value read from the FAT is taken for a next cluster: the test for    *)
(* reserved values in fat16_get_cluster_for_offset holds of all of them.   *)
LEMMA NoNextCluster ==
    ASSUME NEW d, IsDisk(d), NEW c \in Nat
    PROVE  NextCluster(d, c) = -EIO
<1> DEFINE e == fat16_get_fat_entry(d, c)
<1>1. e \in Nat
  <2>1. FatStart * (c * 2) \in Nat
    BY GeometryAssumption DEF FatStart
  <2> QED
    BY <2>1, FatEntryIsNat DEF fat16_get_fat_entry, Word
<1>2. NextCluster(d, c) = IF e = 4088 \/ e = 4095 \/ e = 4087 \/ (e >= 4080 \/ e <= 4086) \/ e = 0
                          THEN -EIO ELSE e
  BY DEF NextCluster
<1> HIDE DEF e
<1> QED
  BY <1>1, <1>2

(* A cluster is not empty.                                                 *)
LEMMA ClusterSize == ClusterBytes \in Nat \ {0}
BY GeometryAssumption DEF ClusterBytes

(* The walk along the chain stays at the first cluster or fails.           *)
LEMMA ClusterForOffset ==
    ASSUME NEW d, IsDisk(d), NEW start \in Nat, NEW offset \in Nat
    PROVE  fat16_get_cluster_for_offset(d, start, offset) =
               IF offset < ClusterBytes THEN start ELSE -EIO
<1> DEFINE Body(g, k) == IF k = 0 THEN start
                         ELSE IF g[k - 1] < 0 THEN g[k - 1] ELSE NextCluster(d, g[k - 1])
           Is(g) == g = [k \in Nat |-> IF k = 0 THEN start
                         ELSE IF g[k - 1] < 0 THEN g[k - 1] ELSE NextCluster(d, g[k - 1])]
           W == CHOOSE g : Is(g)
           h == [k \in Nat |-> IF k = 0 THEN start ELSE -EIO]
           S == {k \in Nat : W[k] = IF k = 0 THEN start ELSE -EIO}
<1>1. fat16_get_cluster_for_offset(d, start, offset) = W[offset \div ClusterBytes]
  BY DEF fat16_get_cluster_for_offset
<1>2. NextCluster(d, start) = -EIO /\ -EIO < 0 /\ -EIO \in Int
  BY NoNextCluster DEF EIO
<1>3. Is(h)
  <2>1. ASSUME NEW k \in Nat PROVE h[k] = Body(h, k)
    <3>1. CASE k = 0
      BY <3>1
    <3>2. CASE k = 1
      BY <1>2, <3>2
    <3>3. CASE k > 1
      <4>1. k - 1 \in Nat /\ k - 1 # 0
        BY <3>3
      <4>2. h[k - 1] = -EIO /\ h[k] = -EIO
        BY <3>3, <4>1
      <4> HIDE DEF h
      <4> QED
        BY <1>2, <3>3, <4>2
    <3> QED
      BY <3>1, <3>2, <3>3
  <2>2. h = [k \in Nat |-> Body(h, k)]
    <3> HIDE DEF Body
    <3> QED
      BY <2>1
  <2> QED
    BY <2>2
<1>4. Is(W)
  <2> HIDE DEF Is, h
  <2> QED
    BY <1>3, Zenon
<1> HIDE DEF W
<1>5. \A k \in Nat : W[k] = Body(W, k)
  BY <1>4
<1>6. \A k \in Nat : k \in S
  <2>1. W[0] = start
    BY <1>5
  <2>2. 0 \in S
    BY <2>1
  <2>3. ASSUME NEW k \in Nat, k \in S PROVE k + 1 \in S
    <3>1. W[k + 1] = IF W[k] < 0 THEN W[k] ELSE NextCluster(d, W[k])
      BY <1>5
    <3>2. CASE k = 0
      BY <1>2, <2>1, <3>1, <3>2
    <3>3. CASE k # 0
      BY <1>2, <2>3, <3>1, <3>3
    <3> QED
      BY <3>2, <3>3
  <2> HIDE DEF S
  <2> QED
    BY <2>2, <2>3, SetInduction
<1> DEFINE q == offset \div ClusterBytes
<1>7. q \in Nat /\ (q = 0 <=> offset < ClusterBytes)
  BY ClusterSize
<1> HIDE DEF q
<1>8. W[q] = IF q = 0 THEN start ELSE -EIO
  BY <1>6, <1>7
<1> QED
  BY <1>1, <1>7, <1>8 DEF q

----------------------------------------------------------------------------
(* Results of the read functions, and the position on the disk where a     *)
(* cluster starts.                                                         *)
Reads == [res : Int, bytes : Seq(Int)]
StartOf(c) == fat16_cluster_to_sector(c) * SectorSize

(* A cluster starts at a position of the disk.                             *)
LEMMA StartIsNat ==
    ASSUME NEW c \in Nat \ {0, 1}
    PROVE  StartOf(c) \in Nat
<1> DEFINE a == FatCopies * SectorsPerFat
           b == RootEntries * EntrySize
           q == b \div SectorSize
           m == (c - 2) * SectorsPerCluster
<1>1. a \in Nat /\ b \in Nat /\ m \in Nat /\ ReservedSectors \in Nat /\ SectorSize \in Nat \ {0}
  BY GeometryAssumption
<1>2. fat16_cluster_to_sector(c) = ReservedSectors + a + q + m
  BY DEF fat16_cluster_to_sector, fat16_get_root_directory
<1> HIDE DEF a, b, m
<1>3. q \in Nat
  BY <1>1
<1> HIDE DEF q
<1> QED
  BY <1>1, <1>2, <1>3 DEF StartOf

(* fat16_read_internal_from_stream: a span of the disk when the read       *)
(* starts in the first cluster and is at most a cluster long, an error     *)
(* otherwise.                                                              *)
LEMMA InternalReads ==
    ASSUME NEW d, IsDisk(d), NEW c \in Nat \ {0, 1}, NEW offset \in Nat, NEW total \in Nat \ {0}
    PROVE  LET r == fat16_read_internal_from_stream(d, c, offset, total)
           IN  /\ r \in Reads
               /\ offset < ClusterBytes /\ total <= ClusterBytes =>
                     r.res = 0 /\ r.bytes = Span(StartOf(c) + offset, total)
               /\ ~(offset < ClusterBytes /\ total <= ClusterBytes) => r.res = -EIO /\ r.res < 0
<1> DEFINE At(n) == offset + total - n
           Len1(n) == IF n > ClusterBytes THEN ClusterBytes ELSE n
           Body(g, n) ==
             IF n = 0 THEN [res |-> 0, bytes |-> <<>>]
             ELSE IF fat16_get_cluster_for_offset(d, c, At(n)) < 0
             THEN [res |-> fat16_get_cluster_for_offset(d, c, At(n)), bytes |-> <<>>]
             ELSE [g[n - Len1(n)] EXCEPT !.bytes =
                     diskstreamer_read(fat16_cluster_to_sector(fat16_get_cluster_for_offset(d, c, At(n))) * SectorSize
                                         + (At(n) % ClusterBytes), Len1(n)) \o @]
           Is(g) == g = [n \in 0 .. total |-> Body(g, n)]
           R == CHOOSE g : Is(g)
           Fits(n) == At(n) < ClusterBytes
           Val(n) == IF n = 0 THEN [res |-> 0, bytes |-> <<>>]
                     ELSE IF ~Fits(n) THEN [res |-> -EIO, bytes |-> <<>>]
                     ELSE IF n <= ClusterBytes THEN [res |-> 0, bytes |-> Span(StartOf(c) + At(n), n)]
                     ELSE [res |-> -EIO, bytes |-> Span(StartOf(c) + At(n), ClusterBytes)]
           h == [n \in 0 .. total |-> Val(n)]
<1>1. fat16_read_internal_from_stream(d, c, offset, total) = R[total]
  BY DEF fat16_read_internal_from_stream
<1>2. ClusterBytes \in Nat \ {0} /\ StartOf(c) \in Nat /\ -EIO < 0 /\ -EIO \in Int
  BY ClusterSize, StartIsNat DEF EIO
<1>3. \A n \in 1 .. total :
         /\ At(n) \in Nat
         /\ Fits(n) => At(n) % ClusterBytes = At(n)
         /\ Len1(n) \in 1 .. n /\ Len1(n) \in Nat /\ n - Len1(n) \in 0 .. total
         /\ n <= ClusterBytes => Len1(n) = n
         /\ n > ClusterBytes => Len1(n) = ClusterBytes /\ n - ClusterBytes # 0
                                /\ ~Fits(n - ClusterBytes)
  BY <1>2
<1>4. \A n \in 1 .. total :
         fat16_get_cluster_for_offset(d, c, At(n)) = IF Fits(n) THEN c ELSE -EIO
  <2> HIDE DEF At
  <2> QED
    BY <1>3, ClusterForOffset
<1>5. \A n \in 1 .. total : Fits(n) =>
         diskstreamer_read(StartOf(c) + (At(n) % ClusterBytes), Len1(n)) = Span(StartOf(c) + At(n), Len1(n))
  <2> SUFFICES ASSUME NEW n \in 1 .. total, Fits(n)
               PROVE  diskstreamer_read(StartOf(c) + (At(n) % ClusterBytes), Len1(n))
                        = Span(StartOf(c) + At(n), Len1(n))
    OBVIOUS
  <2>1. At(n) % ClusterBytes = At(n) /\ At(n) \in Nat /\ Len1(n) \in Nat
    BY <1>3
  <2>2. StartOf(c) + At(n) \in Nat
    BY <1>2, <2>1
  <2> HIDE DEF At, Len1
  <2> QED
    BY <2>1, <2>2, StreamReads
<1>6. ASSUME NEW g, NEW n \in 1 .. total
      PROVE  Body(g, n) = IF ~Fits(n) THEN [res |-> -EIO, bytes |-> <<>>]
                          ELSE [g[n - Len1(n)] EXCEPT !.bytes = Span(StartOf(c) + At(n), Len1(n)) \o @]
  <2>1. n # 0
    OBVIOUS
  <2> HIDE DEF At, Len1
  <2>2. CASE Fits(n)
    <3>1. fat16_get_cluster_for_offset(d, c, At(n)) = c /\ ~(c < 0)
      BY <1>4, <2>2
    <3>2. diskstreamer_read(fat16_cluster_to_sector(c) * SectorSize + (At(n) % ClusterBytes), Len1(n))
            = Span(StartOf(c) + At(n), Len1(n))
      BY <1>5, <2>2 DEF StartOf
    <3> HIDE DEF Fits
    <3> QED
      BY <2>1, <2>2, <3>1, <3>2, Zenon
  <2>3. CASE ~Fits(n)
    <3>1. fat16_get_cluster_for_offset(d, c, At(n)) = -EIO
      BY <1>4, <2>3
    <3> HIDE DEF Fits
    <3> QED
      BY <1>2, <2>1, <2>3, <3>1, Zenon
  <2> QED
    BY <2>2, <2>3
<1>7. \A a \in Int, n \in Nat : Span(a, n) \in Seq(Int) /\ Span(a, n) \o <<>> = Span(a, n)
  <2> SUFFICES ASSUME NEW a \in Int, NEW n \in Nat
               PROVE  Span(a, n) \in Seq(Int) /\ Span(a, n) \o <<>> = Span(a, n)
    OBVIOUS
  <2>1. Span(a, n) \in Seq(Int)
    BY SpanIsSeq
  <2> QED
    BY <2>1
(* What a solution is, from its smaller values.                            *)
<1>8. ASSUME NEW g, NEW n \in 1 .. total, NEW x, g[n - Len1(n)] = [res |-> x, bytes |-> <<>>], Fits(n)
      PROVE  Body(g, n) = [res |-> x, bytes |-> Span(StartOf(c) + At(n), Len1(n))]
  <2> DEFINE s == Span(StartOf(c) + At(n), Len1(n))
  <2>1. Body(g, n) = [g[n - Len1(n)] EXCEPT !.bytes = s \o @]
    BY <1>6, <1>8
  <2>2. s \o <<>> = s
    <3>1. StartOf(c) + At(n) \in Int /\ Len1(n) \in Nat
      BY <1>2, <1>3
    <3> HIDE DEF At, Len1
    <3> QED
      BY <1>7, <3>1
  <2> HIDE DEF s, Body, Len1
  <2>3. Body(g, n) = [[res |-> x, bytes |-> <<>>] EXCEPT !.bytes = s \o @]
    BY <1>8, <2>1, Zenon
  <2>4. [[res |-> x, bytes |-> <<>>] EXCEPT !.bytes = s \o @] = [res |-> x, bytes |-> s \o <<>>]
    OBVIOUS
  <2> QED
    BY <2>2, <2>3, <2>4 DEF s
<1>9. ASSUME NEW g,
             g[0] = [res |-> 0, bytes |-> <<>>],
             \A n \in 1 .. total : ~Fits(n) => g[n] = [res |-> -EIO, bytes |-> <<>>],
             NEW n \in 1 .. total
      PROVE  Body(g, n) = Val(n)
  <2>1. CASE ~Fits(n)
    <3>1. Body(g, n) = [res |-> -EIO, bytes |-> <<>>]
      BY <1>6, <2>1
    <3> HIDE DEF Body, Fits
    <3> QED
      BY <2>1, <3>1
  <2>2. CASE Fits(n) /\ n <= ClusterBytes
    <3>1. Len1(n) = n /\ n - n = 0
      BY <2>2, <1>3
    <3>2. Body(g, n) = [res |-> 0, bytes |-> Span(StartOf(c) + At(n), n)]
      <4>1. g[n - Len1(n)] = [res |-> 0, bytes |-> <<>>]
        BY <1>9, <3>1
      <4>2. Body(g, n) = [res |-> 0, bytes |-> Span(StartOf(c) + At(n), Len1(n))]
        BY <1>8, <2>2, <4>1
      <4> HIDE DEF Body, Len1, At
      <4> QED
        BY <3>1, <4>2
    <3> HIDE DEF Body, Fits, At
    <3> QED
      BY <2>2, <3>2
  <2>3. CASE Fits(n) /\ n > ClusterBytes
    <3>1. Len1(n) = ClusterBytes /\ n - ClusterBytes \in 1 .. total /\ ~Fits(n - ClusterBytes)
      BY <1>2, <1>3, <2>3
    <3>2. Body(g, n) = [res |-> -EIO, bytes |-> Span(StartOf(c) + At(n), ClusterBytes)]
      <4>1. g[n - Len1(n)] = [res |-> -EIO, bytes |-> <<>>]
        <5> HIDE DEF Fits, Len1
        <5> QED
          BY <1>9, <3>1
      <4>2. Body(g, n) = [res |-> -EIO, bytes |-> Span(StartOf(c) + At(n), Len1(n))]
        <5> HIDE DEF Body, Len1, At, Fits
        <5> QED
          BY <1>8, <2>3, <4>1
      <4> HIDE DEF Body, Len1, At
      <4> QED
        BY <3>1, <4>2
    <3>3. n # 0 /\ ~(n <= ClusterBytes)
      BY <1>2, <2>3
    <3> HIDE DEF Body, Fits, At
    <3> QED
      BY <2>3, <3>2, <3>3
  <2> QED
    BY <1>2, <2>1, <2>2, <2>3
<1>10. Is(h)
  <2>1. h[0] = [res |-> 0, bytes |-> <<>>]
    OBVIOUS
  <2>2. \A n \in 1 .. total : h[n] = Val(n)
    <3> HIDE DEF Val
    <3> QED
      OBVIOUS
  <2>3. \A n \in 1 .. total : ~Fits(n) => h[n] = [res |-> -EIO, bytes |-> <<>>]
    <3>1. \A n \in 1 .. total : ~Fits(n) => Val(n) = [res |-> -EIO, bytes |-> <<>>]
      <4> HIDE DEF Fits
      <4> QED
        OBVIOUS
    <3> HIDE DEF Val, h, Fits
    <3> QED
      BY <2>2, <3>1
  <2> HIDE DEF h
  <2>4. \A n \in 1 .. total : Body(h, n) = Val(n)
    <3> HIDE DEF Body, Val, Fits
    <3> QED
      BY <1>9, <2>1, <2>3
  <2>5. Body(h, 0) = [res |-> 0, bytes |-> <<>>]
    OBVIOUS
  <2>6. \A n \in 0 .. total : h[n] = Body(h, n)
    <3>1. \A n \in 0 .. total : n = 0 \/ n \in 1 .. total
      OBVIOUS
    <3> HIDE DEF Body, Val
    <3> QED
      BY <2>1, <2>2, <2>4, <2>5, <3>1
  <2>7. h = [n \in 0 .. total |-> h[n]]
    BY DEF h
  <2> HIDE DEF Body
  <2> QED
    BY <2>6, <2>7
<1>11. Is(R)
  <2> HIDE DEF Is, h
  <2> QED
    BY <1>10, Zenon
<1> HIDE DEF R
<1>12. \A n \in 0 .. total : R[n] = Body(R, n)
  <2> HIDE DEF Body
  <2> QED
    BY <1>11, Zenon
<1>13. R[0] = [res |-> 0, bytes |-> <<>>]
  <2>1. R[0] = Body(R, 0)
    <3>1. 0 \in 0 .. total
      OBVIOUS
    <3> HIDE DEF Body
    <3> QED
      BY <1>12, <3>1
  <2> QED
    BY <2>1
<1>14. \A n \in 1 .. total : ~Fits(n) => R[n] = [res |-> -EIO, bytes |-> <<>>]
  <2> SUFFICES ASSUME NEW n \in 1 .. total, ~Fits(n)
               PROVE  R[n] = [res |-> -EIO, bytes |-> <<>>]
    OBVIOUS
  <2>1. n \in 0 .. total
    OBVIOUS
  <2>2. Body(R, n) = [res |-> -EIO, bytes |-> <<>>]
    BY <1>6
  <2> HIDE DEF Body, Fits
  <2> QED
    BY <1>12, <2>1, <2>2
<1>15. R[total] = Val(total)
  <2>1. total \in 1 .. total /\ total \in 0 .. total
    OBVIOUS
  <2>2. Body(R, total) = Val(total)
    <3> HIDE DEF Body, Val, Fits
    <3> QED
      BY <1>9, <1>13, <1>14, <2>1
  <2> HIDE DEF Body, Val
  <2> QED
    BY <1>12, <2>1, <2>2
<1>16. At(total) = offset /\ total # 0
  OBVIOUS
<1>17. Val(total) =
          IF ~(offset < ClusterBytes) THEN [res |-> -EIO, bytes |-> <<>>]
          ELSE IF total <= ClusterBytes THEN [res |-> 0, bytes |-> Span(StartOf(c) + offset, total)]
          ELSE [res |-> -EIO, bytes |-> Span(StartOf(c) + offset, ClusterBytes)]
  <2> HIDE DEF At
  <2> QED
    BY <1>16
<1>18. /\ Span(StartOf(c) + offset, total) \in Seq(Int)
       /\ Span(StartOf(c) + offset, ClusterBytes) \in Seq(Int)
  <2>1. StartOf(c) + offset \in Int /\ total \in Nat /\ ClusterBytes \in Nat
    BY <1>2
  <2> QED
    BY <1>7, <2>1
<1> DEFINE r == fat16_read_internal_from_stream(d, c, offset, total)
<1>19. r = IF ~(offset < ClusterBytes) THEN [res |-> -EIO, bytes |-> <<>>]
           ELSE IF total <= ClusterBytes THEN [res |-> 0, bytes |-> Span(StartOf(c) + offset, total)]
           ELSE [res |-> -EIO, bytes |-> Span(StartOf(c) + offset, ClusterBytes)]
  <2> HIDE DEF Val
  <2> QED
    BY <1>1, <1>15, <1>17
<1> HIDE DEF r
<1>20. CASE ~(offset < ClusterBytes)
  <2>1. r = [res |-> -EIO, bytes |-> <<>>]
    BY <1>19, <1>20
  <2> QED
    BY <1>2, <1>20, <2>1 DEF Reads, r
<1>21. CASE offset < ClusterBytes /\ total <= ClusterBytes
  <2>1. r = [res |-> 0, bytes |-> Span(StartOf(c) + offset, total)]
    BY <1>19, <1>21
  <2> QED
    BY <1>18, <1>21, <2>1 DEF Reads, r
<1>22. CASE offset < ClusterBytes /\ ~(total <= ClusterBytes)
  <2>1. r = [res |-> -EIO, bytes |-> Span(StartOf(c) + offset, ClusterBytes)]
    BY <1>19, <1>22
  <2> QED
    BY <1>2, <1>18, <1>22, <2>1 DEF Reads, r
<1> QED
  BY <1>20, <1>21, <1>22

(* fat16_read: the members read one after another are one span, and the    *)
(* whole fails when one of them starts past the first cluster.             *)
LEMMA FatReads ==
    ASSUME NEW d, IsDisk(d), NEW f \in Files, NEW pos \in Nat,
           NEW size \in Nat \ {0}, NEW nmemb \in Nat \ {0}
    PROVE  LET r == fat16_read(d, f, pos, size, nmemb)
           IN  /\ r \in Reads /\ r.res \in {nmemb, -EIO}
               /\ r.res >= 0 => /\ size <= ClusterBytes /\ pos + (nmemb - 1) * size < ClusterBytes
                                /\ r.bytes = Span(StartOf(d.chain[f][1]) + pos, nmemb * size)
               /\ pos + nmemb * size <= ClusterBytes => r.res = nmemb
<1> DEFINE c == d.chain[f][1]
           A == StartOf(c)
           O(n) == pos + (nmemb - n) * size
           M(n) == fat16_read_internal_from_stream(d, c, O(n), size)
           Step(x, n) == IF M(n).res < 0 THEN M(n) ELSE [x EXCEPT !.bytes = M(n).bytes \o @]
           first == [res |-> nmemb, bytes |-> <<>>]
           Is(g) == g = [n \in 0 .. nmemb |-> IF n = 0 THEN first ELSE Step(g[n - 1], n)]
           R == CHOOSE g : Is(g)
           G == [z \in Reads \X Nat |-> IF z[2] < nmemb THEN Step(z[1], z[2] + 1) ELSE z[1]]
<1>1. fat16_read(d, f, pos, size, nmemb) = R[nmemb]
  BY DEF fat16_read
<1>2. c \in Nat \ {0, 1} /\ A \in Nat
  <2>1. d.chain[f] \in Seq(Nat \ {0, 1}) /\ d.chain[f] # <<>>
    BY DEF IsDisk
  <2>2. c \in Nat \ {0, 1}
    BY <2>1
  <2> HIDE DEF c
  <2> QED
    BY <2>2, StartIsNat
<1> HIDE DEF c, A
<1>3. \A n \in 1 .. nmemb :
         /\ O(n) \in Nat
         /\ O(n - 1) = O(n) + size
         /\ O(n - 1) <= O(0)
  <2> SUFFICES ASSUME NEW n \in 1 .. nmemb
               PROVE  O(n) \in Nat /\ O(n - 1) = O(n) + size /\ O(n - 1) <= O(0)
    OBVIOUS
  <2>1. (nmemb - n) * size \in Nat
    BY SMT
  <2>2. (nmemb - (n - 1)) * size = (nmemb - n) * size + size
    OBVIOUS
  <2>3. (n - 1) * size \in Nat
    OBVIOUS
  <2>4. (nmemb - 0) * size = (nmemb - (n - 1)) * size + (n - 1) * size
    OBVIOUS
  <2> QED
    BY <2>1, <2>2, <2>3, <2>4
<1>4. \A n \in 1 .. nmemb :
         /\ M(n) \in Reads
         /\ O(n) < ClusterBytes /\ size <= ClusterBytes =>
               M(n).res = 0 /\ M(n).bytes = Span(A + O(n), size)
         /\ ~(O(n) < ClusterBytes /\ size <= ClusterBytes) => M(n).res = -EIO /\ M(n).res < 0
  <2> SUFFICES ASSUME NEW n \in 1 .. nmemb
               PROVE  /\ M(n) \in Reads
                      /\ O(n) < ClusterBytes /\ size <= ClusterBytes =>
                            M(n).res = 0 /\ M(n).bytes = Span(A + O(n), size)
                      /\ ~(O(n) < ClusterBytes /\ size <= ClusterBytes) => M(n).res = -EIO /\ M(n).res < 0
    OBVIOUS
  <2>1. O(n) \in Nat
    BY <1>3
  <2> HIDE DEF O
  <2> QED
    BY <1>2, <2>1, InternalReads DEF A
<1> HIDE DEF M
<1>5. \A x \in Reads, n \in 1 .. nmemb : Step(x, n) \in Reads
  <2> SUFFICES ASSUME NEW x \in Reads, NEW n \in 1 .. nmemb
               PROVE  Step(x, n) \in Reads
    OBVIOUS
  <2>1. M(n) \in Reads /\ M(n).bytes \in Seq(Int) /\ x.bytes \in Seq(Int) /\ x.res \in Int
    BY <1>4 DEF Reads
  <2>2. M(n).bytes \o x.bytes \in Seq(Int)
    BY <2>1
  <2>3. [x EXCEPT !.bytes = M(n).bytes \o @] \in Reads
    BY <2>2 DEF Reads
  <2> QED
    BY <2>1, <2>3
<1>6. first \in Reads
  BY DEF Reads
<1>7. Is(R)
  <2>1. G \in [Reads \X Nat -> Reads]
    <3> SUFFICES ASSUME NEW x \in Reads, NEW k \in Nat
                 PROVE  (IF k < nmemb THEN Step(x, k + 1) ELSE x) \in Reads
      <4> HIDE DEF Step
      <4> QED
        OBVIOUS
    <3>1. k < nmemb => k + 1 \in 1 .. nmemb
      OBVIOUS
    <3> HIDE DEF Step
    <3> QED
      BY <1>5, <3>1
  <2>2. \A x \in Reads, k \in Nat : k < nmemb => G[<<x, k>>] = Step(x, k + 1)
    <3> HIDE DEF Step
    <3> QED
      OBVIOUS
  <2> HIDE DEF G
  <2>3. PICK g \in [0 .. nmemb -> Reads] : LoopRun(g, first, G, nmemb)
    <3> HIDE DEF first
    <3> QED
      BY <1>6, <2>1, LoopRuns
  <2>4. \A n \in 0 .. nmemb : g[n] = IF n = 0 THEN first ELSE Step(g[n - 1], n)
    <3> SUFFICES ASSUME NEW n \in 0 .. nmemb
                 PROVE  g[n] = IF n = 0 THEN first ELSE Step(g[n - 1], n)
      OBVIOUS
    <3>1. CASE n = 0
      BY <2>3, <3>1 DEF LoopRun
    <3>2. CASE n # 0
      <4>1. n \in 1 .. nmemb /\ n - 1 \in Nat /\ n - 1 \in 0 .. nmemb /\ n - 1 < nmemb /\ (n - 1) + 1 = n
        BY <3>2
      <4>2. g[n - 1] \in Reads /\ g[n] = G[<<g[n - 1], n - 1>>]
        BY <2>3, <4>1 DEF LoopRun
      <4>3. G[<<g[n - 1], n - 1>>] = Step(g[n - 1], n - 1 + 1)
        <5> HIDE DEF Step
        <5> QED
          BY <2>2, <4>1, <4>2
      <4> HIDE DEF Step
      <4> QED
        BY <3>2, <4>1, <4>2, <4>3
    <3> QED
      BY <3>1, <3>2
  <2>5. Is(g)
    <3> HIDE DEF Step, first
    <3> QED
      BY <2>4
  <2> HIDE DEF Is
  <2> QED
    BY <2>5, Zenon
<1> HIDE DEF R
<1>8. R[0] = first /\ \A n \in 1 .. nmemb : R[n] = Step(R[n - 1], n)
  <2>1. \A n \in 0 .. nmemb : R[n] = IF n = 0 THEN first ELSE Step(R[n - 1], n)
    <3> HIDE DEF Step, first
    <3> QED
      BY <1>7, Zenon
  <2> HIDE DEF Step, first
  <2> QED
    BY <2>1
<1> DEFINE Good(n) == /\ R[n] \in Reads /\ R[n].res \in {nmemb, -EIO}
                      /\ R[n].res >= 0 =>
                           /\ n = 0 \/ (size <= ClusterBytes /\ O(1) < ClusterBytes)
                           /\ R[n].bytes = Span(A + O(n), n * size)
                      /\ O(0) <= ClusterBytes => R[n].res = nmemb
           S == {n \in Nat : n <= nmemb => Good(n)}
<1>9. 0 \in S
  <2>1. Span(A + O(0), 0 * size) = <<>>
    BY DEF Span
  <2>2. R[0].res = nmemb /\ R[0].bytes = <<>> /\ R[0] \in Reads
    BY <1>6, <1>8
  <2> HIDE DEF O
  <2> QED
    BY <2>1, <2>2
<1>10. ASSUME NEW n \in Nat, n \in S PROVE n + 1 \in S
  <2> SUFFICES ASSUME n + 1 <= nmemb PROVE Good(n + 1)
    OBVIOUS
  <2> DEFINE m == n + 1
  <2>1. m \in 1 .. nmemb /\ m - 1 = n /\ n <= nmemb /\ 1 \in 1 .. nmemb
    OBVIOUS
  <2>2. Good(n)
    BY <1>10, <2>1
  <2>3. R[m] = Step(R[n], m)
    <3> HIDE DEF Step, m
    <3> QED
      BY <1>8, <2>1
  <2>4. O(m) \in Nat /\ O(n) = O(m) + size /\ O(n) <= O(0)
    <3>1. O(m) \in Nat /\ O(m - 1) = O(m) + size /\ O(m - 1) <= O(0)
      BY <1>3, <2>1
    <3> HIDE DEF O, m
    <3> QED
      BY <2>1, <3>1
  <2>5. m * size = n * size + size /\ n * size \in Nat
    OBVIOUS
  <2>6. n = 0 => O(m) = O(1)
    OBVIOUS
  <2>7. O(0) \in Int /\ O(1) \in Int /\ ClusterBytes \in Nat /\ A + O(m) \in Int /\ A + O(n) = A + O(m) + size
    BY <1>2, <2>4, ClusterSize
  <2> HIDE DEF m, O, Good
  <2>8. CASE M(m).res < 0
    <3>1. R[m] = M(m)
      BY <2>3, <2>8
    <3>2. ~(O(0) <= ClusterBytes)
      <4>1. ~(O(m) < ClusterBytes /\ size <= ClusterBytes)
        BY <1>4, <2>1, <2>8
      <4> QED
        BY <2>4, <2>7, <4>1
    <3>3. R[m] \in Reads /\ R[m].res = -EIO /\ R[m].res < 0 /\ R[m].res \in Int
      BY <1>4, <2>1, <2>8, <3>1 DEF Reads
    <3>4. ~(R[m].res >= 0)
      BY <3>3
    <3> QED
      BY <3>2, <3>3, <3>4 DEF Good, m
  <2>9. CASE ~(M(m).res < 0)
    <3>1. O(m) < ClusterBytes /\ size <= ClusterBytes /\ M(m).bytes = Span(A + O(m), size)
      BY <1>4, <2>1, <2>9
    <3>2. R[m] = [R[n] EXCEPT !.bytes = M(m).bytes \o @]
      BY <2>3, <2>9
    <3>3. R[n] \in Reads
      BY <2>2 DEF Good
    <3>4. R[m].res = R[n].res /\ R[m].bytes = M(m).bytes \o R[n].bytes
      BY <3>2, <3>3 DEF Reads
    <3>5. R[m] \in Reads /\ R[m].res \in {nmemb, -EIO}
      <4>1. R[m] \in Reads
        <5> HIDE DEF Step
        <5>1. Step(R[n], m) \in Reads
          BY <1>5, <2>1, <3>3, ZenonT(30)
        <5> QED
          BY <2>3, <5>1
      <4> QED
        BY <2>2, <3>4, <4>1 DEF Good
    <3>6. ASSUME R[m].res >= 0
          PROVE  O(1) < ClusterBytes /\ R[m].bytes = Span(A + O(m), m * size)
      <4>1. R[n].res >= 0
        BY <3>4, <3>6
      <4>2. /\ n = 0 \/ (size <= ClusterBytes /\ O(1) < ClusterBytes)
            /\ R[n].bytes = Span(A + O(n), n * size)
        BY <2>2, <4>1 DEF Good
      <4>3. O(1) < ClusterBytes
        BY <2>6, <3>1, <4>2
      <4>4. Span(A + O(m), size) \o Span(A + O(m) + size, n * size) = Span(A + O(m), size + n * size)
        <5>1. size \in Nat
          OBVIOUS
        <5> QED
          BY <2>5, <2>7, <5>1, SpanConcat
      <4>5. size + n * size = m * size
        BY <2>5
      <4>6. R[m].bytes = Span(A + O(m), size) \o Span(A + O(m) + size, n * size)
        BY <2>7, <3>1, <3>4, <4>2
      <4> QED
        BY <4>3, <4>4, <4>5, <4>6
    <3>7. O(0) <= ClusterBytes => R[m].res = nmemb
      BY <2>2, <3>4 DEF Good
    <3> QED
      BY <3>1, <3>5, <3>6, <3>7 DEF Good, m
  <2> QED
    BY <2>8, <2>9
<1> HIDE DEF S
<1>11. nmemb \in S
  BY <1>9, <1>10, SetInduction
<1>12. Good(nmemb)
  BY <1>11 DEF S
<1>13. O(nmemb) = pos /\ O(1) = pos + (nmemb - 1) * size /\ O(0) = pos + nmemb * size
  OBVIOUS
<1>14. A + O(nmemb) = A + pos
  BY <1>13
<1> HIDE DEF O
<1> DEFINE r == R[nmemb]
<1>15. r \in Reads /\ r.res \in {nmemb, -EIO} /\ (pos + nmemb * size <= ClusterBytes => r.res = nmemb)
  BY <1>12, <1>13
<1>16. r.res >= 0 => /\ size <= ClusterBytes /\ pos + (nmemb - 1) * size < ClusterBytes
                     /\ r.bytes = Span(A + pos, nmemb * size)
  <2>1. nmemb # 0
    OBVIOUS
  <2> QED
    BY <1>12, <1>13, <1>14, <2>1
<1> QED
  BY <1>1, <1>15, <1>16 DEF A, c

----------------------------------------------------------------------------
(* The directory is counted up to its end, without its deleted entries.    *)
LEMMA DirectoryCount ==
    ASSUME NEW d, IsDisk(d)
    PROVE  LET end == Min({i \in DOMAIN d.root : d.root[i] = End})
               gone == Cardinality({i \in 1 .. end - 1 : d.root[i] = Deleted})
           IN  /\ end \in DOMAIN d.root
               /\ gone \in Nat
               /\ fat16_get_total_items_for_directory(d.root) = end - 1 - gone
<1> DEFINE ends == {i \in DOMAIN d.root : d.root[i] = End}
           end == Min(ends)
           all == 1 .. end - 1
           live == {i \in all : d.root[i] # Deleted}
           dead == {i \in all : d.root[i] = Deleted}
           total == fat16_get_total_items_for_directory(d.root)
<1>1. d.root \in Seq(Files \cup {Deleted, End}) /\ ends # {}
  BY DEF IsDisk
<1>2. DOMAIN d.root = 1 .. Len(d.root) /\ Len(d.root) \in Nat
  BY <1>1
<1>3. ends \in SUBSET Nat
  BY <1>2
<1>4. end \in ends
  <2> HIDE DEF ends
  <2> QED
    BY <1>1, <1>3, MinIs
<1>5. total = Cardinality(live)
  BY DEF fat16_get_total_items_for_directory
<1>6. end \in DOMAIN d.root /\ end \in Nat \ {0}
  BY <1>2, <1>4
<1> HIDE DEF end
<1>7. IsFiniteSet(all) /\ Cardinality(all) = end - 1
  <2>1. 1 \in Int /\ end - 1 \in Int /\ (IF 1 > end - 1 THEN 0 ELSE end - 1 - 1 + 1) = end - 1
    BY <1>6
  <2> QED
    BY <2>1, FS_Interval
<1>8. all \cap dead = dead /\ all \ dead = live /\ dead \in SUBSET all
  OBVIOUS
<1> HIDE DEF all, live, dead
<1>9. Cardinality(live) = Cardinality(all) - Cardinality(dead)
  <2>1. Cardinality(all \ dead) = Cardinality(all) - Cardinality(all \cap dead)
    BY <1>7, FS_Difference
  <2> QED
    BY <1>8, <2>1
<1>10. Cardinality(dead) \in Nat
  <2>1. IsFiniteSet(dead)
    BY <1>7, <1>8, FS_Subset
  <2> QED
    BY <2>1, FS_CardinalityType
<1>11. total = end - 1 - Cardinality(dead)
  BY <1>5, <1>7, <1>9
<1> HIDE DEF total
<1> QED
  BY <1>6, <1>10, <1>11 DEF total, end, dead, all

(* fat16_find_item_in_directory finds the file asked for or nothing; and   *)
(* it finds it when its entry is among the first ones, as many as live.    *)
LEMMA LookupIs ==
    ASSUME NEW d, IsDisk(d), NEW f \in Files
    PROVE  LET end == Min({i \in DOMAIN d.root : d.root[i] = End})
               gone == Cardinality({i \in 1 .. end - 1 : d.root[i] = Deleted})
           IN  /\ fat16_find_item_in_directory(d, f) \in {f, None}
               /\ fat16_find_item_in_directory(d, f) = f
                     <=> f \notin d.runon /\ \E i \in 1 .. end - 1 : d.root[i] = f /\ end - i > gone
<1> DEFINE total == fat16_get_total_items_for_directory(d.root)
           end == Min({i \in DOMAIN d.root : d.root[i] = End})
           gone == Cardinality({i \in 1 .. end - 1 : d.root[i] = Deleted})
           hits == {i \in 1 .. total : fat16_get_full_relative_filename(d, d.root[i]) = f}
<1>1. end \in DOMAIN d.root /\ gone \in Nat /\ total = end - 1 - gone
  BY DirectoryCount
<1>2. fat16_find_item_in_directory(d, f) = IF hits = {} THEN None ELSE d.root[Max(hits)]
  BY DEF fat16_find_item_in_directory
<1> HIDE DEF total, end, gone
<1>3. f # None
  BY NamesAssumption
<1>4. end \in Nat \ {0} /\ total \in Int
  <2>1. DOMAIN d.root = 1 .. Len(d.root) /\ Len(d.root) \in Nat
    BY DEF IsDisk
  <2> QED
    BY <1>1, <2>1
<1>5. \A i : i \in hits <=> i \in 1 .. total /\ d.root[i] = f /\ f \notin d.runon
  BY <1>3 DEF fat16_get_full_relative_filename
<1>6. hits # {} => Max(hits) \in hits
  <2>1. CASE total \in Nat
    <3>1. hits \in SUBSET (1 .. total)
      OBVIOUS
    <3> HIDE DEF hits
    <3> QED
      BY <2>1, <3>1, MaxIs
  <2>2. CASE total \notin Nat
    BY <1>4, <2>2
  <2> QED
    BY <2>1, <2>2
<1> HIDE DEF hits
<1>7. hits # {} => d.root[Max(hits)] = f
  BY <1>5, <1>6
<1>8. \A i : i \in 1 .. total <=> i \in 1 .. end - 1 /\ end - i > gone
  BY <1>1, <1>4
<1>9. hits # {} <=> f \notin d.runon /\ \E i \in 1 .. end - 1 : d.root[i] = f /\ end - i > gone
  BY <1>5, <1>8
<1> QED
  BY <1>2, <1>3, <1>7, <1>9 DEF end, gone

----------------------------------------------------------------------------
(* Where a cluster starts on the disk is where the FAT standard puts it.   *)
LEMMA StartIsPlace ==
    ASSUME NEW c \in Nat \ {0, 1}
    PROVE  StartOf(c) = DataStart + (c - 2) * ClusterBytes
<1> DEFINE a == FatCopies * SectorsPerFat
           b == RootEntries * EntrySize
           q == b \div SectorSize
           e == c - 2
<1>1. /\ a \in Nat /\ b \in Nat /\ e \in Nat /\ ReservedSectors \in Nat /\ SectorSize \in Nat \ {0}
      /\ SectorsPerCluster \in Nat /\ b % SectorSize = 0
  BY GeometryAssumption
<1>2. StartOf(c) = (ReservedSectors + a + q + e * SectorsPerCluster) * SectorSize
  BY DEF StartOf, fat16_cluster_to_sector, fat16_get_root_directory
<1>3. DataStart + (c - 2) * ClusterBytes = (ReservedSectors + a) * SectorSize + b + e * (SectorsPerCluster * SectorSize)
  BY DEF DataStart, ClusterBytes
<1> HIDE DEF a, b, e
<1>4. q \in Nat /\ b = q * SectorSize
  BY <1>1, Division
<1> HIDE DEF q
<1> DEFINE m == e * SectorsPerCluster
<1>5. e * (SectorsPerCluster * SectorSize) = m * SectorSize /\ m \in Nat
  BY <1>1
<1>6. (ReservedSectors + a + q + m) * SectorSize = (ReservedSectors + a) * SectorSize + q * SectorSize + m * SectorSize
  <2> HIDE DEF m
  <2> QED
    BY <1>1, <1>4, <1>5
<1> QED
  BY <1>2, <1>3, <1>4, <1>5, <1>6

(* A read that starts in the first cluster and ends before the third.      *)
LEMMA ContiguousIsSpan ==
    ASSUME NEW d, IsDisk(d), NEW f \in Files, NEW pos \in Nat, NEW want \in Nat,
           pos + want <= 2 * ClusterBytes,
           pos + want <= ClusterBytes \/ d.chain[f][2] = d.chain[f][1] + 1
    PROVE  [i \in 1 .. want |-> Place(d, f, pos + i - 1)] = Span(StartOf(d.chain[f][1]) + pos, want)
<1> DEFINE c == d.chain[f][1]
           B == ClusterBytes
           A == StartOf(c)
<1>1. c \in Nat \ {0, 1}
  <2>1. d.chain[f] \in Seq(Nat \ {0, 1}) /\ d.chain[f] # <<>>
    BY DEF IsDisk
  <2> QED
    BY <2>1
<1> HIDE DEF c
<1>2. A \in Nat /\ A = DataStart + (c - 2) * B
  BY <1>1, StartIsNat, StartIsPlace
<1>3. B \in Nat \ {0}
  BY ClusterSize
<1>4. DataStart \in Int
  BY GeometryAssumption DEF DataStart
<1>5. ASSUME NEW i \in 1 .. want
      PROVE  Place(d, f, pos + i - 1) = A + pos + i - 1
  <2> DEFINE k == pos + i - 1
  <2>1. k \in Nat /\ k < pos + want
    OBVIOUS
  <2>2. Place(d, f, k) = DataStart + (d.chain[f][k \div B + 1] - 2) * B + (k % B)
    BY DEF Place
  <2> HIDE DEF k
  <2>3. CASE k < B
    <3>1. k \div B = 0 /\ k % B = k
      BY <1>3, <2>1, <2>3
    <3>2. Place(d, f, k) = A + k
      BY <1>2, <2>2, <3>1 DEF c
    <3> QED
      BY <1>2, <3>2 DEF k
  <2>4. CASE ~(k < B)
    <3>1. k < B + B /\ k >= B
      BY <1>3, <2>1, <2>4 DEF B
    <3>2. k \div B = 1 /\ k % B = k - B
      <4> HIDE DEF B
      <4> QED
        BY <1>3, <2>1, <3>1
    <3>3. d.chain[f][2] = c + 1
      BY <1>3, <2>1, <2>4 DEF B, c
    <3>4. Place(d, f, k) = DataStart + (c + 1 - 2) * B + (k - B)
      <4> DEFINE x == d.chain[f][k \div B + 1]
                 y == k % B
      <4>1. k \div B + 1 = 2
        BY <3>2
      <4>2. x = c + 1
        BY <3>3, <4>1
      <4>3. y = k - B
        BY <3>2
      <4>4. Place(d, f, k) = DataStart + (x - 2) * B + y
        BY <2>2
      <4> HIDE DEF x, y, B
      <4>5. (x - 2) * B = (c + 1 - 2) * B
        BY <1>1, <1>3, <4>2
      <4> DEFINE z == (x - 2) * B
      <4>6. Place(d, f, k) = DataStart + z + (k - B)
        BY <4>3, <4>4
      <4> QED
        BY <4>5, <4>6
    <3>5. (c + 1 - 2) * B = (c - 2) * B + B /\ (c - 2) * B \in Int
      <4> HIDE DEF B
      <4> QED
        BY <1>1, <1>3
    <3>6. Place(d, f, k) = A + k
      <4> HIDE DEF B, A
      <4> QED
        BY <1>2, <1>3, <1>4, <2>1, <3>4, <3>5
    <3> QED
      BY <1>2, <3>6 DEF k
  <2> QED
    BY <2>3, <2>4
<1> QED
  BY <1>5 DEF Span, A, c

----------------------------------------------------------------------------
(* The inductive invariant.  F is a table of descriptors and a count per   *)
(* kind of object.                                                         *)
Tables == [fds : [Fds -> Descriptor \cup {None}], heap : [Kinds -> Nat]]

(* A descriptor in use carries its own number and the file it was opened   *)
(* with; the slots in use are the ones that are open.                      *)
SlotsMatch ==
    \A n \in Fds : /\ F.fds[n] = None <=> opened[n] = None
                   /\ F.fds[n] # None => F.fds[n].id = n /\ F.fds[n].file = opened[n]

(* The descriptors that are open, and the types of the counters.           *)
OpenNow == {n \in Fds : opened[n] # None}
CallTypes == calls \in [all : Nat, lost : Nat, found : Nat]

(* The counts of the objects an open file needs (fat16_open, fat16_close). *)
Backed ==
    /\ F.heap.descriptor = Cardinality(OpenNow)
    /\ F.heap.fat_descriptor = Cardinality(OpenNow) + calls.lost
    /\ F.heap.item_copy \in Cardinality(OpenNow) .. Cardinality(OpenNow) + calls.lost
    /\ F.heap.fat_item = calls.found

(* The inductive invariant.                                                *)
IInv ==
    /\ TypeOK /\ F \in Tables /\ CallTypes
    /\ SlotsMatch /\ Backed
    /\ ReadsTheFile /\ ShortReadsSucceed

(* A descriptor is not the empty slot.                                     *)
LEMMA DescriptorIsSome ==
    ASSUME NEW x \in Descriptor
    PROVE  x # None
<1>1. x \in [id : Fds, file : Files, pos : Nat]
  <2>1. 0 .. MaxPos \subseteq Nat
    BY FilesAssumption
  <2> QED
    BY <2>1 DEF Descriptor
<1> QED
  BY <1>1, NamesAssumption

(* Each kind of object an open file needs is a kind.                       *)
LEMMA TheKinds ==
    /\ "descriptor" \in Kinds /\ "fat_descriptor" \in Kinds
    /\ "item_copy" \in Kinds /\ "fat_item" \in Kinds
BY DEF Kinds

(* alloc adds one to the count of each kind named, kfree takes one away.   *)
LEMMA AllocIs ==
    ASSUME NEW G \in Tables, NEW kinds
    PROVE  /\ alloc(G, kinds) \in Tables /\ alloc(G, kinds).fds = G.fds
           /\ \A k \in Kinds : alloc(G, kinds).heap[k] = IF k \in kinds THEN G.heap[k] + 1 ELSE G.heap[k]
<1> DEFINE h == [k \in Kinds |-> IF k \in kinds THEN G.heap[k] + 1 ELSE G.heap[k]]
<1>1. G.heap \in [Kinds -> Nat]
  BY DEF Tables
<1>2. h \in [Kinds -> Nat]
  BY <1>1
<1>3. alloc(G, kinds) = [G EXCEPT !.heap = h]
  BY DEF alloc
<1>4. \A k \in Kinds : h[k] = IF k \in kinds THEN G.heap[k] + 1 ELSE G.heap[k]
  OBVIOUS
<1> HIDE DEF h
<1> QED
  BY <1>2, <1>3, <1>4 DEF Tables

(* The objects of a process: no call of the file system touches them.      *)
ProcessKinds == {"elf_file", "image", "stack", "task", "process"}
SameProcesses(G, H) == \A k \in ProcessKinds : H.heap[k] = G.heap[k]

(* They are kinds, and none of those an open file needs.                   *)
LEMMA TheProcessKinds ==
    /\ ProcessKinds \subseteq Kinds
    /\ "descriptor" \notin ProcessKinds /\ "fat_descriptor" \notin ProcessKinds
    /\ "item_copy" \notin ProcessKinds /\ "fat_item" \notin ProcessKinds
BY DEF Kinds, ProcessKinds

(* What parsing a path allocates is none of what an open file or a process *)
(* needs.                                                                  *)
LEMMA ParseIs ==
    ASSUME NEW G \in Tables, NEW path, IsPath(path)
    PROVE  LET P == pparser_parse(G, path)
           IN  /\ P \in Tables /\ P.fds = G.fds /\ SameProcesses(G, P)
               /\ P.heap.descriptor = G.heap.descriptor /\ P.heap.fat_descriptor = G.heap.fat_descriptor
               /\ P.heap.item_copy = G.heap.item_copy /\ P.heap.fat_item = G.heap.fat_item
<1> DEFINE P == pparser_parse(G, path)
           h == [k \in Kinds |->
                    CASE k = "path_root"             -> G.heap[k] + 1
                      [] k \in {"path_part", "part"} -> G.heap[k] + Len(path.parts)
                      [] OTHER                       -> G.heap[k]]
<1>1. G.heap \in [Kinds -> Nat]
  BY DEF Tables
<1>2. Len(path.parts) \in Nat /\ path.valid \in BOOLEAN
  BY DEF IsPath
<1>3. h \in [Kinds -> Nat]
  BY <1>1, <1>2
<1>4. P = IF ~path.valid THEN G ELSE [G EXCEPT !.heap = h]
  BY DEF pparser_parse
<1>5. /\ h.descriptor = G.heap.descriptor /\ h.fat_descriptor = G.heap.fat_descriptor
      /\ h.item_copy = G.heap.item_copy /\ h.fat_item = G.heap.fat_item
      /\ \A k \in ProcessKinds : h[k] = G.heap[k]
  BY TheKinds, TheProcessKinds DEF ProcessKinds
<1> HIDE DEF h
<1>6. CASE path.valid
  BY <1>3, <1>4, <1>5, <1>6 DEF Tables, SameProcesses
<1>7. CASE ~path.valid
  BY <1>4, <1>7 DEF SameProcesses
<1> QED
  BY <1>6, <1>7

(* A new descriptor number is the number of an empty slot.                 *)
LEMMA NewDescriptorIsEmpty ==
    ASSUME NEW G \in Tables
    PROVE  \/ file_new_descriptor(G) = 0
           \/ file_new_descriptor(G) \in Fds /\ G.fds[file_new_descriptor(G)] = None
<1> DEFINE free == {n \in Fds : G.fds[n] = None}
<1>1. free \in SUBSET Nat
  BY FdsAssumption DEF Fds
<1>2. file_new_descriptor(G) = IF free = {} THEN 0 ELSE Min(free)
  BY DEF file_new_descriptor
<1>3. free # {} => Min(free) \in free
  <2> HIDE DEF free
  <2> QED
    BY <1>1, MinIs
<1> QED
  BY <1>2, <1>3

(* The three outcomes of fopen: the file system is not asked; it is asked  *)
(* and the call fails, keeping what was allocated; or an empty slot of the *)
(* table holds a descriptor of the file asked for.                         *)
NotAsked(G, O) ==
    /\ O.fd = 0 /\ O.F \in Tables /\ O.F.fds = G.fds /\ SameProcesses(G, O.F)
    /\ O.F.heap.descriptor = G.heap.descriptor /\ O.F.heap.fat_descriptor = G.heap.fat_descriptor
    /\ O.F.heap.item_copy = G.heap.item_copy /\ O.F.heap.fat_item = G.heap.fat_item

(* fat16_open keeps its descriptor, and the item of a file that was found. *)
AskedInVain(G, O) ==
    /\ O.fd = 0 /\ O.F \in Tables /\ O.F.fds = G.fds /\ SameProcesses(G, O.F)
    /\ O.F.heap.descriptor = G.heap.descriptor /\ O.F.heap.fat_descriptor = G.heap.fat_descriptor + 1
    /\ \E e \in {0, 1} : /\ O.F.heap.item_copy = G.heap.item_copy + e
                         /\ O.F.heap.fat_item = G.heap.fat_item + e

(* An empty slot gets the descriptor, with everything it needs.            *)
Opened(G, O, f) ==
    /\ O.fd \in Fds /\ G.fds[O.fd] = None /\ f \in Files /\ O.F \in Tables /\ SameProcesses(G, O.F)
    /\ O.F.fds = [G.fds EXCEPT ![O.fd] = [id |-> O.fd, file |-> f, pos |-> 0]]
    /\ O.F.heap.descriptor = G.heap.descriptor + 1
    /\ O.F.heap.fat_descriptor = G.heap.fat_descriptor + 1
    /\ O.F.heap.item_copy = G.heap.item_copy + 1 /\ O.F.heap.fat_item = G.heap.fat_item + 1

(* A call of fopen has one of these outcomes.                              *)
LEMMA OpenIs ==
    ASSUME NEW d, IsDisk(d), NEW G \in Tables, NEW path, IsPath(path), NEW mode
    PROVE  LET O == fopen(d, G, path, mode)
           IN  NotAsked(G, O) \/ AskedInVain(G, O) \/ Opened(G, O, path.parts[1])
<1> DEFINE P == pparser_parse(G, path)
           O == fopen(d, G, path, mode)
           f == path.parts[1]
           first == fat16_find_item_in_directory(d, f)
           item == fat16_get_directory_entry(d, path.parts)
           n == file_new_descriptor(P)
           kinds == {"fat_descriptor"}
                       \cup (IF first # None THEN fat16_new_fat_item_for_directory_item(d, first) ELSE {})
           A == fat16_open(d, P, path.parts)
           failed == ~path.valid \/ path.parts = <<>> \/ path.drive # 0 \/ fat16_resolve(d) # 0 \/ mode # "r"
<1>1. /\ P \in Tables /\ P.fds = G.fds /\ SameProcesses(G, P)
      /\ P.heap.descriptor = G.heap.descriptor /\ P.heap.fat_descriptor = G.heap.fat_descriptor
      /\ P.heap.item_copy = G.heap.item_copy /\ P.heap.fat_item = G.heap.fat_item
  BY ParseIs
<1>2. O = IF failed THEN [F |-> P, fd |-> 0] ELSE WithDescriptor(A, item, n)
  BY DEF fopen, OpenParsed
<1>3. CASE failed
  <2> HIDE DEF failed, P, A
  <2>1. O.F = P /\ O.fd = 0
    BY <1>2, <1>3
  <2> QED
    BY <1>1, <2>1 DEF NotAsked
<1>4. CASE ~failed
  <2>1. path.parts \in Seq(Files) /\ path.parts # <<>>
    BY <1>4 DEF IsPath
  <2>2. f \in Files
    BY <2>1
  <2>3. first \in {f, None} /\ (item # None => item = f /\ first # None) /\ f # None
    <3>1. first \in {f, None}
      <4> HIDE DEF f
      <4> QED
        BY <2>2, LookupIs
    <3> QED
      BY <2>2, <3>1, NamesAssumption DEF fat16_get_directory_entry
  <2>4. A = alloc(P, kinds)
    BY DEF fat16_open
  <2>5. /\ A \in Tables /\ A.fds = P.fds
        /\ \A k \in Kinds : A.heap[k] = IF k \in kinds THEN P.heap[k] + 1 ELSE P.heap[k]
    <3> HIDE DEF A, P, kinds
    <3> QED
      BY <1>1, <2>4, AllocIs
  <2>6. /\ "fat_descriptor" \in kinds /\ "descriptor" \notin kinds
        /\ first # None => "item_copy" \in kinds /\ "fat_item" \in kinds
        /\ first = None => "item_copy" \notin kinds /\ "fat_item" \notin kinds
        /\ kinds \cap ProcessKinds = {}
    BY DEF ProcessKinds, fat16_new_fat_item_for_directory_item, fat16_load_fat_directory
  <2> HIDE DEF kinds, A, first, f
  <2>7. /\ A.heap.descriptor = P.heap.descriptor /\ A.heap.fat_descriptor = P.heap.fat_descriptor + 1
        /\ first # None => A.heap.item_copy = P.heap.item_copy + 1 /\ A.heap.fat_item = P.heap.fat_item + 1
        /\ first = None => A.heap.item_copy = P.heap.item_copy /\ A.heap.fat_item = P.heap.fat_item
    BY <2>5, <2>6, TheKinds
  <2>8. SameProcesses(G, A)
    BY <1>1, <2>5, <2>6, TheProcessKinds DEF SameProcesses
  <2>9. O = WithDescriptor(A, item, n)
    BY <1>2, <1>4
  <2>10. n = 0 \/ (n \in Fds /\ P.fds[n] = None)
    <3> HIDE DEF P
    <3> QED
      BY <1>1, NewDescriptorIsEmpty
  <2> HIDE DEF O, P, item, n
  <2>11. G.heap \in [Kinds -> Nat] /\ P.heap \in [Kinds -> Nat]
    BY <1>1 DEF Tables
  <2>12. CASE item = None \/ n = 0
    <3>1. O = [F |-> A, fd |-> 0]
      BY <2>9, <2>12 DEF WithDescriptor
    <3>2. O.F = A /\ O.fd = 0
      BY <3>1
    <3>3. \E e \in {0, 1} : A.heap.item_copy = G.heap.item_copy + e /\ A.heap.fat_item = G.heap.fat_item + e
      <4>1. CASE first = None
        BY <1>1, <2>7, <2>11, <4>1, TheKinds
      <4>2. CASE first # None
        BY <1>1, <2>7, <2>11, <4>2, TheKinds
      <4> QED
        BY <4>1, <4>2
    <3>4. AskedInVain(G, O)
      BY <1>1, <2>5, <2>7, <2>8, <3>2, <3>3 DEF AskedInVain
    <3> QED
      BY <3>4 DEF O
  <2>13. CASE ~(item = None \/ n = 0)
    <3> DEFINE C == alloc(A, {"descriptor"})
               desc == [id |-> n, file |-> f, pos |-> 0]
    <3>1. /\ C \in Tables /\ C.fds = A.fds
          /\ \A k \in Kinds : C.heap[k] = IF k \in {"descriptor"} THEN A.heap[k] + 1 ELSE A.heap[k]
      BY <2>5, AllocIs
    <3>2. O = [F |-> [C EXCEPT !.fds[n] = desc], fd |-> n]
      BY <2>3, <2>9, <2>13 DEF WithDescriptor
    <3> HIDE DEF C
    <3>3. n \in Fds /\ P.fds[n] = None /\ desc \in Descriptor
      <4>1. 0 \in 0 .. MaxPos
        BY FilesAssumption
      <4> QED
        BY <2>2, <2>10, <2>13, <4>1 DEF Descriptor
    <3> HIDE DEF desc
    <3>4. /\ O.fd = n /\ O.F.fds = [C.fds EXCEPT ![n] = desc] /\ O.F.heap = C.heap /\ O.F \in Tables
      BY <3>1, <3>2, <3>3 DEF Tables
    <3>5. /\ C.heap.descriptor = A.heap.descriptor + 1 /\ C.heap.fat_descriptor = A.heap.fat_descriptor
          /\ C.heap.item_copy = A.heap.item_copy /\ C.heap.fat_item = A.heap.fat_item
      BY <3>1, TheKinds
    <3>6. SameProcesses(G, O.F)
      BY <2>8, <3>1, <3>4, TheProcessKinds DEF SameProcesses
    <3>7. Opened(G, O, f)
      BY <1>1, <2>2, <2>3, <2>5, <2>7, <2>13, <3>1, <3>3, <3>4, <3>5, <3>6 DEF Opened, desc
    <3> QED
      BY <3>7 DEF f, O
  <2> QED
    BY <2>12, <2>13
<1> QED
  BY <1>3, <1>4

(* A read of an open file.                                                 *)
LEMMA ReadIs ==
    ASSUME NEW d \in Disks, NEW G \in Tables, NEW n \in Fds, G.fds[n] # None,
           NEW size \in Sizes, NEW nmemb \in Counts
    PROVE  LET r == fread(d, G, n, size, nmemb)
               f == G.fds[n].file
               pos == G.fds[n].pos
               want == size * nmemb
           IN  /\ (r.res >= 0 /\ (pos + want <= ClusterBytes \/ d.chain[f][2] = d.chain[f][1] + 1))
                     => r.bytes = [i \in 1 .. want |-> Place(d, f, pos + i - 1)]
               /\ (want > 0 /\ pos + want <= ClusterBytes) => r.res > 0
<1> DEFINE r == fread(d, G, n, size, nmemb)
           f == G.fds[n].file
           pos == G.fds[n].pos
           want == size * nmemb
           cluster == ClusterBytes
<1>1. G.fds[n] \in Descriptor
  BY DEF Tables
<1>2. f \in Files /\ pos \in Nat
  BY <1>1, FilesAssumption DEF Descriptor
<1>3. size \in Nat /\ nmemb \in Nat /\ IsDisk(d)
  BY FilesAssumption
<1>4. r = IF size = 0 \/ nmemb = 0 THEN [res |-> -EINVARG, bytes |-> <<>>]
          ELSE fat16_read(d, f, pos, size, nmemb)
  BY DEF fread, file_get_fd
<1>5. CASE size = 0 \/ nmemb = 0
  <2>1. want = 0
    BY <1>3, <1>5
  <2>2. r.res = -2
    BY <1>4, <1>5 DEF EINVARG
  <2> HIDE DEF want, r
  <2> QED
    BY <2>1, <2>2 DEF want, r
<1>6. CASE ~(size = 0 \/ nmemb = 0)
  <2>1. r = fat16_read(d, f, pos, size, nmemb)
    BY <1>4, <1>6
  <2>2. size \in Nat \ {0} /\ nmemb \in Nat \ {0}
    BY <1>3, <1>6
  <2>3. nmemb * size = want /\ want \in Nat /\ (nmemb - 1) * size + size = want
    BY <1>3
  <2> HIDE DEF r, f, pos
  <2>4. /\ r.res >= 0 => /\ size <= cluster /\ pos + (nmemb - 1) * size < cluster
                         /\ r.bytes = Span(StartOf(d.chain[f][1]) + pos, nmemb * size)
        /\ pos + nmemb * size <= cluster => r.res = nmemb
    BY <1>2, <1>3, <2>1, <2>2, FatReads
  <2>5. cluster \in Nat
    BY ClusterSize
  <2> DEFINE rest == (nmemb - 1) * size
  <2>6. rest \in Int
    BY <1>3
  <2>7. r.res >= 0 => pos + want <= 2 * cluster
    <3> HIDE DEF want, cluster, rest
    <3>1. rest + size = want
      BY <2>3 DEF rest
    <3>2. r.res >= 0 => size <= cluster /\ pos + rest < cluster
      BY <2>4 DEF rest
    <3> QED
      BY <1>2, <1>3, <2>3, <2>5, <2>6, <3>1, <3>2
  <2> HIDE DEF want
  <2>8. ASSUME r.res >= 0, pos + want <= cluster \/ d.chain[f][2] = d.chain[f][1] + 1
        PROVE  r.bytes = [i \in 1 .. want |-> Place(d, f, pos + i - 1)]
    <3>1. pos + want <= 2 * ClusterBytes
      BY <2>7, <2>8
    <3>2. [i \in 1 .. want |-> Place(d, f, pos + i - 1)] = Span(StartOf(d.chain[f][1]) + pos, want)
      <4>1. f \in Files /\ pos \in Nat /\ want \in Nat /\ IsDisk(d)
        BY <1>2, <1>3, <2>3
      <4>2. pos + want <= ClusterBytes \/ d.chain[f][2] = d.chain[f][1] + 1
        BY <2>8
      <4> QED
        BY <3>1, <4>1, <4>2, ContiguousIsSpan
    <3>3. r.bytes = Span(StartOf(d.chain[f][1]) + pos, want)
      BY <2>3, <2>4, <2>8
    <3> QED
      BY <3>2, <3>3
  <2>9. (want > 0 /\ pos + want <= cluster) => r.res > 0
    BY <2>2, <2>3, <2>4
  <2> QED
    BY <2>8, <2>9 DEF r, f, pos, want
<1> QED
  BY <1>5, <1>6

----------------------------------------------------------------------------
(* The invariant speaks of the last read only when there was one.          *)
LEMMA NoReadIsGood ==
    ASSUME last' = NoRead
    PROVE  ReadsTheFile' /\ ShortReadsSucceed'
<1>1. last'.file = None
  BY DEF NoRead
<1> QED
  BY <1>1 DEF ReadsTheFile, ShortReadsSucceed, InFile

(* At the start no file is open and nothing is allocated.                  *)
LEMMA InitIInv == Init => IInv
<1> SUFFICES ASSUME Init PROVE IInv
  OBVIOUS
<1>1. F = [fds |-> [n \in Fds |-> None], heap |-> [k \in Kinds |-> 0]]
  BY DEF Init, NoFiles
<1>2. F.fds = [n \in Fds |-> None] /\ F.heap = [k \in Kinds |-> 0]
  BY <1>1
<1>3. F \in Tables
  BY <1>1 DEF Tables
<1>4. TypeOK
  BY <1>2 DEF Init, TypeOK
<1>5. CallTypes
  BY DEF Init, CallTypes
<1>6. SlotsMatch
  BY <1>2 DEF Init, SlotsMatch
<1>7. OpenNow = {}
  BY DEF Init, OpenNow
<1>8. Backed
  <2>1. Cardinality(OpenNow) = 0
    BY <1>7, FS_EmptySet
  <2>2. /\ F.heap.descriptor = 0 /\ F.heap.fat_descriptor = 0
        /\ F.heap.item_copy = 0 /\ F.heap.fat_item = 0
    BY <1>2, TheKinds
  <2>3. calls.lost = 0 /\ calls.found = 0
    BY DEF Init
  <2> QED
    BY <2>1, <2>2, <2>3 DEF Backed
<1>9. last.file = None
  BY DEF Init, NoRead
<1>10. ReadsTheFile /\ ShortReadsSucceed
  BY <1>9 DEF ReadsTheFile, ShortReadsSucceed, InFile
<1> QED
  BY <1>3, <1>4, <1>5, <1>6, <1>8, <1>10 DEF IInv

(* The table of descriptors is finite.                                     *)
LEMMA OpenNowIsFinite == IsFiniteSet(OpenNow) /\ Cardinality(OpenNow) \in Nat
<1>1. IsFiniteSet(Fds)
  BY FdsAssumption, FS_Interval DEF Fds
<1>2. OpenNow \in SUBSET Fds
  BY DEF OpenNow
<1>3. IsFiniteSet(OpenNow)
  BY <1>1, <1>2, FS_Subset
<1> QED
  BY <1>3, FS_CardinalityType

(* A call of fopen keeps the invariant.                                    *)
LEMMA OpenKeepsIInv ==
    ASSUME IInv, NEW path \in Paths, NEW mode \in Modes, open(path, mode)
    PROVE  IInv'
<1> DEFINE O == fopen(disk, F, path, mode)
           f == path.parts[1]
           before == F.heap
           after == O.F.heap
           card == Cardinality(OpenNow)
<1>1. IsPath(path)
  BY FilesAssumption
<1>2. disk \in Disks /\ F \in Tables /\ IsDisk(disk)
  BY FilesAssumption DEF IInv, TypeOK
<1>3. NotAsked(F, O) \/ AskedInVain(F, O) \/ Opened(F, O, f)
  BY <1>1, <1>2, OpenIs
<1>4. /\ F' = O.F /\ disk' = disk /\ last' = NoRead
      /\ opened' = IF O.fd = 0 THEN opened ELSE [opened EXCEPT ![O.fd] = f]
      /\ calls' = [all |-> calls.all + 1,
                   lost |-> calls.lost + (IF after.fat_descriptor > before.fat_descriptor /\ O.fd = 0
                                          THEN 1 ELSE 0),
                   found |-> calls.found + (after.item_copy - before.item_copy)]
  BY DEF open
<1> HIDE DEF O, f
<1>5. /\ before.descriptor \in Nat /\ before.fat_descriptor \in Nat
      /\ before.item_copy \in Nat /\ before.fat_item \in Nat
  BY <1>2, TheKinds DEF Tables
<1>6. card \in Nat /\ IsFiniteSet(OpenNow)
  BY OpenNowIsFinite
<1>7. calls.all \in Nat /\ calls.lost \in Nat /\ calls.found \in Nat
  BY DEF IInv, CallTypes
<1>8. /\ before.descriptor = card /\ before.fat_descriptor = card + calls.lost
      /\ before.item_copy >= card /\ before.item_copy <= card + calls.lost
      /\ before.fat_item = calls.found
  BY <1>5, <1>6, <1>7 DEF IInv, Backed
<1>9. opened \in [Fds -> Files \cup {None}] /\ F.fds \in [Fds -> Descriptor \cup {None}]
  BY DEF IInv, TypeOK
<1>10. O.F \in Tables
  BY <1>3 DEF NotAsked, AskedInVain, Opened
<1>11. ReadsTheFile' /\ ShortReadsSucceed'
  BY <1>4, NoReadIsGood
<1>12. F' \in Tables /\ F'.fds \in [Fds -> Descriptor \cup {None}] /\ F'.heap \in [Kinds -> Nat]
  BY <1>4, <1>10 DEF Tables
<1> HIDE DEF card, before, after
<1>13. CASE NotAsked(F, O) \/ AskedInVain(F, O)
  <2>1. O.fd = 0 /\ O.F.fds = F.fds
    BY <1>13 DEF NotAsked, AskedInVain
  <2>2. opened' = opened /\ F'.fds = F.fds
    BY <1>4, <2>1
  <2>3. SlotsMatch' /\ TypeOK'
    BY <1>2, <1>4, <1>9, <1>12, <2>2 DEF IInv, SlotsMatch, TypeOK
  <2>4. OpenNow' = OpenNow
    BY <2>2 DEF OpenNow
  <2>5. Cardinality(OpenNow') = card
    BY <2>4 DEF card
  <2>6. PICK e \in {0, 1}, l \in {0, 1} :
           /\ after.descriptor = before.descriptor /\ after.fat_descriptor = before.fat_descriptor + l
           /\ after.item_copy = before.item_copy + e /\ after.fat_item = before.fat_item + e
           /\ e <= l
    <3>1. CASE NotAsked(F, O)
      <4>1. /\ after.descriptor = before.descriptor /\ after.fat_descriptor = before.fat_descriptor + 0
            /\ after.item_copy = before.item_copy + 0 /\ after.fat_item = before.fat_item + 0
        BY <1>5, <3>1 DEF NotAsked, after, before
      <4> QED
        BY <4>1
    <3>2. CASE AskedInVain(F, O)
      <4>1. PICK e \in {0, 1} : after.item_copy = before.item_copy + e /\ after.fat_item = before.fat_item + e
        BY <3>2 DEF AskedInVain, after, before
      <4>2. after.descriptor = before.descriptor /\ after.fat_descriptor = before.fat_descriptor + 1
        BY <3>2 DEF AskedInVain, after, before
      <4> QED
        BY <4>1, <4>2
    <3> QED
      BY <1>13, <3>1, <3>2
  <2>7. calls'.lost = calls.lost + l /\ calls'.found = calls.found + e /\ calls'.all = calls.all + 1
    BY <1>4, <1>5, <2>1, <2>6
  <2>8. CallTypes'
    <3>1. calls' = [all |-> calls'.all, lost |-> calls'.lost, found |-> calls'.found]
      BY <1>4
    <3>2. calls'.all \in Nat /\ calls'.lost \in Nat /\ calls'.found \in Nat
      BY <1>7, <2>6, <2>7
    <3> QED
      BY <3>1, <3>2 DEF CallTypes
  <2>9. /\ after.descriptor = card /\ after.fat_descriptor = card + calls'.lost
        /\ after.item_copy \in card .. card + calls'.lost /\ after.fat_item = calls'.found
    BY <1>5, <1>6, <1>7, <1>8, <2>6, <2>7
  <2>10. Backed'
    BY <1>4, <2>5, <2>9 DEF Backed, after
  <2> QED
    BY <1>11, <1>12, <2>3, <2>8, <2>10 DEF IInv
<1>14. CASE Opened(F, O, f)
  <2> DEFINE n == O.fd
             desc == [id |-> n, file |-> f, pos |-> 0]
  <2>1. n \in Fds /\ F.fds[n] = None /\ f \in Files /\ O.F.fds = [F.fds EXCEPT ![n] = desc]
    BY <1>14 DEF Opened
  <2>2. n # 0
    BY <2>1 DEF Fds
  <2>3. opened' = [opened EXCEPT ![n] = f] /\ F'.fds = [F.fds EXCEPT ![n] = desc]
    BY <1>4, <2>1, <2>2
  <2>4. desc \in Descriptor /\ f # None
    <3>1. 0 \in 0 .. MaxPos
      BY FilesAssumption
    <3> QED
      BY <2>1, <3>1, FilesAssumption, NamesAssumption DEF Descriptor
  <2>5. desc # None /\ desc.id = n /\ desc.file = f
    BY <2>4, DescriptorIsSome
  <2> HIDE DEF desc, n
  <2>6. SlotsMatch'
    BY <1>9, <2>1, <2>3, <2>4, <2>5 DEF IInv, SlotsMatch
  <2>7. TypeOK'
    <3>1. opened' \in [Fds -> Files \cup {None}]
      BY <1>9, <2>1, <2>3
    <3> QED
      BY <1>2, <1>4, <1>12, <3>1 DEF TypeOK
  <2>8. n \notin OpenNow /\ OpenNow' = OpenNow \cup {n}
    <3>1. opened[n] = None
      BY <2>1 DEF IInv, SlotsMatch
    <3> QED
      BY <1>9, <2>1, <2>3, <2>4, <3>1 DEF OpenNow
  <2>9. Cardinality(OpenNow') = card + 1
    BY <1>6, <2>8, FS_AddElement DEF card
  <2>10. /\ after.descriptor = before.descriptor + 1 /\ after.fat_descriptor = before.fat_descriptor + 1
         /\ after.item_copy = before.item_copy + 1 /\ after.fat_item = before.fat_item + 1
    BY <1>14 DEF Opened, after, before
  <2>11. calls'.lost = calls.lost /\ calls'.found = calls.found + 1 /\ calls'.all = calls.all + 1
    BY <1>4, <1>5, <1>7, <2>2, <2>10 DEF n
  <2>12. CallTypes'
    <3>1. calls' = [all |-> calls'.all, lost |-> calls'.lost, found |-> calls'.found]
      BY <1>4
    <3>2. calls'.all \in Nat /\ calls'.lost \in Nat /\ calls'.found \in Nat
      BY <1>7, <2>11
    <3> QED
      BY <3>1, <3>2 DEF CallTypes
  <2>13. /\ after.descriptor = card + 1 /\ after.fat_descriptor = card + 1 + calls'.lost
         /\ after.item_copy \in card + 1 .. card + 1 + calls'.lost /\ after.fat_item = calls'.found
    BY <1>5, <1>6, <1>7, <1>8, <2>10, <2>11
  <2>14. Backed'
    BY <1>4, <2>9, <2>13 DEF Backed, after
  <2> QED
    BY <1>11, <1>12, <2>6, <2>7, <2>12, <2>14 DEF IInv
<1> QED
  BY <1>3, <1>13, <1>14

(* A call of fclose keeps the invariant.                                   *)
LEMMA CloseKeepsIInv ==
    ASSUME IInv, NEW n \in Fds, close(n)
    PROVE  IInv'
<1> DEFINE card == Cardinality(OpenNow)
           before == F.heap
           h == [k \in Kinds |-> IF k \in {"item_copy", "fat_descriptor"} THEN F.heap[k] - 1 ELSE F.heap[k]]
           after == [k \in Kinds |-> IF k \in {"descriptor"} THEN h[k] - 1 ELSE h[k]]
<1>1. disk \in Disks /\ F \in Tables /\ F.fds \in [Fds -> Descriptor \cup {None}] /\ F.heap \in [Kinds -> Nat]
  BY DEF IInv, TypeOK, Tables
<1>2. /\ F' = fclose(F, n) /\ disk' = disk /\ last' = NoRead /\ calls' = calls
      /\ opened' = [opened EXCEPT ![n] = None]
  BY DEF close
<1>3. opened \in [Fds -> Files \cup {None}]
  BY DEF IInv, TypeOK
<1>4. opened' \in [Fds -> Files \cup {None}] /\ CallTypes'
  BY <1>2, <1>3 DEF IInv, CallTypes
<1>5. ReadsTheFile' /\ ShortReadsSucceed'
  BY <1>2, NoReadIsGood
<1>6. CASE F.fds[n] = None
  <2>1. opened[n] = None
    BY <1>6 DEF IInv, SlotsMatch
  <2>2. opened' = opened
    BY <1>2, <1>3, <2>1
  <2>3. F' = F
    BY <1>2, <1>6 DEF fclose, file_get_fd
  <2>4. OpenNow' = OpenNow
    BY <2>2 DEF OpenNow
  <2>5. Backed'
    BY <1>2, <2>3, <2>4 DEF IInv, Backed
  <2> QED
    BY <1>1, <1>2, <1>4, <1>5, <2>2, <2>3, <2>5 DEF IInv, TypeOK, SlotsMatch
<1>7. CASE F.fds[n] # None
  <2>1. F.fds[n].id = n /\ opened[n] # None
    BY <1>7 DEF IInv, SlotsMatch
  <2>2. fclose(F, n) = [kfree(fat16_close(F), {"descriptor"}) EXCEPT !.fds[n] = None]
    BY <1>7, <2>1 DEF fclose, file_get_fd
  <2>3. fat16_close(F) = [F EXCEPT !.heap = h]
    BY DEF fat16_close, kfree
  <2>4. [F EXCEPT !.heap = h] = [fds |-> F.fds, heap |-> h]
    BY <1>1 DEF Tables
  <2>5. kfree(fat16_close(F), {"descriptor"}) = [fds |-> F.fds, heap |-> after]
    <3> DEFINE C == fat16_close(F)
    <3>1. C = [fds |-> F.fds, heap |-> h]
      BY <2>3, <2>4
    <3>2. kfree(C, {"descriptor"}) =
             [C EXCEPT !.heap = [k \in Kinds |-> IF k \in {"descriptor"} THEN C.heap[k] - 1 ELSE C.heap[k]]]
      BY DEF kfree
    <3> HIDE DEF C
    <3>3. C.heap = h
      BY <3>1
    <3>4. kfree(C, {"descriptor"}) = [C EXCEPT !.heap = after]
      BY <3>2, <3>3
    <3> HIDE DEF h, after
    <3> QED
      BY <3>1, <3>4 DEF C
  <2>6. F' = [fds |-> [F.fds EXCEPT ![n] = None], heap |-> after]
    <3> HIDE DEF after
    <3> QED
      BY <1>2, <2>2, <2>5
  <2>7. F'.fds = [F.fds EXCEPT ![n] = None] /\ F'.heap = after
    <3> HIDE DEF after
    <3> QED
      BY <2>6
  <2>8. n \in OpenNow /\ OpenNow' = OpenNow \ {n}
    BY <1>2, <1>3, <2>1 DEF OpenNow
  <2>9. card \in Nat /\ IsFiniteSet(OpenNow)
    BY OpenNowIsFinite
  <2>10. Cardinality(OpenNow') = card - 1 /\ Cardinality(OpenNow') \in Nat
    <3>1. Cardinality(OpenNow') = card - 1
      BY <2>8, <2>9, FS_RemoveElement
    <3>2. IsFiniteSet(OpenNow')
      BY <2>8, <2>9, FS_RemoveElement
    <3> QED
      BY <3>1, <3>2, FS_CardinalityType
  <2>11. /\ calls.lost \in Nat /\ calls.found \in Nat
         /\ before.descriptor \in Nat /\ before.fat_descriptor \in Nat
         /\ before.item_copy \in Nat /\ before.fat_item \in Nat
    BY <1>1, TheKinds DEF IInv, CallTypes
  <2>12. /\ before.descriptor = card /\ before.fat_descriptor = card + calls.lost
         /\ before.item_copy >= card /\ before.item_copy <= card + calls.lost
         /\ before.fat_item = calls.found
    BY <2>9, <2>11 DEF IInv, Backed
  <2>13. /\ after.descriptor = before.descriptor - 1 /\ after.fat_descriptor = before.fat_descriptor - 1
         /\ after.item_copy = before.item_copy - 1 /\ after.fat_item = before.fat_item
    BY TheKinds
  <2>14. \A k \in Kinds : after[k] = before[k] \/ (k \in {"descriptor", "fat_descriptor", "item_copy"}
                                                   /\ after[k] = before[k] - 1)
    OBVIOUS
  <2>15. DOMAIN after = Kinds /\ after = [k \in Kinds |-> after[k]]
    OBVIOUS
  <2> HIDE DEF card, before, after
  <2>16. card - 1 \in Nat
    BY <2>10
  <2>17. after \in [Kinds -> Nat]
    <3>1. \A k \in Kinds : after[k] \in Nat
      <4> SUFFICES ASSUME NEW k \in Kinds PROVE after[k] \in Nat
        OBVIOUS
      <4>1. before[k] \in Nat
        BY <1>1 DEF before
      <4>2. before.descriptor - 1 \in Nat /\ before.fat_descriptor - 1 \in Nat /\ before.item_copy - 1 \in Nat
        BY <2>9, <2>11, <2>12, <2>16
      <4> QED
        BY <2>14, <4>1, <4>2
    <3> QED
      BY <2>15, <3>1
  <2>18. Backed'
    <3>1. /\ after.descriptor = card - 1 /\ after.fat_descriptor = card - 1 + calls.lost
          /\ after.item_copy \in card - 1 .. card - 1 + calls.lost /\ after.fat_item = calls.found
      BY <2>9, <2>11, <2>12, <2>13, <2>16
    <3> QED
      BY <1>2, <2>7, <2>10, <3>1 DEF Backed
  <2>19. F' \in Tables /\ F'.fds \in [Fds -> Descriptor \cup {None}] /\ F'.heap \in [Kinds -> Nat]
    BY <1>1, <2>6, <2>7, <2>17 DEF Tables
  <2>20. SlotsMatch'
    BY <1>1, <1>2, <1>3, <2>7 DEF IInv, SlotsMatch
  <2> QED
    BY <1>1, <1>2, <1>4, <1>5, <2>18, <2>19, <2>20 DEF IInv, TypeOK
<1> QED
  BY <1>6, <1>7

(* A call of fseek keeps the invariant.                                    *)
LEMMA SeekKeepsIInv ==
    ASSUME IInv, NEW n \in Fds, NEW o \in Offsets, NEW w \in {"SEEK_SET", "SEEK_CUR", "SEEK_END"},
           seek(n, o, w)
    PROVE  IInv'
<1>1. disk \in Disks /\ F \in Tables /\ F.fds \in [Fds -> Descriptor \cup {None}] /\ F.heap \in [Kinds -> Nat]
  BY DEF IInv, TypeOK, Tables
<1>2. /\ F' = fseek(disk, F, n, o, w) /\ disk' = disk /\ last' = NoRead
      /\ calls' = calls /\ opened' = opened
      /\ F'.fds[n] # None => F'.fds[n].pos <= MaxPos
  BY DEF seek
<1>3. ReadsTheFile' /\ ShortReadsSucceed'
  BY <1>2, NoReadIsGood
<1>4. OpenNow' = OpenNow
  BY <1>2 DEF OpenNow
<1>5. opened' \in [Fds -> Files \cup {None}] /\ CallTypes'
  BY <1>2 DEF IInv, TypeOK, CallTypes
<1>6. CASE F.fds[n] = None
  <2>1. F' = F
    BY <1>2, <1>6 DEF fseek, file_get_fd
  <2> QED
    BY <1>1, <1>2, <1>3, <1>4, <1>5, <2>1 DEF IInv, TypeOK, SlotsMatch, Backed
<1>7. CASE F.fds[n] # None
  <2> DEFINE desc == F.fds[n]
             p == fat16_seek(disk, desc.file, desc.pos, o, w).pos
             new == [desc EXCEPT !.pos = p]
  <2>1. desc \in Descriptor /\ desc.file \in Files /\ desc.pos \in Nat
    BY <1>1, <1>7, FilesAssumption DEF Descriptor
  <2>2. o \in Nat /\ MaxPos \in Nat /\ disk.size[desc.file] \in Nat
    BY <1>1, <2>1, FilesAssumption DEF IsDisk
  <2>3. p \in Nat
    BY <2>1, <2>2 DEF fat16_seek
  <2>4. F' = [F EXCEPT !.fds[n].pos = p]
    BY <1>2, <1>7 DEF fseek, file_get_fd
  <2> HIDE DEF p
  <2>5. F'.fds = [F.fds EXCEPT ![n] = new] /\ F'.heap = F.heap
        /\ F' = [fds |-> [F.fds EXCEPT ![n] = new], heap |-> F.heap]
    BY <1>1, <2>4 DEF Tables
  <2>6. new = [id |-> desc.id, file |-> desc.file, pos |-> p]
    BY <2>1 DEF Descriptor
  <2> HIDE DEF new
  <2>7. F'.fds[n] = new /\ new.pos = p /\ new.id = desc.id /\ new.file = desc.file
    BY <1>1, <2>5, <2>6
  <2>8. new \in [id : Fds, file : Files, pos : Nat]
    BY <2>1, <2>3, <2>6 DEF Descriptor
  <2>9. new # None
    BY <2>8, FilesAssumption, NamesAssumption
  <2>10. p \in 0 .. MaxPos
    BY <1>2, <2>2, <2>3, <2>7, <2>9
  <2>11. new \in Descriptor
    BY <2>1, <2>6, <2>10 DEF Descriptor
  <2>12. SlotsMatch'
    BY <1>1, <1>2, <1>7, <2>5, <2>7, <2>9 DEF IInv, SlotsMatch
  <2>13. F' \in Tables /\ F'.fds \in [Fds -> Descriptor \cup {None}] /\ F'.heap \in [Kinds -> Nat]
    BY <1>1, <2>5, <2>11 DEF Tables
  <2>14. Backed'
    BY <1>2, <1>4, <2>5 DEF IInv, Backed
  <2> QED
    BY <1>1, <1>2, <1>3, <1>5, <2>12, <2>13, <2>14 DEF IInv, TypeOK
<1> QED
  BY <1>6, <1>7

(* A call of fread keeps the invariant: the part about the last read is    *)
(* ReadIs.                                                                 *)
LEMMA ReadKeepsIInv ==
    ASSUME IInv, NEW n \in Fds, NEW size \in Sizes, NEW nmemb \in Counts, read(n, size, nmemb)
    PROVE  IInv'
<1> DEFINE r == fread(disk, F, n, size, nmemb)
           f == F.fds[n].file
           pos == F.fds[n].pos
           want == size * nmemb
<1>1. disk \in Disks /\ F \in Tables
  BY DEF IInv, TypeOK
<1>2. /\ opened[n] # None
      /\ last' = [file |-> opened[n], pos |-> pos, want |-> want, res |-> r.res, bytes |-> r.bytes]
      /\ disk' = disk /\ F' = F /\ opened' = opened /\ calls' = calls
  BY DEF read
<1>3. F.fds[n] # None /\ opened[n] = f
  BY <1>2 DEF IInv, SlotsMatch
<1>4. /\ (r.res >= 0 /\ (pos + want <= ClusterBytes \/ disk.chain[f][2] = disk.chain[f][1] + 1))
            => r.bytes = [i \in 1 .. want |-> Place(disk, f, pos + i - 1)]
      /\ (want > 0 /\ pos + want <= ClusterBytes) => r.res > 0
  BY <1>1, <1>3, ReadIs
<1> HIDE DEF r, f, pos, want
<1>5. /\ last'.file = f /\ last'.pos = pos /\ last'.want = want
      /\ last'.res = r.res /\ last'.bytes = r.bytes
  BY <1>2, <1>3
<1>6. ReadsTheFile'
  BY <1>2, <1>4, <1>5 DEF ReadsTheFile, InFile, Contiguous, Wanted
<1>7. ShortReadsSucceed'
  BY <1>4, <1>5 DEF ShortReadsSucceed
<1>8. OpenNow' = OpenNow
  BY <1>2 DEF OpenNow
<1> QED
  BY <1>2, <1>6, <1>7, <1>8 DEF IInv, TypeOK, CallTypes, SlotsMatch, Backed

(* Every call of the file system keeps the invariant.                      *)
LEMMA NextIInv == IInv /\ [Next]_vars => IInv'
<1> SUFFICES ASSUME IInv, [Next]_vars PROVE IInv'
  OBVIOUS
<1>1. ASSUME NEW path \in Paths, NEW mode \in Modes, open(path, mode) PROVE IInv'
  BY <1>1, OpenKeepsIInv
<1>2. ASSUME NEW n \in Fds, close(n) PROVE IInv'
  BY <1>2, CloseKeepsIInv
<1>3. ASSUME NEW n \in Fds, NEW o \in Offsets, NEW w \in {"SEEK_SET", "SEEK_CUR", "SEEK_END"}, seek(n, o, w)
      PROVE  IInv'
  BY <1>3, SeekKeepsIInv
<1>4. ASSUME NEW n \in Fds, NEW s \in Sizes, NEW c \in Counts, read(n, s, c) PROVE IInv'
  BY <1>4, ReadKeepsIInv
<1>5. CASE UNCHANGED vars
  <2>1. OpenNow' = OpenNow
    BY <1>5 DEF vars, OpenNow
  <2>2. ReadsTheFile' /\ ShortReadsSucceed'
    BY <1>5 DEF vars, IInv, ReadsTheFile, ShortReadsSucceed, InFile, Contiguous, Wanted
  <2> QED
    BY <1>5, <2>1, <2>2 DEF vars, IInv, TypeOK, CallTypes, SlotsMatch, Backed
<1> QED
  BY <1>1, <1>2, <1>3, <1>4, <1>5 DEF Next

(* The invariant holds of every behaviour of the specification.            *)
LEMMA AlwaysIInv == Spec => []IInv
BY InitIInv, NextIInv, PTL DEF Spec

----------------------------------------------------------------------------
(* A descriptor number stands for the file it was opened with until it is  *)
(* closed (file_get_fd, file_new_descriptor, file_free_descriptor).        *)
THEOREM NumbersStayStable == Spec => []NumbersAreStable
<1>1. IInv => NumbersAreStable
  BY DEF IInv, SlotsMatch, NumbersAreStable, file_get_fd
<1> QED
  BY <1>1, AlwaysIInv, PTL

(* Everything an open file needs is allocated once and stays until it is   *)
(* closed; beyond that, an fopen that fails after the file system was      *)
(* asked keeps the file system's descriptor, and every file ever found     *)
(* keeps an item (fat16_open, fat16_close, fat16_fat_item_free).           *)
THEOREM OpenFilesStayBacked == Spec => []OpenFilesBacked
<1>1. IInv => OpenFilesBacked
  BY DEF IInv, Backed, OpenNow, OpenFilesBacked
<1> QED
  BY <1>1, AlwaysIInv, PTL

(* A file of the root directory is found unless its name runs on or too    *)
(* many entries were deleted, and this says exactly how many are too many, *)
(* whatever the directory holds (fat16_find_item_in_directory).            *)
THEOREM LookupAlwaysFinds == Spec => []LookupFinds
<1>1. IInv => LookupFinds
  <2> SUFFICES ASSUME IInv PROVE LookupFinds
    OBVIOUS
  <2>1. IsDisk(disk)
    BY FilesAssumption DEF IInv, TypeOK
  <2> QED
    BY <2>1, LookupIs DEF LookupFinds
<1> QED
  BY <1>1, AlwaysIInv, PTL

(* A read that succeeds returns the bytes of the file at the position of   *)
(* the descriptor, as long as they are contiguous on the disk, for every   *)
(* geometry, file and read size (fread, fat16_read, diskstreamer_read).    *)
THEOREM ReadsAreCorrect == Spec => []ReadsTheFile
<1>1. IInv => ReadsTheFile
  BY DEF IInv
<1> QED
  BY <1>1, AlwaysIInv, PTL

(* A read within the first cluster of a file succeeds.                     *)
THEOREM ShortReadsAlwaysSucceed == Spec => []ShortReadsSucceed
<1>1. IInv => ShortReadsSucceed
  BY DEF IInv
<1> QED
  BY <1>1, AlwaysIInv, PTL


----------------------------------------------------------------------------
(* Loading a program.  The loader starts and ends with an empty descriptor *)
(* table; H has then what G has and so many more objects of a process.     *)
NoneOpen == [n \in Fds |-> None]
Holds(G, H, elf, image, running, process) ==
    /\ H \in Tables /\ H.fds = NoneOpen
    /\ H.heap.elf_file = G.heap.elf_file + elf /\ H.heap.image = G.heap.image + image
    /\ H.heap.stack = G.heap.stack + running /\ H.heap.task = G.heap.task + running
    /\ H.heap.process = G.heap.process + process

(* The objects of a process are natural numbers of each kind.              *)
LEMMA ProcessCounts ==
    ASSUME NEW G \in Tables
    PROVE  /\ G.heap.elf_file \in Nat /\ G.heap.image \in Nat /\ G.heap.stack \in Nat
           /\ G.heap.task \in Nat /\ G.heap.process \in Nat
BY DEF Tables, Kinds

(* kfree takes one away of each kind named that there is one of.           *)
LEMMA FreeIs ==
    ASSUME NEW G \in Tables, NEW kinds, \A k \in Kinds : k \in kinds => G.heap[k] > 0
    PROVE  /\ kfree(G, kinds) \in Tables /\ kfree(G, kinds).fds = G.fds
           /\ \A k \in Kinds : kfree(G, kinds).heap[k] = IF k \in kinds THEN G.heap[k] - 1 ELSE G.heap[k]
<1> DEFINE h == [k \in Kinds |-> IF k \in kinds THEN G.heap[k] - 1 ELSE G.heap[k]]
<1>1. G.heap \in [Kinds -> Nat]
  BY DEF Tables
<1>2. h \in [Kinds -> Nat]
  BY <1>1
<1>3. kfree(G, kinds) = [G EXCEPT !.heap = h]
  BY DEF kfree
<1>4. \A k \in Kinds : h[k] = IF k \in kinds THEN G.heap[k] - 1 ELSE G.heap[k]
  OBVIOUS
<1> HIDE DEF h
<1> QED
  BY <1>2, <1>3, <1>4 DEF Tables

(* The file a path names is on the disk.                                   *)
Found(d, path) ==
    /\ path.valid /\ path.parts # <<>> /\ path.drive = 0 /\ fat16_resolve(d) = 0
    /\ fat16_get_directory_entry(d, path.parts) # None

(* With an empty table, fopen succeeds exactly when the file is there.     *)
LEMMA OpenWhenEmpty ==
    ASSUME NEW d, IsDisk(d), NEW G \in Tables, G.fds = NoneOpen, NEW path, IsPath(path)
    PROVE  LET O == fopen(d, G, path, "r")
           IN  /\ ~Found(d, path) =>
                     O.fd = 0 /\ O.F \in Tables /\ O.F.fds = NoneOpen /\ SameProcesses(G, O.F)
               /\ Found(d, path) => Opened(G, O, path.parts[1])
<1> DEFINE O == fopen(d, G, path, "r")
           P == pparser_parse(G, path)
           n == file_new_descriptor(P)
           item == fat16_get_directory_entry(d, path.parts)
           failed == ~path.valid \/ path.parts = <<>> \/ path.drive # 0 \/ fat16_resolve(d) # 0 \/ "r" # "r"
           A == fat16_open(d, P, path.parts)
<1>1. NotAsked(G, O) \/ AskedInVain(G, O) \/ Opened(G, O, path.parts[1])
  BY OpenIs
<1>2. P \in Tables /\ P.fds = NoneOpen
  BY ParseIs
<1>3. n \in Fds
  <2> DEFINE free == {m \in Fds : P.fds[m] = None}
  <2>1. free = Fds
    BY <1>2 DEF NoneOpen
  <2>2. 1 \in Fds /\ Fds \in SUBSET Nat
    BY FdsAssumption DEF Fds
  <2>3. n = IF free = {} THEN 0 ELSE Min(free)
    BY DEF file_new_descriptor
  <2> HIDE DEF free, n
  <2>4. Min(Fds) \in Fds
    BY <2>2, MinIs
  <2> QED
    BY <2>1, <2>2, <2>3, <2>4
<1>4. O = IF failed THEN [F |-> P, fd |-> 0] ELSE WithDescriptor(A, item, n)
  BY DEF fopen, OpenParsed
<1>5. n # 0
  BY <1>3, FdsAssumption DEF Fds
<1>6. Found(d, path) <=> ~failed /\ item # None
  BY DEF Found
<1> HIDE DEF P, n, item, A, failed
<1>7. O.fd = IF Found(d, path) THEN n ELSE 0
  <2>1. CASE failed
    BY <1>4, <1>6, <2>1
  <2>2. CASE ~failed /\ item = None
    BY <1>4, <1>6, <2>2 DEF WithDescriptor
  <2>3. CASE ~failed /\ item # None
    BY <1>4, <1>5, <1>6, <2>3 DEF WithDescriptor
  <2> QED
    BY <2>1, <2>2, <2>3
<1> HIDE DEF O
<1>8. CASE Found(d, path)
  <2>1. O.fd # 0
    BY <1>5, <1>7, <1>8
  <2>2. Opened(G, O, path.parts[1])
    BY <1>1, <2>1 DEF NotAsked, AskedInVain
  <2> QED
    BY <1>8, <2>2 DEF O
<1>9. CASE ~Found(d, path)
  <2>1. O.fd = 0 /\ O.fd \notin Fds
    BY <1>7, <1>9, FdsAssumption DEF Fds
  <2>2. O.F \in Tables /\ O.F.fds = G.fds /\ SameProcesses(G, O.F)
    BY <1>1, <2>1 DEF NotAsked, AskedInVain, Opened
  <2> QED
    BY <1>9, <2>1, <2>2 DEF O
<1> QED
  BY <1>8, <1>9


(* The result of reading a whole file at once.                             *)
WholeRes(d, f) == IF d.size[f] = 0 THEN -EINVARG ELSE fat16_read(d, f, 0, d.size[f], 1).res

(* It is 1, or an error that is not the one for a wrong format.            *)
LEMMA WholeResIs ==
    ASSUME NEW d, IsDisk(d), NEW f \in Files
    PROVE  WholeRes(d, f) \in {1, -1, -2}
<1>1. d.size[f] \in Nat
  BY DEF IsDisk
<1>2. CASE d.size[f] = 0
  BY <1>2 DEF WholeRes, EINVARG
<1>3. CASE d.size[f] # 0
  <2>1. fat16_read(d, f, 0, d.size[f], 1).res \in {1, -EIO}
    <3>1. d.size[f] \in Nat \ {0} /\ 0 \in Nat /\ 1 \in Nat \ {0}
      BY <1>1, <1>3
    <3> QED
      BY <3>1, FatReads
  <2> QED
    BY <1>3, <2>1 DEF WholeRes, EIO
<1> QED
  BY <1>2, <1>3

(* ReadWhole opens the file when it is there, with room for the image; the *)
(* end of the load closes it.                                              *)
LEMMA ReadWholeIs ==
    ASSUME NEW d, IsDisk(d), NEW G \in Tables, G.fds = NoneOpen, NEW path, IsPath(path)
    PROVE  LET R == ReadWhole(d, G, path)
           IN  /\ ~Found(d, path) => R.fd = 0 /\ R.res = -1
               /\ Found(d, path) => /\ R.fd # 0 /\ R.res = WholeRes(d, path.parts[1])
                                    /\ R.F.fds[R.fd].file = path.parts[1] /\ path.parts[1] \in Files
               /\ Holds(G, fclose(R.F, R.fd), 0, IF Found(d, path) THEN 1 ELSE 0, 0, 0)
<1> DEFINE O == fopen(d, G, path, "r")
           R == ReadWhole(d, G, path)
           f == path.parts[1]
<1>1. /\ ~Found(d, path) =>
            O.fd = 0 /\ O.F \in Tables /\ O.F.fds = NoneOpen /\ SameProcesses(G, O.F)
      /\ Found(d, path) => Opened(G, O, f)
  BY OpenWhenEmpty
<1>2. R = ReadOpened(d, O)
  BY DEF ReadWhole
<1> HIDE DEF O, f
<1>3. G.heap.image + 0 = G.heap.image /\ G.heap.elf_file + 0 = G.heap.elf_file
      /\ G.heap.stack + 0 = G.heap.stack /\ G.heap.task + 0 = G.heap.task
      /\ G.heap.process + 0 = G.heap.process
  BY ProcessCounts
<1>4. CASE ~Found(d, path)
  <2>1. R = [F |-> O.F, fd |-> 0, res |-> -EIO]
    BY <1>1, <1>2, <1>4 DEF ReadOpened
  <2> HIDE DEF R
  <2>2. R.F = O.F /\ R.fd = 0 /\ R.res = -1
    BY <2>1 DEF EIO
  <2>3. fclose(R.F, R.fd) = O.F
    <3>1. 0 \notin Fds
      BY FdsAssumption DEF Fds
    <3> QED
      BY <2>2, <3>1 DEF fclose, file_get_fd
  <2>4. Holds(G, O.F, 0, 0, 0, 0)
    BY <1>1, <1>3, <1>4 DEF Holds, SameProcesses, ProcessKinds
  <2> QED
    BY <1>4, <2>2, <2>3, <2>4 DEF R
<1>5. CASE Found(d, path)
  <2> DEFINE n == O.fd
             desc == [id |-> n, file |-> f, pos |-> 0]
             A == alloc(O.F, {"image"})
             r == fread(d, O.F, n, fstat(d, O.F, n), 1).res
             B == fat16_close(A)
             C == kfree(B, {"descriptor"})
             K == fclose(A, n)
  <2>1. /\ n \in Fds /\ f \in Files /\ O.F \in Tables /\ SameProcesses(G, O.F)
        /\ O.F.fds = [NoneOpen EXCEPT ![n] = desc]
        /\ O.F.heap.descriptor = G.heap.descriptor + 1
        /\ O.F.heap.fat_descriptor = G.heap.fat_descriptor + 1
        /\ O.F.heap.item_copy = G.heap.item_copy + 1
    BY <1>1, <1>5 DEF Opened
  <2>2. n # 0
    BY <2>1, FdsAssumption DEF Fds
  <2>3. R = [F |-> A, fd |-> n, res |-> r]
    BY <1>2, <2>2 DEF ReadOpened
  <2> HIDE DEF R, n
  <2>4. R.F = A /\ R.fd = n /\ R.res = r
    BY <2>3
  <2>5. desc # None /\ desc.file = f /\ desc.pos = 0 /\ desc.id = n
    BY <2>1, NamesAssumption
  <2>6. O.F.fds[n] = desc
    <3> HIDE DEF desc
    <3> QED
      BY <2>1 DEF NoneOpen
  <2> HIDE DEF desc
  <2>7. r = WholeRes(d, f)
    <3>1. file_get_fd(O.F, n) = desc
      BY <2>1, <2>6 DEF file_get_fd
    <3>2. fstat(d, O.F, n) = d.size[f]
      BY <2>5, <3>1 DEF fstat
    <3> QED
      BY <2>5, <3>1, <3>2 DEF fread, WholeRes
  <2> HIDE DEF r
  <2>8. /\ A \in Tables /\ A.fds = O.F.fds
        /\ \A k \in Kinds : A.heap[k] = IF k \in {"image"} THEN O.F.heap[k] + 1 ELSE O.F.heap[k]
    BY <2>1, AllocIs
  <2> HIDE DEF A
  <2>9. /\ G.heap.descriptor \in Nat /\ G.heap.fat_descriptor \in Nat /\ G.heap.item_copy \in Nat
    BY TheKinds DEF Tables
  <2>10. A.heap.descriptor > 0 /\ A.heap.fat_descriptor > 0 /\ A.heap.item_copy > 0
    BY <2>1, <2>8, <2>9, TheKinds
  <2>11. /\ B \in Tables /\ B.fds = A.fds
         /\ \A k \in Kinds : B.heap[k] = IF k \in {"item_copy", "fat_descriptor"} THEN A.heap[k] - 1 ELSE A.heap[k]
    <3>1. \A k \in Kinds : k \in {"item_copy", "fat_descriptor"} => A.heap[k] > 0
      BY <2>10
    <3> QED
      BY <2>8, <3>1, FreeIs DEF fat16_close
  <2> HIDE DEF B
  <2>12. /\ C \in Tables /\ C.fds = B.fds
         /\ \A k \in Kinds : C.heap[k] = IF k \in {"descriptor"} THEN B.heap[k] - 1 ELSE B.heap[k]
    <3>1. \A k \in Kinds : k \in {"descriptor"} => B.heap[k] > 0
      BY <2>10, <2>11, TheKinds
    <3> QED
      BY <2>11, <3>1, FreeIs
  <2> HIDE DEF C
  <2>13. K = [C EXCEPT !.fds[n] = None]
    <3>1. file_get_fd(A, n) = desc
      BY <2>1, <2>6, <2>8 DEF file_get_fd
    <3> QED
      BY <2>5, <3>1 DEF fclose, B, C
  <2>14. K.heap = C.heap /\ K.fds = NoneOpen /\ K \in Tables
    <3>1. C.fds = [NoneOpen EXCEPT ![n] = desc]
      BY <2>1, <2>8, <2>11, <2>12
    <3>2. [C.fds EXCEPT ![n] = None] = NoneOpen
      BY <2>1, <3>1 DEF NoneOpen
    <3>3. K.heap = C.heap /\ K.fds = [C.fds EXCEPT ![n] = None]
      BY <2>12, <2>13 DEF Tables
    <3>4. K = [fds |-> NoneOpen, heap |-> C.heap]
      BY <2>12, <2>13, <3>2 DEF Tables
    <3>5. NoneOpen \in [Fds -> Descriptor \cup {None}]
      BY DEF NoneOpen
    <3> QED
      BY <2>12, <3>2, <3>3, <3>4, <3>5 DEF Tables
  <2>15. Holds(G, K, 0, 1, 0, 0)
    <3>1. \A k \in ProcessKinds : C.heap[k] = IF k \in {"image"} THEN G.heap[k] + 1 ELSE G.heap[k]
      BY <2>1, <2>8, <2>11, <2>12, TheProcessKinds DEF SameProcesses
    <3> HIDE DEF K
    <3> QED
      BY <1>3, <2>14, <3>1 DEF Holds, ProcessKinds
  <2>16. R.F.fds[R.fd].file = f
    BY <2>4, <2>5, <2>6, <2>8
  <2> QED
    BY <1>5, <2>1, <2>2, <2>4, <2>7, <2>15, <2>16 DEF R, f, K
<1> QED
  BY <1>4, <1>5


(* One step after another.                                                 *)
LEMMA HoldsAdd ==
    ASSUME NEW G \in Tables, NEW H, NEW K,
           NEW e1 \in Int, NEW i1 \in Int, NEW r1 \in Int, NEW p1 \in Int, Holds(G, H, e1, i1, r1, p1),
           NEW e2 \in Int, NEW i2 \in Int, NEW r2 \in Int, NEW p2 \in Int, Holds(H, K, e2, i2, r2, p2)
    PROVE  Holds(G, K, e1 + e2, i1 + i2, r1 + r2, p1 + p2)
<1>1. H \in Tables
  BY DEF Holds
<1>2. /\ G.heap.elf_file \in Nat /\ G.heap.image \in Nat /\ G.heap.stack \in Nat
      /\ G.heap.task \in Nat /\ G.heap.process \in Nat
  BY ProcessCounts
<1> QED
  BY <1>1, <1>2 DEF Holds

(* What elf_load returns, from the path and the disk alone.                *)
ElfRes(d, path) ==
    IF ~Found(d, path) THEN -1
    ELSE IF WholeRes(d, path.parts[1]) < 0 THEN WholeRes(d, path.parts[1])
    ELSE elf_process_loaded(d.header[path.parts[1]])

(* elf_load keeps the file struct whatever happens, and the image when the *)
(* file is there.                                                          *)
LEMMA ElfLoadIs ==
    ASSUME NEW d, IsDisk(d), NEW G \in Tables, G.fds = NoneOpen, NEW path, IsPath(path)
    PROVE  LET E == elf_load(d, G, path)
           IN  /\ E = [F |-> E.F, res |-> E.res, outcome |-> E.outcome]
               /\ E.res = ElfRes(d, path)
               /\ E.outcome = IF ~Found(d, path) THEN "not_found"
                              ELSE IF ElfRes(d, path) < 0 THEN "bad_file" ELSE "elf"
               /\ Holds(G, E.F, 1, IF Found(d, path) THEN 1 ELSE 0, 0, 0)
<1> DEFINE E == elf_load(d, G, path)
           A == alloc(G, {"elf_file"})
           R == ReadWhole(d, A, path)
           f == path.parts[1]
           i == IF Found(d, path) THEN 1 ELSE 0
           e == IF R.res < 0 THEN R.res ELSE elf_process_loaded(d.header[R.F.fds[R.fd].file])
<1>1. /\ A \in Tables /\ A.fds = G.fds
      /\ \A k \in Kinds : A.heap[k] = IF k \in {"elf_file"} THEN G.heap[k] + 1 ELSE G.heap[k]
  BY AllocIs
<1>2. Holds(G, A, 1, 0, 0, 0)
  <2>1. \A k \in ProcessKinds : A.heap[k] = IF k \in {"elf_file"} THEN G.heap[k] + 1 ELSE G.heap[k]
    BY <1>1, TheProcessKinds
  <2> HIDE DEF A
  <2> QED
    BY <1>1, <2>1, ProcessCounts DEF Holds, ProcessKinds
<1> HIDE DEF A
<1>3. /\ ~Found(d, path) => R.fd = 0 /\ R.res = -1
      /\ Found(d, path) => /\ R.fd # 0 /\ R.res = WholeRes(d, f)
                           /\ R.F.fds[R.fd].file = f /\ f \in Files
      /\ Holds(A, fclose(R.F, R.fd), 0, i, 0, 0)
  BY <1>1, ReadWholeIs
<1>4. E = Loaded(R, e, "elf")
  BY DEF elf_load, ElfRead, A
<1> HIDE DEF R, E
<1>5. e = ElfRes(d, path)
  <2>1. CASE Found(d, path)
    BY <1>3, <2>1 DEF ElfRes
  <2>2. CASE ~Found(d, path)
    BY <1>3, <2>2 DEF ElfRes
  <2> QED
    BY <2>1, <2>2
<1> HIDE DEF e, i
<1>6. /\ E = [F |-> E.F, res |-> E.res, outcome |-> E.outcome]
      /\ E.F = fclose(R.F, R.fd) /\ E.res = e
      /\ E.outcome = IF R.fd = 0 THEN "not_found" ELSE IF e < 0 THEN "bad_file" ELSE "elf"
  BY <1>4 DEF Loaded, CloseAfterLoad
<1>7. Holds(G, E.F, 1, i, 0, 0)
  <2>1. i \in Int /\ 0 + i = i
    BY DEF i
  <2>2. Holds(G, E.F, 1 + 0, 0 + i, 0 + 0, 0 + 0)
    <3>1. Holds(A, E.F, 0, i, 0, 0)
      BY <1>3, <1>6
    <3>2. 0 \in Int /\ 1 \in Int
      OBVIOUS
    <3> QED
      BY <1>2, <2>1, <3>1, <3>2, HoldsAdd
  <2> QED
    BY <2>1, <2>2
<1> QED
  BY <1>3, <1>5, <1>6, <1>7 DEF E, i

(* process_load_binary likewise.                                           *)
LEMMA BinaryIs ==
    ASSUME NEW d, IsDisk(d), NEW G \in Tables, G.fds = NoneOpen, NEW path, IsPath(path),
           Found(d, path), WholeRes(d, path.parts[1]) = 1
    PROVE  LET B == process_load_binary(d, G, path)
           IN  /\ B = [F |-> B.F, res |-> B.res, outcome |-> B.outcome]
               /\ B.res = 0 /\ B.outcome = "flat" /\ Holds(G, B.F, 0, 1, 0, 0)
<1> DEFINE B == process_load_binary(d, G, path)
           R == ReadWhole(d, G, path)
<1>1. R.fd # 0 /\ R.res = 1 /\ Holds(G, fclose(R.F, R.fd), 0, 1, 0, 0)
  BY ReadWholeIs
<1>2. B = Loaded(R, IF R.res # 1 THEN -EIO ELSE 0, "flat")
  BY DEF process_load_binary, BinaryRead
<1> HIDE DEF R, B
<1>3. B = Loaded(R, 0, "flat")
  BY <1>1, <1>2
<1>4. /\ B = [F |-> B.F, res |-> B.res, outcome |-> B.outcome]
      /\ B.F = fclose(R.F, R.fd) /\ B.res = 0 /\ B.outcome = "flat"
  BY <1>1, <1>3 DEF Loaded, CloseAfterLoad
<1> QED
  BY <1>1, <1>4 DEF B

(* What process_load_data returns, and what it keeps for each outcome.     *)
DataRes(d, path) == IF ElfRes(d, path) = -8 THEN 0 ELSE ElfRes(d, path)
KeptByData(G, D) ==
    \/ D.outcome = "not_found" /\ D.res < 0 /\ Holds(G, D.F, 1, 0, 0, 0)
    \/ D.outcome = "bad_file" /\ D.res < 0 /\ Holds(G, D.F, 1, 1, 0, 0)
    \/ D.outcome = "elf" /\ ~(D.res < 0) /\ Holds(G, D.F, 1, 1, 0, 0)
    \/ D.outcome = "flat" /\ ~(D.res < 0) /\ Holds(G, D.F, 1, 2, 0, 0)

(* A file that is there but not ELF is read a second time, the rest is     *)
(* what elf_load makes of it.                                              *)
LEMMA DataIs ==
    ASSUME NEW d \in Volumes, NEW G \in Tables, G.fds = NoneOpen, NEW path \in Programs
    PROVE  LET D == process_load_data(d, G, path)
           IN  /\ D = [F |-> D.F, res |-> D.res, outcome |-> D.outcome]
               /\ D.res = DataRes(d, path)
               /\ D.outcome = IF ~Found(d, path) THEN "not_found"
                              ELSE IF ElfRes(d, path) = -8 THEN "flat"
                              ELSE IF ElfRes(d, path) < 0 THEN "bad_file" ELSE "elf"
               /\ KeptByData(G, D)
<1> DEFINE D == process_load_data(d, G, path)
           E == elf_load(d, G, path)
           f == path.parts[1]
           x == ElfRes(d, path)
           B == process_load_binary(d, E.F, path)
<1>1. IsDisk(d) /\ IsPath(path)
  BY LoaderAssumption
<1>2. /\ E = [F |-> E.F, res |-> E.res, outcome |-> E.outcome]
      /\ E.res = x
      /\ E.outcome = IF ~Found(d, path) THEN "not_found" ELSE IF x < 0 THEN "bad_file" ELSE "elf"
      /\ Holds(G, E.F, 1, IF Found(d, path) THEN 1 ELSE 0, 0, 0)
  BY <1>1, ElfLoadIs
<1>3. D = IF E.res = -EINVFORMAT THEN B ELSE E
  BY DEF process_load_data, OrBinary
<1>4. E.F \in Tables /\ E.F.fds = NoneOpen
  BY <1>2 DEF Holds
<1>5. -EINVFORMAT = -8
  BY DEF EINVFORMAT
<1>6. /\ ~Found(d, path) => x = -1
      /\ Found(d, path) => WholeRes(d, f) \in {1, -1, -2} /\ x \in {0, -1, -2, -8}
      /\ x = -8 => Found(d, path) /\ WholeRes(d, f) = 1
  <2>1. ASSUME Found(d, path) PROVE f \in Files
    BY <1>1, <2>1 DEF Found, IsPath
  <2>2. ASSUME Found(d, path) PROVE WholeRes(d, f) \in {1, -1, -2}
    <3> HIDE DEF f
    <3> QED
      BY <1>1, <2>1, <2>2, WholeResIs
  <2>3. elf_process_loaded(d.header[f]) \in {0, -1, -8}
    BY DEF elf_process_loaded, elf_validate_loaded, elf_process_pheaders, EINVFORMAT, EIO
  <2> HIDE DEF f
  <2>4. x = IF ~Found(d, path) THEN -1 ELSE IF WholeRes(d, f) < 0 THEN WholeRes(d, f)
            ELSE elf_process_loaded(d.header[f])
    BY DEF ElfRes, f
  <2> QED
    BY <2>2, <2>3, <2>4
<1> HIDE DEF E, D, x
<1>7. CASE x = -8
  <2> HIDE DEF B
  <2>1. D = B /\ Found(d, path) /\ WholeRes(d, f) = 1
    BY <1>2, <1>3, <1>5, <1>6, <1>7
  <2>2. /\ B = [F |-> B.F, res |-> B.res, outcome |-> B.outcome]
        /\ B.res = 0 /\ B.outcome = "flat" /\ Holds(E.F, B.F, 0, 1, 0, 0)
    BY <1>1, <1>4, <2>1, BinaryIs DEF B
  <2>3. Holds(G, E.F, 1, 1, 0, 0)
    BY <1>2, <2>1
  <2>4. Holds(G, B.F, 1, 2, 0, 0)
    <3>1. Holds(G, B.F, 1 + 0, 1 + 1, 0 + 0, 0 + 0)
      BY <2>2, <2>3, HoldsAdd
    <3> QED
      BY <3>1
  <2>5. KeptByData(G, D)
    BY <2>1, <2>2, <2>4 DEF KeptByData
  <2> QED
    BY <1>7, <2>1, <2>2, <2>5 DEF D, x, DataRes
<1>8. CASE x # -8
  <2>1. D = E
    BY <1>2, <1>3, <1>5, <1>8
  <2>2. ~Found(d, path) => x < 0 /\ x = -1
    BY <1>6
  <2>3. KeptByData(G, D)
    BY <1>2, <2>1, <2>2 DEF KeptByData
  <2> QED
    BY <1>2, <1>8, <2>1, <2>3 DEF D, x, DataRes
<1> QED
  BY <1>7, <1>8


(* What process_load_for_slot returns, from the path and the disk alone.   *)
LoadRes(d, path) ==
    IF DataRes(d, path) < 0 THEN DataRes(d, path)
    ELSE IF ~Found(d, path) \/ ElfRes(d, path) = -8 \/ ~d.header[path.parts[1]].wraps
    THEN DataRes(d, path) ELSE -2

(* What it keeps: the process with its task and stack when it succeeds.    *)
KeptByLoad(G, L) ==
    \/ L.outcome = "not_found" /\ L.res < 0 /\ Holds(G, L.F, 1, 0, 0, 0)
    \/ L.outcome = "bad_file" /\ L.res < 0 /\ Holds(G, L.F, 1, 1, 0, 0)
    \/ L.outcome = "not_mapped" /\ L.res < 0 /\ Holds(G, L.F, 0, 1, 0, 0)
    \/ L.outcome = "elf" /\ ~(L.res < 0) /\ Holds(G, L.F, 1, 1, 1, 1)
    \/ L.outcome = "flat" /\ ~(L.res < 0) /\ Holds(G, L.F, 1, 2, 1, 1)

(* Allocating and freeing objects of a process.                            *)
LEMMA HoldsAlloc ==
    ASSUME NEW G \in Tables, G.fds = NoneOpen
    PROVE  /\ Holds(G, alloc(G, {"process"}), 0, 0, 0, 1)
           /\ Holds(G, alloc(G, {"stack", "task"}), 0, 0, 1, 0)
           /\ G.heap.process > 0 => Holds(G, kfree(G, {"process"}), 0, 0, 0, -1)
           /\ (G.heap.process > 0 /\ G.heap.stack > 0 /\ G.heap.task > 0 /\ G.heap.elf_file > 0) =>
                 Holds(G, kfree(G, {"task", "stack", "elf_file", "process"}), -1, 0, -1, -1)
<1>1. /\ G.heap.elf_file \in Nat /\ G.heap.image \in Nat /\ G.heap.stack \in Nat
      /\ G.heap.task \in Nat /\ G.heap.process \in Nat
  BY ProcessCounts
<1>2. /\ "elf_file" \in Kinds /\ "image" \in Kinds /\ "stack" \in Kinds
      /\ "task" \in Kinds /\ "process" \in Kinds
  BY TheProcessKinds DEF ProcessKinds
<1>3. Holds(G, alloc(G, {"process"}), 0, 0, 0, 1)
  <2> DEFINE H == alloc(G, {"process"})
  <2>1. /\ H \in Tables /\ H.fds = G.fds
        /\ \A k \in Kinds : H.heap[k] = IF k \in {"process"} THEN G.heap[k] + 1 ELSE G.heap[k]
    BY AllocIs
  <2> HIDE DEF H
  <2>2. Holds(G, H, 0, 0, 0, 1)
    BY <1>1, <1>2, <2>1 DEF Holds
  <2> QED
    BY <2>2 DEF H
<1>4. Holds(G, alloc(G, {"stack", "task"}), 0, 0, 1, 0)
  <2> DEFINE H == alloc(G, {"stack", "task"})
  <2>1. /\ H \in Tables /\ H.fds = G.fds
        /\ \A k \in Kinds : H.heap[k] = IF k \in {"stack", "task"} THEN G.heap[k] + 1 ELSE G.heap[k]
    BY AllocIs
  <2> HIDE DEF H
  <2>2. Holds(G, H, 0, 0, 1, 0)
    BY <1>1, <1>2, <2>1 DEF Holds
  <2> QED
    BY <2>2 DEF H
<1>5. ASSUME G.heap.process > 0
      PROVE  Holds(G, kfree(G, {"process"}), 0, 0, 0, -1)
  <2> DEFINE H == kfree(G, {"process"})
  <2>1. /\ H \in Tables /\ H.fds = G.fds
        /\ \A k \in Kinds : H.heap[k] = IF k \in {"process"} THEN G.heap[k] - 1 ELSE G.heap[k]
    <3>1. \A k \in Kinds : k \in {"process"} => G.heap[k] > 0
      BY <1>5
    <3> QED
      BY <3>1, FreeIs
  <2> HIDE DEF H
  <2>2. Holds(G, H, 0, 0, 0, -1)
    BY <1>1, <1>2, <2>1 DEF Holds
  <2> QED
    BY <2>2 DEF H
<1>6. ASSUME G.heap.process > 0, G.heap.stack > 0, G.heap.task > 0, G.heap.elf_file > 0
      PROVE  Holds(G, kfree(G, {"task", "stack", "elf_file", "process"}), -1, 0, -1, -1)
  <2> DEFINE kinds == {"task", "stack", "elf_file", "process"}
             H == kfree(G, kinds)
  <2>1. /\ H \in Tables /\ H.fds = G.fds
        /\ \A k \in Kinds : H.heap[k] = IF k \in kinds THEN G.heap[k] - 1 ELSE G.heap[k]
    <3>1. \A k \in Kinds : k \in kinds => G.heap[k] > 0
      BY <1>6
    <3> HIDE DEF kinds
    <3> QED
      BY <3>1, FreeIs
  <2> HIDE DEF H
  <2>2. Holds(G, H, -1, 0, -1, -1)
    BY <1>1, <1>2, <2>1 DEF Holds
  <2> QED
    BY <2>2 DEF H
<1> QED
  BY <1>3, <1>4, <1>5, <1>6

(* The result of a load and what it keeps.                                 *)
LEMMA LoadIs ==
    ASSUME NEW d \in Volumes, NEW G \in Tables, G.fds = NoneOpen, NEW path \in Programs
    PROVE  LET L == process_load_for_slot(d, G, path)
           IN  L.res = LoadRes(d, path) /\ KeptByLoad(G, L)
<1> DEFINE L == process_load_for_slot(d, G, path)
           A == alloc(G, {"process"})
           D == process_load_data(d, A, path)
           w == process_map_memory(d, path, D.outcome)
           B == alloc(D.F, {"stack", "task"})
           K == kfree(D.F, {"process"})
           Z == kfree(B, {"task", "stack", "elf_file", "process"})
<1>1. A \in Tables /\ A.fds = NoneOpen /\ Holds(G, A, 0, 0, 0, 1) /\ A.heap.process > 0
  <2>1. Holds(G, A, 0, 0, 0, 1)
    BY HoldsAlloc
  <2> HIDE DEF A
  <2> QED
    BY <2>1, ProcessCounts DEF Holds
<1>2. L = Mapped(D, w)
  BY DEF process_load_for_slot, LoadedData
<1> HIDE DEF A
<1>3. /\ D = [F |-> D.F, res |-> D.res, outcome |-> D.outcome]
      /\ D.res = DataRes(d, path)
      /\ D.outcome = IF ~Found(d, path) THEN "not_found"
                     ELSE IF ElfRes(d, path) = -8 THEN "flat"
                     ELSE IF ElfRes(d, path) < 0 THEN "bad_file" ELSE "elf"
      /\ KeptByData(A, D)
  BY <1>1, DataIs
<1> HIDE DEF L, D
<1>4. PICK i \in 0 .. 2 :
         /\ Holds(A, D.F, 1, i, 0, 0)
         /\ \/ D.outcome = "not_found" /\ D.res < 0 /\ i = 0
            \/ D.outcome = "bad_file" /\ D.res < 0 /\ i = 1
            \/ D.outcome = "elf" /\ ~(D.res < 0) /\ i = 1
            \/ D.outcome = "flat" /\ ~(D.res < 0) /\ i = 2
  <2>1. 0 \in 0 .. 2 /\ 1 \in 0 .. 2 /\ 2 \in 0 .. 2
    OBVIOUS
  <2>2. CASE D.outcome = "not_found" /\ D.res < 0 /\ Holds(A, D.F, 1, 0, 0, 0)
    BY <2>1, <2>2
  <2>3. CASE D.outcome = "bad_file" /\ D.res < 0 /\ Holds(A, D.F, 1, 1, 0, 0)
    BY <2>1, <2>3
  <2>4. CASE D.outcome = "elf" /\ ~(D.res < 0) /\ Holds(A, D.F, 1, 1, 0, 0)
    BY <2>1, <2>4
  <2>5. CASE D.outcome = "flat" /\ ~(D.res < 0) /\ Holds(A, D.F, 1, 2, 0, 0)
    BY <2>1, <2>5
  <2> QED
    BY <1>3, <2>2, <2>3, <2>4, <2>5 DEF KeptByData
<1> DEFINE wraps == d.header[path.parts[1]].wraps
<1>5. w = IF D.outcome = "elf" /\ wraps THEN -2 ELSE 0
  BY DEF process_map_memory, EINVARG
<1>6. Found(d, path) => wraps \in BOOLEAN
  <2>1. Found(d, path) => path.parts[1] \in Files
    BY LoaderAssumption DEF Found, IsPath
  <2> QED
    BY <2>1, LoaderAssumption
<1> HIDE DEF w, wraps
<1>7. Holds(G, D.F, 1, i, 0, 1)
  <2>1. 0 \in Int /\ 1 \in Int /\ i \in Int
    OBVIOUS
  <2>2. Holds(G, D.F, 0 + 1, 0 + i, 0 + 0, 1 + 0)
    BY <1>1, <1>4, <2>1, HoldsAdd
  <2> QED
    BY <2>2
<1>8. D.F \in Tables /\ D.F.fds = NoneOpen /\ D.F.heap.process > 0 /\ D.F.heap.elf_file > 0
  BY <1>7, ProcessCounts DEF Holds
<1>9. CASE D.res < 0
  <2>1. L = [D EXCEPT !.F = K]
    BY <1>2, <1>9 DEF Mapped
  <2>2. Holds(D.F, K, 0, 0, 0, -1)
    BY <1>8, HoldsAlloc
  <2> HIDE DEF K
  <2>3. Holds(G, K, 1, i, 0, 0)
    <3>1. 0 \in Int /\ 1 \in Int /\ i \in Int /\ -1 \in Int
      OBVIOUS
    <3>2. Holds(G, K, 1 + 0, i + 0, 0 + 0, 1 + (-1))
      BY <1>7, <2>2, <3>1, HoldsAdd
    <3> QED
      BY <3>2
  <2>4. L.F = K /\ L.res = D.res /\ L.outcome = D.outcome
    BY <1>3, <2>1
  <2>5. KeptByLoad(G, L)
    BY <1>4, <1>9, <2>3, <2>4 DEF KeptByLoad
  <2> QED
    BY <1>3, <1>9, <2>4, <2>5 DEF L, LoadRes
<1>10. CASE ~(D.res < 0)
  <2>1. Holds(D.F, B, 0, 0, 1, 0)
    BY <1>8, HoldsAlloc
  <2> HIDE DEF B
  <2>2. Holds(G, B, 1, i, 1, 1)
    <3>1. 0 \in Int /\ 1 \in Int /\ i \in Int
      OBVIOUS
    <3>2. Holds(G, B, 1 + 0, i + 0, 0 + 1, 1 + 0)
      BY <1>7, <2>1, <3>1, HoldsAdd
    <3> QED
      BY <3>2
  <2>3. Found(d, path) /\ (ElfRes(d, path) = -8 <=> D.outcome = "flat")
    BY <1>3, <1>4, <1>10
  <2>4. CASE w < 0
    <3>1. D.outcome = "elf" /\ wraps /\ w = -2 /\ i = 1
      <4>1. D.outcome = "elf" /\ wraps
        BY <1>5, <2>4
      <4> QED
        BY <1>4, <1>5, <4>1
    <3>2. L = [F |-> Z, res |-> w, outcome |-> "not_mapped"]
      BY <1>2, <1>10, <2>4 DEF Mapped, B
    <3>3. Holds(B, Z, -1, 0, -1, -1)
      <4>1. B \in Tables /\ B.fds = NoneOpen /\ B.heap.process > 0 /\ B.heap.elf_file > 0
            /\ B.heap.stack > 0 /\ B.heap.task > 0
        BY <2>2, ProcessCounts DEF Holds
      <4> QED
        BY <4>1, HoldsAlloc
    <3> HIDE DEF Z
    <3>4. Holds(G, Z, 0, 1, 0, 0)
      <4>1. 0 \in Int /\ 1 \in Int /\ i \in Int /\ -1 \in Int
        OBVIOUS
      <4>2. Holds(G, Z, 1 + (-1), i + 0, 1 + (-1), 1 + (-1))
        BY <2>2, <3>3, <4>1, HoldsAdd
      <4> QED
        BY <3>1, <4>2
    <3>5. L.F = Z /\ L.res = -2 /\ L.res < 0 /\ L.outcome = "not_mapped"
      <4>1. L.F = Z /\ L.res = w /\ L.outcome = "not_mapped"
        BY <3>2
      <4> QED
        BY <2>4, <3>1, <4>1
    <3>6. KeptByLoad(G, L)
      BY <3>4, <3>5 DEF KeptByLoad
    <3>7. LoadRes(d, path) = -2
      BY <1>3, <1>10, <1>6, <2>3, <3>1 DEF LoadRes, wraps
    <3> QED
      BY <3>5, <3>6, <3>7 DEF L
  <2>5. CASE ~(w < 0)
    <3>1. L = [D EXCEPT !.F = B]
      BY <1>2, <1>10, <2>5 DEF Mapped, B
    <3>2. L.F = B /\ L.res = D.res /\ L.outcome = D.outcome
      BY <1>3, <3>1
    <3>3. KeptByLoad(G, L)
      BY <1>4, <1>10, <2>2, <3>2 DEF KeptByLoad
    <3>4. LoadRes(d, path) = D.res
      <4>1. D.outcome = "flat" \/ ~wraps
        <5>1. CASE D.outcome = "elf" /\ wraps
          <6>1. w = -2
            BY <1>5, <5>1
          <6> QED
            BY <2>5, <6>1
        <5>2. CASE D.outcome = "elf" /\ ~wraps
          BY <5>2
        <5> QED
          BY <1>4, <1>10, <5>1, <5>2
      <4> QED
        BY <1>3, <1>10, <1>6, <2>3, <4>1 DEF LoadRes, wraps
    <3> QED
      BY <3>2, <3>3, <3>4 DEF L
  <2> QED
    BY <2>4, <2>5
<1> QED
  BY <1>9, <1>10


----------------------------------------------------------------------------
(* The processes of some formats, and how many there are.                  *)
ProcessTables == [Pids -> {"elf", "flat", None}]
Running(table, formats) == {p \in Pids : table[p] \in formats}
HowMany(table, formats) == Cardinality(Running(table, formats))

(* They are finitely many.                                                 *)
LEMMA HowManyIsNat ==
    ASSUME NEW table, NEW formats
    PROVE  IsFiniteSet(Running(table, formats)) /\ HowMany(table, formats) \in Nat
<1>1. IsFiniteSet(Pids)
  <2>1. 0 \in Int /\ MaxProcesses - 1 \in Int
    BY LoaderAssumption
  <2> QED
    BY <2>1, FS_Interval DEF Pids
<1>2. Running(table, formats) \in SUBSET Pids
  BY DEF Running
<1>3. IsFiniteSet(Running(table, formats))
  BY <1>1, <1>2, FS_Subset
<1> QED
  BY <1>3, FS_CardinalityType DEF HowMany

(* A process more in a free slot.                                          *)
LEMMA OneMore ==
    ASSUME NEW table \in ProcessTables, NEW new \in ProcessTables, NEW p \in Pids,
           table[p] = None, \A q \in Pids : q # p => new[q] = table[q],
           NEW formats, None \notin formats
    PROVE  HowMany(new, formats) = IF new[p] \in formats THEN HowMany(table, formats) + 1
                                   ELSE HowMany(table, formats)
<1> DEFINE R == Running(table, formats)
<1>2. p \notin R
  BY DEF Running
<1>3. IsFiniteSet(R) /\ Cardinality(R) = HowMany(table, formats)
  BY HowManyIsNat DEF HowMany
<1>4. CASE new[p] \in formats
  <2>1. Running(new, formats) = R \cup {p}
    BY <1>4 DEF Running
  <2>2. Cardinality(R \cup {p}) = Cardinality(R) + 1
    <3> HIDE DEF R
    <3> QED
      BY <1>2, <1>3, FS_AddElement
  <2> QED
    BY <1>3, <1>4, <2>1, <2>2 DEF HowMany
<1>5. CASE new[p] \notin formats
  <2>1. Running(new, formats) = R
    BY <1>5 DEF Running
  <2> QED
    BY <1>3, <1>5, <2>1 DEF HowMany
<1> QED
  BY <1>4, <1>5

(* What the loader keeps, in terms of the processes and the calls.         *)
Accounts(heap, table, calls_by) ==
    LET all == HowMany(table, {"elf", "flat"})
    IN  /\ heap.stack = all /\ heap.task = all
        /\ heap.process = calls_by["elf"] + calls_by["flat"]
        /\ heap.image = all + calls_by["bad_file"] + calls_by["not_mapped"] + calls_by["flat"]
        /\ heap.elf_file = HowMany(table, {"elf"}) + calls_by["not_found"]
                             + calls_by["bad_file"] + calls_by["flat"]

(* The inductive invariant of the loader: between two calls no file is     *)
(* open, so that the next fopen finds the table empty.                     *)
LoaderIInv ==
    /\ volume \in Volumes /\ objects \in Tables /\ objects.fds = NoneOpen
    /\ processes \in ProcessTables
    /\ tally \in [Outcomes -> Nat] /\ Loads <= MaxLoads
    /\ Accounts(objects.heap, processes, tally)

(* The outcomes, and the sum over them.                                    *)
LEMMA TallyIs ==
    ASSUME NEW t \in [Outcomes -> Nat]
    PROVE  t["elf"] \in Nat /\ t["flat"] \in Nat /\ t["not_found"] \in Nat
           /\ t["bad_file"] \in Nat /\ t["not_mapped"] \in Nat
BY DEF Outcomes

(* It holds at the start.                                                  *)
LEMMA LoaderInitIInv == LoaderInit => LoaderIInv
<1> SUFFICES ASSUME LoaderInit PROVE LoaderIInv
  OBVIOUS
<1>1. /\ objects = [fds |-> NoneOpen, heap |-> [k \in Kinds |-> 0]]
      /\ processes = [p \in Pids |-> None] /\ tally = [o \in Outcomes |-> 0] /\ volume \in Volumes
  BY DEF LoaderInit, NoFiles, NoneOpen
<1>2. objects \in Tables /\ objects.fds = NoneOpen
  <2>1. NoneOpen \in [Fds -> Descriptor \cup {None}]
    BY DEF NoneOpen
  <2>2. [k \in Kinds |-> 0] \in [Kinds -> Nat]
    OBVIOUS
  <2> QED
    BY <1>1, <2>1, <2>2 DEF Tables
<1>3. processes \in ProcessTables /\ tally \in [Outcomes -> Nat]
  BY <1>1 DEF ProcessTables
<1>4. /\ tally["elf"] = 0 /\ tally["flat"] = 0 /\ tally["not_found"] = 0
      /\ tally["bad_file"] = 0 /\ tally["not_mapped"] = 0
  BY <1>1 DEF Outcomes
<1>5. Loads <= MaxLoads
  BY <1>4, LoaderAssumption DEF Loads
<1>6. \A formats \in SUBSET {"elf", "flat"} : HowMany(processes, formats) = 0
  <2> SUFFICES ASSUME NEW formats \in SUBSET {"elf", "flat"}
               PROVE  HowMany(processes, formats) = 0
    OBVIOUS
  <2>1. Running(processes, formats) = {}
    BY <1>1, LoaderAssumption DEF Running
  <2> QED
    BY <2>1, FS_EmptySet DEF HowMany
<1>7. /\ objects.heap.stack = 0 /\ objects.heap.task = 0 /\ objects.heap.process = 0
      /\ objects.heap.image = 0 /\ objects.heap.elf_file = 0
  BY <1>1 DEF Kinds
<1>8. Accounts(objects.heap, processes, tally)
  <2>1. HowMany(processes, {"elf", "flat"}) = 0 /\ HowMany(processes, {"elf"}) = 0
    BY <1>6
  <2> QED
    BY <1>4, <1>7, <2>1 DEF Accounts
<1> QED
  BY <1>1, <1>2, <1>3, <1>5, <1>8 DEF LoaderIInv

(* A call of process_load keeps it.                                        *)
LEMMA LoadKeepsIInv ==
    ASSUME LoaderIInv, NEW path \in Programs, process_load(path)
    PROVE  LoaderIInv'
<1> DEFINE L == process_load_for_slot(volume, objects, path)
           o == L.outcome
           p == Min(FreeSlots)
           table == [processes EXCEPT ![p] = o]
           all == HowMany(processes, {"elf", "flat"})
           elf == HowMany(processes, {"elf"})
<1>1. /\ Loads < MaxLoads /\ FreeSlots # {}
      /\ objects' = L.F
      /\ processes' = IF L.res < 0 THEN processes ELSE table
      /\ tally' = [tally EXCEPT ![o] = @ + 1]
      /\ volume' = volume
  BY DEF process_load
<1>2. /\ volume \in Volumes /\ objects \in Tables /\ objects.fds = NoneOpen
      /\ processes \in ProcessTables /\ tally \in [Outcomes -> Nat]
      /\ Accounts(objects.heap, processes, tally)
  BY DEF LoaderIInv
<1>3. KeptByLoad(objects, L)
  BY <1>2, LoadIs
<1>4. p \in Pids /\ processes[p] = None
  <2>1. FreeSlots \in SUBSET Nat
    BY LoaderAssumption DEF FreeSlots, Pids
  <2>2. p \in FreeSlots
    BY <1>1, <2>1, MinIs
  <2> QED
    BY <2>2 DEF FreeSlots
<1> HIDE DEF L, p
<1>5. all \in Nat /\ elf \in Nat
  BY HowManyIsNat
<1>6. /\ objects.heap.elf_file \in Nat /\ objects.heap.image \in Nat /\ objects.heap.stack \in Nat
      /\ objects.heap.task \in Nat /\ objects.heap.process \in Nat
  BY <1>2, ProcessCounts
<1>7. /\ tally["elf"] \in Nat /\ tally["flat"] \in Nat /\ tally["not_found"] \in Nat
      /\ tally["bad_file"] \in Nat /\ tally["not_mapped"] \in Nat
  BY <1>2, TallyIs
<1>8. o \in Outcomes /\ L.F \in Tables /\ L.F.fds = NoneOpen
  BY <1>3 DEF KeptByLoad, Holds, Outcomes
<1>9. /\ tally' \in [Outcomes -> Nat]
      /\ \A x \in Outcomes : tally'[x] = IF x = o THEN tally[x] + 1 ELSE tally[x]
  <2> HIDE DEF o
  <2> QED
    BY <1>1, <1>2, <1>8
<1>10. (Loads <= MaxLoads)'
  <2>1. Loads' = Loads + 1
    BY <1>7, <1>8, <1>9 DEF Loads, Outcomes
  <2>2. Loads \in Nat
    BY <1>7 DEF Loads
  <2> QED
    BY <1>1, <2>1, <2>2, LoaderAssumption
<1>11. /\ objects.heap.stack = all /\ objects.heap.task = all
       /\ objects.heap.process = tally["elf"] + tally["flat"]
       /\ objects.heap.image = all + tally["bad_file"] + tally["not_mapped"] + tally["flat"]
       /\ objects.heap.elf_file = elf + tally["not_found"] + tally["bad_file"] + tally["flat"]
  BY <1>2 DEF Accounts
<1> DEFINE all1 == HowMany(processes, {"elf", "flat"})'
           elf1 == HowMany(processes, {"elf"})'
<1>12. /\ processes' \in ProcessTables
       /\ all1 = all + (IF o \in {"elf", "flat"} THEN 1 ELSE 0)
       /\ elf1 = elf + (IF o = "elf" THEN 1 ELSE 0)
  <2>1. CASE L.res < 0
    <3>1. o \notin {"elf", "flat"}
      BY <1>3, <2>1 DEF KeptByLoad
    <3>2. processes' = processes
      BY <1>1, <2>1
    <3> QED
      BY <1>2, <1>5, <3>1, <3>2
  <2>2. CASE ~(L.res < 0)
    <3>1. o \in {"elf", "flat"}
      BY <1>3, <2>2 DEF KeptByLoad
    <3>2. processes' = table
      BY <1>1, <2>2
    <3>3. None \notin {"elf", "flat"} /\ None \notin {"elf"}
      BY LoaderAssumption
    <3>4. table \in ProcessTables
      BY <1>2, <1>4, <3>1 DEF ProcessTables
    <3> DEFINE T == table
    <3>5. T \in ProcessTables /\ T[p] = o /\ \A q \in Pids : q # p => T[q] = processes[q]
      BY <1>2, <1>4, <3>4 DEF ProcessTables
    <3> HIDE DEF o, T
    <3>6. HowMany(T, {"elf", "flat"}) = IF o \in {"elf", "flat"} THEN all + 1 ELSE all
      BY <1>2, <1>4, <3>1, <3>3, <3>5, OneMore
    <3>7. HowMany(T, {"elf"}) = IF o \in {"elf"} THEN elf + 1 ELSE elf
      BY <1>2, <1>4, <3>1, <3>3, <3>5, OneMore
    <3> QED
      BY <1>5, <3>2, <3>4, <3>6, <3>7 DEF T
  <2> QED
    BY <2>1, <2>2
<1> HIDE DEF all, elf, all1, elf1
<1> DEFINE h == L.F.heap
           t == tally'
<1>13. /\ h.stack = all1 /\ h.task = all1
       /\ h.process = t["elf"] + t["flat"]
       /\ h.image = all1 + t["bad_file"] + t["not_mapped"] + t["flat"]
       /\ h.elf_file = elf1 + t["not_found"] + t["bad_file"] + t["flat"]
  <2>1. /\ t["elf"] = IF o = "elf" THEN tally["elf"] + 1 ELSE tally["elf"]
        /\ t["flat"] = IF o = "flat" THEN tally["flat"] + 1 ELSE tally["flat"]
        /\ t["not_found"] = IF o = "not_found" THEN tally["not_found"] + 1 ELSE tally["not_found"]
        /\ t["bad_file"] = IF o = "bad_file" THEN tally["bad_file"] + 1 ELSE tally["bad_file"]
        /\ t["not_mapped"] = IF o = "not_mapped" THEN tally["not_mapped"] + 1 ELSE tally["not_mapped"]
    BY <1>9 DEF Outcomes
  <2> HIDE DEF t, o
  <2>2. CASE o = "not_found"
    <3>1. Holds(objects, L.F, 1, 0, 0, 0)
      BY <1>3, <2>2 DEF KeptByLoad, o
    <3> QED
      BY <1>5, <1>6, <1>7, <1>11, <1>12, <2>1, <2>2, <3>1 DEF Holds
  <2>3. CASE o = "bad_file"
    <3>1. Holds(objects, L.F, 1, 1, 0, 0)
      BY <1>3, <2>3 DEF KeptByLoad, o
    <3> QED
      BY <1>5, <1>6, <1>7, <1>11, <1>12, <2>1, <2>3, <3>1 DEF Holds
  <2>4. CASE o = "not_mapped"
    <3>1. Holds(objects, L.F, 0, 1, 0, 0)
      BY <1>3, <2>4 DEF KeptByLoad, o
    <3> QED
      BY <1>5, <1>6, <1>7, <1>11, <1>12, <2>1, <2>4, <3>1 DEF Holds
  <2>5. CASE o = "elf"
    <3>1. Holds(objects, L.F, 1, 1, 1, 1)
      BY <1>3, <2>5 DEF KeptByLoad, o
    <3> QED
      BY <1>5, <1>6, <1>7, <1>11, <1>12, <2>1, <2>5, <3>1 DEF Holds
  <2>6. CASE o = "flat"
    <3>1. Holds(objects, L.F, 1, 2, 1, 1)
      BY <1>3, <2>6 DEF KeptByLoad, o
    <3> QED
      BY <1>5, <1>6, <1>7, <1>11, <1>12, <2>1, <2>6, <3>1 DEF Holds
  <2> QED
    BY <1>8, <2>2, <2>3, <2>4, <2>5, <2>6 DEF Outcomes, o
<1>14. Accounts(objects.heap, processes, tally)'
  BY <1>1, <1>13 DEF Accounts, all1, elf1
<1> QED
  BY <1>1, <1>2, <1>8, <1>9, <1>10, <1>12, <1>14 DEF LoaderIInv


(* The end of a process keeps it: what is released was there.              *)
LEMMA TerminateKeepsIInv ==
    ASSUME LoaderIInv, NEW p \in Pids, process_terminate(p)
    PROVE  LoaderIInv'
<1> DEFINE f == processes[p]
           kinds == IF f = "elf" THEN {"image", "elf_file"} ELSE {"image"}
           U == kfree(objects, kinds)
           K == kfree(U, {"stack", "task"})
           table == [processes EXCEPT ![p] = None]
           both == {"elf", "flat"}
           one == {"elf"}
           all == HowMany(processes, both)
           elf == HowMany(processes, one)
           all1 == HowMany(table, both)
           elf1 == HowMany(table, one)
           i == IF f = "elf" THEN 1 ELSE 0
<1>1. /\ f # None /\ objects' = K /\ processes' = table /\ volume' = volume /\ tally' = tally
  BY DEF process_terminate, process_unload_process
<1>2. /\ volume \in Volumes /\ objects \in Tables /\ objects.fds = NoneOpen
      /\ processes \in ProcessTables /\ tally \in [Outcomes -> Nat]
      /\ Accounts(objects.heap, processes, tally) /\ Loads <= MaxLoads
  BY DEF LoaderIInv
<1>3. f \in {"elf", "flat"}
  BY <1>1, <1>2 DEF ProcessTables
<1>4. None \notin both /\ None \notin one /\ f \in both /\ (f \in one <=> f = "elf")
  BY <1>3, LoaderAssumption
<1> HIDE DEF both, one
<1>5. table \in ProcessTables /\ table[p] = None /\ \A q \in Pids : q # p => processes[q] = table[q]
  BY <1>2 DEF ProcessTables
<1> HIDE DEF table
<1>6. all = IF processes[p] \in both THEN all1 + 1 ELSE all1
  BY <1>2, <1>4, <1>5, OneMore
<1>7. elf = IF processes[p] \in one THEN elf1 + 1 ELSE elf1
  BY <1>2, <1>4, <1>5, OneMore
<1>8. all1 \in Nat /\ elf1 \in Nat
  BY HowManyIsNat
<1>9. /\ objects.heap.stack = all /\ objects.heap.task = all
      /\ objects.heap.process = tally["elf"] + tally["flat"]
      /\ objects.heap.image = all + tally["bad_file"] + tally["not_mapped"] + tally["flat"]
      /\ objects.heap.elf_file = elf + tally["not_found"] + tally["bad_file"] + tally["flat"]
  BY <1>2 DEF Accounts, both, one
<1> HIDE DEF all, elf, all1, elf1
<1>10. all = all1 + 1 /\ elf = elf1 + i
  BY <1>4, <1>6, <1>7, <1>8
<1>11. /\ tally["elf"] \in Nat /\ tally["flat"] \in Nat /\ tally["not_found"] \in Nat
       /\ tally["bad_file"] \in Nat /\ tally["not_mapped"] \in Nat
  BY <1>2, TallyIs
<1>12. /\ "elf_file" \in Kinds /\ "image" \in Kinds /\ "stack" \in Kinds
       /\ "task" \in Kinds /\ "process" \in Kinds
  BY TheProcessKinds DEF ProcessKinds
<1>13. /\ "image" \in kinds /\ "stack" \notin kinds /\ "task" \notin kinds /\ "process" \notin kinds
       /\ ("elf_file" \in kinds <=> f = "elf") /\ kinds \in SUBSET {"image", "elf_file"}
  OBVIOUS
<1> HIDE DEF kinds, f
<1>14. /\ U \in Tables /\ U.fds = NoneOpen
       /\ \A k \in Kinds : U.heap[k] = IF k \in kinds THEN objects.heap[k] - 1 ELSE objects.heap[k]
  <2>1. objects.heap.image > 0
    BY <1>8, <1>9, <1>10, <1>11
  <2>2. f = "elf" => objects.heap.elf_file > 0
    BY <1>8, <1>9, <1>10, <1>11
  <2>3. \A k \in Kinds : k \in kinds => objects.heap[k] > 0
    BY <1>13, <2>1, <2>2
  <2> QED
    BY <1>2, <2>3, FreeIs
<1> HIDE DEF U
<1>15. U.heap.stack = all /\ U.heap.task = all
  BY <1>9, <1>12, <1>13, <1>14
<1>16. /\ K \in Tables /\ K.fds = NoneOpen
       /\ \A k \in Kinds : K.heap[k] = IF k \in {"stack", "task"} THEN U.heap[k] - 1 ELSE U.heap[k]
  <2>1. \A k \in Kinds : k \in {"stack", "task"} => U.heap[k] > 0
    BY <1>8, <1>10, <1>15
  <2> QED
    BY <1>14, <2>1, FreeIs
<1> HIDE DEF K
<1>17. /\ K.heap.stack = all1 /\ K.heap.task = all1
       /\ K.heap.process = tally["elf"] + tally["flat"]
       /\ K.heap.image = all1 + tally["bad_file"] + tally["not_mapped"] + tally["flat"]
  <2>1. K.heap.stack = all1 /\ K.heap.task = all1
    BY <1>8, <1>10, <1>12, <1>15, <1>16
  <2>2. K.heap.process = objects.heap.process
    BY <1>12, <1>13, <1>14, <1>16
  <2>3. K.heap.image = objects.heap.image - 1
    BY <1>12, <1>13, <1>14, <1>16
  <2> QED
    BY <1>8, <1>9, <1>10, <1>11, <2>1, <2>2, <2>3
<1>18. K.heap.elf_file = elf1 + tally["not_found"] + tally["bad_file"] + tally["flat"]
  BY <1>8, <1>9, <1>10, <1>11, <1>12, <1>13, <1>14, <1>16
<1>19. Accounts(K.heap, table, tally)
  BY <1>17, <1>18 DEF Accounts, all1, elf1, both, one
<1>20. (Loads <= MaxLoads)'
  BY <1>1, <1>2 DEF Loads
<1> QED
  BY <1>1, <1>2, <1>16, <1>19, <1>20, <1>5 DEF LoaderIInv

(* Every step keeps the invariant.                                         *)
LEMMA LoaderNextIInv == LoaderIInv /\ [LoaderNext]_loaderVars => LoaderIInv'
<1> SUFFICES ASSUME LoaderIInv, [LoaderNext]_loaderVars PROVE LoaderIInv'
  OBVIOUS
<1>1. CASE \E path \in Programs : process_load(path)
  BY <1>1, LoadKeepsIInv
<1>2. CASE \E p \in Pids : process_terminate(p)
  BY <1>2, TerminateKeepsIInv
<1>3. CASE UNCHANGED loaderVars
  BY <1>3 DEF loaderVars, LoaderIInv, Loads
<1> QED
  BY <1>1, <1>2, <1>3 DEF LoaderNext

(* The invariant always holds.                                             *)
LEMMA LoaderAlways == LoaderSpec => []LoaderIInv
BY LoaderInitIInv, LoaderNextIInv, PTL DEF LoaderSpec

(* The result of a load depends on the path and the disk alone, for every  *)
(* disk, however many processes were loaded, failed to load or ended       *)
(* before (elf_load, process_load_binary).                                 *)
THEOREM LoadsAlwaysWork == LoaderSpec => []LoadsKeepWorking
<1>1. LoaderIInv => LoadsKeepWorking
  <2> SUFFICES ASSUME LoaderIInv, NEW path \in Programs
               PROVE  process_load_for_slot(volume, objects, path).res
                        = process_load_for_slot(volume, NoFiles, path).res
    BY DEF LoadsKeepWorking
  <2>1. volume \in Volumes /\ objects \in Tables /\ objects.fds = NoneOpen
    BY DEF LoaderIInv
  <2>2. NoFiles \in Tables /\ NoFiles.fds = NoneOpen
    <3>1. NoneOpen \in [Fds -> Descriptor \cup {None}]
      BY DEF NoneOpen
    <3>2. [k \in Kinds |-> 0] \in [Kinds -> Nat]
      OBVIOUS
    <3>3. NoFiles = [fds |-> NoneOpen, heap |-> [k \in Kinds |-> 0]]
      BY DEF NoFiles, NoneOpen
    <3> QED
      BY <3>1, <3>2, <3>3 DEF Tables
  <2> QED
    BY <2>1, <2>2, LoadIs
<1> QED
  BY <1>1, LoaderAlways, PTL

(* A process has its image, stack and task until it ends, none is released *)
(* twice, and what stays behind is exactly what ObjectsAccounted says, for *)
(* every number of processes and loads (process_load_for_slot,             *)
(* process_unload_process).                                                *)
THEOREM ObjectsStayAccounted == LoaderSpec => []ObjectsAccounted
<1>1. LoaderIInv => ObjectsAccounted
  <2> SUFFICES ASSUME LoaderIInv PROVE ObjectsAccounted
    OBVIOUS
  <2>1. /\ objects \in Tables /\ objects.fds = NoneOpen /\ processes \in ProcessTables
        /\ tally \in [Outcomes -> Nat] /\ Loads <= MaxLoads
        /\ Accounts(objects.heap, processes, tally)
    BY DEF LoaderIInv
  <2>2. LoaderTypeOK
    <3>1. objects.fds \in [Fds -> {None}] /\ objects.heap \in [Kinds -> Nat]
      BY <2>1 DEF NoneOpen, Tables
    <3>2. tally \in [Outcomes -> 0 .. MaxLoads]
      <4>1. /\ tally["elf"] \in Nat /\ tally["flat"] \in Nat /\ tally["not_found"] \in Nat
            /\ tally["bad_file"] \in Nat /\ tally["not_mapped"] \in Nat
        BY <2>1, TallyIs
      <4>2. \A o \in Outcomes : tally[o] \in 0 .. MaxLoads
        BY <2>1, <4>1, LoaderAssumption DEF Loads, Outcomes
      <4> QED
        BY <2>1, <4>2
    <3> QED
      BY <2>1, <3>1, <3>2 DEF LoaderTypeOK, ProcessTables
  <2> QED
    BY <2>1, <2>2 DEF ObjectsAccounted, Accounts, HowMany, Running
<1> QED
  BY <1>1, LoaderAlways, PTL
=============================================================================
