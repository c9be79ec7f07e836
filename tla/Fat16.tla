------------------------------- MODULE Fat16 -------------------------------
(***************************************************************************)
(* The FAT16 driver (fs/fat/fat16.c) on top of the stream reader           *)
(* (disk/streamer.c) and the sector reads of disk/disk.c, as operators on  *)
(* a disk value.                                                           *)
(*                                                                         *)
(* The contents of a byte of the disk are abstracted to its address, so    *)
(* the bytes a read returns say where they come from.  Only the FAT and    *)
(* the root directory are interpreted.  A disk is a record:                *)
(*    root    the entries of the root directory: files, Deleted, End       *)
(*    chain   the clusters of each file, in order                          *)
(*    size    the length of each file in bytes                             *)
(*    runon   the files whose name field runs into the next field: eight   *)
(*            characters before an extension, or a three-character         *)
(*            extension before an attribute byte other than 0x00 and 0x20  *)
(*    dirs    the files that are subdirectories                            *)
(*    signed  the header has the signature of FAT16                        *)
(* A file is its own name.  Reads of the disk never fail: disk_read_sector *)
(* waits for the drive and returns 0.                                      *)
(***************************************************************************)
EXTENDS FiniteSetsExt, SequencesExt

CONSTANTS
    SectorSize,         \* _DISK_SECTOR_SIZE, disk->sector_size
    SectorsPerCluster,  \* header: sectors_per_cluster
    ReservedSectors,    \* header: num_reserved_sectors
    FatCopies,          \* header: num_fat_copies
    SectorsPerFat,      \* header: sectors_per_fat
    RootEntries,        \* header: root_directory_entries
    EntrySize,          \* sizeof(struct fat_directory_item)
    Files, Deleted, End, None

(* The root directory fills its sectors, as the one of the boot sector     *)
(* does (64 entries of 32 bytes).                                          *)
ASSUME GeometryAssumption ==
    /\ {SectorSize, SectorsPerCluster, RootEntries, EntrySize} \subseteq Nat \ {0}
    /\ {ReservedSectors, FatCopies, SectorsPerFat} \subseteq Nat
    /\ (RootEntries * EntrySize) % SectorSize = 0

EIO == 1
EINVARG == 2
EFSNOTSUPPORTED == 5
EUNIMP == 7

ClusterBytes == SectorsPerCluster * SectorSize

(* Where the FAT standard puts the FAT and the data of cluster c, and from *)
(* that the place of byte k of a file.                                     *)
FatStart == ReservedSectors * SectorSize
DataStart == (ReservedSectors + FatCopies * SectorsPerFat) * SectorSize + RootEntries * EntrySize
Place(d, f, k) ==
    DataStart + (d.chain[f][k \div ClusterBytes + 1] - 2) * ClusterBytes + (k % ClusterBytes)

(* The FAT entry of a cluster: the next cluster of the file, or the end    *)
(* mark; 0 for a free cluster.                                             *)
FatEntry(d, c) ==
    LET in == {f \in Files : \E i \in DOMAIN d.chain[f] : d.chain[f][i] = c}
    IN  IF in = {} THEN 0
        ELSE LET f == CHOOSE f \in in : TRUE
                 i == CHOOSE i \in DOMAIN d.chain[f] : d.chain[f][i] = c
             IN  IF i = Len(d.chain[f]) THEN 65535 ELSE d.chain[f][i + 1]

(* The 16-bit word at a position of the disk.                              *)
Word(d, p) ==
    IF p \in FatStart .. FatStart + FatCopies * SectorsPerFat * SectorSize - 1
    THEN FatEntry(d, ((p - FatStart) % (SectorsPerFat * SectorSize)) \div 2)
    ELSE p

----------------------------------------------------------------------------
(* Faulty variants of operators below, used only to show that the          *)
(* properties can fail.                                                    *)

(* Every sector is copied from its first byte.                             *)
ReadFromSectorStart(pos, total) ==
    LET R[n \in 0 .. total] ==
            IF n = 0 THEN <<>>
            ELSE LET p == pos + total - n
                     off == p % SectorSize
                     k == IF off + n >= SectorSize THEN SectorSize - off ELSE n
                 IN  [i \in 1 .. k |-> (p \div SectorSize) * SectorSize + i - 1] \o R[n - k]
    IN  R[total]
(* The last entry counted is not looked at.                                *)
FindBeforeLast(d, name) ==
    LET last == Min({i \in DOMAIN d.root : d.root[i] = End}) - 2
        hits == {i \in 1 .. last : d.root[i] = name}
    IN  IF hits = {} THEN None ELSE d.root[Max(hits)]

----------------------------------------------------------------------------
(* fat16_resolve returns its result as an unsigned char.                   *)
fat16_resolve(d) == IF d.signed THEN 0 ELSE (-EFSNOTSUPPORTED) % 256

(* diskstreamer_read after diskstreamer_seek(pos).  The driver seeks       *)
(* before each read or run of reads, or takes a new stream at 0, so no     *)
(* position outlives a call.  Sector by sector, the rest of the sector     *)
(* when the read reaches its end.  R[n] are the last n bytes.              *)
diskstreamer_read(pos, total) ==
    LET R[n \in 0 .. total] ==
            IF n = 0 THEN <<>>
            ELSE LET p == pos + total - n
                     off == p % SectorSize
                     k == IF off + n >= SectorSize THEN SectorSize - off ELSE n
                 IN  [i \in 1 .. k |-> (p \div SectorSize) * SectorSize + off + i - 1] \o R[n - k]
    IN  R[total]

(* fat16_get_root_directory: the sector where the root directory ends, a   *)
(* last sector that is partly filled not counted; the data clusters,       *)
(* numbered from 2, follow it.                                             *)
fat16_get_root_directory ==
    ReservedSectors + FatCopies * SectorsPerFat + (RootEntries * EntrySize) \div SectorSize

fat16_cluster_to_sector(c) == fat16_get_root_directory + (c - 2) * SectorsPerCluster

(* The position of the entry is a product where a sum is meant.            *)
fat16_get_fat_entry(d, c) == Word(d, FatStart * (c * 2))

(* One link of the chain.  The test for reserved values, >= 0xFF0 or       *)
(* <= 0xFF6, holds of every value.                                         *)
NextCluster(d, c) ==
    LET e == fat16_get_fat_entry(d, c)
    IN  IF e = 4088 \/ e = 4095 \/ e = 4087 \/ (e >= 4080 \/ e <= 4086) \/ e = 0
        THEN -EIO ELSE e

(* A fault: one link too many.                                             *)
ClusterOneAhead(d, start, offset) ==
    LET Walk[k \in Nat] == IF k = 0 THEN start
                        ELSE IF Walk[k - 1] < 0 THEN Walk[k - 1] ELSE NextCluster(d, Walk[k - 1])
    IN  Walk[offset \div ClusterBytes + 1]

fat16_get_cluster_for_offset(d, start, offset) ==
    LET Walk[k \in Nat] == IF k = 0 THEN start
                        ELSE IF Walk[k - 1] < 0 THEN Walk[k - 1] ELSE NextCluster(d, Walk[k - 1])
    IN  Walk[offset \div ClusterBytes]

(* Bytes and result of a read.  One turn of the loop reads up to a         *)
(* cluster's length, wherever in the cluster it starts.  R[n] is the read  *)
(* of the last n bytes.                                                    *)
fat16_read_internal_from_stream(d, cluster, offset, total) ==
    LET R[n \in 0 .. total] ==
            LET o == offset + total - n
                c == fat16_get_cluster_for_offset(d, cluster, o)
                k == IF n > ClusterBytes THEN ClusterBytes ELSE n
            IN  IF n = 0 THEN [res |-> 0, bytes |-> <<>>]
                ELSE IF c < 0 THEN [res |-> c, bytes |-> <<>>]
                ELSE [R[n - k] EXCEPT !.bytes =
                        diskstreamer_read(fat16_cluster_to_sector(c) * SectorSize + (o % ClusterBytes), k) \o @]
    IN  R[total]

(* fat16_read: nmemb reads of size bytes, stopping at the first that       *)
(* fails; R[n] are the last n of them.  The position of the descriptor     *)
(* does not move.                                                          *)
fat16_read(d, f, pos, size, nmemb) ==
    LET R[n \in 0 .. nmemb] ==
            IF n = 0 THEN [res |-> nmemb, bytes |-> <<>>]
            ELSE LET r == fat16_read_internal_from_stream(d, d.chain[f][1], pos + (nmemb - n) * size, size)
                 IN  IF r.res < 0 THEN r ELSE [R[n - 1] EXCEPT !.bytes = r.bytes \o @]
    IN  R[nmemb]

(* fat16_seek: the new position, or an error.  The offset is compared with *)
(* the size, the sum of SEEK_CUR is not.                                   *)
fat16_seek(d, f, pos, offset, whence) ==
    CASE offset >= d.size[f]    -> [res |-> -EIO, pos |-> pos]
      [] whence = "SEEK_SET"    -> [res |-> 0, pos |-> offset]
      [] whence = "SEEK_CUR"    -> [res |-> 0, pos |-> pos + offset]
      [] whence = "SEEK_END"    -> [res |-> -EUNIMP, pos |-> pos]

----------------------------------------------------------------------------
(* Directories.  The count leaves out deleted entries ...                  *)
fat16_get_total_items_for_directory(root) ==
    LET end == Min({i \in DOMAIN root : root[i] = End})
    IN  Cardinality({i \in 1 .. end - 1 : root[i] # Deleted})

fat16_get_full_relative_filename(d, entry) ==
    IF entry \in Files \ d.runon THEN entry ELSE None

(* ... and the search looks at that many entries, deleted ones included.   *)
(* The last match counts.                                                  *)
fat16_find_item_in_directory(d, name) ==
    LET hits == {i \in 1 .. fat16_get_total_items_for_directory(d.root) :
                    fat16_get_full_relative_filename(d, d.root[i]) = name}
    IN  IF hits = {} THEN None ELSE d.root[Max(hits)]

(* An item is always given the type of a file, so that the walk down a     *)
(* path ends at its first part.                                            *)
fat16_get_directory_entry(d, parts) ==
    IF Len(parts) = 1 THEN fat16_find_item_in_directory(d, parts[1]) ELSE None
=============================================================================
