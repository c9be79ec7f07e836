------------------------------- MODULE Files -------------------------------
(***************************************************************************)
(* Callers of the file system inside the kernel: they open, seek, read and *)
(* close files in any order.                                               *)
(***************************************************************************)
EXTENDS Vfs

CONSTANTS
    Disks,          \* the disks the system may be started with
    Paths, Modes,   \* the arguments of fopen
    Sizes, Counts,  \* the arguments of fread
    Offsets,        \* the offsets of fseek
    MaxOpens,       \* bound: calls of fopen
    MaxPos          \* bound: the position of a descriptor

ASSUME FilesAssumption ==
    /\ \A d \in Disks : IsDisk(d)
    /\ \A path \in Paths : IsPath(path)
    /\ Sizes \subseteq Nat /\ Counts \subseteq Nat /\ Offsets \subseteq Nat
    /\ MaxOpens \in Nat /\ MaxPos \in Nat

VARIABLES
    disk,       \* the disk, never written
    F,          \* descriptors and kernel objects
    opened,     \* the file each open descriptor was asked for
    calls,      \* what became of the calls of fopen
    last        \* the last read: descriptor, arguments, result, bytes

vars == <<disk, F, opened, calls, last>>

NoRead == [file |-> None, pos |-> 0, want |-> 0, res |-> 0, bytes |-> <<>>]

Init ==
    /\ disk \in Disks
    /\ F = NoFiles
    /\ opened = [n \in Fds |-> None]
    /\ calls = [all |-> 0, lost |-> 0, found |-> 0]
    /\ last = NoRead

open(path, mode) ==
    LET O == fopen(disk, F, path, mode)
        tried == O.F.heap.fat_descriptor > F.heap.fat_descriptor
    IN  /\ calls.all < MaxOpens
        /\ F' = O.F
        /\ opened' = IF O.fd = 0 THEN opened ELSE [opened EXCEPT ![O.fd] = path.parts[1]]
        /\ calls' = [all |-> calls.all + 1,
                     lost |-> calls.lost + (IF tried /\ O.fd = 0 THEN 1 ELSE 0),
                     found |-> calls.found + (O.F.heap.item_copy - F.heap.item_copy)]
        /\ last' = NoRead
        /\ UNCHANGED disk

close(n) ==
    /\ F' = fclose(F, n)
    /\ opened' = [opened EXCEPT ![n] = None]
    /\ last' = NoRead
    /\ UNCHANGED <<disk, calls>>

seek(n, offset, whence) ==
    /\ F' = fseek(disk, F, n, offset, whence)
    /\ F'.fds[n] # None => F'.fds[n].pos <= MaxPos
    /\ last' = NoRead
    /\ UNCHANGED <<disk, opened, calls>>

read(n, size, nmemb) ==
    LET r == fread(disk, F, n, size, nmemb)
    IN  /\ opened[n] # None
        /\ last' = [file |-> opened[n], pos |-> F.fds[n].pos, want |-> size * nmemb,
                    res |-> r.res, bytes |-> r.bytes]
        /\ UNCHANGED <<disk, F, opened, calls>>

Next ==
    \/ \E path \in Paths, mode \in Modes : open(path, mode)
    \/ \E n \in Fds : close(n)
    \/ \E n \in Fds, o \in Offsets, w \in {"SEEK_SET", "SEEK_CUR", "SEEK_END"} : seek(n, o, w)
    \/ \E n \in Fds, s \in Sizes, c \in Counts : read(n, s, c)

Spec == Init /\ [][Next]_vars

----------------------------------------------------------------------------
Descriptor == [id : Fds, file : Files, pos : 0 .. MaxPos]

TypeOK ==
    /\ disk \in Disks
    /\ F.fds \in [Fds -> Descriptor \cup {None}]
    /\ F.heap \in [Kinds -> Nat]
    /\ opened \in [Fds -> Files \cup {None}]

(* A descriptor number stands for the file it was opened with until it is  *)
(* closed, whatever other descriptors are opened and closed meanwhile      *)
(* (file_get_fd, file_new_descriptor, file_free_descriptor).  The comment  *)
(* of fs/file.c:77, "What if a previous descriptor is gone? - This won't   *)
(* work", says otherwise; this property is what refutes it.                *)
NumbersAreStable ==
    \A n \in Fds : IF opened[n] = None THEN file_get_fd(F, n) = None
                   ELSE file_get_fd(F, n) # None /\ file_get_fd(F, n).file = opened[n]

(* Everything an open file needs is allocated once and stays until it is   *)
(* closed.  Beyond that, an fopen that fails after the file system was     *)
(* asked keeps the file system's descriptor, and every file ever found     *)
(* keeps an item (fat16_open, fat16_fat_item_free).                        *)
OpenFilesBacked ==
    LET open_now == Cardinality({n \in Fds : opened[n] # None})
    IN  /\ TypeOK
        /\ F.heap.descriptor = open_now
        /\ F.heap.fat_descriptor = open_now + calls.lost
        /\ F.heap.item_copy \in open_now .. open_now + calls.lost
        /\ F.heap.fat_item = calls.found

Wanted(r) == [i \in 1 .. r.want |-> Place(disk, r.file, r.pos + i - 1)]
InFile(r) == r.file # None /\ r.pos + r.want <= disk.size[r.file]

(* The read stays in the first cluster, or the next cluster of the file is *)
(* also the next on the disk.                                              *)
Contiguous(r) ==
    \/ r.pos + r.want <= ClusterBytes
    \/ disk.chain[r.file][2] = disk.chain[r.file][1] + 1

(* A read that succeeds returns the bytes of the file at the position of   *)
(* the descriptor, as long as they are contiguous on the disk: through     *)
(* sector boundaries, cluster arithmetic, members of a block read, and     *)
(* streams that all open files share.                                      *)
ReadsTheFile == (InFile(last) /\ Contiguous(last) /\ last.res >= 0) => last.bytes = Wanted(last)

(* A read within the first cluster of a file succeeds.  None that starts   *)
(* behind it does, since every link of a chain is taken for a reserved     *)
(* value (NextCluster).                                                    *)
ShortReadsSucceed ==
    (InFile(last) /\ last.want > 0 /\ last.pos + last.want <= ClusterBytes) => last.res > 0

(* Which files can be opened.  What a search finds has the name asked for, *)
(* and a file of the root directory is found exactly when its name field   *)
(* does not run on and, from its entry to the end of the directory, there  *)
(* are more entries than were deleted in the whole directory: every        *)
(* deleted entry, wherever it is, hides one file at the end.               *)
LookupFinds ==
    LET end == Min({i \in DOMAIN disk.root : disk.root[i] = End})
        gone == Cardinality({i \in 1 .. end - 1 : disk.root[i] = Deleted})
    IN  \A f \in Files :
          /\ fat16_find_item_in_directory(disk, f) \in {f, None}
          /\ fat16_find_item_in_directory(disk, f) = f
                <=> f \notin disk.runon /\ \E i \in 1 .. end - 1 : disk.root[i] = f /\ end - i > gone

----------------------------------------------------------------------------
(* What the code says of itself where it does not hold.                    *)

(* file.h:33 on the read function of a file system: "Read nmemb blocks *   *)
(* size bytes".  A read inside a file that reports success has the bytes   *)
(* of that file.                                                           *)
SuccessMeansTheFile == (InFile(last) /\ last.res > 0) => last.bytes = Wanted(last)
=============================================================================
