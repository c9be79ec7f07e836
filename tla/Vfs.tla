-------------------------------- MODULE Vfs --------------------------------
(***************************************************************************)
(* Files: the descriptor table and the calls of fs/file.c, the path parser *)
(* (fs/pparser.c), and what fat16_open and fat16_close allocate and free,  *)
(* as operators on a value F with two fields:                              *)
(*    fds     the descriptor table, from descriptor number to descriptor   *)
(*    heap    the number of kernel objects of each kind that are allocated *)
(* A path is [valid, drive, parts]: valid says that it has the form of a   *)
(* path and is not too long, parts are the names up to the first empty     *)
(* one.  kzalloc is taken to succeed (module Heap says what happens when   *)
(* it cannot).                                                             *)
(***************************************************************************)
EXTENDS Fat16

CONSTANT MaxFds         \* MAX_FILE_DESCRIPTORS_ACTIVE

ASSUME FdsAssumption == MaxFds \in Nat \ {0}

Fds == 1 .. MaxFds

(* The marks of a directory are no names, and no descriptor is None.       *)
ASSUME NamesAssumption ==
    /\ Deleted \notin Files /\ End \notin Files /\ None \notin Files /\ Deleted # End
    /\ None \notin [id : Fds, file : Files, pos : Nat]

(* The disk is one: each file has a first cluster, the clusters are        *)
(* numbered from 2, and the root directory ends with an entry that is      *)
(* zero, behind which there are no others; no name is in it twice.         *)
IsDisk(d) ==
    /\ d.root \in Seq(Files \cup {Deleted, End})
    /\ \E i \in DOMAIN d.root : d.root[i] = End
    /\ \A i, j \in DOMAIN d.root : (i < j /\ d.root[i] = End) => d.root[j] = End
    /\ \A i, j \in DOMAIN d.root : (i < j /\ d.root[i] = d.root[j]) => d.root[i] \notin Files
    /\ d.chain \in [Files -> Seq(Nat \ {0, 1})] /\ \A f \in Files : d.chain[f] # <<>>
    /\ d.size \in [Files -> Nat]

IsPath(path) == path.valid \in BOOLEAN /\ path.parts \in Seq(Files)

(* What the callers of kzalloc keep: a path with its parts and their       *)
(* strings, a file of the file system with its item and the copy of its    *)
(* directory entry, a directory with its entries, the file descriptor; and *)
(* for a process (module Loader) the ELF file and the image of the file,   *)
(* the stack, the task with its page tables, and the process.              *)
Kinds == {"path_root", "path_part", "part", "fat_descriptor", "fat_item", "item_copy",
          "fat_directory", "directory_items", "descriptor",
          "elf_file", "image", "stack", "task", "process"}

NoFiles == [fds |-> [n \in Fds |-> None], heap |-> [k \in Kinds |-> 0]]

alloc(F, kinds) == [F EXCEPT !.heap = [k \in Kinds |-> IF k \in kinds THEN @[k] + 1 ELSE @[k]]]
kfree(F, kinds) == [F EXCEPT !.heap = [k \in Kinds |-> IF k \in kinds THEN @[k] - 1 ELSE @[k]]]

(* A fault: the descriptor of the last slot is looked up one too far.      *)
GetFdShifted(F, n) == IF n \notin Fds \/ n = 1 THEN None ELSE F.fds[n - 1]
(* A fault: the slot after the ones in use.                                *)
NewDescriptorByCount(F) == 1 + Cardinality({n \in Fds : F.fds[n] # None})

(* A comment there fears for a descriptor when an earlier one is gone      *)
(* (fs/file.c:77); the number is the place in the table, so it need not.   *)
file_get_fd(F, n) == IF n \notin Fds THEN None ELSE F.fds[n]

(* The number of a new descriptor; 0 when the table is full.               *)
file_new_descriptor(F) ==
    LET free == {n \in Fds : F.fds[n] = None}
    IN  IF free = {} THEN 0 ELSE Min(free)

(* pparser_parse.  The path is never freed: pparser_free has no caller.    *)
pparser_parse(F, path) ==
    IF ~path.valid THEN F
    ELSE [F EXCEPT !.heap = [k \in Kinds |->
            CASE k = "path_root"            -> @[k] + 1
              [] k \in {"path_part", "part"} -> @[k] + Len(path.parts)
              [] OTHER                      -> @[k]]]

(* What is allocated for an entry that was found: the item and a copy of   *)
(* the entry; a subdirectory, of at most one cluster, is loaded as well    *)
(* and then forgotten.                                                     *)
fat16_load_fat_directory == {"fat_directory", "directory_items"}
fat16_new_fat_item_for_directory_item(d, entry) ==
    {"fat_item", "item_copy"} \cup (IF entry \in d.dirs THEN fat16_load_fat_directory ELSE {})

(* fat16_open: the descriptor is allocated first and stays when no file is *)
(* found.  The item of the first part stays when the path has more parts.  *)
fat16_open(d, F, parts) ==
    LET first == fat16_find_item_in_directory(d, parts[1])
    IN  alloc(F, {"fat_descriptor"}
                 \cup (IF first # None THEN fat16_new_fat_item_for_directory_item(d, first) ELSE {}))

(* A descriptor for the item found, if the table has room.                 *)
WithDescriptor(F, item, n) ==
    IF item = None \/ n = 0 THEN [F |-> F, fd |-> 0]
    ELSE [F |-> [alloc(F, {"descriptor"}) EXCEPT !.fds[n] = [id |-> n, file |-> item, pos |-> 0]],
          fd |-> n]

OpenParsed(d, P, path, mode) ==
    IF ~path.valid \/ path.parts = <<>> \/ path.drive # 0 \/ fat16_resolve(d) # 0 \/ mode # "r"
    THEN [F |-> P, fd |-> 0]
    ELSE WithDescriptor(fat16_open(d, P, path.parts), fat16_get_directory_entry(d, path.parts),
                        file_new_descriptor(P))

(* The result has the new F and the number, 0 for every error.             *)
fopen(d, F, path, mode) == OpenParsed(d, pparser_parse(F, path), path, mode)

(* fat16_close frees the copy of the entry and the file system's           *)
(* descriptor, not the item.                                               *)
fat16_close(F) == kfree(F, {"item_copy", "fat_descriptor"})

fclose(F, n) ==
    LET desc == file_get_fd(F, n)
    IN  IF desc = None THEN F
        ELSE [kfree(fat16_close(F), {"descriptor"}) EXCEPT !.fds[desc.id] = None]

fseek(d, F, n, offset, whence) ==
    LET desc == file_get_fd(F, n)
    IN  IF desc = None THEN F
        ELSE [F EXCEPT !.fds[n].pos = fat16_seek(d, desc.file, desc.pos, offset, whence).pos]

fread(d, F, n, size, nmemb) ==
    LET desc == file_get_fd(F, n)
    IN  IF size = 0 \/ nmemb = 0 \/ desc = None
        THEN [res |-> -EINVARG, bytes |-> <<>>]
        ELSE fat16_read(d, desc.file, desc.pos, size, nmemb)

(* fstat of an open file.                                                  *)
fstat(d, F, n) == d.size[file_get_fd(F, n).file]
=============================================================================
