------------------------------- MODULE Loader -------------------------------
(***************************************************************************)
(* Loading a program: elf_load (loader/formats/elf_loader.c), the fallback *)
(* to a flat binary and process_load_for_slot (task/process.c), with what  *)
(* each error path releases and keeps, and what the end of a process       *)
(* releases.  A disk also has                                              *)
(*    header  of each file: valid (signature, class, encoding and a table  *)
(*            of program headers), types (the types of the headers) and    *)
(*            wraps (the physical end of a segment is below its start)     *)
(***************************************************************************)
EXTENDS Vfs

CONSTANTS
    Volumes,        \* the disks the system may be started with
    Programs,       \* the paths that are asked for
    MaxProcesses,   \* BasicOS_MAX_PROCESSES
    MaxLoads        \* bound: calls of process_load

(* Each file has the header its first bytes are; None is no format.        *)
ASSUME LoaderAssumption ==
    /\ None \notin {"elf", "flat"}
    /\ \A d \in Volumes : /\ IsDisk(d)
                          /\ \A f \in Files : /\ d.header[f].valid \in BOOLEAN
                                              /\ d.header[f].wraps \in BOOLEAN
    /\ \A path \in Programs : IsPath(path)
    /\ MaxProcesses \in Nat /\ MaxLoads \in Nat

VARIABLES
    volume,     \* the disk, never written
    objects,    \* descriptors and kernel objects
    processes,  \* the process table: the format of each process
    tally       \* calls of process_load by what became of them

loaderVars == <<volume, objects, processes, tally>>

EINVFORMAT == 8
Pids == 0 .. MaxProcesses - 1
Outcomes == {"elf", "flat", "not_found", "bad_file", "not_mapped"}

(* A fault: the file stays open when it is not an ELF file.                *)
CloseWhenLoaded(G, n, res) == IF res < 0 THEN G ELSE fclose(G, n)
(* A fault: the image of an ELF file is forgotten.                         *)
UnloadKeepsImage(G, format) == kfree(G, IF format = "elf" THEN {"elf_file"} ELSE {"image"})

----------------------------------------------------------------------------
(* Every header is looked at until one is not PT_LOAD.                     *)
elf_process_pheaders(header) == IF header.types \subseteq {"PT_LOAD"} THEN 0 ELSE -EIO

(* elf_validate_loaded: signature, class, encoding and a program header.   *)
elf_validate_loaded(header) == IF header.valid THEN 0 ELSE -EINVFORMAT

elf_process_loaded(header) ==
    IF elf_validate_loaded(header) < 0 THEN elf_validate_loaded(header)
    ELSE elf_process_pheaders(header)

(* The common end of elf_load and process_load_binary: the file is closed  *)
(* whatever the result.                                                    *)
CloseAfterLoad(G, n, res) == fclose(G, n)

(* fopen, fstat, kzalloc and fread of the whole file.                      *)
ReadOpened(d, O) ==
    IF O.fd = 0 THEN [F |-> O.F, fd |-> 0, res |-> -EIO]
    ELSE [F |-> alloc(O.F, {"image"}), fd |-> O.fd,
          res |-> fread(d, O.F, O.fd, fstat(d, O.F, O.fd), 1).res]
ReadWhole(d, G, path) == ReadOpened(d, fopen(d, G, path, "r"))

Loaded(R, res, format) ==
    [F |-> CloseAfterLoad(R.F, R.fd, res), res |-> res,
     outcome |-> IF R.fd = 0 THEN "not_found" ELSE IF res < 0 THEN "bad_file" ELSE format]

(* No error path releases the file struct or the image.                    *)
ElfRead(d, R) ==
    Loaded(R, IF R.res < 0 THEN R.res ELSE elf_process_loaded(d.header[R.F.fds[R.fd].file]), "elf")
elf_load(d, G, path) == ElfRead(d, ReadWhole(d, alloc(G, {"elf_file"}), path))

BinaryRead(R) == Loaded(R, IF R.res # 1 THEN -EIO ELSE 0, "flat")
process_load_binary(d, G, path) == BinaryRead(ReadWhole(d, G, path))

(* process_load_data: what is not ELF is taken for a flat binary.          *)
OrBinary(d, E, path) == IF E.res = -EINVFORMAT THEN process_load_binary(d, E.F, path) ELSE E
process_load_data(d, G, path) == OrBinary(d, elf_load(d, G, path), path)

(* process_map_memory: only a segment of an ELF file can fail to be        *)
(* mapped.                                                                 *)
process_map_memory(d, path, format) ==
    IF format = "elf" /\ d.header[path.parts[1]].wraps THEN -EINVARG ELSE 0

(* The error path frees what the process points to.  After a failed load   *)
(* that is nothing; after a failed mapping it is the task, the stack and,  *)
(* ptr and elf_file being one field, the file struct without its image.    *)
Mapped(D, mapping) ==
    IF D.res < 0 THEN [D EXCEPT !.F = kfree(@, {"process"})]
    ELSE IF mapping < 0
    THEN [F |-> kfree(alloc(D.F, {"stack", "task"}), {"task", "stack", "elf_file", "process"}),
          res |-> mapping, outcome |-> "not_mapped"]
    ELSE [D EXCEPT !.F = alloc(@, {"stack", "task"})]
LoadedData(d, D, path) == Mapped(D, process_map_memory(d, path, D.outcome))
process_load_for_slot(d, G, path) ==
    LoadedData(d, process_load_data(d, alloc(G, {"process"}), path), path)

(* process_unload_process with elf_close.                                  *)
process_unload_process(G, format) ==
    kfree(G, IF format = "elf" THEN {"image", "elf_file"} ELSE {"image"})

----------------------------------------------------------------------------
LoaderInit ==
    /\ volume \in Volumes
    /\ objects = NoFiles
    /\ processes = [p \in Pids |-> None]
    /\ tally = [o \in Outcomes |-> 0]

FreeSlots == {p \in Pids : processes[p] = None}
Loads ==
    tally["elf"] + tally["flat"] + tally["not_found"] + tally["bad_file"] + tally["not_mapped"]

(* process_load: nothing happens when the table is full.                   *)
process_load(path) ==
    /\ Loads < MaxLoads
    /\ FreeSlots # {}
    /\ \E L \in {process_load_for_slot(volume, objects, path)} :
          /\ objects' = L.F
          /\ processes' = IF L.res < 0 THEN processes
                          ELSE [processes EXCEPT ![Min(FreeSlots)] = L.outcome]
          /\ tally' = [tally EXCEPT ![L.outcome] = @ + 1]
    /\ UNCHANGED volume

(* The process struct is not released.                                     *)
process_terminate(p) ==
    /\ processes[p] # None
    /\ objects' = kfree(process_unload_process(objects, processes[p]), {"stack", "task"})
    /\ processes' = [processes EXCEPT ![p] = None]
    /\ UNCHANGED <<volume, tally>>

LoaderNext ==
    \/ \E path \in Programs : process_load(path)
    \/ \E p \in Pids : process_terminate(p)

LoaderSpec == LoaderInit /\ [][LoaderNext]_loaderVars

----------------------------------------------------------------------------
LoaderTypeOK ==
    /\ objects.fds \in [Fds -> {None}]
    /\ objects.heap \in [Kinds -> Nat]
    /\ processes \in [Pids -> {"elf", "flat", None}]
    /\ tally \in [Outcomes -> 0 .. MaxLoads]

(* Whether a program can be loaded depends on its file alone, however many *)
(* loads succeeded or failed before: no error path of elf_load or          *)
(* process_load_binary uses up a descriptor.                               *)
LoadsKeepWorking ==
    \A path \in Programs :
        process_load_for_slot(volume, objects, path).res = process_load_for_slot(volume, NoFiles, path).res

(* A process has its image, stack and task until it ends and none of them  *)
(* is released twice (process_load_for_slot, process_unload_process).      *)
(* What stays behind is one process struct per process, a file struct      *)
(* and an image per failed load or flat binary, the image alone when the   *)
(* segments cannot be mapped.                                              *)
ObjectsAccounted ==
    LET Running(formats) == Cardinality({p \in Pids : processes[p] \in formats})
        all == Running({"elf", "flat"})
    IN  /\ LoaderTypeOK
        /\ objects.heap.stack = all /\ objects.heap.task = all
        /\ objects.heap.process = tally["elf"] + tally["flat"]
        /\ objects.heap.image = all + tally["bad_file"] + tally["not_mapped"] + tally["flat"]
        /\ objects.heap.elf_file = Running({"elf"}) + tally["not_found"] + tally["bad_file"] + tally["flat"]
=============================================================================
