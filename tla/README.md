# BasicOS: a TLA+ development

This directory models the core of the BasicOS kernel (`src/src/kernel`), checks
the models with TLC on small instances, and proves what matters most about them
with TLAPS for every value of the constants. Paths below are relative to
`src/src/kernel` unless they start with `src/`.

## The system

BasicOS is a 32-bit x86 kernel with user programs in ring 3, paging, a
preemptive round-robin scheduler, a PS/2 keyboard, a VGA text terminal, a
read-only FAT16 file system over ATA, an ELF loader, and a shell.

**Concurrency.** Every gate of the IDT is an interrupt gate, so the kernel runs
with interrupts off from entry to `iret`. `task_return` (task/task.asm) turns
them on again in user mode only. A kernel entry (system call, exception, timer
tick, key press) is therefore atomic, and what interleaves are whole entries of
different tasks. All modules use this grain: one action per entry. There is one
processor, no sleeping, no blocking call, and no disk write.

### Inventory

| component | state | operations | interacts with | what makes it correct |
|---|---|---|---|---|
| kernel heap (memory/heap) | table of block entries | kmalloc, kzalloc, kfree | everything allocates here | blocks not shared, not lost; failure reported |
| task list (task/task.c) | task_head, task_tail, current_task, next/prev of each task | task_new, task_free, task_next, task_switch | process table, timer, exit | links exactly the live tasks; everyone gets a turn |
| processes (task/process.c, isr80h/process.c) | process table, current_process | load, exec with arguments, exit, end by fault | task list, heap, keyboard | table and tasks agree; the keyboard has an owner |
| user memory (process_malloc, process_free) | allocation table and page tables of a process | malloc, free, release at exit | heap, paging | isolation of processes |
| keyboard (keyboard/) | caps lock, ring buffer per process | key press, getkey | current_process, current task | keys arrive once, in order, at the right process |
| paging (memory/paging) | page directories | generate, map, switch | tasks, user memory | a mapping changes only its pages |
| interrupt dispatch (idt/) | callback and system call tables | dispatch, register | everything | every vector has a defined outcome; registers survive |
| virtual file system (fs/file.c, fs/pparser.c) | descriptors, file systems | fopen, fread, fseek, fstat, fclose | FAT16, disk | descriptors map to open files; nothing leaks |
| FAT16 (fs/fat) | FAT header, directories | resolve, open, read, seek, stat, close | stream reader | a read returns the file's bytes |
| stream reader (disk/) | position | seek, read | ATA port I/O | equals a read of a flat byte array |
| ELF loader (loader/formats) | loaded image | load, validate, close | file system, paging | only valid images are mapped |
| terminal (kernel.c) | cursor, text buffer | putchar, clear | everything prints | the cursor stays on the screen |
| user library, shell (src/programs) | line buffer | readline, run | system calls | line editing, command parsing |
| boot loader (src/src/boot) | none kept | load the kernel | BIOS | straight-line code, not modelled |

What is hard to test here: sequences of starts, exits and timer ticks that leave
a stale pointer in the task list; a load that fails half way; resource limits
(heap, process table, allocation table, key buffer); arithmetic edges (unsigned
error codes, sizes of zero and near 2^32, counters that wrap); state that two
notions share (the running task and the process with the keyboard). The list
with lines and the properties that address each is under `hazards` in
`PROJECT.json`.

## Modules

| module | models | kind |
|---|---|---|
| `HeapOps` | the operators of memory/heap/heap.c on a table value | operators |
| `Heap` | the heap and its callers | component |
| `BlockPool` | what the heap promises | abstract specification |
| `BasicLemmas` | induction over sets of naturals, the existence of recursive functions, cells of sequences, division with rest, least and greatest members | lemmas |
| `HeapProofs` | what the operators of `HeapOps` do; theorems about `Heap` and `UserMemory` | proofs |
| `TaskList` | the operators of task/task.c on a list value | operators |
| `Scheduler` | task list, process table, keyboard focus; composes task.c, process.c, the process system calls, the timer and the faults | component |
| `RunQueue` | what the task list promises | abstract specification |
| `SchedulerProofs` | theorems about `TaskList`, `Scheduler` and `Console` | proofs |
| `Keyboard` | driver, key buffers, getkey | component |
| `KeyQueue` | what the keyboard promises a process | abstract specification |
| `KeyboardProofs` | theorems about `Keyboard` | proofs |
| `UserMemory` | process_malloc/process_free over `HeapOps` and page writability | composition of heap, allocation tables, page tables |
| `Console` | `Scheduler` with key buffers and the getkey loop of the shell | composition of scheduler and keyboard |
| `Fat16` | FAT16 and the stream reader on a disk value | operators |
| `Vfs` | descriptor table, path parser, what open and close allocate and free | operators |
| `Files` | callers that open, seek, read and close | component |
| `Loader` | loading and unloading of programs over `Vfs` | composition of file system, ELF loader, processes |
| `FilesProofs` | theorems about `Fat16`, `Vfs`, `Files` and `Loader` | proofs |
| `Paging` | the operators of memory/paging/paging.c on a directory value | operators |
| `AddressSpace` | page tables of processes: images, stack, allocations, strings copied by the kernel | composition of paging, heap, processes |
| `AddressSpaceProofs` | theorems about `Paging` and `AddressSpace` | proofs |
| `Entry` | registers, page directory, segments and interrupt controller across kernel entries | component |
| `EntryProofs` | theorems about `Entry` | proofs |
| `Terminal` | the text screen and the printing system calls | operators |
| `Shell` | readline, command parsing, starting a program with arguments, children that print and end | composition of terminal, user library, processes |
| `ShellProofs` | theorems about `Terminal` and `Shell` | proofs |
| `MCMemory`, `MCConsole`, `MCKeyboard`, `MCFiles`, `MCLoader`, `MCAddressSpace`, `MCEntry`, `MCShell` | small instances; `MCMemory` of `Heap` and `UserMemory` | model checking |

Definitions whose comment calls them faulty are wrong variants of a definition
that follows them. They are not used by any specification; each is put in place
of the right definition to see that a property notices.

### Heap

An address is a block number relative to the heap's base; the null pointer is
`-HeapBase`. A table entry is the set of its flag bits. `heap_get_start_block`
is stated by what its loop returns: the lowest sufficient run of free blocks,
else the start of the free run that touches the end of the table, however short,
else `-ENOMEM`. The loop as written is `scan`; the invariant `ScanIsFirstFit`
says that the two agree on every reachable table and every request. The caller stores the
result in an unsigned variable, so `-ENOMEM` is used as a block number; the model
does the same. `kmalloc` and `kfree` are the whole calls. A client is a kernel
variable that holds one allocation; it forgets the pointer it frees, as the
kernel's callers do.

The heap does not notice requests it cannot meet (no run is long enough, or the
size rounds to zero blocks). The ghost variable `served` says that this has not
happened; the safety properties are conditional on it. What happens otherwise is
shown by a run of its own, `heap_full` (see "Where the code falls short");
behaviour after that point is explored in `memory` too (`TypeOK`,
`ScanIsFirstFit`).

### Tasks and processes

`TaskList` keeps `next` and `prev` for every task block, freed ones included: a
freed block keeps its fields and may be reused for a new task. `prev` is written
once, by `task_new`, and never updated when the predecessor ends. The ghost
`dirty` records that a task was removed while its `prev` was stale; from there on
the list may contain freed blocks. Properties of the list hold up to `dirty`; the
process table and the keyboard focus are shown right even beyond it. `mode` is
`"panic"` after `kernel_panic` and `"wild"` when the kernel returns to a task
whose memory was freed: what happens then depends on who owns the block, and
the model stops. The kernel does stop in both, so deadlock is not checked.

Loads of a program are `sys_process_load_start` and `sys_invoke_sys_command`,
the latter also when copying the arguments fails after the process is in place,
and `process_load_fails`, the error path of `process_load_for_slot` that frees
the task it just linked. A load that fails before the task exists changes
nothing here. `sys_exit` and the fault handlers end the current process; the
list operation makes the successor current and `task_next` goes one further, so
each exit skips a task. A process struct is never freed (process_terminate
does not free it), so a process is named by its table slot.

### Keyboard

Scan codes are letters, other characters, caps lock, a code with no character
and the code one past the end of the table, which the bound test lets through:
it gives a character if the byte there is not a zero (`PastByte`, kept apart from
the characters of the table).
`Letters`, `Others` etc. are model values. `head` and `tail` wrap at
`CounterRange` (2^32 in the build, a multiple of the buffer size). The ghost
`over` holds the processes whose buffer was written while full: from then on the
promise to them is void. Which process has the keyboard and which one runs
change by `switch` in any way at all, which covers whatever the scheduler does.

### User memory

A process may pass any pointer to free. `writable` holds the pages a process can
write because of its allocations (its image and stack are not in this module).
Ending a process releases its allocations slot by slot; its place is taken by a
new process with fresh tables. A process with no free allocation slot gets the
null pointer and nothing changes. Requests go up to the size of the heap; larger
ones overwrite memory in kzalloc and are outside the model. A request of zero
bytes is one the heap cannot meet: it is answered with the address of a free
block, and `granted` is false from there on.

### Scheduler and keyboard together

`Console` extends `Scheduler`: every step of the scheduler also says what
becomes of the key buffers, which live in the process structs. A buffer is the
queue of `KeyQueue`, which `Keyboard` is shown to implement. A key goes to
`current_process`, a read takes from the running task, and the two change at
different moments. `keys` remembers for whom each key was typed until it is read
or its process ends.

### Files

A disk is a value: the entries of the root directory in order, the cluster chain
and size of each file, which names fill their field (and so run on), which
entries are subdirectories, and whether the boot sector carries the FAT
signature. A byte of a file is identified by its place on the disk, so that a
read returns the sequence of places it read and "the right bytes" is an equality
of sequences. No name occurs twice in a directory (`IsDisk`), so a search
allocates one item at most. The position of a stream is an argument and not a
state: every read of the driver follows a seek, or uses a new stream (`Place` is the layout FAT16 prescribes, the operators from
`diskstreamer_read` to `fat16_read` are the code). `fat16_get_fat_entry` reads
the word at the product the code computes. Names are model values.

`LookupFinds` says exactly which files a search finds, deleted entries or not:
those whose place, counted from the end, is greater than the number of deleted
entries in the whole directory. `NumbersAreStable` contradicts a comment in
`file_get_fd` (fs/file.c:77: with a previous descriptor gone "this won't work");
the code is right and the comment is not, since the number is the place in the
table.

`Vfs` keeps, besides the descriptor table, how many kernel objects of each kind
are allocated. The code never frees a parsed path, the item behind an open file,
or anything of an open that fails after the file system was called;
`OpenFilesBacked` says exactly what is left and that nothing else is. kzalloc is
taken to succeed here; `Heap` says what happens when it cannot. The root
directory is assumed to fill its sectors (`GeometryAssumption`), as that of the
boot sector does, and to end with an empty entry (`IsDisk`).

### Loading programs

`Loader` follows a program from `process_load` through `elf_load`, the second
attempt as a flat binary, the stack, the task and the mapping, with each error
path, over the same counts of kernel objects. `LoadsKeepWorking` says that no
sequence of loads and exits makes the loading of a good file fail (the
descriptor of every file read is given back), `ObjectsAccounted` which objects
each outcome leaves behind: a program runs (`"elf"`, `"flat"`), its file is not
there (`"not_found"`), cannot be read or is no program (`"bad_file"`), or its
segments cannot be mapped (`"not_mapped"`). `Volumes` are the disks and
`Programs` the paths; each path is one the path parser returns.

### Address spaces

`Paging` computes with addresses: `PageSize`, `Tables` and `Entries` are
constants, 32-bit wrap is `% Space`, a page table entry is a frame and its
flags. In `AddressSpace` images are placed in heap pages first fit, mapped
segment by segment (from the page of its address, to the aligned end of its
memory, as written), allocations are mapped one to one, and freed ones lose all
flags. `PagesExact` compares every entry of every directory with what the
process owns. `ImageMapped` is about segments that lie in the file (offset and
file size together do not exceed it), are congruent to their offsets, share no
page, and stay off the stack and off the pages of the heap: an allocation is
mapped at its own address, over whatever the program had there. A segment with
more memory than there is room for in the blocks of its file reaches the blocks
behind them: `Overhang` are the frames that the writable segments of such a
process claim there, and `OwnWritable` says that a process can write these and
its own blocks and nothing else. Blocks that nothing points to any more are owned
by `Lost`: the image of an ELF file whose segments cannot be mapped, of which
`process_load_for_slot` frees the record only, and what `elf_load` read of a file
that is then loaded as a flat binary. They are never free again, so in the end no
program can be loaded. `CopyReadsTask`
is about programs that stay off the pages of the heap: the buffer of the kernel
is mapped there while the string is read.

### Kernel entries

`Entry` follows the registers by name and position: what the processor pushes,
the dummy error code, `pushad`, `struct interrupt_frame`, `struct registers`,
and the offsets task_return loads from. A register's value is the task, the
register and a version, so a value in the wrong place is visible. Each action is
one entry: timer, another interrupt line, exception, system call that returns,
exit, start of a program, start that fails. The controllers are external and
modelled by what the code relies on: a line in service blocks itself and lower
ones until it is acknowledged; lines 8 to 15 arrive through line 2.

### Terminal and shell

`Terminal` has the cursor and the cells of video memory that are on the screen;
what is written below the last line is not seen. Coordinates that address a
cell are taken modulo 256 where the code passes them as bytes
(`VGA_get_offset`). The shell's line, echo, editing, and the words it makes of
the line are sequences of characters, since the properties are about them;
`Chars` are the characters. A child runs beside the shell, prints, and ends or
faults; the keyboard is the child's while it lives. Junk is what may follow the
character that `sys_putchar` prints as a string: a zero, or bytes left on the
stack, at each key anew, once in a line.

Two history variables say when a line can be expected on the screen. `plain`
holds while the line has no tab, no backspace on an empty line and no junk; the
first two conjuncts of `LineOnScreen` (the line is where it began, the cursor
behind it) are about such lines. `tidy` holds as long as no junk with a carriage
return was echoed since the screen was cleared: such a byte takes the cursor back
to the start of its row, over old text, and the next line is then typed over
it. The third conjunct (nothing behind the line) needs `tidy`, as the
junk `<<CR, "#">>` of the run shows.

`ArgvIsTokens` has no premise: as the lists of earlier commands fill the shell's
slots, a command gets fewer of its words, and at last is not started.

## Runs

| run | shows | bounds |
|---|---|---|
| `memory` | of `Heap`: `Exclusive`, `TableExact`, `NeighboursKept`, `ScanIsFirstFit`, and that it implements `BlockPool`; of `UserMemory`: `Isolation`, `NothingLost`, `OthersKept` | 5 blocks; 3 callers, sizes of 0, 1, 2, 3, 6 and 7 blocks and one that wraps to 0: fragmentation, exact fit, too large, wrap; 2 processes with 2 slots each, sizes of 1 and 2 blocks |
| `heap_full` (violation) | a caller of kmalloc is given blocks past the end of the heap | as `memory` |
| `console` | `ListIntact`, `ProcessTable`, `KeyboardOwned`, `PanicOnlyWhenEmpty`, `FailedLoadHarmless`; `Scheduler` implements `RunQueue` until dirty; `KeysFollowFocus`, and the liveness properties `NoStarvation` and `ShellGetsKeys` | 3 task blocks, 3 slots, 2 keys, no symmetry: reuse of blocks and ids, full table, removal of head, middle and tail, a key that waits over starts, exits and reuse of a slot |
| `scheduler_remove` (violation) | A, B, C are started, B ends, C ends: C stays linked, the tail is B, and the scheduler resumes C | 3 task blocks |
| `keyboard` | `Window`; `Keyboard` implements `KeyQueue` | 2 processes, buffers of 2, counters modulo 4, keys that are letters and the one past the table, so full buffers and wrapped counters occur early |
| `files` | `NumbersAreStable`, `OpenFilesBacked`, `LookupFinds`, `ReadsTheFile`, `ShortReadsSucceed` | 2 descriptors, 3 opens (a full table, a number reused while a later one is open); all directories of up to 3 entries with deleted ones, a run-on name, a subdirectory, an unsigned disk; a file of 2 clusters and one of 1 in every placement on 3 clusters of 2 sectors of 2 bytes; paths that are malformed, empty, on another drive, too deep, absent; reads of 0, 2 and 5 bytes, once and twice, at every position: within a sector, to its end, across sectors and clusters |
| `file_fragmented` (violation) | a read across a cluster boundary returns another file's bytes | one open file, reads of 0 to 5 bytes |
| `loader` | `LoadsKeepWorking`, `ObjectsAccounted` | 2 descriptors, 2 processes, one file of every sort, 5 loads: more than there are descriptors |
| `address_space` | `PagesExact`, `ImageMapped`, `OwnWritable`, `CopyReadsTask` | 16 pages of 4 bytes in 4 tables, 5 heap pages, 2 processes; flat and ELF images, of one page, at all offsets in a page, over a table boundary, with memory past their file, with a segment that wraps and is refused |
| `entry` | `ResumesIntact`, `UserModeSane`, `MasterServes` | 3 tasks; lines 0, 1, 3, 12, 14; exceptions 0, 4, 6, 13, 14: with and without error code, handler and acknowledgement |
| `shell` | `LineOnScreen`, `ArgvIsTokens` | screen of 4 by 4, lines of 6 characters (over two line ends), 7 keys, junk that begins with a carriage return, argument fields of 2 characters, 3 allocation slots, messages of 2, 4 and 12 characters over a buffer of 3 (within it, longer, refused): cut words, a full table, several commands, a screen that is not tidy |
| `print_long` (violation) | a message of 4 characters is printed as 2 and reported printed | as `shell` |

`memory` checks two components side by side: a behaviour is one of `Heap` or one
of `UserMemory`, and the other stays in its initial state, so nothing is said of
the two together. `console` checks the properties of
`Scheduler` on the composition with the keyboard, whose steps are the
scheduler's with more said of the buffers.

The type invariant of each module is checked on its own in `memory` and
`console`, and as a conjunct of `Window`, `OpenFilesBacked`,
`ObjectsAccounted`, `PagesExact`, `UserModeSane` and `LineOnScreen` in the others.

Deadlock is not checked where the system may stop: after a panic (`console`,
`entry`), and where a bound on keys or loads ends the behaviour (`console`,
`loader`, `shell`). Nor is it in `address_space`, where lost blocks can
fill the heap: with no process left there is then nothing to do.

Symmetry is used for callers, task blocks and processes: the actions treat them
alike, and the run with liveness properties has no symmetry set.

**Fairness.** In `Scheduler` only `WF_vars(timer_interrupt)`: the timer is hardware that keeps
ticking, and user mode always runs with interrupts enabled. Programs are not
assumed to do anything. `NoStarvation` is about the behaviours in which, from
some moment on, no program is loaded; without that premise it does not hold,
because the exit of the last task in the list skips the head each time.
`Console` adds strong fairness of the shell's read: the shell does nothing but
ask for keys in a loop, a tick of the timer is many system calls long, so when
it has the processor again and again it asks again and again. Other programs are
not assumed to read, or to end. `ShellGetsKeys` has the premise of
`NoStarvation`.

## Proofs

36 theorems are listed in `PROJECT.json`. Each one states a property that a run
checks, for every value of the constants that satisfies the assumptions below.
Every invariant and every action property of the passing runs is among them, and
so are the three refinements.

| module | theorems | assumptions |
|---|---|---|
| `HeapProofs` | of `Heap`: `TypeOK`, `Exclusive`, `TableExact`, `ScanIsFirstFit`, `NeighboursKept`, refinement of `BlockPool`; of `UserMemory`: `UserTypeOK`, `Isolation`, `NothingLost`, `OthersKept` | `HeapAssumption` (a block at least, the heap fits the address space and does not start in its first `ENOMEM` blocks), `SizesAssumption` (32-bit sizes), `NobodyAssumption`; `UserMemoryAssumption` (a slot at least, sizes up to the heap) |
| `SchedulerProofs` | `TypeOK`, `ListIntact`, `ProcessTable`, `KeyboardOwned`, `PanicOnlyWhenEmpty`, `FailedLoadHarmless`, refinement of `RunQueue`; `KeysFollowFocus` of `Console` | `TasksAssumption` (finitely many task blocks, none of them null), `ProcessesAssumption` (a slot at least) |
| `KeyboardProofs` | `Window`, refinement of `KeyQueue` | `KeyboardAssumption` (the buffer size divides the range of the counters) |
| `EntryProofs` | `ResumesIntact`, `UserModeSane`, `MasterServes` | `EntryAssumption` (16 lines, 32 exceptions) |
| `FilesProofs` | of `Files`: `NumbersAreStable`, `OpenFilesBacked`, `LookupFinds`, `ReadsTheFile`, `ShortReadsSucceed`; of `Loader`: `LoadsKeepWorking`, `ObjectsAccounted` | `GeometryAssumption`, `FdsAssumption`, `NamesAssumption` (the marks of a directory are no file names), `FilesAssumption` (disks are as `IsDisk` says: a directory with an end mark, nothing behind it and no name twice, a first cluster for each file); `LoaderAssumption` (the same of its disks, and what an ELF header says is one or the other) |
| `AddressSpaceProofs` | `PagesExact`, `ImageMapped`, `OwnWritable`, `CopyReadsTask` | `PagingAssumption` (as many entries in a table as tables), `AddressSpaceAssumption` (the heap lies below the last page, the stack fits the address space and lies off the heap, sizes leave room to align, segments are as `IsImage` says) |
| `ShellProofs` | `LineOnScreen`, `ArgvIsTokens` | `TerminalAssumption` (the width is a multiple of the tab, coordinates fit a byte), `ShellAssumption` (letters are printed as they are; a line that begins on the screen ends at a coordinate that fits a byte: 1024 characters on 80 by 20) |

TLC evaluates every assumption in the runs.

### The arguments

**Heap.** The invariants are not inductive alone: to see what `kfree` clears one
needs the flags (`Marked`), to see that `kmalloc` takes unheld blocks one needs
that every held block is marked, and both need the shape of a client's pointer
(`AllShaped`). `IInv` is their conjunction with `NoneLost` and disjointness.
`MallocTakesFree` (a served request gets a run nobody holds) and `FreeClears`
(a free clears exactly the held blocks) carry the argument; both are used again
for the refinement, where the owner of a block is the client that holds it
(`OwnerIsHolder`). `ScanIsFirstFit` is proved along the loop: `ScanInv` says
what the loop's variables know of the entries before the current one.

**User memory.** The same facts, for slots of allocation tables in place of
clients (`Good`), and that a page is writable exactly if it is in a slot. `Good`
is stated on a value of `mem` rather than on the variable, because it is also
the invariant of the loop that ends a process, which frees slot by slot.

**Scheduler.** `ListIntact` speaks of the walk along `next`, whose result is a
recursive function of the list; no induction goes through with that alone.
`IInv` says instead that there is a sequence `q` of the live tasks, each once,
that head, tail, next and prev link (`Linked`), and `ChainIs` that the walk then
returns `q`. `Appended` and `Removed` say what `task_new` and `task_list_remove`
make of `q`; `Removed` needs that the `prev` field followed is not stale, which
is what `dirty` records. The refinement of `RunQueue` uses the same lemmas, with
`q` as the abstract queue. For `Console`, the buffer of a process holds exactly the keys
that wait for it, in increasing order; the invariant of the scheduler is needed
for the focus to be a process that exists.

**Keyboard.** `Window` is inductive as it stands. The proof is modular
arithmetic: cells are found modulo the buffer size, counters wrap at
`CounterRange`, and the two agree only because the one divides the other.

**Kernel entries.** `ResumesIntact` speaks of the running task; `Waiting` says
the same of the image saved for each task that waits, and `Images` that every
saved image is one of user mode. That the frame is read by name in one place
and popped by position in another is `FrameOrder`, shown of both orders.

**Files.** Each read function is given its value by induction:
`diskstreamer_read` is a span of consecutive bytes whatever sectors it crosses,
`fat16_read_internal_from_stream` is a span when the read starts in the first
cluster and is at most one cluster long and an error in every other case
(`NoNextCluster`: no value read from the FAT is accepted), and `fat16_read` is
the concatenation. Hence the premise of `ReadsTheFile` cannot be dropped, and a
successful read ends before the third cluster. The state invariant is that a
descriptor carries its own number and the file it was opened with, together
with the counts of `OpenFilesBacked`. `LookupFinds` is about the disk alone: the
number of entries searched is the number of entries less those deleted
(`DirectoryCount`), so a file is seen if its place is not beyond that.

**Loading.** Between two calls of the loader no file is open, whatever became of
the loads before (`LoaderIInv`), so the next `fopen` gets the first number and
what follows depends on the disk alone. The value of each part is given in turn:
opening, reading the whole file (`WholeRes`), the attempt as ELF, the attempt as
flat binary, the mapping; from the outcome the counts of each object follow, up
to `process_unload_process`. `LoaderIInv` carries the counts of
`ObjectsAccounted` as `Accounts`.

**Address spaces.** `paging_map_range` is given its value by induction over the
pages: each page of the range gets its frame, every other entry stays
(`RangeIs`), also where the range goes from one table to the next; an address is
its page and the byte in it, and a page is its table and its entry (`PageByte`,
`IndexesOf`). `MapToIs` says the same of `paging_map_to` with its roundings, and
`MapElfIs` of the segments in turn, where the last one on a page wins. The
invariant (`IInv`) adds to `PagesExact` what each process has in the heap
(`Owns`): its image, stack and allocations are runs of blocks that are its own
and share none, and what it freed is not allocated. It is needed since
allocations are mapped at their own addresses: the page tables of two
allocations could not both be right if they shared a block; a failed load moves
blocks to `Lost` only. `ImageMapped` follows from the invariant without further
induction, and so does `OwnWritable`: a page of a segment has a frame of the image
when the segment fits the blocks of the file, and one of `Overhang` otherwise
(`OverhangHas`, `WritableIsOwn`).

**Terminal and shell.** `IInv` says more of the line than `LineOnScreen`: it is
shown as far as the screen goes even when the cursor has left the screen (a
backspace may bring it back), the buffer is not full while keys are read,
nothing is typed while a child runs, and behind the cursor there is nothing as
long as the screen is tidy (`LineShown`). A character is seen to move the
offset of the cursor by one, over the end of a row too, and a backspace to undo it
(`LetterShown`, `BackspaceShown`); for the latter the coordinates must
fit a byte, which is what the bound on the line is for (`OffsetFits`). For
`ArgvIsTokens` the words of a line are taken by the rank of their first
character. A call of `strtok` that starts behind word n returns word n + 1
whole (`TokenIs`), so the list after n calls is the first n words (`ParseIs`);
the state only has to remember that the last command was parsed this way
(`CommandParsed`), which is also true before the first one (`NothingRan`).

**Recursion.** TLA+ defines a recursive function as some function that satisfies
its equation, so each proof first shows that one does: by giving it, or from
`LoopRuns` for a loop over `0 .. n`. Induction is then about the set of numbers
for which the claim holds (`SetInduction`, `StrongInduction`), which needs no
operator parameter. This found a definition without meaning: the loop of
`fat16_read` was stated over all naturals, where its equation has no solution
past `nmemb`, although TLC evaluates it. It is now stated over `0 .. nmemb`.
The loop of `terminal_write` and that of the command parser are stated over the
length of their string and the number of free slots for the same reason.

### Only model-checked

Liveness (`NoStarvation`, `ShellGetsKeys`), which is out of the prover's reach,
and the runs that end in a violation.

## Where the code falls short

Four runs refute what the code says of itself; `PROJECT.json` quotes the lines.

* task list (`scheduler_remove`): a task stays linked after its memory is freed;
* heap (`heap_full`): a request that does not fit is handed out past the end of
  the heap, and `kmalloc` never returns null;
* FAT16 (`file_fragmented`): a read that crosses into the next cluster returns
  whatever lies behind it on the disk and reports success;
* printing (`print_long`): `sys_print_ext` stops at the first chunk of a long
  message and reports success.

One comment errs the other way: fs/file.c:77 fears that a descriptor is lost when
an earlier one is closed, "This won't work"; it does (`NumbersAreStable`).

More is modelled as the code has it, and stands outside what the properties
promise:

* user memory: an allocation of zero bytes has the address of a free block, which
  the next caller is given too; freeing it frees the other owner's (`granted`);
* FAT16: no read that starts past the first cluster of a file succeeds, because
  the test for reserved clusters is true of every value (`NextCluster`); each
  deleted entry of a directory hides its last file (`LookupFinds` says which);
* dispatch: an exception without handler returns to the program (`exception`),
  although idt.c:61 has all handlers "HALT THE CPU": the condition of
  `interrupt_handler` is never true;
* registers: a task that is switched to gets a kernel address in ebp, and the
  kernel's flags; `ResumesIntact` leaves the two out;
* keyboard: the scan code one past the table is not refused (`PastByte`);
* terminal: `sys_putchar` prints what follows the character on the stack (`plain`
  is false from there on); a backspace on an empty line erases the prompt.

What the models show further, and no line of the code contradicts: a key typed
into a full buffer overwrites an unread one (`over`); a program that divides by
zero does so for ever while the others go on (`exception`); the image of an ELF
file that cannot be mapped, and one image for each flat binary, stay allocated
(`Lost`, `ObjectsAccounted`); a segment with more memory than file is mapped over
the blocks behind its image (`Overhang`); each exit of a program skips a task.

## Plan

1. Done: all components that carry logic of their own, see the module table.
2. Done: theorems about the heap, user memory, the scheduler and the console, the
   keyboard, kernel entries, files, the loader, address spaces, the terminal and
   the shell: every safety property the passing runs check, see "Proofs".
3. Open: one model of the loader and the address spaces together, so that the
   objects `Loader` counts are the blocks `AddressSpace` places; it would cost
   TLC the bounds that make either of them interesting.

## Not modelled

The boot loader, the ATA port I/O and the programming of the controllers
(straight-line code without state to check); the GDT, TSS and IDT encodings
(constant tables); the contents of memory, colours and the wording of messages;
printf, itoa and atoi (formatting; atoi has no caller); keyboard_backspace,
pparser_free and sys_sum (no caller); running out of heap inside the file system
and the loader (the heap does not report it, so those error
paths are never taken).
