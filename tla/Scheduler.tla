----------------------------- MODULE Scheduler -----------------------------
(***************************************************************************)
(* Tasks and processes: the task list, the process table and the process   *)
(* that has the keyboard (task/task.c, task/process.c, isr80h/process.c,   *)
(* idt/irq.c, idt/interrupts.c).                                           *)
(*                                                                         *)
(* All gates are interrupt gates: the kernel runs with interrupts off, and *)
(* each entry from user mode, a system call, a fault or a timer tick, is   *)
(* one step that ends with a return to some task.  A process struct is     *)
(* never reused, so a process is named by its id, the slot of the table.   *)
(***************************************************************************)
EXTENDS TaskList

CONSTANT MaxProcesses       \* BasicOS_MAX_PROCESSES

Pids == 0 .. MaxProcesses - 1

ASSUME ProcessesAssumption == MaxProcesses \in Nat \ {0} /\ None \notin Pids

VARIABLES
    list,               \* the task list
    live,               \* task blocks that are allocated
    owner,              \* task->process, as a process id
    processes,          \* the process table: the task of each process
    current_process,    \* the process with the keyboard
    mode,               \* "user"; "panic"; "wild": a freed task was resumed
    dirty               \* a task was removed through a stale prev field

vars == <<list, live, owner, processes, current_process, mode, dirty>>

(* prev[t] is written once, when t is created.  It is stale when the task  *)
(* it names has ended since.                                               *)
Stale(t) ==
    LET p == list.prev[t]
    IN  p # None /\ ~(p \in live /\ list.next[p] = t)

----------------------------------------------------------------------------
(* kernel_main: the shell is loaded as process 0 and its task is run.      *)
Init ==
    /\ \E t \in Tasks :
          /\ list = task_new(NoTasks, t)
          /\ live = {t}
          /\ processes = [p \in Pids |-> IF p = 0 THEN t ELSE None]
    /\ owner = [t \in Tasks |-> 0]
    /\ current_process = 0
    /\ mode = "user"
    /\ dirty = FALSE

(* task_next on list L: switch to the next task and return to it.          *)
task_next(L, alive) ==
    IF L.current = None
    THEN list' = L /\ mode' = "wild"
    ELSE LET t == task_get_next(L)
         IN  IF t = None
             THEN list' = L /\ mode' = "panic"
             ELSE /\ list' = task_switch(L, t)
                  /\ mode' = IF t \in alive THEN "user" ELSE "wild"

timer_interrupt ==
    /\ mode = "user"
    /\ task_next(list, live)
    /\ UNCHANGED <<live, owner, processes, current_process, dirty>>

(* Faulty variants of the definitions below, used only to show that the    *)
(* properties can fail: the slot after the ones in use; the parent taken   *)
(* to be the process before; no switch of the keyboard; only the slots     *)
(* after the ending process searched.                                      *)
SlotByCount == Cardinality({p \in Pids : processes[p] # None})
UnlinkToParent(p, table) == IF current_process # p THEN current_process ELSE p - 1
UnlinkKeeps(p, table) == current_process
UnlinkSearchesAfter(p, table) ==
    LET later == {q \in Pids : q > p /\ table[q] # None}
    IN  IF current_process # p THEN current_process
        ELSE IF later = {} THEN None
        ELSE CHOOSE q \in later : \A r \in later : q <= r

FreeSlots == {p \in Pids : processes[p] = None}
get_free_process_slot == CHOOSE p \in FreeSlots : \A q \in FreeSlots : p <= q

(* process_load_switch when it succeeds: everything but the list.  When no *)
(* slot is free, or the file cannot be loaded, nothing changes.            *)
process_load_switch(t) ==
    /\ mode = "user"
    /\ t \notin live
    /\ FreeSlots # {}
    /\ live' = live \cup {t}
    /\ owner' = [owner EXCEPT ![t] = get_free_process_slot]
    /\ processes' = [processes EXCEPT ![get_free_process_slot] = t]
    /\ current_process' = get_free_process_slot
    /\ UNCHANGED <<mode, dirty>>

(* The error path of process_load_for_slot with a task already made: its   *)
(* memory could not be mapped, the task is freed again, and the system     *)
(* call returns to the current task.                                       *)
process_load_fails(t) ==
    /\ mode = "user"
    /\ t \notin live
    /\ FreeSlots # {}
    /\ list' = task_list_remove(task_new(list, t), t)
    /\ mode' = IF list'.current \in live THEN "user" ELSE "wild"
    /\ UNCHANGED <<live, owner, processes, current_process, dirty>>

sys_process_load_start(t) ==
    /\ process_load_switch(t)
    /\ list' = task_switch(task_new(list, t), t)

(* The arguments are copied after the process is in place.  When that      *)
(* fails the caller goes on with an error, and the process stays.          *)
sys_invoke_sys_command(t) ==
    /\ process_load_switch(t)
    /\ \/ list' = task_switch(task_new(list, t), t)
       \/ list' = task_new(list, t)

(* process_unlink with process_switch_available: the keyboard goes to the  *)
(* process with the lowest id.                                             *)
process_unlink(p, table) ==
    LET others == {q \in Pids : table[q] # None}
    IN  IF current_process # p THEN current_process
        ELSE IF others = {} THEN None
        ELSE CHOOSE q \in others : \A r \in others : q <= r

(* process_terminate of the current process and task_next.  task_free has  *)
(* made the successor current already; task_next goes one further.         *)
TerminateCurrent ==
    LET t == list.current
        p == owner[t]
        L == task_list_remove(list, t)
    IN  /\ mode = "user"
        /\ live' = live \ {t}
        /\ dirty' = (dirty \/ Stale(t))
        /\ processes' = [processes EXCEPT ![p] = None]
        /\ current_process' = process_unlink(p, processes')
        /\ IF current_process' = None
           THEN list' = L /\ mode' = "panic"
           ELSE task_next(L, live')
        /\ UNCHANGED owner

sys_exit == TerminateCurrent

(* #UD, #GP and #PF end the current process the same way.                  *)
interrupt_handlers_terminate_current_process == TerminateCurrent

Load(t) ==
    sys_process_load_start(t) \/ sys_invoke_sys_command(t) \/ process_load_fails(t)

Next ==
    \/ timer_interrupt
    \/ \E t \in Tasks : Load(t)
    \/ sys_exit
    \/ interrupt_handlers_terminate_current_process

(* The timer runs on its own: a tick always comes.                         *)
Spec == Init /\ [][Next]_vars /\ WF_vars(timer_interrupt)

----------------------------------------------------------------------------
TypeOK ==
    /\ list \in List
    /\ live \subseteq Tasks
    /\ owner \in [Tasks -> Pids]
    /\ processes \in [Pids -> TaskPtr]
    /\ current_process \in Pids \cup {None}
    /\ mode \in {"user", "panic", "wild"}
    /\ dirty \in BOOLEAN

(* Until a task is removed through a stale prev field, the list links      *)
(* exactly the live tasks and the current task is one of them.             *)
ListIntact ==
    (~dirty /\ mode = "user") => WellLinked(list, live) /\ list.current \in live

(* The process table and the tasks agree, even when the list is broken:    *)
(* every live task belongs to exactly one entry of the table, which names  *)
(* it, and no entry names a freed task.                                    *)
ProcessTable ==
    /\ \A t \in live : processes[owner[t]] = t
    /\ \A p \in Pids : processes[p] # None =>
          processes[p] \in live /\ owner[processes[p]] = p

(* The keyboard always belongs to a process of the table.                  *)
KeyboardOwned ==
    mode # "panic" => current_process # None /\ processes[current_process] # None

(* The kernel stops only when the last process has ended.                  *)
PanicOnlyWhenEmpty == (mode = "panic" /\ ~dirty) => live = {}

(* A load that fails leaves no trace in the list: the tasks are visited in *)
(* the order they were.                                                    *)
FailedLoadHarmless ==
    [][ (~dirty /\ \E t \in Tasks : process_load_fails(t)) =>
           /\ Chain(list') = Chain(list)
           /\ list'.tail = list.tail
           /\ list'.current = list.current ]_vars

(* Round robin: once no more programs are loaded, every live task gets the *)
(* processor again and again until it ends, though the tasks after one     *)
(* that ends are skipped.                                                  *)
NoStarvation ==
    \A t \in Tasks :
        <>[][~ \E u \in Tasks : Load(u)]_vars =>
            [](t \in live => <>(list.current = t \/ t \notin live \/ dirty \/ mode # "user"))

----------------------------------------------------------------------------
(* The task list implements the run queue until it becomes dirty.          *)
Broken == dirty \/ mode = "wild"

Queue == INSTANCE RunQueue WITH
    queue <- IF Broken THEN <<>> ELSE Chain(list),
    running <- IF Broken THEN None ELSE list.current,
    void <- Broken

(* Loading appends to the queue, ending a process takes its task out and   *)
(* leaves the rest in order, a tick moves to the next task in turn.        *)
ImplementsQueue == Queue!Spec

----------------------------------------------------------------------------
(* What the code says of itself where it does not hold.                    *)

(* process.c:506 on task_free: "Remove the task from task list".  No freed *)
(* task is on the list that the scheduler follows.                         *)
FreedTasksAreRemoved == ToSet(Chain(list)) \subseteq live
=============================================================================
