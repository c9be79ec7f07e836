------------------------------ MODULE RunQueue ------------------------------
(***************************************************************************)
(* What the task list promises: a queue of the live tasks, one of which is *)
(* running.  New tasks join at the end, a task that ends leaves the others *)
(* in their order, and a timer tick passes the processor to the next task  *)
(* in cyclic order.  The promise may become void.                          *)
(***************************************************************************)
EXTENDS Sequences, SequencesExt

CONSTANTS
    Tasks,      \* the tasks that can exist
    None        \* no task is running

VARIABLES
    queue,      \* the live tasks, in the order they get the processor
    running,    \* the task that has the processor
    void        \* no promise any more

queueVars == <<queue, running, void>>

Init == \E t \in Tasks : queue = <<t>> /\ running = t /\ void = FALSE

Successor(t) ==
    LET i == CHOOSE j \in DOMAIN queue : queue[j] = t
    IN  queue[IF i = Len(queue) THEN 1 ELSE i + 1]

Tick == running' = Successor(running) /\ UNCHANGED <<queue, void>>

(* A new task is queued; it gets the processor at once or has to wait.     *)
Join(t) ==
    /\ t \notin ToSet(queue)
    /\ queue' = Append(queue, t)
    /\ running' \in {running, t}
    /\ UNCHANGED void

(* The running task ends and one of the others goes on.                    *)
Leave ==
    /\ \E i \in DOMAIN queue : queue[i] = running /\ queue' = RemoveAt(queue, i)
    /\ running' \in IF queue' = <<>> THEN {None} ELSE ToSet(queue')
    /\ UNCHANGED void

Default == void' = TRUE /\ queue' = <<>> /\ running' = None

Next == ~void /\ (Tick \/ (\E t \in Tasks : Join(t)) \/ Leave \/ Default)

Spec == Init /\ [][Next]_queueVars
=============================================================================
