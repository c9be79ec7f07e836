------------------------------ MODULE TaskList ------------------------------
(***************************************************************************)
(* The scheduler's task list (task/task.c) as operators on a list value: a *)
(* record of task_head, task_tail, current_task and the next and prev      *)
(* fields of every task block.  A task block is heap memory: kfree leaves  *)
(* its fields as they were, and a later task_new may get the same block    *)
(* again, cleared.                                                         *)
(***************************************************************************)
EXTENDS Integers, FiniteSets, SequencesExt

CONSTANTS
    Tasks,      \* the heap blocks that task structs live in
    None        \* the null pointer

ASSUME TasksAssumption == None \notin Tasks /\ Tasks # {} /\ IsFiniteSet(Tasks)

TaskPtr == Tasks \cup {None}
List == [head : TaskPtr, tail : TaskPtr, current : TaskPtr,
         next : [Tasks -> TaskPtr], prev : [Tasks -> TaskPtr]]

NoTasks == [head |-> None, tail |-> None, current |-> None,
            next |-> [t \in Tasks |-> None], prev |-> [t \in Tasks |-> None]]

----------------------------------------------------------------------------
(* Faulty variants of the operators below, used only to show that the      *)
(* properties can fail.                                                    *)

(* The new task becomes the tail but is not linked from the old one.       *)
NewUnlinked(L, t) ==
    IF L.head = None
    THEN [L EXCEPT !.head = t, !.tail = t, !.current = t,
                   !.next[t] = None, !.prev[t] = None]
    ELSE [L EXCEPT !.tail = t, !.next[t] = None, !.prev[t] = L.tail]
(* Removing the last task of the list leaves the tail pointing at it.      *)
RemoveKeepsTail(L, t) ==
    [L EXCEPT !.next = IF L.prev[t] = None THEN @
                       ELSE [@ EXCEPT ![L.prev[t]] = L.next[t]],
              !.head = IF t = @ THEN L.next[t] ELSE @]
(* The list is not followed back to its head.                              *)
GetNextNoWrap(L) ==
    IF L.next[L.current] # None THEN L.next[L.current] ELSE L.current

----------------------------------------------------------------------------
(* task_new, after task_init: append at the tail.  (A null tail is written *)
(* through without effect on the list.)                                    *)
task_new(L, t) ==
    LET M == [L EXCEPT !.next[t] = None, !.prev[t] = None]
    IN  IF L.head = None
        THEN [M EXCEPT !.head = t, !.tail = t, !.current = t]
        ELSE [M EXCEPT !.next = IF L.tail = None THEN @ ELSE [@ EXCEPT ![L.tail] = t],
                       !.prev[t] = L.tail, !.tail = t]

task_get_next(L) ==
    IF L.next[L.current] # None THEN L.next[L.current] ELSE L.head

(* task_list_remove: the successor of t keeps its prev field.              *)
Unlinked(L, t) ==
    [L EXCEPT !.next = IF L.prev[t] = None THEN @
                       ELSE [@ EXCEPT ![L.prev[t]] = L.next[t]],
              !.head = IF t = @ THEN L.next[t] ELSE @,
              !.tail = IF t = @ THEN L.prev[t] ELSE @]

task_list_remove(L, t) ==
    LET M == Unlinked(L, t)
    IN  IF t = L.current THEN [M EXCEPT !.current = task_get_next(M)] ELSE M

(* task_switch, for the list: t becomes the current task.                  *)
task_switch(L, t) == [L EXCEPT !.current = t]

----------------------------------------------------------------------------
(* The tasks in the order in which the scheduler visits them from the      *)
(* head: the next fields followed at most once per task block.             *)
Chain(L) ==
    LET from[k \in 0 .. Cardinality(Tasks)] ==
            IF k = 0 THEN IF L.head = None THEN <<>> ELSE <<L.head>>
            ELSE LET c == from[k - 1]
                 IN  IF c = <<>> \/ L.next[Last(c)] = None THEN c
                     ELSE Append(c, L.next[Last(c)])
    IN  from[Cardinality(Tasks)]

(* The list links the tasks of S, each once, and its ends agree.           *)
WellLinked(L, S) ==
    /\ Cardinality(ToSet(Chain(L))) = Len(Chain(L))
    /\ ToSet(Chain(L)) = S
    /\ L.tail = IF S = {} THEN None ELSE Last(Chain(L))
=============================================================================
