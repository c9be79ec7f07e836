------------------------------ MODULE Console ------------------------------
(***************************************************************************)
(* The scheduler and the keyboard together: who is typed to, who runs and  *)
(* who reads move independently, and the shell waits for keys in the loop  *)
(* of getkey (programs/stdlib/src/BasicOS.c).  The buffer of a process is  *)
(* the queue of module KeyQueue, which module Keyboard implements; keys    *)
(* are numbered in the order they are typed, and there are too few to fill *)
(* a buffer.                                                               *)
(***************************************************************************)
EXTENDS Scheduler

CONSTANT MaxKeys        \* bound: keys typed; at most the size of a buffer

Shell == 0              \* kernel_main loads it first

VARIABLES
    waiting,    \* the numbers of the keys in the buffer of each process
    keys        \* for each key: the process typed to, until it is read or gone

consoleVars == <<vars, waiting, keys>>

Ends(p) == processes[p] # None /\ processes'[p] # processes[p]

Done == [to |-> None, state |-> "done"]

(* A fault: the buffer stays with the slot of the process table.           *)
BuffersStay == UNCHANGED waiting

(* The buffer is part of the process struct, and a new struct is zero.     *)
Buffers == waiting' = [p \in Pids |-> IF processes'[p] # processes[p] THEN <<>> ELSE waiting[p]]

ConsoleInit ==
    /\ Init
    /\ waiting = [p \in Pids |-> <<>>]
    /\ keys = <<>>

(* A step of the scheduler.  The keys of a process that ends are gone.     *)
schedule ==
    /\ Next
    /\ Buffers
    /\ keys' = [k \in DOMAIN keys |->
                  IF keys[k].state = "waiting" /\ Ends(keys[k].to) THEN Done ELSE keys[k]]

(* keyboard_push: the key goes to the current process.                     *)
keyboard_push ==
    /\ mode = "user" /\ Len(keys) < MaxKeys
    /\ current_process # None
    /\ keys' = Append(keys, [to |-> current_process, state |-> "waiting"])
    /\ waiting' = [waiting EXCEPT ![current_process] = Append(@, Len(keys'))]
    /\ UNCHANGED vars

(* keyboard_pop by the running task, which asks again when there is none.  *)
keyboard_pop ==
    LET p == owner[list.current]
    IN  /\ mode = "user"
        /\ waiting[p] # <<>>
        /\ keys' = [keys EXCEPT ![Head(waiting[p])] =
                      IF @.to = p THEN Done ELSE [to |-> p, state |-> "diverted"]]
        /\ waiting' = [waiting EXCEPT ![p] = Tail(@)]
        /\ UNCHANGED vars

getkey == mode = "user" /\ owner[list.current] = Shell /\ keyboard_pop

ConsoleNext == schedule \/ keyboard_push \/ keyboard_pop

(* The timer ticks; and the shell, which does nothing but ask for a key,   *)
(* asks when it has the processor, a tick being many system calls long.    *)
(* Other programs need not read.                                           *)
ConsoleSpec ==
    /\ ConsoleInit /\ [][ConsoleNext]_consoleVars
    /\ WF_consoleVars(timer_interrupt /\ schedule)
    /\ SF_consoleVars(getkey)

----------------------------------------------------------------------------
(* A key is read by the process that had the keyboard when it was typed,   *)
(* and by no later process in its slot; the keys that wait for a process   *)
(* are those typed to it and not read, in order.  Starts, exits, failed    *)
(* loads and ticks between a key press and its read lose and divert none   *)
(* (keyboard_push takes get_current_process, keyboard_pop task_current).   *)
KeysFollowFocus ==
    /\ \A p \in Pids :
          /\ ToSet(waiting[p]) = {k \in DOMAIN keys : keys[k].to = p /\ keys[k].state = "waiting"}
          /\ \A i, j \in DOMAIN waiting[p] : i < j => waiting[p][i] < waiting[p][j]
    /\ \A k \in DOMAIN keys : keys[k].state # "diverted"
    /\ \A k \in DOMAIN keys : keys[k].state = "waiting" => processes[keys[k].to] # None

Unread(k) == k \in DOMAIN keys /\ keys[k].to = Shell /\ keys[k].state = "waiting"

(* Once no more programs are loaded, every key typed to the shell is read  *)
(* unless the shell itself ends, whichever tasks run or end meanwhile: the *)
(* loop of getkey does not starve behind other tasks.                      *)
ShellGetsKeys ==
    <>[][~ \E t \in Tasks : Load(t)]_vars =>
        \A k \in 1 .. MaxKeys : [](Unread(k) => <>(~Unread(k) \/ dirty \/ mode # "user"))
=============================================================================
