------------------------------ MODULE KeyQueue ------------------------------
(***************************************************************************)
(* What the keyboard promises a process: the keys typed while it is the    *)
(* current process wait for it in the order they were typed and are read   *)
(* once.  The promise to a process is void from the moment more keys wait  *)
(* than fit, until the process is replaced by a new one.                   *)
(***************************************************************************)
EXTENDS Naturals, Sequences

CONSTANTS
    Processes,
    Char,       \* the characters that can be typed
    NUL,        \* what a read returns when nothing waits
    Capacity    \* the keys that can wait for one process

VARIABLES
    pending,    \* the keys that wait for each process
    focus,      \* the process that is typed to
    running,    \* the process that can read
    got,        \* what this step gave the running process, NUL for nothing
    void        \* the processes that are promised nothing any more

keyVars == <<pending, focus, running, got, void>>

Init ==
    /\ pending = [p \in Processes |-> <<>>]
    /\ focus \in Processes /\ running = focus
    /\ got = NUL
    /\ void = {}

Type(c) ==
    /\ focus \notin void
    /\ IF Len(pending[focus]) < Capacity
       THEN pending' = [pending EXCEPT ![focus] = Append(@, c)] /\ void' = void
       ELSE pending' = [pending EXCEPT ![focus] = <<>>] /\ void' = void \cup {focus}
    /\ got' = NUL
    /\ UNCHANGED <<focus, running>>

Read ==
    \/ /\ running \notin void
       /\ IF pending[running] = <<>>
          THEN got' = NUL /\ pending' = pending
          ELSE /\ got' = Head(pending[running])
               /\ pending' = [pending EXCEPT ![running] = Tail(@)]
       /\ UNCHANGED <<focus, running, void>>
    \/ /\ running \in void
       /\ got' \in Char \cup {NUL}
       /\ UNCHANGED <<pending, focus, running, void>>

Switch ==
    /\ focus' \in Processes /\ running' \in Processes
    /\ got' = NUL
    /\ UNCHANGED <<pending, void>>

(* A new process takes the place of p: nothing waits for it.               *)
Replace(p) ==
    /\ pending' = [pending EXCEPT ![p] = <<>>]
    /\ void' = void \ {p}
    /\ focus' = p /\ running' \in {running, p}
    /\ got' = NUL

(* A key with no character, or one typed to a process that is promised     *)
(* nothing.                                                                *)
Ignore == got' = NUL /\ UNCHANGED <<pending, focus, running, void>>

Next ==
    (\E c \in Char : Type(c)) \/ Read \/ Ignore \/ Switch \/ (\E p \in Processes : Replace(p))

Spec == Init /\ [][Next]_keyVars
=============================================================================
