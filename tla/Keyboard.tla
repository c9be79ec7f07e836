------------------------------ MODULE Keyboard ------------------------------
(***************************************************************************)
(* The PS/2 keyboard driver and the key buffer of each process             *)
(* (keyboard/keyboard.c, keyboard/classic.c, sys_get_key).  A key press    *)
(* goes to the buffer of the current process, which is the last program    *)
(* that was started; a read takes from the buffer of the running task's    *)
(* process.  The timer changes the one and not the other.                  *)
(***************************************************************************)
EXTENDS Naturals, Sequences

CONSTANTS
    Processes,      \* entries of the process table
    BufferSize,     \* BasicOS_KEYBOARD_BUFFER_SIZE
    CounterRange,   \* 2^32, the range of head and tail
    Letters,        \* scan codes of the letters
    Others,         \* scan codes of the other characters
    Caps,           \* scan code of the caps lock key
    Unmapped,       \* a scan code with no character
    PastTable       \* the scan code one past the table's end

ASSUME KeyboardAssumption ==
    /\ BufferSize \in Nat \ {0} /\ CounterRange \in Nat \ {0}
    /\ CounterRange % BufferSize = 0 /\ CounterRange > BufferSize
    /\ Processes # {}

VARIABLES
    keyboard,       \* process->keyboard: buffer, head and tail
    caps_lock,      \* classic_keyboard.caps_lock_state
    focus,          \* current_process
    running,        \* current_task->process
    got,            \* what this step returned to the running process
    over            \* processes with a key written over an unread one

vars == <<keyboard, caps_lock, focus, running, got, over>>

NUL == <<"NUL", "none">>
PastByte == <<PastTable, "past">>      \* what follows the table, if not a zero
Char == Letters \X {"upper", "lower"} \cup Others \X {"plain"} \cup {PastByte}
Codes == Letters \cup Others \cup {Caps, Unmapped, PastTable}
Cells == 0 .. BufferSize - 1

(* A new process struct is zeroed.                                         *)
EmptyBuffer == [buffer |-> [i \in Cells |-> NUL], head |-> 0, tail |-> 0]

----------------------------------------------------------------------------
(* Faulty variants of the operators below, used only to show that the      *)
(* properties can fail.                                                    *)

(* The cell that was read is not cleared.                                  *)
PopKeepsCell(b) ==
    LET c == b.buffer[b.head % BufferSize]
    IN  IF c = NUL THEN <<NUL, b>>
        ELSE <<c, [b EXCEPT !.head = (@ + 1) % CounterRange]>>
(* The head moves on an empty buffer as well.                              *)
PopAlwaysMoves(b) ==
    LET i == b.head % BufferSize
    IN  <<b.buffer[i], [b EXCEPT !.buffer[i] = NUL, !.head = (@ + 1) % CounterRange]>>

----------------------------------------------------------------------------
(* keyboard_get_tail_index, and the same for the head.                     *)
Index(counter) == counter % BufferSize

(* keyboard_push, with no test for a full buffer.                          *)
keyboard_push(b, c) ==
    [b EXCEPT !.buffer[Index(b.tail)] = c, !.tail = (@ + 1) % CounterRange]

(* keyboard_pop: the character and the buffer that is left.                *)
keyboard_pop(b) ==
    LET i == Index(b.head)
        c == b.buffer[i]
    IN  IF c = NUL THEN <<NUL, b>>
        ELSE <<c, [b EXCEPT !.buffer[i] = NUL, !.head = (@ + 1) % CounterRange]>>

(* classic_keyboard_scancode_to_char.  Letters are capital in the table.   *)
(* The test against the table's size lets the first code past the end      *)
(* through: whatever byte follows the table.                               *)
classic_keyboard_scancode_to_char(code, caps) ==
    IF code \in Letters THEN {<<code, IF caps THEN "upper" ELSE "lower">>}
    ELSE IF code \in Others THEN {<<code, "plain">>}
    ELSE IF code = PastTable THEN {NUL, PastByte}
    ELSE {NUL}

----------------------------------------------------------------------------
Init ==
    /\ keyboard = [p \in Processes |-> EmptyBuffer]
    /\ caps_lock = FALSE
    /\ focus \in Processes /\ running = focus
    /\ got = NUL
    /\ over = {}

(* A key press.  Key releases are ignored.                                 *)
classic_keyboard_handle_interrupt(code) ==
    /\ caps_lock' = (IF code = Caps THEN ~caps_lock ELSE caps_lock)
    /\ \E c \in classic_keyboard_scancode_to_char(code, caps_lock') :
          IF c = NUL
          THEN UNCHANGED <<keyboard, over>>
          ELSE LET b == keyboard[focus]
               IN  /\ keyboard' = [keyboard EXCEPT ![focus] = keyboard_push(b, c)]
                   /\ over' = IF b.buffer[Index(b.tail)] = NUL THEN over
                              ELSE over \cup {focus}
    /\ got' = NUL
    /\ UNCHANGED <<focus, running>>

sys_get_key ==
    LET r == keyboard_pop(keyboard[running])
    IN  /\ got' = r[1]
        /\ keyboard' = [keyboard EXCEPT ![running] = r[2]]
        /\ UNCHANGED <<caps_lock, focus, running, over>>

(* The timer, or the end of a process, gives the processor and possibly    *)
(* the keyboard to other processes.                                        *)
switch(f, r) ==
    /\ focus' = f /\ running' = r
    /\ got' = NUL
    /\ UNCHANGED <<keyboard, caps_lock, over>>

(* process_load_switch: a new process in the free slot p gets the          *)
(* keyboard, and usually the processor.                                    *)
process_load_switch(p) ==
    /\ p # running
    /\ keyboard' = [keyboard EXCEPT ![p] = EmptyBuffer]
    /\ over' = over \ {p}
    /\ focus' = p /\ running' \in {running, p}
    /\ got' = NUL
    /\ UNCHANGED caps_lock

Next ==
    \/ \E code \in Codes : classic_keyboard_handle_interrupt(code)
    \/ sys_get_key
    \/ \E f, r \in Processes : switch(f, r)
    \/ \E p \in Processes : process_load_switch(p)

Spec == Init /\ [][Next]_vars

----------------------------------------------------------------------------
TypeOK ==
    /\ keyboard \in [Processes -> [buffer : [Cells -> Char \cup {NUL}],
                                   head : 0 .. CounterRange - 1,
                                   tail : 0 .. CounterRange - 1]]
    /\ caps_lock \in BOOLEAN
    /\ focus \in Processes /\ running \in Processes
    /\ got \in Char \cup {NUL}
    /\ over \subseteq Processes

(* The number of unread keys, across the wrap of the counters.             *)
Waiting(b) == (b.tail + CounterRange - b.head) % CounterRange

(* Until a key is overwritten the unread keys are the cells from head to   *)
(* tail, and every other cell is NUL, which is all that keyboard_pop looks *)
(* at: the counters and the cells agree, also when the counters wrap.      *)
Window ==
    /\ TypeOK
    /\ \A p \in Processes \ over :
          LET b == keyboard[p]
          IN  /\ Waiting(b) <= BufferSize
              /\ \A i \in Cells :
                    b.buffer[i] # NUL <=>
                        \E k \in 0 .. Waiting(b) - 1 : i = Index(b.head + k)

----------------------------------------------------------------------------
(* The unread keys in the order of the cells.                              *)
Contents(b) == [k \in 1 .. Waiting(b) |-> b.buffer[Index(b.head + k - 1)]]

Keys == INSTANCE KeyQueue WITH
    Capacity <- BufferSize,
    pending <- [p \in Processes |-> IF p \in over THEN <<>> ELSE Contents(keyboard[p])],
    void <- over

(* Every process reads exactly what was typed to it, in order, as long as  *)
(* no key was typed to it while its buffer was full.                       *)
ImplementsKeyQueue == Keys!Spec
=============================================================================
