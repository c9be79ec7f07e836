-------------------------------- MODULE Shell --------------------------------
(***************************************************************************)
(* The shell and the user library: reading a line with echo                *)
(* (programs/stdlib/src/stdio.c), splitting it into arguments              *)
(* (BasicOS.c, string.c), and the kernel's side of starting the command    *)
(* with its arguments (isr80h/process.c, task/process.c).                  *)
(*                                                                         *)
(* Keys go to the program started last, so the shell reads none while a    *)
(* child runs; the two print in any order.  A child that faults has the    *)
(* screen cleared.                                                         *)
(***************************************************************************)
EXTENDS Terminal

CONSTANTS
    Letters,        \* the keys of words
    Programs,       \* words that name a program on the disk
    MaxLine,        \* sizeof(buf) in the shell
    ArgSize,        \* sizeof(command_argument.argument)
    MaxAllocations, \* BasicOS_MAX_ALLOCATIONS_ALLOWED_PER_PROCESS
    PrintSizes,     \* sizes children print with sys_print_ext
    MaxKeys,        \* bound: keys typed
    MaxPrints,      \* bound: sys_print_ext of children
    None

SP == Blank
ENTER == CR
Keys == Letters \cup {SP, BS, TAB, ENTER}
NUL == "NUL"

(* A line that begins on the screen ends at a coordinate that fits a byte. *)
ASSUME ShellAssumption ==
    /\ Letters \subseteq Chars \ {SP, NL, CR, BS, TAB}
    /\ {"B", "$", "o", "f"} \subseteq Chars \ {NL, CR, BS, TAB} /\ NUL \notin Chars
    /\ MaxLine \in Nat /\ MaxLine >= 2 /\ MaxLine <= (255 - Height) * Width
    /\ ArgSize \in Nat \ {0} /\ MaxAllocations \in Nat
    /\ PrintSizes \subseteq Int

VARIABLES
    T,          \* the terminal
    pc,         \* the shell: "prompt", "read"
    line,       \* the line read so far: buf[0 .. i-1]
    used,       \* allocation slots of the shell in use
    child,      \* the arguments of the running child; None
    start,      \* the offset of the cursor when the line began
    plain,      \* no tab, no backspace on an empty line, no junk in this line
    tidy,       \* no carriage return was echoed since the screen was cleared
    keys,       \* keys typed so far
    last,       \* the last command: its line, slots before it, what ran
    printed     \* the last sys_print_ext: size, characters printed; count

vars == <<T, pc, line, used, child, start, plain, tidy, keys, last, printed>>

Offset(t) == t.y * Width + t.x

----------------------------------------------------------------------------
(* Faulty variants of definitions below, used only to show that the        *)
(* properties can fail.                                                    *)
TokenKeepsLast(buf, sp) ==
    LET p == CHOOSE p \in sp .. Len(buf) : buf[p] # SP /\ \A i \in sp .. p - 1 : buf[i] = SP
        e == CHOOSE e \in p .. Len(buf) : buf[e] \in {SP, NUL} /\ \A i \in p .. e - 1 : buf[i] \notin {SP, NUL}
    IN  IF sp = 0 \/ buf[p] = NUL \/ buf[e] = NUL THEN [token |-> <<>>, sp |-> 0]
        ELSE [token |-> SubSeq(buf, p, e - 1), sp |-> e + 1]

----------------------------------------------------------------------------
(* One call of strtok(_, " ") on a buffer that ends with a zero, from sp,  *)
(* 0 for the null pointer: spaces are skipped; the token goes up to the    *)
(* next space, which is overwritten, or to the end.                        *)
strtok(buf, sp) ==
    LET p == CHOOSE p \in sp .. Len(buf) : buf[p] # SP /\ \A i \in sp .. p - 1 : buf[i] = SP
        e == CHOOSE e \in p .. Len(buf) : buf[e] \in {SP, NUL} /\ \A i \in p .. e - 1 : buf[i] \notin {SP, NUL}
    IN  IF sp = 0 \/ buf[p] = NUL THEN [token |-> <<>>, sp |-> 0]
        ELSE [token |-> SubSeq(buf, p, e - 1), sp |-> IF buf[e] = NUL THEN e ELSE e + 1]

(* strncpy into a field of n bytes.                                        *)
strncpy(str, n) == SubSeq(str, 1, Min({Len(str), n - 1}))

(* basic_os_parse_command with room for so many arguments: the list ends   *)
(* at the first that cannot be allocated.  The list is never freed.        *)
basic_os_parse_command(command, room) ==
    LET buf == Append(command, NUL)
        P[n \in 0 .. room] ==
            LET before == IF n = 0 THEN [args |-> <<>>, sp |-> 1] ELSE P[n - 1]
                t == strtok(buf, before.sp)
            IN  IF n = 0 THEN before
                ELSE IF t.token = <<>> THEN [before EXCEPT !.sp = 0]
                ELSE [args |-> Append(before.args, strncpy(t.token, ArgSize)), sp |-> t.sp]
    IN  P[room].args

(* process_inject_arguments into the empty allocation table of a child:    *)
(* the array and each string take a slot.  Without room the child has no   *)
(* arguments.                                                              *)
process_inject_arguments(args) == IF Len(args) + 1 > MaxAllocations THEN <<>> ELSE args

----------------------------------------------------------------------------
Nothing == [line |-> <<>>, room |-> 0, started |-> FALSE, argv |-> <<>>]

(* The shell has printed its banner.                                       *)
Init ==
    /\ T = isr_sys_print(terminal_clear, <<"B", NL>>)
    /\ pc = "prompt" /\ line = <<>> /\ used = 0 /\ child = None
    /\ start = Offset(T) /\ plain = TRUE /\ tidy = TRUE /\ keys = 0
    /\ last = Nothing
    /\ printed = [size |-> 0, res |-> 0, chars |-> 0, calls |-> 0]

(* print("$ "), and terminal_readline begins.                              *)
prompt ==
    /\ pc = "prompt"
    /\ T' = isr_sys_print(T, <<"$", SP>>)
    /\ pc' = "read" /\ line' = <<>> /\ plain' = TRUE
    /\ start' = Offset(T')
    /\ UNCHANGED <<used, child, tidy, keys, last, printed>>

(* The buffer after a key: a backspace takes the last character, unless    *)
(* there is none, and then it is stored like any other.                    *)
Edit(s, key) == IF key = BS /\ s # <<>> THEN Front(s) ELSE Append(s, key)

(* The end of a line: a new line on the screen, and basic_os_system_run.   *)
(* Nothing happens on a blank line or with no slot left; with a program of *)
(* that name, sys_invoke_sys_command starts it.                            *)
Run(command, t) ==
    LET room == MaxAllocations - used
        args == basic_os_parse_command(command, room)
        started == args # <<>> /\ args[1] \in Programs
    IN  /\ T' = isr_sys_print(t, <<NL>>)
        /\ used' = used + Len(args)
        /\ child' = IF started THEN process_inject_arguments(args) ELSE None
        /\ last' = [line |-> command, room |-> room, started |-> started,
                    argv |-> IF started THEN process_inject_arguments(args) ELSE <<>>]
        /\ pc' = "prompt"

(* One turn of terminal_readline: the key, its echo, the buffer.  The loop *)
(* ends with the return key or a full buffer.                              *)
terminal_readline(key, junk) ==
    LET echoed == IF key = ENTER THEN T ELSE sys_putchar(T, key, junk)
        now == IF key = ENTER THEN line ELSE Edit(line, key)
    IN  /\ pc = "read" /\ child = None
        /\ keys < MaxKeys /\ (plain \/ junk = <<>>)    \* bounds
        /\ keys' = keys + 1
        /\ line' = now
        /\ plain' = (plain /\ junk = <<>> /\ key # TAB /\ ~(key = BS /\ line = <<>>))
        /\ tidy' = (tidy /\ CR \notin ToSet(junk))
        /\ IF key = ENTER \/ Len(now) = MaxLine - 1
           THEN Run(now, echoed)
           ELSE T' = echoed /\ UNCHANGED <<pc, used, child, last>>
        /\ UNCHANGED <<start, printed>>

(* The child prints a message of size - 1 characters.  When the prompt is  *)
(* already there, the line starts after it.                                *)
child_prints(size, room) ==
    LET p == isr_sys_print_ext(size, Max({size - 1, 0}), room)
    IN  /\ child # None
        /\ printed.calls < MaxPrints
        /\ T' = terminal_write(T, [i \in 1 .. p.chars |-> "o"])
        /\ printed' = [size |-> size, res |-> p.res, chars |-> p.chars,
                        calls |-> printed.calls + 1]
        /\ start' = Offset(T')
        /\ UNCHANGED <<pc, line, used, child, plain, tidy, keys, last>>

(* The child ends; after a fault the screen is cleared first and a message *)
(* is printed.                                                             *)
child_ends(faults) ==
    /\ child # None
    /\ child' = None
    /\ T' = IF faults THEN terminal_write(terminal_clear, <<"f", NL>>) ELSE T
    /\ tidy' = (tidy \/ faults)
    /\ start' = Offset(T')
    /\ UNCHANGED <<pc, line, used, plain, keys, last, printed>>

Next ==
    \/ prompt
    \/ \E key \in Keys \ {ENTER}, junk \in Junk : terminal_readline(key, junk)
    \/ terminal_readline(ENTER, <<>>)
    \/ \E size \in PrintSizes, room \in BOOLEAN : child_prints(size, room)
    \/ \E faults \in BOOLEAN : child_ends(faults)

Spec == Init /\ [][Next]_vars

----------------------------------------------------------------------------
TypeOK ==
    /\ T.x \in 0 .. Width /\ T.y \in Nat
    /\ pc \in {"prompt", "read"}
    /\ line \in Seq(Keys) /\ Len(line) <= MaxLine - 1
    /\ used \in 0 .. MaxAllocations

(* While a line is typed the screen shows it where it began, over line    *)
(* ends and back (terminal_readline, putchar, terminal_puts,               *)
(* terminal_backspace) - unless a tab or a backspace on the empty line was *)
(* typed, bytes behind a character came with its echo, or the line has     *)
(* left the screen.  Behind the line there is nothing, unless such bytes   *)
(* ever held a carriage return, which takes the cursor back over old text. *)
LineOnScreen ==
    /\ TypeOK
    /\ (pc = "read" /\ child = None /\ plain /\ T.y < Height) =>
          /\ \A i \in DOMAIN line : T.cells[start + i - 1] = line[i]
          /\ Offset(T) = start + Len(line)
          /\ tidy => \A o \in Offset(T) .. Width * Height - 1 : T.cells[o] = Blank

(* The words of a line: the longest stretches without a space, by the      *)
(* order in which they start.                                              *)
Words(s) ==
    LET starts == {i \in DOMAIN s : s[i] # SP /\ (i = 1 \/ s[i - 1] = SP)}
        StartOf(n) == CHOOSE i \in starts : Cardinality({j \in starts : j <= i}) = n
        EndOf(i) == Max({j \in i .. Len(s) : \A k \in i .. j : s[k] # SP})
    IN  [n \in 1 .. Cardinality(starts) |-> SubSeq(s, StartOf(n), EndOf(StartOf(n)))]

(* After a line, whatever it was and however many slots the lists of the   *)
(* earlier ones hold (BasicOS.c, never freed): its first words, one for    *)
(* each slot that is left, each cut to its field, are the list the shell   *)
(* builds with strtok.  A program of the first one's name is started and,  *)
(* if its own table holds the list, gets exactly these as its arguments.   *)
ArgvIsTokens ==
    LET w == Words(last.line)
        cut == [n \in 1 .. Min({last.room, Len(w)}) |-> strncpy(w[n], ArgSize)]
    IN  /\ last.started = (cut # <<>> /\ cut[1] \in Programs)
        /\ last.argv = IF last.started /\ Len(cut) < MaxAllocations THEN cut ELSE <<>>

----------------------------------------------------------------------------
(* What the code says of itself where it does not hold.                    *)

(* isr80h/io.c:40, where a message is too long: "prefer sending many       *)
(* 0x1000 size bytes instead."  So a message up to that size is printed    *)
(* whole when its call succeeds.  Each chunk copied ends in a zero of its  *)
(* own, which ends the message.                                            *)
LongPrintsWhole ==
    printed.size \in 1 .. LongPrint /\ printed.res = 0 => printed.chars = printed.size - 1
=============================================================================
