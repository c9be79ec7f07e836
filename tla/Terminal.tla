------------------------------ MODULE Terminal ------------------------------
(***************************************************************************)
(* The text screen (kernel.c) and the system calls that write to it        *)
(* (isr80h/io.c), as operators on a value T: the cursor x and y, and the   *)
(* cells of the screen by offset.  The screen does not scroll: y grows,    *)
(* and what is written from offset Width * Height on is not seen.          *)
(***************************************************************************)
EXTENDS Integers, FiniteSetsExt, SequencesExt

CONSTANTS
    Chars,      \* the characters, without the zero that ends a string
    Width,      \* TEXT_MODE_CHARACTERS_PER_LINE
    Height,     \* TEXT_MODE_VGA_HEIGHT
    Chunk,      \* the 1024 bytes of isr_sys_print_ext
    LongPrint,  \* its limit, 0x1000
    Junk        \* what may follow a single character on the kernel's stack

Blank == "SP"
NL == "NL"
CR == "CR"
BS == "BS"
TAB == "TAB"

(* A coordinate of the screen fits a byte, and tabs divide a line evenly.  *)
ASSUME TerminalAssumption ==
    /\ {Width, Height, Chunk} \subseteq Nat \ {0}
    /\ Width % 4 = 0 /\ Width < 256 /\ Height < 255
    /\ LongPrint \in Nat /\ LongPrint > Chunk
    /\ {Blank, NL, CR, BS, TAB} \subseteq Chars
    /\ Junk \subseteq Seq(Chars)

(* Where a cell lies in video memory: both coordinates are taken as bytes. *)
VGA_get_offset(x, y) == (y % 256) * Width + (x % 256)

----------------------------------------------------------------------------
(* A faulty variant of an operator below, used only to show that the       *)
(* properties can fail: no step back to the line before.                   *)
BackspaceInLine(T) ==
    IF T.x = 0 THEN T
    ELSE [T EXCEPT !.x = @ - 1, !.cells = [@ EXCEPT ![T.y * Width + T.x - 1] = Blank]]

----------------------------------------------------------------------------
terminal_puts_raw(T, ch, offset) ==
    [x |-> T.x, y |-> T.y, cells |-> [o \in DOMAIN T.cells |-> IF o = offset THEN ch ELSE T.cells[o]]]

terminal_clear == [x |-> 0, y |-> 0, cells |-> [o \in 0 .. Width * Height - 1 |-> Blank]]

(* terminal_backspace: at the start of a line it goes to the end of the    *)
(* line before.                                                            *)
terminal_backspace(T) ==
    LET B == IF T.x = 0
             THEN terminal_puts_raw([x |-> Width, y |-> T.y - 1, cells |-> T.cells], Blank,
                                    VGA_get_offset(Width, T.y - 1))
             ELSE T
    IN  IF T.x = 0 /\ T.y = 0 THEN T
        ELSE terminal_puts_raw([x |-> B.x - 1, y |-> B.y, cells |-> B.cells], Blank,
                               VGA_get_offset(B.x - 1, B.y))

(* terminal_puts.  A full line is left before any character is looked at,  *)
(* special ones included.                                                  *)
terminal_puts(T, ch) ==
    LET full == T.x >= Width
        x == IF full THEN 0 ELSE T.x
        y == IF full THEN T.y + 1 ELSE T.y
    IN  CASE ch = NL  -> [x |-> 0, y |-> y + 1, cells |-> T.cells]
          [] ch = BS  -> terminal_backspace([x |-> x, y |-> y, cells |-> T.cells])
          [] ch = CR  -> [x |-> 0, y |-> y, cells |-> T.cells]
          [] ch = TAB -> [x |-> ((x + 4) \div 4) * 4, y |-> y, cells |-> T.cells]
          [] OTHER    -> terminal_puts_raw([x |-> x + 1, y |-> y, cells |-> T.cells], ch,
                                           y * Width + x)

(* terminal_write: the screen after n characters, up to the last.          *)
terminal_write(T, str) ==
    LET W[n \in 0 .. Len(str)] == IF n = 0 THEN T ELSE terminal_puts(W[n - 1], str[n])
    IN  W[Len(str)]

(* isr_sys_print: the message, as far as the copy buffer holds it.         *)
isr_sys_print(T, msg) == terminal_write(T, SubSeq(msg, 1, Min({Len(msg), Chunk - 1})))

(* sys_putchar writes the string that starts at its local variable: the    *)
(* character, and the bytes behind it up to a zero.                        *)
sys_putchar(T, ch, junk) == terminal_write(T, <<ch>> \o junk)

(* isr_sys_print_ext: its result, and how much of a message of len         *)
(* characters is printed.  A copy of n bytes is n - 1 characters and a     *)
(* zero; a long message is copied in chunks into a buffer of its own, if   *)
(* the heap has room, and printed up to the first zero.                    *)
isr_sys_print_ext(size, len, room) ==
    IF size <= 0 \/ size > LongPrint \/ (size > Chunk /\ ~room) THEN [res |-> -1, chars |-> 0]
    ELSE [res   |-> 0,
          chars |-> Min({len, size - 1} \cup {p \in 0 .. size - 1 : p % Chunk = Chunk - 1})]
=============================================================================
