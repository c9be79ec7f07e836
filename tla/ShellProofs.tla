----------------------------- MODULE ShellProofs -----------------------------
(***************************************************************************)
(* What holds of the screen and of the shell for every screen, every set   *)
(* of letters and programs, and every number of keys: the line that is     *)
(* typed is on the screen, and a command gets its words as arguments.      *)
(***************************************************************************)
EXTENDS Shell, BasicLemmas, FiniteSetTheorems

Cells == 0 .. Width * Height - 1
Screens == [x : 0 .. Width, y : Nat, cells : [Cells -> Chars]]

(* The characters that are shown where the cursor is.                      *)
Plain == Chars \ {NL, CR, BS, TAB}

(* Nothing stands behind the cursor.                                       *)
NothingBehind(t) == \A o \in Cells : o >= Offset(t) => t.cells[o] = Blank

(* The place of the cursor once a full line is left.                       *)
Col(t) == IF t.x >= Width THEN 0 ELSE t.x
Row(t) == IF t.x >= Width THEN t.y + 1 ELSE t.y
Left(t) == [x |-> Col(t), y |-> Row(t), cells |-> t.cells]

----------------------------------------------------------------------------
(* The constants of the screen.                                            *)
LEMMA Constants ==
    /\ Width \in Nat \ {0} /\ Height \in Nat \ {0} /\ Chunk \in Nat \ {0}
    /\ Width % 4 = 0 /\ Width < 256 /\ Height < 255 /\ Width * Height \in Nat
    /\ {Blank, NL, CR, BS, TAB} \subseteq Chars /\ Blank \in Plain
<1>1. Width \in Nat \ {0} /\ Height \in Nat \ {0}
  BY TerminalAssumption
<1>2. Width * Height \in Nat
  BY <1>1
<1> QED
  BY <1>1, <1>2, TerminalAssumption DEF Plain, Blank, NL, CR, BS, TAB

(* The fields of a screen.                                                 *)
LEMMA ScreenIs ==
    ASSUME NEW x \in 0 .. Width, NEW y \in Nat, NEW c \in [Cells -> Chars]
    PROVE  /\ [x |-> x, y |-> y, cells |-> c] \in Screens
           /\ Offset([x |-> x, y |-> y, cells |-> c]) = y * Width + x
BY DEF Screens, Offset

(* Leaving a full line does not move the cursor in memory.                 *)
LEMMA Turns ==
    ASSUME NEW t \in Screens
    PROVE  /\ Left(t) \in Screens /\ Col(t) \in 0 .. Width - 1 /\ Row(t) \in Nat
           /\ Row(t) * Width + Col(t) = Offset(t) /\ Offset(t) \in Nat
           /\ Offset(Left(t)) = Offset(t)
<1>1. t.x \in 0 .. Width /\ t.y \in Nat /\ t.cells \in [Cells -> Chars] /\ Width \in Nat \ {0}
  BY Constants DEF Screens
<1>2. t.y * Width \in Nat /\ (t.y + 1) * Width = t.y * Width + Width
  BY <1>1
<1>3. Col(t) \in 0 .. Width - 1 /\ Row(t) \in Nat /\ Row(t) * Width + Col(t) = t.y * Width + t.x
  <2>1. CASE t.x >= Width
    <3>1. t.x = Width /\ Col(t) = 0 /\ Row(t) = t.y + 1
      BY <1>1, <2>1 DEF Col, Row
    <3> QED
      BY <1>1, <1>2, <3>1
  <2>2. CASE ~ (t.x >= Width)
    <3>1. Col(t) = t.x /\ Row(t) = t.y
      BY <2>2 DEF Col, Row
    <3> QED
      BY <1>1, <2>2, <3>1
  <2> QED
    BY <2>1, <2>2
<1>4. Offset(t) = t.y * Width + t.x /\ Offset(t) \in Nat
  BY <1>1, <1>2 DEF Offset
<1>5. Left(t) \in Screens /\ Offset(Left(t)) = Row(t) * Width + Col(t)
  BY <1>1, <1>3 DEF Screens, Left, Offset
<1> QED
  BY <1>3, <1>4, <1>5

(* The cells after one of them was written.                                *)
Painted(c, ch, offset) == [o \in Cells |-> IF o = offset THEN ch ELSE c[o]]

LEMMA PaintedIs ==
    ASSUME NEW c \in [Cells -> Chars], NEW ch \in Chars, NEW offset
    PROVE  /\ Painted(c, ch, offset) \in [Cells -> Chars]
           /\ \A o \in Cells : Painted(c, ch, offset)[o] = IF o = offset THEN ch ELSE c[o]
BY DEF Painted

(* One cell is written, if it is on the screen.                            *)
LEMMA RawIs ==
    ASSUME NEW x, NEW y, NEW c \in [Cells -> Chars], NEW ch, NEW offset
    PROVE  terminal_puts_raw([x |-> x, y |-> y, cells |-> c], ch, offset)
              = [x |-> x, y |-> y, cells |-> Painted(c, ch, offset)]
BY DEF terminal_puts_raw, Painted

(* What a character does.                                                  *)
LEMMA PutsIs ==
    ASSUME NEW t \in Screens, NEW ch \in Chars
    PROVE  LET x == Col(t) y == Row(t)
           IN  /\ ch = NL => terminal_puts(t, ch) = [x |-> 0, y |-> y + 1, cells |-> t.cells]
               /\ ch = BS => terminal_puts(t, ch) = terminal_backspace(Left(t))
               /\ ch = CR => terminal_puts(t, ch) = [x |-> 0, y |-> y, cells |-> t.cells]
               /\ ch = TAB => terminal_puts(t, ch) = [x |-> ((x + 4) \div 4) * 4, y |-> y, cells |-> t.cells]
               /\ ch \in Plain => terminal_puts(t, ch) =
                     terminal_puts_raw([x |-> x + 1, y |-> y, cells |-> t.cells], ch, y * Width + x)
<1>1. NL # BS /\ NL # CR /\ NL # TAB /\ BS # CR /\ BS # TAB /\ CR # TAB
  BY DEF NL, BS, CR, TAB
<1>2. CASE ch = NL
  BY <1>1, <1>2 DEF terminal_puts, Col, Row, Plain
<1>3. CASE ch = BS
  BY <1>1, <1>3 DEF terminal_puts, Col, Row, Left, Plain
<1>4. CASE ch = CR
  BY <1>1, <1>4 DEF terminal_puts, Col, Row, Plain
<1>5. CASE ch = TAB
  BY <1>1, <1>5 DEF terminal_puts, Col, Row, Plain
<1>6. CASE ch \notin {NL, BS, CR, TAB}
  BY <1>1, <1>6 DEF terminal_puts, Col, Row, Plain
<1> QED
  BY <1>2, <1>3, <1>4, <1>5, <1>6

(* A character that is shown takes the cell of the cursor, and the cursor  *)
(* moves on by one.                                                        *)
LEMMA PlainIsShown ==
    ASSUME NEW t \in Screens, NEW ch \in Plain
    PROVE  LET u == terminal_puts(t, ch)
           IN  /\ u \in Screens /\ Offset(u) = Offset(t) + 1
               /\ \A o \in Cells : u.cells[o] = IF o = Offset(t) THEN ch ELSE t.cells[o]
<1> DEFINE x == Col(t)
           y == Row(t)
           off == Offset(t)
           u == terminal_puts(t, ch)
<1>1. x \in 0 .. Width - 1 /\ y \in Nat /\ y * Width + x = off /\ off \in Nat
      /\ t.cells \in [Cells -> Chars] /\ ch \in Chars /\ Width \in Nat \ {0}
  BY Turns, Constants DEF Plain, Screens
<1>2. u = terminal_puts_raw([x |-> x + 1, y |-> y, cells |-> t.cells], ch, off)
  BY <1>1, PutsIs
<1> DEFINE c == Painted(t.cells, ch, off)
<1>3. u = [x |-> x + 1, y |-> y, cells |-> c]
  <2> HIDE DEF x, y, off, u
  <2> QED
    BY <1>1, <1>2, RawIs
<1>4. c \in [Cells -> Chars] /\ \A o \in Cells : c[o] = IF o = off THEN ch ELSE t.cells[o]
  BY <1>1, PaintedIs
<1> HIDE DEF x, y, off, u, c
<1>5. x + 1 \in 0 .. Width
  BY <1>1
<1>6. u \in Screens /\ Offset(u) = y * Width + (x + 1) /\ u.cells = c
  BY <1>1, <1>3, <1>4, <1>5, ScreenIs
<1>7. y * Width \in Int
  BY <1>1
<1>8. Offset(u) = off + 1
  BY <1>1, <1>6, <1>7
<1> QED
  BY <1>4, <1>6, <1>8 DEF off, u


(* The place of a cell, while the coordinates fit a byte.                  *)
LEMMA OffsetFits ==
    ASSUME NEW x \in 0 .. Width, NEW y \in 0 .. 255
    PROVE  VGA_get_offset(x, y) = y * Width + x
<1>1. x \in 0 .. 255
  BY Constants
<1>2. x % 256 = x /\ y % 256 = y
  BY <1>1
<1> QED
  BY <1>2 DEF VGA_get_offset

(* A backspace, anywhere but at the start of the screen, takes the cursor  *)
(* one cell back and leaves nothing there; other cells before it stay.     *)
LEMMA BackspaceIs ==
    ASSUME NEW t \in Screens, t.x \in 0 .. Width - 1, Offset(t) > 0
    PROVE  LET u == terminal_backspace(t)
           IN  /\ u \in Screens /\ Offset(u) = Offset(t) - 1
               /\ \A o \in Cells : (u.cells[o] = Blank \/ u.cells[o] = t.cells[o])
               /\ t.y < 256 =>
                    \A o \in Cells : /\ o = Offset(t) - 1 => u.cells[o] = Blank
                                     /\ o < Offset(t) - 1 => u.cells[o] = t.cells[o]
<1> DEFINE u == terminal_backspace(t)
           off == Offset(t)
<1>1. /\ t.x \in 0 .. Width /\ t.y \in Nat /\ t.cells \in [Cells -> Chars] /\ Width \in Nat \ {0}
      /\ Blank \in Chars /\ t = [x |-> t.x, y |-> t.y, cells |-> t.cells] /\ off = t.y * Width + t.x
      /\ t.y * Width \in Nat
  BY Constants, Turns DEF Screens, Offset
<1>2. CASE t.x # 0
  <2> DEFINE x == t.x - 1
             y == t.y
             p == VGA_get_offset(x, y)
             c == Painted(t.cells, Blank, p)
  <2>1. u = terminal_puts_raw([x |-> x, y |-> y, cells |-> t.cells], Blank, p)
    BY <1>2 DEF terminal_backspace
  <2>2. u = [x |-> x, y |-> y, cells |-> c]
    <3> HIDE DEF u, x, y, p
    <3> QED
      BY <1>1, <2>1, RawIs
  <2>3. c \in [Cells -> Chars] /\ \A o \in Cells : c[o] = IF o = p THEN Blank ELSE t.cells[o]
    BY <1>1, PaintedIs
  <2>4. x \in 0 .. Width /\ y \in Nat
    BY <1>1, <1>2
  <2>5. off - 1 = y * Width + x
    BY <1>1
  <2>6. y < 256 => p = off - 1
    <3>1. y < 256 => y \in 0 .. 255
      BY <2>4
    <3> HIDE DEF y, x, off
    <3> QED
      BY <2>4, <2>5, <3>1, OffsetFits
  <2> HIDE DEF x, y, c, u, p
  <2>7. u \in Screens /\ Offset(u) = off - 1 /\ u.cells = c
    BY <2>2, <2>3, <2>4, <2>5, ScreenIs
  <2> HIDE DEF off
  <2>8. off \in Int /\ \A o \in Cells : o < off - 1 => o # off - 1
    BY <1>1
  <2> QED
    BY <2>3, <2>6, <2>7, <2>8 DEF u, off, y
<1>3. CASE t.x = 0
  <2> DEFINE x == Width - 1
             y == t.y - 1
             p == VGA_get_offset(Width, y)
             q == VGA_get_offset(x, y)
             b == Painted(t.cells, Blank, p)
             c == Painted(b, Blank, q)
  <2>1. t.y # 0
    BY <1>1, <1>3
  <2>2. u = LET B == terminal_puts_raw([x |-> Width, y |-> y, cells |-> t.cells], Blank, p)
            IN  terminal_puts_raw([x |-> B.x - 1, y |-> B.y, cells |-> B.cells], Blank,
                                  VGA_get_offset(B.x - 1, B.y))
    BY <1>3, <2>1 DEF terminal_backspace
  <2>3. terminal_puts_raw([x |-> Width, y |-> y, cells |-> t.cells], Blank, p)
            = [x |-> Width, y |-> y, cells |-> b]
    <3> HIDE DEF y, p
    <3> QED
      BY <1>1, RawIs
  <2>4. b \in [Cells -> Chars] /\ \A o \in Cells : b[o] = IF o = p THEN Blank ELSE t.cells[o]
    BY <1>1, PaintedIs
  <2>5. u = terminal_puts_raw([x |-> x, y |-> y, cells |-> b], Blank, q)
    <3> HIDE DEF y, p, b
    <3> QED
      BY <2>2, <2>3
  <2>6. u = [x |-> x, y |-> y, cells |-> c]
    <3> HIDE DEF u, x, y, q, b
    <3> QED
      BY <2>4, <2>5, RawIs
  <2>7. c \in [Cells -> Chars] /\ \A o \in Cells : c[o] = IF o = q THEN Blank ELSE b[o]
    <3> HIDE DEF b, q
    <3> QED
      BY <1>1, <2>4, PaintedIs
  <2>8. x \in 0 .. Width /\ y \in Nat
    BY <1>1, <2>1
  <2>9. off - 1 = y * Width + x /\ off = y * Width + Width /\ y * Width \in Int
    <3>1. (t.y - 1) * Width = t.y * Width - Width
      BY <1>1
    <3> QED
      BY <1>1, <1>3, <3>1
  <2>10. y < 256 => p = off /\ q = off - 1
    <3> HIDE DEF y
    <3>1. y < 256 => y \in 0 .. 255
      BY <2>8
    <3>2. Width \in 0 .. Width
      BY <1>1
    <3> HIDE DEF y, x, off
    <3> QED
      BY <2>8, <2>9, <3>1, <3>2, OffsetFits
  <2>11. t.y < 256 => y < 256
    BY <1>1
  <2> HIDE DEF x, y, b, c, u, p, q
  <2>12. u \in Screens /\ Offset(u) = off - 1 /\ u.cells = c
    BY <2>6, <2>7, <2>8, <2>9, ScreenIs
  <2> HIDE DEF off
  <2>13. off \in Int /\ \A o \in Cells : o < off - 1 => o # off - 1 /\ o # off
    BY <1>1
  <2>14. \A o \in Cells : (c[o] = Blank \/ c[o] = t.cells[o])
    BY <2>4, <2>7
  <2>15. t.y < 256 => \A o \in Cells : /\ o = off - 1 => c[o] = Blank
                                       /\ o < off - 1 => c[o] = t.cells[o]
    BY <2>4, <2>7, <2>10, <2>11, <2>13
  <2>16. /\ u \in Screens /\ Offset(u) = off - 1
         /\ \A o \in Cells : (u.cells[o] = Blank \/ u.cells[o] = t.cells[o])
         /\ t.y < 256 =>
              \A o \in Cells : /\ o = off - 1 => u.cells[o] = Blank
                               /\ o < off - 1 => u.cells[o] = t.cells[o]
    BY <2>12, <2>14, <2>15
  <2> QED
    BY <2>16, Zenon DEF u, off
<1> QED
  BY <1>1, <1>2, <1>3

(* At the start of the screen a backspace does nothing.                    *)
LEMMA BackspaceAtStart ==
    ASSUME NEW t \in Screens, Offset(t) = 0
    PROVE  terminal_backspace(t) = t
<1>1. t.x \in Nat /\ t.y \in Nat /\ Width \in Nat \ {0} /\ t.y * Width + t.x = 0
  BY Constants DEF Screens, Offset
<1>2. t.y * Width >= 0
  BY <1>1
<1>3. t.x = 0 /\ t.y * Width = 0
  BY <1>1, <1>2
<1>4. t.y = 0
  BY <1>1, <1>3
<1> QED
  BY <1>3, <1>4 DEF terminal_backspace


(* A cursor at or shortly behind the screen is in a line that fits a byte. *)
LEMMA RowFits ==
    ASSUME NEW t \in Screens, Offset(t) <= 255 * Width
    PROVE  t.y < 256
<1>1. t.x \in Nat /\ t.y \in Nat /\ Width \in Nat \ {0} /\ Offset(t) = t.y * Width + t.x
  BY Constants DEF Screens, Offset
<1>2. Width * t.y <= Width * 255
  <2>1. t.y * Width = Width * t.y /\ t.y * Width \in Nat /\ Width * 255 = 255 * Width
    BY <1>1
  <2> QED
    BY <1>1, <2>1
<1>3. t.y <= 255
  <2>1. 255 \in Nat
    OBVIOUS
  <2> QED
    BY <1>1, <1>2, <2>1, TimesMonotonic
<1> QED
  BY <1>1, <1>3

(* The screen ends before line 255.                                        *)
LEMMA ScreenEnds == Width * Height \in Nat /\ Width * Height <= 255 * Width /\ 255 * Width \in Nat
<1>1. Width \in Nat \ {0} /\ Height \in Nat /\ 255 \in Nat /\ Height <= 255 /\ 255 * Width = Width * 255
  BY Constants
<1>2. Width * Height \in Nat /\ Width * 255 \in Nat /\ Width * Height <= Width * 255
  BY <1>1, TimesMonotonic
<1> QED
  BY <1>1, <1>2

(* Where nothing stands behind the cursor, nothing does after a backspace. *)
LEMMA BackspaceKeepsBlank ==
    ASSUME NEW t \in Screens, t.x \in 0 .. Width - 1, NothingBehind(t)
    PROVE  NothingBehind(terminal_backspace(t))
<1> DEFINE u == terminal_backspace(t)
           off == Offset(t)
<1>1. off \in Nat
  BY Turns
<1>2. CASE off = 0
  BY <1>2, BackspaceAtStart
<1>3. CASE off > 0
  <2>1. /\ Offset(u) = off - 1
        /\ \A o \in Cells : u.cells[o] = Blank \/ u.cells[o] = t.cells[o]
        /\ t.y < 256 => \A o \in Cells : o = off - 1 => u.cells[o] = Blank
    BY <1>3, BackspaceIs
  <2>2. \A o \in Cells : o >= off => t.cells[o] = Blank
    BY DEF NothingBehind
  <2> HIDE DEF u
  <2> SUFFICES ASSUME NEW o \in Cells, o >= off - 1 PROVE u.cells[o] = Blank
    BY <2>1 DEF NothingBehind, u
  <2>3. o \in Nat /\ o <= Width * Height - 1
    BY ScreenEnds DEF Cells
  <2>4. CASE o >= off
    BY <2>1, <2>2, <2>4
  <2>5. CASE ~ (o >= off)
    <3> HIDE DEF off
    <3>1. o = off - 1 /\ off <= 255 * Width
      BY <1>1, <2>3, <2>5, ScreenEnds
    <3>2. t.y < 256
      BY <3>1, RowFits DEF off
    <3> QED
      BY <2>1, <3>1, <3>2
  <2> QED
    BY <2>4, <2>5
<1> QED
  BY <1>1, <1>2, <1>3

(* Every character leaves a screen; only a carriage return brings text     *)
(* behind the cursor.                                                      *)
LEMMA PutsKeeps ==
    ASSUME NEW t \in Screens, NEW ch \in Chars
    PROVE  /\ terminal_puts(t, ch) \in Screens
           /\ (ch # CR /\ NothingBehind(t)) => NothingBehind(terminal_puts(t, ch))
<1> DEFINE x == Col(t)
           y == Row(t)
           off == Offset(t)
           u == terminal_puts(t, ch)
<1>1. /\ x \in 0 .. Width - 1 /\ y \in Nat /\ y * Width + x = off /\ off \in Nat
      /\ t.cells \in [Cells -> Chars] /\ Width \in Nat \ {0} /\ Width % 4 = 0
  BY Turns, Constants DEF Screens
<1>2. ASSUME NEW a \in 0 .. Width, NEW b \in Nat, u = [x |-> a, y |-> b, cells |-> t.cells]
      PROVE  u \in Screens /\ Offset(u) = b * Width + a /\ u.cells = t.cells
  <2> HIDE DEF u
  <2> QED
    BY <1>1, <1>2, ScreenIs
<1>3. ASSUME u.cells = t.cells, Offset(u) \in Nat, Offset(u) >= off, NothingBehind(t)
      PROVE  NothingBehind(u)
  <2> HIDE DEF u, off
  <2>1. \A o \in Cells : o \in Int
    BY DEF Cells
  <2>2. \A o \in Cells : o >= Offset(u) => o >= off
    BY <1>1, <1>3, <2>1
  <2> QED
    BY <1>3, <2>2 DEF NothingBehind, off
<1>4. CASE ch = NL
  <2>1. u = [x |-> 0, y |-> y + 1, cells |-> t.cells]
    BY <1>4, PutsIs
  <2> HIDE DEF u, x, y, off
  <2>2. 0 \in 0 .. Width /\ y + 1 \in Nat
    BY <1>1
  <2>3. u \in Screens /\ Offset(u) = (y + 1) * Width + 0 /\ u.cells = t.cells
    BY <1>2, <2>1, <2>2
  <2>4. (y + 1) * Width + 0 = y * Width + Width /\ y * Width \in Nat
    BY <1>1
  <2>5. Offset(u) >= off /\ Offset(u) \in Nat
    BY <1>1, <2>3, <2>4
  <2> QED
    BY <1>3, <2>3, <2>5 DEF u
<1>5. CASE ch = BS
  <2>1. u = terminal_backspace(Left(t))
    BY <1>5, PutsIs
  <2>2. Left(t) \in Screens /\ Left(t).x \in 0 .. Width - 1 /\ Offset(Left(t)) = off
    BY <1>1, Turns DEF Left
  <2>3. NothingBehind(t) => NothingBehind(Left(t))
    BY <2>2 DEF NothingBehind, Left
  <2>4. NothingBehind(t) => NothingBehind(u)
    BY <2>1, <2>2, <2>3, BackspaceKeepsBlank
  <2>5. u \in Screens
    <3>1. CASE off = 0
      BY <2>1, <2>2, <3>1, BackspaceAtStart
    <3>2. CASE off > 0
      BY <2>1, <2>2, <3>2, BackspaceIs
    <3> QED
      BY <1>1, <3>1, <3>2
  <2> QED
    BY <2>4, <2>5
<1>6. CASE ch = CR
  <2>1. u = [x |-> 0, y |-> y, cells |-> t.cells]
    BY <1>6, PutsIs
  <2> HIDE DEF u, x, y, off
  <2>2. 0 \in 0 .. Width /\ y \in Nat
    BY <1>1
  <2>3. u \in Screens
    BY <1>2, <2>1, <2>2
  <2> QED
    BY <1>6, <2>3 DEF u
<1>7. CASE ch = TAB
  <2> DEFINE a == ((x + 4) \div 4) * 4
  <2>1. u = [x |-> a, y |-> y, cells |-> t.cells]
    BY <1>7, PutsIs
  <2>2. a \in 0 .. Width /\ a >= x
    <3> HIDE DEF x
    <3> QED
      BY <1>1
  <2> HIDE DEF u, x, y, off, a
  <2>3. u \in Screens /\ Offset(u) = y * Width + a /\ u.cells = t.cells
    BY <1>1, <1>2, <2>1, <2>2
  <2>4. y * Width \in Nat
    BY <1>1
  <2>5. Offset(u) >= off /\ Offset(u) \in Nat
    BY <1>1, <2>2, <2>3, <2>4
  <2> QED
    BY <1>3, <2>3, <2>5 DEF u
<1>8. CASE ch \notin {NL, BS, CR, TAB}
  <2>1. ch \in Plain
    BY <1>8 DEF Plain
  <2>2. u \in Screens /\ Offset(u) = off + 1
        /\ \A o \in Cells : u.cells[o] = IF o = off THEN ch ELSE t.cells[o]
    BY <2>1, PlainIsShown
  <2> HIDE DEF u, off
  <2>3. \A o \in Cells : o \in Int
    BY DEF Cells
  <2>4. \A o \in Cells : o >= off + 1 => o >= off /\ o # off
    BY <1>1, <2>3
  <2>5. NothingBehind(t) => NothingBehind(u)
    BY <2>2, <2>4 DEF NothingBehind, off
  <2> QED
    BY <2>2, <2>5 DEF u
<1> QED
  BY <1>4, <1>5, <1>6, <1>7, <1>8


----------------------------------------------------------------------------
(* The screens after each character of a string, and the last of them is   *)
(* the screen after the string.                                            *)
LEMMA WriteRun ==
    ASSUME NEW t \in Screens, NEW str \in Seq(Chars)
    PROVE  \E g : /\ g[0] = t /\ \A n \in 1 .. Len(str) : g[n] = terminal_puts(g[n - 1], str[n])
                  /\ terminal_write(t, str) = g[Len(str)]
<1> DEFINE k == Len(str)
           Is(g) == g = [n \in 0 .. k |-> IF n = 0 THEN t ELSE terminal_puts(g[n - 1], str[n])]
           W == CHOOSE g : Is(g)
           In(u, n) == IF n < k THEN terminal_puts(u, str[n + 1]) ELSE u
           F == [z \in Screens \X Nat |-> In(z[1], z[2])]
<1>1. k \in Nat /\ \A n \in 1 .. k : str[n] \in Chars
  BY LenProperties
<1>2. terminal_write(t, str) = W[k]
  BY DEF terminal_write
<1> HIDE DEF k
<1>3. \A u \in Screens, n \in Nat : In(u, n) \in Screens
  <2> SUFFICES ASSUME NEW u \in Screens, NEW n \in Nat, n < k
               PROVE  terminal_puts(u, str[n + 1]) \in Screens
    OBVIOUS
  <2>1. n + 1 \in 1 .. k
    BY <1>1
  <2> QED
    BY <1>1, <2>1, PutsKeeps
<1>4. \A u \in Screens, n \in 1 .. k : In(u, n - 1) = terminal_puts(u, str[n])
  <2> SUFFICES ASSUME NEW u \in Screens, NEW n \in 1 .. k
               PROVE  In(u, n - 1) = terminal_puts(u, str[n])
    OBVIOUS
  <2>1. n - 1 < k /\ (n - 1) + 1 = n
    BY <1>1
  <2> QED
    BY <2>1
<1> HIDE DEF In
<1>5. F \in [Screens \X Nat -> Screens] /\ \A u \in Screens, n \in Nat : F[<<u, n>>] = In(u, n)
  BY <1>3
<1> HIDE DEF F
<1>6. PICK g \in [0 .. k -> Screens] : LoopRun(g, t, F, k)
  BY <1>1, <1>5, LoopRuns
<1>7. g[0] = t /\ \A n \in 1 .. k : g[n] = terminal_puts(g[n - 1], str[n])
  <2>1. ASSUME NEW n \in 1 .. k PROVE g[n] = terminal_puts(g[n - 1], str[n])
    <3>1. n - 1 \in 0 .. k /\ n - 1 \in Nat
      BY <1>1
    <3>2. g[n - 1] \in Screens /\ g[n] = F[<<g[n - 1], n - 1>>]
      BY <1>6, <3>1 DEF LoopRun
    <3> QED
      BY <1>4, <1>5, <3>1, <3>2
  <2> QED
    BY <1>6, <2>1 DEF LoopRun
<1>8. Is(g)
  <2>1. ASSUME NEW n \in 0 .. k
        PROVE  g[n] = IF n = 0 THEN t ELSE terminal_puts(g[n - 1], str[n])
    <3>1. n = 0 \/ n \in 1 .. k
      BY <1>1
    <3> QED
      BY <1>7, <3>1
  <2> QED
    BY <2>1
<1>9. Is(W)
  <2> HIDE DEF Is
  <2> QED
    BY <1>8, Zenon
<1> HIDE DEF W
<1>10. W[0] = t /\ \A n \in 1 .. k : W[n] = terminal_puts(W[n - 1], str[n])
  <2>1. \A n \in 0 .. k : W[n] = IF n = 0 THEN t ELSE terminal_puts(W[n - 1], str[n])
    BY <1>9
  <2>2. 0 \in 0 .. k /\ \A n \in 1 .. k : n \in 0 .. k /\ n # 0
    BY <1>1
  <2> HIDE DEF Is
  <2> QED
    BY <2>1, <2>2
<1> HIDE DEF Is
<1> QED
  BY <1>2, <1>10 DEF k

(* A string leaves a screen; only a carriage return in it brings text      *)
(* behind the cursor.                                                      *)
LEMMA WriteKeeps ==
    ASSUME NEW t \in Screens, NEW str \in Seq(Chars)
    PROVE  /\ terminal_write(t, str) \in Screens
           /\ (CR \notin ToSet(str) /\ NothingBehind(t)) => NothingBehind(terminal_write(t, str))
<1> DEFINE k == Len(str)
           Clean == CR \notin ToSet(str) /\ NothingBehind(t)
<1>1. PICK g : /\ g[0] = t /\ \A n \in 1 .. k : g[n] = terminal_puts(g[n - 1], str[n])
               /\ terminal_write(t, str) = g[k]
  BY WriteRun
<1>2. k \in Nat /\ \A n \in 1 .. k : str[n] \in Chars /\ str[n] \in ToSet(str)
  BY LenProperties DEF ToSet
<1> HIDE DEF k
<1> DEFINE Good(n) == g[n] \in Screens /\ (Clean => NothingBehind(g[n]))
           S == {n \in Nat : n <= k => Good(n)}
<1>3. 0 \in S
  BY <1>1
<1>4. ASSUME NEW n \in Nat, n \in S PROVE n + 1 \in S
  <2> SUFFICES ASSUME n + 1 <= k PROVE Good(n + 1)
    OBVIOUS
  <2>1. n + 1 \in 1 .. k /\ (n + 1) - 1 = n /\ n <= k
    BY <1>2
  <2>2. g[n + 1] = terminal_puts(g[n], str[n + 1])
    BY <1>1, <2>1
  <2>3. Good(n)
    BY <1>4, <2>1
  <2>4. str[n + 1] \in Chars /\ (Clean => str[n + 1] # CR)
    BY <1>2, <2>1
  <2> HIDE DEF Clean
  <2> QED
    BY <2>2, <2>3, <2>4, PutsKeeps
<1> HIDE DEF S
<1>5. k \in S
  BY <1>2, <1>3, <1>4, SetInduction
<1> HIDE DEF Good
<1>6. Good(k)
  BY <1>2, <1>5 DEF S
<1> QED
  BY <1>1, <1>6 DEF Good

(* A string of one character is that character.                            *)
LEMMA WriteOne ==
    ASSUME NEW t \in Screens, NEW ch \in Chars
    PROVE  terminal_write(t, <<ch>>) = terminal_puts(t, ch)
<1>1. <<ch>> \in Seq(Chars) /\ Len(<<ch>>) = 1 /\ <<ch>>[1] = ch /\ 1 \in 1 .. 1 /\ 1 - 1 = 0
  OBVIOUS
<1> DEFINE s == <<ch>>
<1> HIDE DEF s
<1>2. PICK g : /\ g[0] = t /\ \A n \in 1 .. Len(s) : g[n] = terminal_puts(g[n - 1], s[n])
               /\ terminal_write(t, s) = g[Len(s)]
  BY <1>1, WriteRun DEF s
<1>3. g[1] = terminal_puts(g[0], ch) /\ terminal_write(t, s) = g[1]
  BY <1>1, <1>2 DEF s
<1> QED
  BY <1>2, <1>3 DEF s

(* sys_print writes a start of its message.                                *)
LEMMA PrintKeeps ==
    ASSUME NEW t \in Screens, NEW msg \in Seq(Chars)
    PROVE  /\ isr_sys_print(t, msg) \in Screens
           /\ (CR \notin ToSet(msg) /\ NothingBehind(t)) => NothingBehind(isr_sys_print(t, msg))
<1> DEFINE n == Min({Len(msg), Chunk - 1})
           s == SubSeq(msg, 1, n)
<1>1. n \in Nat /\ n <= Len(msg)
  <2> DEFINE S == {Len(msg), Chunk - 1}
  <2>1. S \in SUBSET Nat /\ S # {} /\ Len(msg) \in S
    BY Constants, LenProperties
  <2>2. Min(S) \in S /\ \A y \in S : Min(S) <= y
    BY <2>1, MinIs
  <2> HIDE DEF S
  <2> QED
    BY <2>1, <2>2 DEF S
<1> HIDE DEF n
<1>2. s \in Seq(Chars) /\ Len(s) = n /\ \A i \in 1 .. n : s[i] = msg[i]
  BY <1>1, LenProperties
<1>3. ToSet(s) \subseteq ToSet(msg)
  <2>1. \A i \in DOMAIN s : i \in DOMAIN msg /\ s[i] = msg[i]
    BY <1>1, <1>2, LenProperties
  <2> HIDE DEF s
  <2> QED
    BY <2>1 DEF ToSet
<1> HIDE DEF s
<1>4. isr_sys_print(t, msg) = terminal_write(t, s)
  BY DEF isr_sys_print, s, n
<1> QED
  BY <1>2, <1>3, <1>4, WriteKeeps


----------------------------------------------------------------------------
(* The words of a line by the positions where they start and end.          *)
Starts(s) == {i \in DOMAIN s : s[i] # SP /\ (i = 1 \/ s[i - 1] = SP)}
Rank(s, i) == Cardinality({j \in Starts(s) : j <= i})
StartOf(s, n) == CHOOSE i \in Starts(s) : Rank(s, i) = n
EndOf(s, i) == Max({j \in i .. Len(s) : \A k \in i .. j : s[k] # SP})

(* How many words start before a position.                                 *)
Before(s, i) == Cardinality({j \in Starts(s) : j < i})

(* The constants of the shell.                                             *)
LEMMA ShellConstants ==
    /\ Keys \subseteq Chars /\ NUL \notin Keys /\ SP \in Keys /\ NUL # SP
    /\ Letters \cup {SP} \subseteq Plain
    /\ MaxLine \in Nat /\ MaxLine >= 2 /\ ArgSize \in Nat \ {0} /\ MaxAllocations \in Nat
<1>1. Blank # NL /\ Blank # CR /\ Blank # BS /\ Blank # TAB
  BY DEF Blank, NL, CR, BS, TAB
<1>2. Keys \subseteq Chars /\ SP \in Keys
  BY Constants, ShellAssumption DEF Keys, SP, ENTER
<1>3. Letters \cup {SP} \subseteq Plain
  BY <1>1, Constants, ShellAssumption DEF Plain, SP
<1> QED
  BY <1>2, <1>3, ShellAssumption

(* The words of a line, by the operators above.                            *)
LEMMA WordsIs ==
    ASSUME NEW s
    PROVE  Words(s) = [n \in 1 .. Cardinality(Starts(s)) |->
                          SubSeq(s, StartOf(s, n), EndOf(s, StartOf(s, n)))]
BY DEF Words, Starts, StartOf, EndOf, Rank

(* The starts of words are finitely many positions.                        *)
LEMMA StartsFinite ==
    ASSUME NEW s \in Seq(Keys)
    PROVE  /\ Starts(s) \subseteq 1 .. Len(s) /\ IsFiniteSet(Starts(s)) /\ Cardinality(Starts(s)) \in Nat
           /\ \A U \in SUBSET Starts(s) : IsFiniteSet(U) /\ Cardinality(U) \in Nat
<1>1. Len(s) \in Nat /\ DOMAIN s = 1 .. Len(s) /\ 1 \in Int
  BY LenProperties
<1>2. IsFiniteSet(1 .. Len(s))
  BY <1>1, FS_Interval
<1>3. Starts(s) \subseteq 1 .. Len(s)
  BY <1>1 DEF Starts
<1>4. IsFiniteSet(Starts(s))
  BY <1>2, <1>3, FS_Subset
<1>5. \A U \in SUBSET Starts(s) : IsFiniteSet(U)
  BY <1>4, FS_Subset
<1> QED
  BY <1>3, <1>4, <1>5, FS_CardinalityType

(* The start of the n-th word is the one with that rank.                   *)
LEMMA StartOfRank ==
    ASSUME NEW s \in Seq(Keys), NEW p \in Starts(s)
    PROVE  StartOf(s, Rank(s, p)) = p
<1>1. ASSUME NEW i \in Starts(s), NEW j \in Starts(s), i < j PROVE Rank(s, i) # Rank(s, j)
  <2> DEFINE U == {k \in Starts(s) : k <= i}
             V == {k \in Starts(s) : k <= j}
  <2>1. \A k \in Starts(s) : k \in Nat
    BY StartsFinite, LenProperties
  <2>2. U \subseteq V /\ j \in V /\ j \notin U
    BY <1>1, <2>1
  <2>3. IsFiniteSet(V)
    BY StartsFinite
  <2> HIDE DEF U, V
  <2>4. Cardinality(U) # Cardinality(V)
    BY <2>2, <2>3, FS_Subset
  <2> QED
    BY <2>4 DEF Rank, U, V
<1>2. \A i \in Starts(s) : i \in Nat
  BY StartsFinite, LenProperties
<1> DEFINE n == Rank(s, p)
           i == CHOOSE i \in Starts(s) : Rank(s, i) = n
<1>3. i \in Starts(s) /\ Rank(s, i) = n
  <2> HIDE DEF n
  <2>1. p \in Starts(s) /\ Rank(s, p) = n
    BY DEF n
  <2> QED
    BY <2>1, Zenon
<1>4. StartOf(s, n) = i
  BY Zenon DEF StartOf
<1> HIDE DEF i
<1>5. ~(i < p) /\ ~(p < i)
  BY <1>1, <1>3
<1> QED
  BY <1>2, <1>3, <1>4, <1>5

(* One more word starts up to the next start.                              *)
LEMMA NextRank ==
    ASSUME NEW s \in Seq(Keys), NEW m \in Nat, NEW p \in Starts(s), p >= m,
           \A j \in Starts(s) : ~(m <= j /\ j < p)
    PROVE  Rank(s, p) = Before(s, m) + 1
<1> DEFINE U == {j \in Starts(s) : j < m}
           V == {j \in Starts(s) : j <= p}
<1>1. \A k \in Starts(s) : k \in Nat
  BY StartsFinite, LenProperties
<1>2. V = U \cup {p} /\ p \notin U
  BY <1>1
<1>3. IsFiniteSet(U) /\ Cardinality(U) \in Nat
  BY StartsFinite
<1> HIDE DEF U, V
<1>4. Cardinality(V) = Cardinality(U) + 1
  BY <1>2, <1>3, FS_AddElement
<1> QED
  BY <1>4 DEF Rank, Before, U, V


(* A word ends before the next space, or with the line.                    *)
LEMMA WordEnd ==
    ASSUME NEW s \in Seq(Keys), NEW p \in Nat \ {0}, NEW e \in p + 1 .. Len(s) + 1,
           \A k \in p .. e - 1 : s[k] # SP, e = Len(s) + 1 \/ s[e] = SP
    PROVE  EndOf(s, p) = e - 1
<1> DEFINE M == {j \in p .. Len(s) : \A k \in p .. j : s[k] # SP}
<1>1. Len(s) \in Nat /\ e \in Nat
  BY LenProperties
<1>2. e - 1 \in M
  BY <1>1
<1>3. ASSUME NEW j \in M PROVE j <= e - 1
  <2>1. SUFFICES ASSUME j >= e PROVE FALSE
    BY <1>1
  <2>2. j \in p .. Len(s) /\ e \in p .. j /\ e # Len(s) + 1
    BY <1>1, <2>1
  <2> QED
    BY <1>3, <2>2
<1>4. M \in SUBSET (1 .. Len(s))
  BY <1>1
<1> HIDE DEF M
<1> DEFINE x == Max(M)
<1>5. x \in M /\ \A y \in M : y <= x
  BY <1>1, <1>2, <1>4, MaxIs
<1> HIDE DEF x
<1>6. x \in 1 .. Len(s) /\ x <= e - 1 /\ e - 1 <= x
  <2>1. x \in 1 .. Len(s)
    BY <1>4, <1>5
  <2>2. x <= e - 1
    BY <1>3, <1>5
  <2>3. e - 1 <= x
    BY <1>2, <1>5
  <2> QED
    BY <2>1, <2>2, <2>3
<1>7. x = e - 1
  BY <1>1, <1>6
<1> QED
  BY <1>7 DEF EndOf, M, x

(* A line and the zero behind it, as strtok sees it.                       *)
LEMMA BufferIs ==
    ASSUME NEW s \in Seq(Keys)
    PROVE  /\ Len(s) \in Nat /\ Len(Append(s, NUL)) = Len(s) + 1 /\ DOMAIN s = 1 .. Len(s)
           /\ Append(s, NUL)[Len(s) + 1] = NUL
           /\ \A i \in 1 .. Len(s) : Append(s, NUL)[i] = s[i] /\ s[i] \in Keys /\ s[i] # NUL
<1>1. s \in Seq(Keys \cup {NUL}) /\ NUL \in Keys \cup {NUL}
  BY SeqMonotonic
<1> DEFINE K == Keys \cup {NUL}
<1> HIDE DEF K
<1>2. s \in Seq(K) /\ NUL \in K
  BY <1>1 DEF K
<1>3. /\ Len(Append(s, NUL)) = Len(s) + 1 /\ Append(s, NUL)[Len(s) + 1] = NUL
      /\ \A i \in 1 .. Len(s) : Append(s, NUL)[i] = s[i]
  BY <1>2, AppendProperties
<1>4. \A i \in 1 .. Len(s) : s[i] \in Keys /\ s[i] # NUL
  BY LenProperties, ShellConstants
<1> QED
  BY <1>3, <1>4, LenProperties

(* A position from which strtok searches: the start of the line, behind a  *)
(* space, or the zero at the end.                                          *)
IsCut(s, sp) == sp \in 1 .. Len(s) + 1 /\ (sp = 1 \/ sp = Len(s) + 1 \/ s[sp - 1] = SP)

(* The two searches of strtok: the first position that is no space, and    *)
(* the first space or zero from there on.                                  *)
LEMMA TokenBounds ==
    ASSUME NEW s \in Seq(Keys), NEW sp \in 1 .. Len(s) + 1
    PROVE  \E p \in sp .. Len(s) + 1 :
              /\ Append(s, NUL)[p] # SP /\ \A i \in sp .. p - 1 : Append(s, NUL)[i] = SP
              /\ Append(s, NUL)[p] = NUL => strtok(Append(s, NUL), sp) = [token |-> <<>>, sp |-> 0]
              /\ Append(s, NUL)[p] # NUL =>
                   \E e \in p .. Len(s) + 1 :
                      /\ Append(s, NUL)[e] \in {SP, NUL}
                      /\ \A i \in p .. e - 1 : Append(s, NUL)[i] \notin {SP, NUL}
                      /\ strtok(Append(s, NUL), sp) =
                           [token |-> SubSeq(Append(s, NUL), p, e - 1),
                            sp |-> IF Append(s, NUL)[e] = NUL THEN e ELSE e + 1]
<1> DEFINE buf == Append(s, NUL)
           N == Len(s) + 1
           IsStart(p) == buf[p] # SP /\ \A i \in sp .. p - 1 : buf[i] = SP
           p == CHOOSE p \in sp .. Len(buf) : IsStart(p)
           IsEnd(e) == buf[e] \in {SP, NUL} /\ \A i \in p .. e - 1 : buf[i] \notin {SP, NUL}
           e == CHOOSE e \in p .. Len(buf) : IsEnd(e)
<1>1. Len(buf) = N /\ N \in Nat /\ buf[N] = NUL /\ NUL # SP /\ sp \in Nat /\ sp \in 1 .. N
  BY BufferIs, ShellConstants
<1>2. strtok(buf, sp) = IF sp = 0 \/ buf[p] = NUL THEN [token |-> <<>>, sp |-> 0]
                        ELSE [token |-> SubSeq(buf, p, e - 1), sp |-> IF buf[e] = NUL THEN e ELSE e + 1]
  BY DEF strtok
<1> HIDE DEF buf, N
<1>3. \E q \in sp .. Len(buf) : IsStart(q)
  <2> DEFINE A == {q \in sp .. N : buf[q] # SP}
  <2>1. A \in SUBSET Nat /\ N \in A
    BY <1>1
  <2>2. PICK q \in A : \A y \in A : q <= y
    BY <2>1, LeastElement
  <2>3. \A i \in sp .. q - 1 : i \in sp .. N /\ ~(q <= i)
    BY <1>1, <2>2
  <2> QED
    BY <1>1, <2>2, <2>3
<1>4. p \in sp .. N /\ IsStart(p)
  <2> HIDE DEF IsStart
  <2>1. p \in sp .. Len(buf) /\ IsStart(p)
    BY <1>3, Zenon
  <2> QED
    BY <1>1, <2>1
<1> HIDE DEF p
<1>5. \E q \in p .. Len(buf) : IsEnd(q)
  <2> DEFINE A == {q \in p .. N : buf[q] \in {SP, NUL}}
  <2>1. A \in SUBSET Nat /\ N \in A /\ p \in Nat
    BY <1>1, <1>4
  <2>2. PICK q \in A : \A y \in A : q <= y
    BY <2>1, LeastElement
  <2>3. \A i \in p .. q - 1 : i \in p .. N /\ ~(q <= i)
    BY <1>1, <2>1, <2>2
  <2> QED
    BY <1>1, <2>2, <2>3
<1>6. e \in p .. N /\ IsEnd(e)
  <2> HIDE DEF IsEnd
  <2>1. e \in p .. Len(buf) /\ IsEnd(e)
    BY <1>5, Zenon
  <2> QED
    BY <1>1, <2>1
<1> HIDE DEF e
<1>7. sp # 0
  BY <1>1
<1> QED
  BY <1>2, <1>4, <1>6, <1>7 DEF buf, N


(* The characters of a word, cut from the line or from its buffer.         *)
LEMMA CutWord ==
    ASSUME NEW s \in Seq(Keys), NEW p \in 1 .. Len(s), NEW e \in p + 1 .. Len(s) + 1
    PROVE  /\ SubSeq(Append(s, NUL), p, e - 1) = SubSeq(s, p, e - 1)
           /\ SubSeq(s, p, e - 1) \in Seq(Keys) /\ SubSeq(s, p, e - 1) # <<>>
<1> DEFINE b == Append(s, NUL)
<1>1. Len(s) \in Nat /\ \A i \in 1 .. Len(s) : b[i] = s[i] /\ s[i] \in Keys
  BY BufferIs
<1>2. p \in Int /\ e - 1 \in Int /\ p <= e - 1 /\ \A i \in p .. e - 1 : i \in 1 .. Len(s)
  BY <1>1
<1> HIDE DEF b
<1> DEFINE c == e - 1
           u == SubSeq(s, p, c)
           v == SubSeq(b, p, c)
<1> HIDE DEF c
<1>3. p \in Int /\ c \in Int /\ p <= c /\ \A i \in p .. c : s[i] \in Keys /\ b[i] \in Keys /\ b[i] = s[i]
  BY <1>1, <1>2 DEF c
<1>4. /\ u \in Seq(Keys) /\ Len(u) = c - p + 1 /\ \A i \in 1 .. c - p + 1 : u[i] = s[p + i - 1]
      /\ v \in Seq(Keys) /\ Len(v) = c - p + 1 /\ \A i \in 1 .. c - p + 1 : v[i] = b[p + i - 1]
  BY <1>3, SubSeqProperties
<1> HIDE DEF u, v
<1>5. \A i \in 1 .. c - p + 1 : p + i - 1 \in p .. c
  BY <1>3
<1>6. \A i \in 1 .. Len(u) : u[i] = v[i]
  BY <1>3, <1>4, <1>5
<1>7. u = v
  BY <1>4, <1>6, SeqEqual
<1>8. u # <<>>
  BY <1>3, <1>4
<1> QED
  BY <1>4, <1>7, <1>8 DEF u, v, b, c

(* strtok finds the next word, or that there is none.                      *)
LEMMA TokenIs ==
    ASSUME NEW s \in Seq(Keys), NEW sp, IsCut(s, sp)
    PROVE  \/ /\ strtok(Append(s, NUL), sp) = [token |-> <<>>, sp |-> 0]
              /\ Before(s, sp) = Cardinality(Starts(s))
           \/ \E p \in Starts(s), q \in 1 .. Len(s) + 1 :
                 /\ strtok(Append(s, NUL), sp) = [token |-> SubSeq(s, p, EndOf(s, p)), sp |-> q]
                 /\ SubSeq(s, p, EndOf(s, p)) \in Seq(Keys) /\ SubSeq(s, p, EndOf(s, p)) # <<>>
                 /\ Rank(s, p) = Before(s, sp) + 1
                 /\ IsCut(s, q) /\ Before(s, q) = Before(s, sp) + 1
<1> DEFINE b == Append(s, NUL)
           N == Len(s) + 1
<1>1. /\ N \in Nat /\ Len(s) \in Nat /\ Len(s) = N - 1 /\ b[N] = NUL /\ DOMAIN s = 1 .. Len(s) /\ NUL # SP
      /\ \A i \in 1 .. Len(s) : b[i] = s[i] /\ s[i] # NUL
  BY BufferIs, ShellConstants
<1>2. sp \in 1 .. N /\ (sp = 1 \/ sp = N \/ s[sp - 1] = SP)
  BY DEF IsCut
<1>3. PICK p \in sp .. N :
              /\ b[p] # SP /\ \A i \in sp .. p - 1 : b[i] = SP
              /\ b[p] = NUL => strtok(b, sp) = [token |-> <<>>, sp |-> 0]
              /\ b[p] # NUL =>
                   \E e \in p .. N :
                      /\ b[e] \in {SP, NUL}
                      /\ \A i \in p .. e - 1 : b[i] \notin {SP, NUL}
                      /\ strtok(b, sp) = [token |-> SubSeq(b, p, e - 1),
                                          sp |-> IF b[e] = NUL THEN e ELSE e + 1]
  BY <1>2, TokenBounds
<1> HIDE DEF b, N
<1>4. \A j \in Starts(s) : j \in 1 .. Len(s) /\ s[j] # SP /\ (j = 1 \/ s[j - 1] = SP)
  BY <1>1 DEF Starts
<1>5. \A j \in Starts(s) : ~(sp <= j /\ j < p)
  <2> SUFFICES ASSUME NEW j \in Starts(s), sp <= j, j < p PROVE FALSE
    OBVIOUS
  <2>1. j \in sp .. p - 1 /\ j \in 1 .. Len(s) /\ s[j] # SP
    BY <1>1, <1>2, <1>4
  <2> QED
    BY <1>1, <1>3, <2>1
<1>6. CASE b[p] = NUL
  <2>1. p = N
    <3>1. p \in 1 .. Len(s) \/ p = N
      BY <1>1, <1>2
    <3> QED
      BY <1>1, <1>6, <3>1
  <2>2. \A j \in Starts(s) : j < sp
    BY <1>1, <1>2, <1>4, <1>5, <2>1
  <2>3. {j \in Starts(s) : j < sp} = Starts(s)
    BY <2>2
  <2> QED
    BY <1>3, <1>6, <2>3 DEF Before, b
<1>7. CASE b[p] # NUL
  <2>1. p \in 1 .. Len(s) /\ p \in Nat \ {0} /\ s[p] # SP
    <3>1. p \in 1 .. Len(s) \/ p = N
      BY <1>1, <1>2
    <3> QED
      BY <1>1, <1>3, <1>7, <3>1
  <2>2. PICK e \in p .. N :
                      /\ b[e] \in {SP, NUL}
                      /\ \A i \in p .. e - 1 : b[i] \notin {SP, NUL}
                      /\ strtok(b, sp) = [token |-> SubSeq(b, p, e - 1),
                                          sp |-> IF b[e] = NUL THEN e ELSE e + 1]
    BY <1>3, <1>7
  <2>3. p \in Starts(s)
    <3>1. CASE p = sp
      BY <1>1, <1>2, <2>1, <3>1 DEF Starts
    <3>2. CASE p # sp
      <4>1. p - 1 \in sp .. p - 1 /\ p - 1 \in 1 .. Len(s)
        BY <1>1, <1>2, <2>1, <3>2
      <4>2. s[p - 1] = SP
        BY <1>1, <1>3, <4>1
      <4> QED
        BY <1>1, <2>1, <4>2 DEF Starts
    <3> QED
      BY <3>1, <3>2
  <2>4. e \in p + 1 .. N /\ e # p
    <3>1. b[p] \notin {SP, NUL}
      BY <1>3, <1>7
    <3>2. e # p
      BY <2>2, <3>1
    <3> QED
      BY <1>1, <2>1, <3>2
  <2>5. \A k \in p .. e - 1 : s[k] # SP
    <3> SUFFICES ASSUME NEW k \in p .. e - 1 PROVE s[k] # SP
      OBVIOUS
    <3>1. k \in 1 .. Len(s)
      BY <1>1, <2>1, <2>4
    <3> QED
      BY <1>1, <2>2, <3>1
  <2>6. (e = N /\ b[e] = NUL) \/ (e \in 1 .. Len(s) /\ s[e] = SP /\ b[e] # NUL)
    <3>1. e \in 1 .. Len(s) \/ e = N
      BY <1>1, <2>1, <2>4
    <3> QED
      BY <1>1, <2>2, <3>1
  <2>7. EndOf(s, p) = e - 1
    BY <2>1, <2>4, <2>5, <2>6, WordEnd DEF N
  <2> DEFINE q == IF b[e] = NUL THEN e ELSE e + 1
             w == SubSeq(s, p, e - 1)
  <2>8. SubSeq(b, p, e - 1) = w /\ w \in Seq(Keys) /\ w # <<>>
    BY <2>1, <2>4, CutWord DEF N, b
  <2>9. q \in 1 .. N /\ q > p /\ (q = N \/ s[q - 1] = SP)
    <3>1. CASE e = N /\ b[e] = NUL
      BY <1>1, <2>1, <2>4, <3>1
    <3>2. CASE e \in 1 .. Len(s) /\ s[e] = SP /\ b[e] # NUL
      BY <1>1, <2>1, <2>4, <3>2
    <3> QED
      BY <2>6, <3>1, <3>2
  <2>10. \A j \in Starts(s) : ~(p < j /\ j < q)
    <3> SUFFICES ASSUME NEW j \in Starts(s), p < j, j < q PROVE FALSE
      OBVIOUS
    <3>1. j \in 1 .. Len(s) /\ s[j] # SP /\ (j = 1 \/ s[j - 1] = SP)
      BY <1>4
    <3>2. CASE j <= e - 1
      <4>1. j - 1 \in p .. e - 1 /\ j # 1
        BY <2>1, <2>4, <3>1, <3>2
      <4> QED
        BY <2>5, <3>1, <4>1
    <3>3. CASE ~(j <= e - 1)
      <4>1. j = e /\ b[e] # NUL
        BY <2>1, <2>4, <3>1, <3>3
      <4> QED
        BY <2>6, <3>1, <4>1
    <3> QED
      BY <3>2, <3>3
  <2> HIDE DEF q
  <2>11. Rank(s, p) = Before(s, sp) + 1
    <3>1. sp \in Nat /\ p >= sp
      BY <1>1, <1>2
    <3> QED
      BY <1>5, <2>3, <3>1, NextRank
  <2>12. Before(s, q) = Rank(s, p)
    <3>1. \A j \in Starts(s) : j \in Nat
      BY <1>4
    <3>2. \A j \in Starts(s) : j < q <=> j <= p
      BY <2>1, <2>9, <2>10, <3>1
    <3>3. {j \in Starts(s) : j < q} = {j \in Starts(s) : j <= p}
      BY <3>2
    <3> QED
      BY <3>3 DEF Before, Rank
  <2>13. IsCut(s, q)
    BY <2>9 DEF IsCut, N
  <2>14. strtok(b, sp) = [token |-> w, sp |-> q]
    BY <2>2, <2>8 DEF q
  <2>15. w = SubSeq(s, p, EndOf(s, p)) /\ q \in 1 .. Len(s) + 1
    BY <2>7, <2>9 DEF N
  <2> HIDE DEF w
  <2> QED
    BY <2>3, <2>8, <2>11, <2>12, <2>13, <2>14, <2>15 DEF b
<1> QED
  BY <1>6, <1>7


(* strncpy keeps the start of a string.                                    *)
LEMMA StrncpyIs ==
    ASSUME NEW w \in Seq(Keys)
    PROVE  strncpy(w, ArgSize) \in Seq(Keys)
<1> DEFINE S == {Len(w), ArgSize - 1}
           n == Min(S)
<1>1. S \in SUBSET Nat /\ S # {} /\ Len(w) \in S /\ Len(w) \in Nat
  BY ShellConstants, LenProperties
<1> HIDE DEF S
<1>2. n \in S /\ n <= Len(w)
  BY <1>1, MinIs
<1> HIDE DEF n
<1>3. n \in Nat /\ 1 \in Int /\ n \in Int /\ \A i \in 1 .. n : w[i] \in Keys
  BY <1>1, <1>2, LenProperties
<1>4. SubSeq(w, 1, n) \in Seq(Keys)
  BY <1>3, SubSeqProperties
<1> QED
  BY <1>4 DEF strncpy, n, S

(* One turn of basic_os_parse_command.                                     *)
Parsed(s) == {r \in [args : Seq(Seq(Keys)), sp : Nat] : r.sp = 0 \/ IsCut(s, r.sp)}
ParseStep(s, m) ==
    IF strtok(Append(s, NUL), m.sp).token = <<>> THEN [m EXCEPT !.sp = 0]
    ELSE [args |-> Append(m.args, strncpy(strtok(Append(s, NUL), m.sp).token, ArgSize)),
          sp |-> strtok(Append(s, NUL), m.sp).sp]

(* A turn adds the next word, or ends the list.                            *)
LEMMA ParseStepIs ==
    ASSUME NEW s \in Seq(Keys), NEW m \in Parsed(s)
    PROVE  \/ /\ ParseStep(s, m) = [args |-> m.args, sp |-> 0]
              /\ m.sp = 0 \/ Before(s, m.sp) = Cardinality(Starts(s))
           \/ \E p \in Starts(s), q \in 1 .. Len(s) + 1 :
                 /\ ParseStep(s, m) =
                       [args |-> Append(m.args, strncpy(SubSeq(s, p, EndOf(s, p)), ArgSize)), sp |-> q]
                 /\ strncpy(SubSeq(s, p, EndOf(s, p)), ArgSize) \in Seq(Keys)
                 /\ m.sp # 0 /\ Rank(s, p) = Before(s, m.sp) + 1
                 /\ IsCut(s, q) /\ Before(s, q) = Before(s, m.sp) + 1
<1> DEFINE t == strtok(Append(s, NUL), m.sp)
           u == ParseStep(s, m)
<1>1. /\ m.args \in Seq(Seq(Keys)) /\ m = [args |-> m.args, sp |-> m.sp]
      /\ m.sp = 0 \/ IsCut(s, m.sp)
  BY DEF Parsed
<1>2. t.token = <<>> => u = [args |-> m.args, sp |-> 0]
  BY <1>1 DEF ParseStep
<1>3. t.token # <<>> => u = [args |-> Append(m.args, strncpy(t.token, ArgSize)), sp |-> t.sp]
  BY DEF ParseStep
<1>4. CASE m.sp = 0
  <2>1. t = [token |-> <<>>, sp |-> 0]
    BY <1>4 DEF strtok
  <2> HIDE DEF t
  <2>2. t.token = <<>>
    BY <2>1
  <2> QED
    BY <1>2, <1>4, <2>2
<1>5. CASE m.sp # 0
  <2>1. IsCut(s, m.sp)
    BY <1>1, <1>5
  <2>2. CASE t = [token |-> <<>>, sp |-> 0] /\ Before(s, m.sp) = Cardinality(Starts(s))
    <3> HIDE DEF t
    <3>1. t.token = <<>>
      BY <2>2
    <3> QED
      BY <1>2, <2>2, <3>1
  <2>3. ASSUME NEW p \in Starts(s), NEW q \in 1 .. Len(s) + 1,
               t = [token |-> SubSeq(s, p, EndOf(s, p)), sp |-> q],
               SubSeq(s, p, EndOf(s, p)) \in Seq(Keys), SubSeq(s, p, EndOf(s, p)) # <<>>,
               Rank(s, p) = Before(s, m.sp) + 1,
               IsCut(s, q), Before(s, q) = Before(s, m.sp) + 1
        PROVE  /\ u = [args |-> Append(m.args, strncpy(SubSeq(s, p, EndOf(s, p)), ArgSize)), sp |-> q]
               /\ strncpy(SubSeq(s, p, EndOf(s, p)), ArgSize) \in Seq(Keys)
    <3> HIDE DEF t, u
    <3> DEFINE w == SubSeq(s, p, EndOf(s, p))
    <3>1. w \in Seq(Keys) /\ w # <<>>
      BY <2>3
    <3>2. t = [token |-> w, sp |-> q]
      BY <2>3
    <3> HIDE DEF w
    <3>3. t.token = w /\ t.sp = q
      BY <3>2
    <3>4. u = [args |-> Append(m.args, strncpy(w, ArgSize)), sp |-> q]
      BY <1>3, <3>1, <3>3
    <3>5. strncpy(w, ArgSize) \in Seq(Keys)
      BY <3>1, StrncpyIs
    <3> QED
      BY <3>4, <3>5 DEF w
  <2> HIDE DEF u
  <2>4. \/ /\ t = [token |-> <<>>, sp |-> 0]
           /\ Before(s, m.sp) = Cardinality(Starts(s))
        \/ \E p \in Starts(s), q \in 1 .. Len(s) + 1 :
                 /\ t = [token |-> SubSeq(s, p, EndOf(s, p)), sp |-> q]
                 /\ SubSeq(s, p, EndOf(s, p)) \in Seq(Keys) /\ SubSeq(s, p, EndOf(s, p)) # <<>>
                 /\ Rank(s, p) = Before(s, m.sp) + 1
                 /\ IsCut(s, q) /\ Before(s, q) = Before(s, m.sp) + 1
    BY <2>1, TokenIs
  <2> HIDE DEF t
  <2>5. CASE t = [token |-> <<>>, sp |-> 0] /\ Before(s, m.sp) = Cardinality(Starts(s))
    BY <2>2, <2>5 DEF u
  <2>6. CASE ~(t = [token |-> <<>>, sp |-> 0] /\ Before(s, m.sp) = Cardinality(Starts(s)))
    <3>1. PICK p \in Starts(s), q \in 1 .. Len(s) + 1 :
                 /\ t = [token |-> SubSeq(s, p, EndOf(s, p)), sp |-> q]
                 /\ SubSeq(s, p, EndOf(s, p)) \in Seq(Keys) /\ SubSeq(s, p, EndOf(s, p)) # <<>>
                 /\ Rank(s, p) = Before(s, m.sp) + 1
                 /\ IsCut(s, q) /\ Before(s, q) = Before(s, m.sp) + 1
      BY <2>4, <2>6, Zenon
    <3>2. /\ u = [args |-> Append(m.args, strncpy(SubSeq(s, p, EndOf(s, p)), ArgSize)), sp |-> q]
          /\ strncpy(SubSeq(s, p, EndOf(s, p)), ArgSize) \in Seq(Keys)
      BY <2>3, <3>1
    <3> QED
      BY <1>5, <3>1, <3>2, Zenon DEF u
  <2> QED
    BY <2>5, <2>6
<1> QED
  BY <1>4, <1>5

(* The list after each turn, and the last of them is the result.           *)
LEMMA ParseRun ==
    ASSUME NEW s \in Seq(Keys), NEW room \in Nat
    PROVE  \E g : /\ g[0] = [args |-> <<>>, sp |-> 1]
                  /\ \A n \in 1 .. room : g[n] = ParseStep(s, g[n - 1])
                  /\ \A n \in 0 .. room : g[n] \in Parsed(s)
                  /\ basic_os_parse_command(s, room) = g[room].args
<1> DEFINE x0 == [args |-> <<>>, sp |-> 1]
           X == Parsed(s)
           Body(g, n) ==
             LET before == IF n = 0 THEN x0 ELSE g[n - 1]
                 t == strtok(Append(s, NUL), before.sp)
             IN  IF n = 0 THEN before
                 ELSE IF t.token = <<>> THEN [before EXCEPT !.sp = 0]
                 ELSE [args |-> Append(before.args, strncpy(t.token, ArgSize)), sp |-> t.sp]
           Is(g) == g = [n \in 0 .. room |->
             LET before == IF n = 0 THEN [args |-> <<>>, sp |-> 1] ELSE g[n - 1]
                 t == strtok(Append(s, NUL), before.sp)
             IN  IF n = 0 THEN before
                 ELSE IF t.token = <<>> THEN [before EXCEPT !.sp = 0]
                 ELSE [args |-> Append(before.args, strncpy(t.token, ArgSize)), sp |-> t.sp]]
           W == CHOOSE g : Is(g)
           F == [z \in X \X Nat |-> ParseStep(s, z[1])]
<1>1. basic_os_parse_command(s, room) = W[room].args
  BY DEF basic_os_parse_command
<1>2. x0 \in X
  <2>1. Len(s) \in Nat
    BY LenProperties
  <2>2. IsCut(s, 1)
    BY <2>1 DEF IsCut
  <2> QED
    BY <2>2 DEF Parsed
<1>3. \A m \in X : ParseStep(s, m) \in X
  <2> SUFFICES ASSUME NEW m \in X PROVE ParseStep(s, m) \in X
    OBVIOUS
  <2> DEFINE u == ParseStep(s, m)
  <2>1. m.args \in Seq(Seq(Keys)) /\ Len(s) \in Nat
    BY LenProperties DEF Parsed
  <2>2. CASE u = [args |-> m.args, sp |-> 0]
    BY <2>1, <2>2 DEF Parsed
  <2>3. ASSUME NEW w \in Seq(Keys), NEW q \in 1 .. Len(s) + 1, IsCut(s, q), u = [args |-> Append(m.args, w), sp |-> q]
        PROVE  u \in X
    <3>1. q \in Nat /\ Append(m.args, w) \in Seq(Seq(Keys))
      BY <2>1
    <3> HIDE DEF u
    <3> QED
      BY <2>3, <3>1 DEF Parsed
  <2> HIDE DEF u, X
  <2>4. \/ u = [args |-> m.args, sp |-> 0]
        \/ \E p \in Starts(s), q \in 1 .. Len(s) + 1 :
                 /\ u = [args |-> Append(m.args, strncpy(SubSeq(s, p, EndOf(s, p)), ArgSize)), sp |-> q]
                 /\ strncpy(SubSeq(s, p, EndOf(s, p)), ArgSize) \in Seq(Keys) /\ IsCut(s, q)
    BY ParseStepIs DEF u, X
  <2>5. ASSUME u # [args |-> m.args, sp |-> 0] PROVE u \in X
    <3>1. PICK p \in Starts(s), q \in 1 .. Len(s) + 1 :
                 /\ u = [args |-> Append(m.args, strncpy(SubSeq(s, p, EndOf(s, p)), ArgSize)), sp |-> q]
                 /\ strncpy(SubSeq(s, p, EndOf(s, p)), ArgSize) \in Seq(Keys) /\ IsCut(s, q)
      BY <2>4, <2>5
    <3> DEFINE w == strncpy(SubSeq(s, p, EndOf(s, p)), ArgSize)
    <3>2. w \in Seq(Keys) /\ u = [args |-> Append(m.args, w), sp |-> q] /\ IsCut(s, q)
      BY <3>1
    <3> HIDE DEF w
    <3> QED
      BY <2>3, <3>2
  <2> QED
    BY <2>2, <2>5 DEF u
<1>4. F \in [X \X Nat -> X] /\ \A m \in X, n \in Nat : F[<<m, n>>] = ParseStep(s, m)
  <2> HIDE DEF X
  <2> QED
    BY <1>3
<1> HIDE DEF F, X
<1>5. PICK g \in [0 .. room -> X] : LoopRun(g, x0, F, room)
  <2> HIDE DEF x0
  <2> QED
    BY <1>2, <1>4, LoopRuns
<1>6. ASSUME NEW n \in 1 .. room PROVE g[n] = ParseStep(s, g[n - 1])
  <2>1. n - 1 \in Nat /\ n - 1 \in 0 .. room
    OBVIOUS
  <2>2. g[n - 1] \in X /\ g[n] = F[<<g[n - 1], n - 1>>]
    BY <1>5, <2>1 DEF LoopRun
  <2> QED
    BY <1>4, <2>1, <2>2
<1>7. \A h : /\ Body(h, 0) = x0
             /\ \A n \in 1 .. room : Body(h, n) = ParseStep(s, h[n - 1])
  BY DEF ParseStep
<1>8. Is(g)
  <2>1. ASSUME NEW n \in 0 .. room PROVE g[n] = Body(g, n)
    <3>1. CASE n = 0
      <4> HIDE DEF Body, x0
      <4> QED
        BY <1>5, <1>7, <3>1 DEF LoopRun
    <3>2. CASE n # 0
      <4>1. n \in 1 .. room
        BY <3>2
      <4> HIDE DEF Body, x0
      <4> QED
        BY <1>6, <1>7, <4>1
    <3> QED
      BY <3>1, <3>2
  <2>2. g = [n \in 0 .. room |-> Body(g, n)]
    <3> HIDE DEF Body
    <3> QED
      BY <2>1
  <2> QED
    BY <2>2
<1>9. Is(W)
  <2> HIDE DEF Is, x0, Body
  <2> QED
    BY <1>8, Zenon
<1> HIDE DEF W
<1>10. W = g
  <2>1. \A n \in 0 .. room : W[n] = Body(W, n)
    BY <1>9
  <2> HIDE DEF Is, Body, x0
  <2>2. W[0] = x0 /\ \A n \in 1 .. room : W[n] = ParseStep(s, W[n - 1])
    <3>1. 0 \in 0 .. room /\ \A n \in 1 .. room : n \in 0 .. room
      OBVIOUS
    <3> QED
      BY <1>7, <2>1, <3>1
  <2> DEFINE S == {n \in Nat : n <= room => W[n] = g[n]}
  <2>3. g[0] = x0
    BY <1>5 DEF LoopRun
  <2>4. 0 \in S
    BY <2>2, <2>3
  <2>5. ASSUME NEW n \in Nat, n \in S PROVE n + 1 \in S
    <3> SUFFICES ASSUME n + 1 <= room PROVE W[n + 1] = g[n + 1]
      OBVIOUS
    <3>1. n + 1 \in 1 .. room /\ (n + 1) - 1 = n /\ n <= room
      OBVIOUS
    <3> QED
      BY <1>6, <2>2, <2>5, <3>1
  <2>6. \A n \in Nat : n \in S
    <3> HIDE DEF S
    <3> QED
      BY <2>4, <2>5, SetInduction
  <2>7. \A n \in 0 .. room : W[n] = g[n]
    BY <2>6
  <2> QED
    BY <1>9, <2>7 DEF Is
<1> HIDE DEF Is, Body
<1>11. \A n \in 0 .. room : g[n] \in Parsed(s)
  BY <1>5 DEF X
<1>12. g[0] = x0
  BY <1>5 DEF LoopRun
<1> QED
  BY <1>1, <1>6, <1>10, <1>11, <1>12


(* The word that starts at a position is the one of its rank.              *)
LEMMA WordAt ==
    ASSUME NEW s \in Seq(Keys), NEW p \in Starts(s), Rank(s, p) >= 1
    PROVE  /\ Rank(s, p) \in 1 .. Cardinality(Starts(s))
           /\ Words(s)[Rank(s, p)] = SubSeq(s, p, EndOf(s, p))
<1> DEFINE V == {j \in Starts(s) : j <= p}
           n == Rank(s, p)
<1>1. IsFiniteSet(Starts(s)) /\ Cardinality(Starts(s)) \in Nat /\ Cardinality(V) \in Nat /\ V \in SUBSET Starts(s)
  BY StartsFinite
<1>2. n = Cardinality(V)
  BY DEF Rank
<1> HIDE DEF V
<1>3. n \in 1 .. Cardinality(Starts(s))
  BY <1>1, <1>2, FS_Subset
<1>4. StartOf(s, n) = p
  BY StartOfRank
<1> HIDE DEF n
<1>5. Words(s)[n] = SubSeq(s, StartOf(s, n), EndOf(s, StartOf(s, n)))
  BY <1>3, WordsIs
<1> QED
  BY <1>3, <1>4, <1>5 DEF n

(* The list of arguments is that of the words, each cut to its field, as   *)
(* many as there is room for.                                              *)
LEMMA ParseIs ==
    ASSUME NEW s \in Seq(Keys), NEW room \in Nat
    PROVE  /\ basic_os_parse_command(s, room) \in Seq(Seq(Keys))
           /\ Len(basic_os_parse_command(s, room)) =
                IF Cardinality(Starts(s)) <= room THEN Cardinality(Starts(s)) ELSE room
           /\ \A k \in 1 .. Len(basic_os_parse_command(s, room)) :
                basic_os_parse_command(s, room)[k] = strncpy(Words(s)[k], ArgSize)
<1> DEFINE C == Cardinality(Starts(s))
<1>1. PICK g : /\ g[0] = [args |-> <<>>, sp |-> 1]
               /\ \A n \in 1 .. room : g[n] = ParseStep(s, g[n - 1])
               /\ \A n \in 0 .. room : g[n] \in Parsed(s)
               /\ basic_os_parse_command(s, room) = g[room].args
  BY ParseRun
<1>2. C \in Nat
  BY StartsFinite
<1> DEFINE A(n) == g[n].args
           W(k) == strncpy(Words(s)[k], ArgSize)
           Good(n) == /\ A(n) \in Seq(Seq(Keys)) /\ Len(A(n)) <= n /\ Len(A(n)) <= C
                      /\ g[n].sp # 0 => Len(A(n)) = n /\ Before(s, g[n].sp) = n
                      /\ g[n].sp = 0 => Len(A(n)) = C
                      /\ \A k \in 1 .. Len(A(n)) : A(n)[k] = W(k)
           S == {n \in Nat : n <= room => Good(n)}
<1>3. 0 \in S
  <2>1. A(0) = <<>> /\ g[0].sp = 1
    BY <1>1
  <2>2. {j \in Starts(s) : j < 1} = {}
    BY StartsFinite, LenProperties
  <2>3. Before(s, 1) = 0
    BY <2>2, FS_EmptySet DEF Before
  <2> DEFINE a == A(0)
             b == g[0].sp
  <2>4. a \in Seq(Seq(Keys)) /\ Len(a) = 0 /\ b = 1 /\ Before(s, b) = 0
    BY <2>1, <2>3
  <2> HIDE DEF a, b, C, W
  <2>5. /\ a \in Seq(Seq(Keys)) /\ Len(a) <= 0 /\ Len(a) <= C
        /\ b # 0 => Len(a) = 0 /\ Before(s, b) = 0
        /\ b = 0 => Len(a) = C
        /\ \A k \in 1 .. Len(a) : a[k] = W(k)
    BY <1>2, <2>4
  <2> QED
    BY <2>5 DEF a, b
<1>4. ASSUME NEW n \in Nat, n \in S PROVE n + 1 \in S
  <2> SUFFICES ASSUME n + 1 <= room PROVE Good(n + 1)
    OBVIOUS
  <2>1. n + 1 \in 1 .. room /\ (n + 1) - 1 = n /\ n <= room /\ n \in 0 .. room
    OBVIOUS
  <2> DEFINE m == g[n]
             u == g[n + 1]
  <2>2. u = ParseStep(s, m) /\ m \in Parsed(s)
    BY <1>1, <2>1
  <2>3. Good(n)
    BY <1>4, <2>1
  <2>4. m.args \in Seq(Seq(Keys)) /\ Len(m.args) \in Nat /\ Len(m.args) <= n /\ Len(m.args) <= C
    BY <2>3, LenProperties
  <2>5. ASSUME u = [args |-> m.args, sp |-> 0], m.sp = 0 \/ Before(s, m.sp) = C
        PROVE  Good(n + 1)
    <3>1. u.args = m.args /\ u.sp = 0
      BY <2>5
    <3>2. Len(m.args) = C
      BY <2>3, <2>5
    <3>3. Len(m.args) <= n + 1
      BY <2>4
    <3> HIDE DEF u, m, W, C
    <3>4. /\ u.args \in Seq(Seq(Keys)) /\ Len(u.args) <= n + 1 /\ Len(u.args) <= C
          /\ u.sp = 0 /\ Len(u.args) = C
      BY <2>4, <3>1, <3>2, <3>3
    <3>5. \A k \in 1 .. Len(u.args) : u.args[k] = W(k)
      BY <2>3, <3>1 DEF m
    <3> QED
      BY <3>4, <3>5 DEF u
  <2>6. ASSUME NEW p \in Starts(s), NEW q \in 1 .. Len(s) + 1, NEW w \in Seq(Keys),
               w = strncpy(SubSeq(s, p, EndOf(s, p)), ArgSize),
               u = [args |-> Append(m.args, w), sp |-> q],
               m.sp # 0, Rank(s, p) = Before(s, m.sp) + 1, Before(s, q) = Before(s, m.sp) + 1
        PROVE  Good(n + 1)
    <3>1. u.args = Append(m.args, w) /\ u.sp = q /\ q # 0
      <4>1. q # 0
        BY LenProperties
      <4> HIDE DEF u, m
      <4> QED
        BY <2>6, <4>1
    <3>2. Len(m.args) = n /\ Before(s, m.sp) = n
      BY <2>3, <2>6
    <3>3. Rank(s, p) = n + 1 /\ Before(s, q) = n + 1
      BY <2>6, <3>2
    <3>4. n + 1 \in 1 .. C /\ Words(s)[n + 1] = SubSeq(s, p, EndOf(s, p))
      <4>1. Rank(s, p) >= 1
        BY <3>3
      <4> HIDE DEF C
      <4> QED
        BY <3>3, <4>1, WordAt DEF C
    <3>5. w = W(n + 1)
      BY <2>6, <3>4
    <3>6. \A k \in 1 .. Len(m.args) : m.args[k] = W(k)
      BY <2>3
    <3> DEFINE a == m.args
               b == u.args
    <3>7. a \in Seq(Seq(Keys)) /\ Len(a) = n /\ b = Append(a, w)
      BY <2>4, <3>1, <3>2
    <3> HIDE DEF a, b, W, C
    <3>8. /\ b \in Seq(Seq(Keys)) /\ Len(b) = n + 1 /\ b[n + 1] = w
          /\ \A k \in 1 .. n : b[k] = a[k]
      BY <3>7, AppendProperties
    <3>9. \A k \in 1 .. n + 1 : b[k] = W(k)
      <4> SUFFICES ASSUME NEW k \in 1 .. n + 1 PROVE b[k] = W(k)
        OBVIOUS
      <4>1. CASE k = n + 1
        BY <3>5, <3>8, <4>1
      <4>2. CASE k # n + 1
        <5>1. k \in 1 .. n
          BY <4>2
        <5>2. a[k] = W(k)
          BY <3>6, <3>7, <5>1 DEF a
        <5> QED
          BY <3>8, <5>1, <5>2
      <4> QED
        BY <4>1, <4>2
    <3>10. n + 1 <= C
      BY <1>2, <3>4
    <3> HIDE DEF u
    <3>11. /\ b \in Seq(Seq(Keys)) /\ Len(b) <= n + 1 /\ Len(b) <= C
           /\ u.sp # 0 => Len(b) = n + 1 /\ Before(s, u.sp) = n + 1
           /\ u.sp = 0 => Len(b) = C
           /\ \A k \in 1 .. Len(b) : b[k] = W(k)
      BY <3>1, <3>3, <3>8, <3>9, <3>10
    <3> QED
      BY <3>11 DEF b, u
  <2>7. \/ u = [args |-> m.args, sp |-> 0] /\ (m.sp = 0 \/ Before(s, m.sp) = C)
        \/ \E p \in Starts(s), q \in 1 .. Len(s) + 1 :
                 /\ u = [args |-> Append(m.args, strncpy(SubSeq(s, p, EndOf(s, p)), ArgSize)), sp |-> q]
                 /\ strncpy(SubSeq(s, p, EndOf(s, p)), ArgSize) \in Seq(Keys)
                 /\ m.sp # 0 /\ Rank(s, p) = Before(s, m.sp) + 1
                 /\ Before(s, q) = Before(s, m.sp) + 1
    <3> HIDE DEF u, m
    <3> QED
      BY <2>2, ParseStepIs
  <2> HIDE DEF Good, u, m, C
  <2>8. CASE u = [args |-> m.args, sp |-> 0] /\ (m.sp = 0 \/ Before(s, m.sp) = C)
    BY <2>5, <2>8
  <2>9. CASE ~ (u = [args |-> m.args, sp |-> 0] /\ (m.sp = 0 \/ Before(s, m.sp) = C))
    <3>1. PICK p \in Starts(s), q \in 1 .. Len(s) + 1 :
                 /\ u = [args |-> Append(m.args, strncpy(SubSeq(s, p, EndOf(s, p)), ArgSize)), sp |-> q]
                 /\ strncpy(SubSeq(s, p, EndOf(s, p)), ArgSize) \in Seq(Keys)
                 /\ m.sp # 0 /\ Rank(s, p) = Before(s, m.sp) + 1
                 /\ Before(s, q) = Before(s, m.sp) + 1
      BY <2>7, <2>9, Zenon
    <3> DEFINE w == strncpy(SubSeq(s, p, EndOf(s, p)), ArgSize)
    <3>2. w \in Seq(Keys) /\ u = [args |-> Append(m.args, w), sp |-> q]
      BY <3>1
    <3> QED
      BY <2>6, <3>1, <3>2
  <2> QED
    BY <2>8, <2>9
<1>5. Good(room)
  <2>1. \A n \in Nat : n \in S
    <3> HIDE DEF S
    <3> QED
      BY <1>3, <1>4, SetInduction
  <2>2. room \in S
    BY <2>1
  <2> HIDE DEF Good
  <2> QED
    BY <2>2
<1> DEFINE r == A(room)
<1>6. /\ r \in Seq(Seq(Keys)) /\ Len(r) \in Nat /\ Len(r) <= room /\ Len(r) <= C
      /\ Len(r) = room \/ Len(r) = C
      /\ \A k \in 1 .. Len(r) : r[k] = W(k)
  BY <1>5, LenProperties
<1>7. r = basic_os_parse_command(s, room)
  BY <1>1
<1> HIDE DEF r, C
<1>8. Len(r) = IF C <= room THEN C ELSE room
  BY <1>2, <1>6
<1> QED
  BY <1>6, <1>7, <1>8 DEF C


----------------------------------------------------------------------------
(* The inductive invariant.  Types, the screen among them.                 *)
Typed ==
    /\ T \in Screens
    /\ pc \in {"prompt", "read"}
    /\ line \in Seq(Keys) /\ Len(line) <= MaxLine - 1
    /\ used \in 0 .. MaxAllocations
    /\ start \in Nat /\ plain \in BOOLEAN /\ tidy \in BOOLEAN

(* The line and the screen: while keys are read the buffer is not full;    *)
(* while a child runs nothing is typed; the cursor is behind the line,     *)
(* which is on the screen as far as the screen goes, even when the cursor  *)
(* has left it; and behind the cursor there is nothing.                    *)
ShownAt(t, s, from) ==
    /\ Offset(t) = from + Len(s)
    /\ \A i \in 1 .. Len(s) : from + i - 1 \in Cells => t.cells[from + i - 1] = s[i]

LineShown ==
    /\ pc = "read" => Len(line) < MaxLine - 1
    /\ (pc = "read" /\ child # None) => line = <<>>
    /\ (pc = "read" /\ child = None /\ plain) => ShownAt(T, line, start)
    /\ tidy => NothingBehind(T)

(* The last command is one the shell has parsed.                           *)
Ran(l) ==
    /\ l.line \in Seq(Keys) /\ l.room \in 0 .. MaxAllocations
    /\ LET args == basic_os_parse_command(l.line, l.room)
       IN  /\ l.started = (args # <<>> /\ args[1] \in Programs)
           /\ l.argv = IF l.started THEN process_inject_arguments(args) ELSE <<>>

CommandParsed == last = Nothing \/ Ran(last)

IInv == Typed /\ LineShown /\ CommandParsed

----------------------------------------------------------------------------
(* Two characters as a string.                                             *)
LEMMA TwoChars ==
    ASSUME NEW a \in Chars \ {CR}, NEW b \in Chars \ {CR}
    PROVE  <<a, b>> \in Seq(Chars) /\ CR \notin ToSet(<<a, b>>)
<1>1. <<a, b>> \in Seq(Chars)
  OBVIOUS
<1>2. \A i \in DOMAIN <<a, b>> : <<a, b>>[i] # CR
  OBVIOUS
<1> DEFINE s == <<a, b>>
<1> HIDE DEF s
<1>3. CR \notin ToSet(s)
  BY <1>2 DEF ToSet, s
<1> QED
  BY <1>1, <1>3 DEF s

(* The screen that was cleared.                                            *)
LEMMA ClearIs == terminal_clear \in Screens /\ NothingBehind(terminal_clear)
<1>1. Blank \in Chars /\ 0 \in 0 .. Width
  BY Constants
<1> QED
  BY <1>1 DEF terminal_clear, Screens, NothingBehind, Cells

(* The characters the programs print.                                      *)
LEMMA Printable ==
    /\ {"B", "$", "o", "f", SP, NL} \subseteq Chars \ {CR}
    /\ <<NL>> \in Seq(Chars) /\ CR \notin ToSet(<<NL>>)
<1>1. SP # CR /\ NL # CR
  BY DEF SP, Blank, NL, CR
<1>2. {"B", "$", "o", "f", SP, NL} \subseteq Chars \ {CR}
  BY <1>1, ShellAssumption, Constants DEF SP
<1> DEFINE s == <<NL>>
<1>3. s \in Seq(Chars) /\ \A i \in DOMAIN s : s[i] # CR
  BY <1>1, <1>2
<1> HIDE DEF s
<1>4. CR \notin ToSet(s)
  BY <1>3 DEF ToSet
<1> QED
  BY <1>2, <1>3, <1>4 DEF s

(* What a child prints is no more than a string of o's.                    *)
LEMMA ManyOs ==
    ASSUME NEW n \in Nat
    PROVE  [i \in 1 .. n |-> "o"] \in Seq(Chars) /\ CR \notin ToSet([i \in 1 .. n |-> "o"])
<1> DEFINE s == [i \in 1 .. n |-> "o"]
<1>1. s \in [1 .. n -> Chars] /\ \A i \in DOMAIN s : s[i] # CR
  BY Printable
<1> HIDE DEF s
<1>2. s \in Seq(Chars)
  BY <1>1, FunctionIsSeq
<1>3. CR \notin ToSet(s)
  BY <1>1 DEF ToSet
<1> QED
  BY <1>2, <1>3 DEF s

(* The screen when the shell begins.                                       *)
LEMMA InitIInv ==
    ASSUME Init
    PROVE  IInv
<1> DEFINE t == isr_sys_print(terminal_clear, <<"B", NL>>)
<1>1. T = t /\ start = Offset(T)
  BY DEF Init
<1>2. t \in Screens /\ NothingBehind(t)
  <2>1. <<"B", NL>> \in Seq(Chars) /\ CR \notin ToSet(<<"B", NL>>)
    BY Printable, TwoChars
  <2> QED
    BY <2>1, ClearIs, PrintKeeps
<1> HIDE DEF t
<1>3. start \in Nat
  BY <1>1, <1>2, Turns
<1>4. Typed
  BY <1>1, <1>2, <1>3, ShellConstants DEF Init, Typed
<1>5. LineShown
  BY <1>1, <1>2 DEF Init, LineShown
<1>6. CommandParsed
  BY DEF Init, CommandParsed
<1> QED
  BY <1>4, <1>5, <1>6 DEF IInv

(* The prompt is printed and a line begins.                                *)
LEMMA PromptStep ==
    ASSUME IInv, prompt
    PROVE  IInv'
<1>1. /\ pc' = "read" /\ line' = <<>> /\ plain' = TRUE /\ T' = isr_sys_print(T, <<"$", SP>>)
      /\ start' = Offset(T')
      /\ used' = used /\ child' = child /\ tidy' = tidy /\ last' = last /\ printed' = printed
  BY DEF prompt
<1>2. T' \in Screens /\ (tidy => NothingBehind(T'))
  <2>1. <<"$", SP>> \in Seq(Chars) /\ CR \notin ToSet(<<"$", SP>>)
    BY Printable, TwoChars
  <2> QED
    BY <1>1, <2>1, PrintKeeps DEF IInv, Typed, LineShown
<1>3. Offset(T') \in Nat
  BY <1>2, Turns
<1>4. <<>> \in Seq(Keys) /\ Len(<<>>) = 0 /\ 0 < MaxLine - 1
  BY ShellConstants
<1>5. Typed'
  <2>1. pc' \in {"prompt", "read"} /\ line' \in Seq(Keys) /\ Len(line') <= MaxLine - 1 /\ start' \in Nat
    BY <1>1, <1>3, <1>4, ShellConstants
  <2>2. used' \in 0 .. MaxAllocations /\ plain' \in BOOLEAN /\ tidy' \in BOOLEAN
    BY <1>1 DEF IInv, Typed
  <2> QED
    BY <1>2, <2>1, <2>2 DEF Typed
<1>6. ShownAt(T', line', start')
  BY <1>1, <1>3, <1>4 DEF ShownAt
<1>7. LineShown'
  BY <1>1, <1>2, <1>4, <1>6 DEF LineShown
<1>8. CommandParsed'
  BY <1>1 DEF IInv, CommandParsed, Ran
<1> QED
  BY <1>5, <1>7, <1>8 DEF IInv

(* A child ends, with or without a fault.                                  *)
LEMMA EndsStep ==
    ASSUME IInv, NEW faults \in BOOLEAN, child_ends(faults)
    PROVE  IInv'
<1>1. /\ child # None /\ child' = None
      /\ T' = IF faults THEN terminal_write(terminal_clear, <<"f", NL>>) ELSE T
      /\ tidy' = (tidy \/ faults) /\ start' = Offset(T')
      /\ pc' = pc /\ line' = line /\ used' = used /\ plain' = plain /\ last' = last /\ printed' = printed
  BY DEF child_ends
<1>2. T' \in Screens /\ (tidy' => NothingBehind(T'))
  <2>1. <<"f", NL>> \in Seq(Chars) /\ CR \notin ToSet(<<"f", NL>>)
    BY Printable, TwoChars
  <2>2. CASE faults
    BY <1>1, <2>1, <2>2, ClearIs, WriteKeeps
  <2>3. CASE ~faults
    BY <1>1, <2>3 DEF IInv, Typed, LineShown
  <2> QED
    BY <2>2, <2>3
<1>3. Offset(T') \in Nat
  BY <1>2, Turns
<1>4. Typed'
  BY <1>1, <1>2, <1>3 DEF IInv, Typed
<1>5. pc = "read" => line = <<>>
  BY <1>1 DEF IInv, LineShown
<1>6. pc' = "read" => ShownAt(T', line', start')
  <2>1. Len(<<>>) = 0
    OBVIOUS
  <2> QED
    BY <1>1, <1>3, <1>5, <2>1 DEF ShownAt
<1>7. LineShown'
  BY <1>1, <1>2, <1>6 DEF IInv, LineShown
<1>8. CommandParsed'
  BY <1>1 DEF IInv, CommandParsed, Ran
<1> QED
  BY <1>4, <1>7, <1>8 DEF IInv


(* The length of the message of a child.                                   *)
LEMMA MessageLength ==
    ASSUME NEW size \in Int, size >= 1
    PROVE  Max({size - 1, 0}) = size - 1 /\ size - 1 \in Nat
<1> DEFINE S == {size - 1, 0}
<1>1. size - 1 \in S /\ \A y \in S : size - 1 >= y
  OBVIOUS
<1> HIDE DEF S
<1>2. Max(S) \in S /\ \A y \in S : Max(S) >= y
  BY <1>1, Zenon DEF Max
<1> DEFINE x == Max(S)
<1> HIDE DEF x
<1>3. x \in S /\ x >= size - 1
  BY <1>1, <1>2 DEF x
<1>4. x = size - 1
  BY <1>1, <1>3 DEF S
<1> QED
  BY <1>4 DEF x, S

(* What sys_print_ext prints has a length.                                 *)
LEMMA PrintExtIs ==
    ASSUME NEW size \in Int, NEW room \in BOOLEAN
    PROVE  isr_sys_print_ext(size, Max({size - 1, 0}), room).chars \in Nat
<1> DEFINE len == Max({size - 1, 0})
           p == isr_sys_print_ext(size, len, room)
           refused == size <= 0 \/ size > LongPrint \/ (size > Chunk /\ ~room)
           S == {len, size - 1} \cup {q \in 0 .. size - 1 : q % Chunk = Chunk - 1}
<1>1. p = IF refused THEN [res |-> -1, chars |-> 0] ELSE [res |-> 0, chars |-> Min(S)]
  BY DEF isr_sys_print_ext
<1>2. CASE refused
  BY <1>1, <1>2
<1>3. CASE ~refused
  <2>1. len = size - 1 /\ size - 1 \in Nat
    <3>1. size >= 1
      BY <1>3
    <3> QED
      BY <3>1, MessageLength
  <2>2. S \in SUBSET Nat /\ size - 1 \in S
    BY <2>1
  <2> HIDE DEF refused, p, S
  <2>3. Min(S) \in S
    BY <2>2, MinIs
  <2>4. p.chars = Min(S)
    BY <1>1, <1>3
  <2> QED
    BY <2>2, <2>3, <2>4 DEF p
<1> QED
  BY <1>2, <1>3

(* A child prints.                                                         *)
LEMMA PrintsStep ==
    ASSUME IInv, NEW size \in PrintSizes, NEW room \in BOOLEAN, child_prints(size, room)
    PROVE  IInv'
<1> DEFINE p == isr_sys_print_ext(size, Max({size - 1, 0}), room)
           msg == [i \in 1 .. p.chars |-> "o"]
<1>1. /\ child # None /\ T' = terminal_write(T, msg)
      /\ printed' = [size |-> size, res |-> p.res, chars |-> p.chars, calls |-> printed.calls + 1]
      /\ start' = Offset(T')
      /\ pc' = pc /\ line' = line /\ used' = used /\ child' = child /\ plain' = plain
      /\ tidy' = tidy /\ last' = last
  BY DEF child_prints
<1>2. p.chars \in Nat
  <2>1. size \in Int
    BY ShellAssumption
  <2> QED
    BY <2>1, PrintExtIs
<1> HIDE DEF p
<1>3. msg \in Seq(Chars) /\ CR \notin ToSet(msg)
  BY <1>2, ManyOs
<1> HIDE DEF msg
<1>4. T' \in Screens /\ (tidy => NothingBehind(T'))
  BY <1>1, <1>3, WriteKeeps DEF IInv, Typed, LineShown
<1>5. start' \in Nat
  BY <1>1, <1>4, Turns
<1>6. Typed'
  BY <1>1, <1>4, <1>5 DEF IInv, Typed
<1>7. LineShown'
  BY <1>1, <1>4 DEF IInv, LineShown
<1>8. CommandParsed'
  BY <1>1 DEF IInv, CommandParsed, Ran
<1> QED
  BY <1>6, <1>7, <1>8 DEF IInv

----------------------------------------------------------------------------
(* A command ends the line: it is parsed, and the prompt is next.          *)
LEMMA RunStep ==
    ASSUME IInv, NEW t \in Screens, NEW command \in Seq(Keys), Run(command, t)
    PROVE  /\ T' \in Screens /\ (NothingBehind(t) => NothingBehind(T'))
           /\ pc' = "prompt" /\ used' \in 0 .. MaxAllocations /\ CommandParsed'
<1> DEFINE room == MaxAllocations - used
           args == basic_os_parse_command(command, room)
           started == args # <<>> /\ args[1] \in Programs
<1>1. /\ T' = isr_sys_print(t, <<NL>>) /\ pc' = "prompt" /\ used' = used + Len(args)
      /\ last' = [line |-> command, room |-> room, started |-> started,
                  argv |-> IF started THEN process_inject_arguments(args) ELSE <<>>]
  BY DEF Run
<1>2. room \in Nat /\ room \in 0 .. MaxAllocations /\ used \in 0 .. MaxAllocations /\ MaxAllocations \in Nat
  BY ShellConstants DEF IInv, Typed
<1>3. T' \in Screens /\ (NothingBehind(t) => NothingBehind(T'))
  BY <1>1, Printable, PrintKeeps
<1>4. used' \in 0 .. MaxAllocations
  <2> DEFINE C == Cardinality(Starts(command))
             n == Len(args)
  <2>1. C \in Nat /\ n = IF C <= room THEN C ELSE room
    <3> HIDE DEF room
    <3> QED
      BY <1>2, StartsFinite, ParseIs
  <2>2. used' = used + n
    BY <1>1
  <2> HIDE DEF C, n
  <2> QED
    BY <1>2, <2>1, <2>2
<1>5. Ran(last)'
  <2> DEFINE argv == IF started THEN process_inject_arguments(args) ELSE <<>>
             l == [line |-> command, room |-> room, started |-> started, argv |-> argv]
  <2>1. l.line = command /\ l.room = room /\ l.started = started /\ l.argv = argv
    BY Zenon
  <2> HIDE DEF l
  <2>2. last' = l
    BY <1>1 DEF l
  <2>3. /\ l.line \in Seq(Keys) /\ l.room \in 0 .. MaxAllocations
        /\ basic_os_parse_command(l.line, l.room) = args
    <3> HIDE DEF args, started, argv
    <3>1. l.line = command /\ l.room = room
      BY <2>1
    <3> HIDE DEF room
    <3> QED
      BY <1>2, <3>1 DEF args
  <2>4. /\ l.started = (args # <<>> /\ args[1] \in Programs)
        /\ l.argv = IF l.started THEN process_inject_arguments(args) ELSE <<>>
    <3> HIDE DEF args, room
    <3> QED
      BY <2>1, Zenon
  <2>5. Ran(l)
    <3> HIDE DEF args, room
    <3> QED
      BY <2>3, <2>4, Zenon DEF Ran
  <2> QED
    BY <2>2, <2>5
<1> QED
  BY <1>1, <1>3, <1>4, <1>5 DEF CommandParsed


(* The buffer after a key is a line of keys, one longer at the most.       *)
LEMMA EditIs ==
    ASSUME NEW s \in Seq(Keys), NEW key \in Keys
    PROVE  /\ Edit(s, key) \in Seq(Keys)
           /\ Len(Edit(s, key)) <= Len(s) + 1
           /\ (key = BS /\ s # <<>>) => /\ Len(Edit(s, key)) = Len(s) - 1
                                        /\ \A i \in 1 .. Len(s) - 1 : Edit(s, key)[i] = s[i]
           /\ key # BS => /\ Len(Edit(s, key)) = Len(s) + 1 /\ Edit(s, key)[Len(s) + 1] = key
                          /\ \A i \in 1 .. Len(s) : Edit(s, key)[i] = s[i]
<1> DEFINE e == Edit(s, key)
<1>1. Len(s) \in Nat /\ \A i \in 1 .. Len(s) : s[i] \in Keys
  BY LenProperties
<1>2. CASE key = BS /\ s # <<>>
  <2> DEFINE c == Len(s) - 1
  <2>1. e = SubSeq(s, 1, c)
    BY <1>2 DEF Edit, Front
  <2>2. Len(s) # 0
    BY <1>2
  <2>3. c \in Nat /\ c \in Int /\ 1 \in Int /\ \A i \in 1 .. c : i \in 1 .. Len(s) /\ s[i] \in Keys
    BY <1>1, <2>2
  <2> HIDE DEF e, c
  <2>4. /\ e \in Seq(Keys) /\ Len(e) = (IF 1 <= c THEN c - 1 + 1 ELSE 0)
        /\ \A i \in 1 .. c - 1 + 1 : e[i] = s[1 + i - 1]
    BY <2>1, <2>3, SubSeqProperties
  <2>5. Len(e) = c /\ \A i \in 1 .. c : e[i] = s[i]
    <3>1. \A i \in 1 .. c : i \in 1 .. c - 1 + 1 /\ 1 + i - 1 = i
      BY <2>3
    <3> QED
      BY <2>3, <2>4, <3>1
  <2> QED
    BY <1>1, <1>2, <2>4, <2>5 DEF c, e
<1>3. CASE ~(key = BS /\ s # <<>>)
  <2>1. e = Append(s, key)
    BY <1>3 DEF Edit
  <2> HIDE DEF e
  <2>2. /\ e \in Seq(Keys) /\ Len(e) = Len(s) + 1 /\ e[Len(s) + 1] = key
        /\ \A i \in 1 .. Len(s) : e[i] = s[i]
    BY <2>1, AppendProperties
  <2> QED
    BY <1>1, <1>3, <2>2 DEF e
<1> QED
  BY <1>2, <1>3

(* A letter or a space is shown behind the line.                           *)
LEMMA LetterShown ==
    ASSUME NEW t \in Screens, NEW s \in Seq(Keys), NEW from \in Nat, ShownAt(t, s, from),
           NEW key \in Keys, key \in Plain
    PROVE  ShownAt(terminal_puts(t, key), Edit(s, key), from)
<1> DEFINE u == terminal_puts(t, key)
           e == Edit(s, key)
           n == Len(s)
<1>1. /\ Offset(u) = Offset(t) + 1
      /\ \A o \in Cells : u.cells[o] = IF o = Offset(t) THEN key ELSE t.cells[o]
  BY PlainIsShown
<1>2. /\ n \in Nat /\ Len(e) = n + 1 /\ e[n + 1] = key
      /\ \A i \in 1 .. n : e[i] = s[i]
  BY EditIs, LenProperties DEF Plain
<1>3. Offset(t) = from + n /\ \A i \in 1 .. n : from + i - 1 \in Cells => t.cells[from + i - 1] = s[i]
  BY DEF ShownAt
<1> HIDE DEF u, e, n
<1>4. Offset(u) = from + Len(e)
  BY <1>1, <1>2, <1>3
<1>5. ASSUME NEW i \in 1 .. Len(e), from + i - 1 \in Cells PROVE u.cells[from + i - 1] = e[i]
  <2>1. CASE i = n + 1
    <3>1. from + i - 1 = Offset(t)
      BY <1>2, <1>3, <2>1
    <3> QED
      BY <1>1, <1>2, <1>5, <2>1, <3>1
  <2>2. CASE i # n + 1
    <3>1. i \in 1 .. n /\ from + i - 1 # Offset(t)
      BY <1>2, <1>3, <2>2
    <3> QED
      BY <1>1, <1>2, <1>3, <1>5, <3>1
  <2> QED
    BY <2>1, <2>2
<1> QED
  BY <1>4, <1>5 DEF ShownAt, u, e

(* A backspace takes the last character of the line from the screen.       *)
LEMMA BackspaceShown ==
    ASSUME NEW t \in Screens, NEW s \in Seq(Keys), NEW from \in Nat, ShownAt(t, s, from),
           s # <<>>, Len(s) < MaxLine
    PROVE  ShownAt(terminal_puts(t, BS), Edit(s, BS), from)
<1> DEFINE v == Left(t)
           u == terminal_backspace(v)
           e == Edit(s, BS)
           n == Len(s)
           off == Offset(t)
<1>1. BS \in Keys /\ BS \in Chars
  BY Constants DEF Keys
<1>2. terminal_puts(t, BS) = u
  BY <1>1, PutsIs
<1>3. v \in Screens /\ v.x \in 0 .. Width - 1 /\ Offset(v) = off /\ v.cells = t.cells
  BY Turns DEF Left
<1>4. n \in Nat /\ n # 0 /\ Len(e) = n - 1 /\ \A i \in 1 .. n - 1 : e[i] = s[i]
  <2>1. n \in Nat /\ n # 0
    BY LenProperties
  <2> QED
    BY <1>1, <2>1, EditIs
<1>5. off = from + n /\ \A i \in 1 .. n : from + i - 1 \in Cells => t.cells[from + i - 1] = s[i]
  BY DEF ShownAt
<1> HIDE DEF v, e, n, off
<1>6. Offset(v) > 0
  BY <1>3, <1>4, <1>5
<1>7. /\ Offset(u) = off - 1
      /\ v.y < 256 => \A o \in Cells : o < off - 1 => u.cells[o] = t.cells[o]
  BY <1>3, <1>6, BackspaceIs
<1> HIDE DEF u
<1>8. Offset(u) = from + Len(e)
  BY <1>4, <1>5, <1>7
<1>9. ASSUME NEW i \in 1 .. Len(e), from + i - 1 \in Cells PROVE u.cells[from + i - 1] = e[i]
  <2> DEFINE o == from + i - 1
             a == Width * Height
             b == (255 - Height) * Width
  <2>1. i \in 1 .. n - 1 /\ i \in 1 .. n /\ o < off - 1
    BY <1>4, <1>5
  <2>2. a + b = 255 * Width /\ a \in Nat /\ b \in Int /\ 255 * Width \in Nat
    <3>1. Width \in Nat /\ Height \in Nat
      BY Constants
    <3> QED
      BY <3>1
  <2>3. o <= a - 1
    BY <1>9, <2>2 DEF Cells
  <2>4. n < MaxLine /\ MaxLine <= b /\ MaxLine \in Nat
    BY ShellAssumption DEF n
  <2>5. Offset(v) <= 255 * Width
    <3> HIDE DEF a, b
    <3>1. o = from + i - 1 /\ o \in Int
      OBVIOUS
    <3> HIDE DEF o
    <3> QED
      BY <1>3, <1>4, <1>5, <2>1, <2>2, <2>3, <2>4, <3>1
  <2>6. v.y < 256
    BY <1>3, <2>5, RowFits
  <2>7. u.cells[o] = t.cells[o]
    BY <1>7, <1>9, <2>1, <2>6
  <2> QED
    BY <1>4, <1>5, <1>9, <2>1, <2>7
<1> QED
  BY <1>2, <1>8, <1>9 DEF ShownAt, e


(* The echo of a key, and the bytes behind it.                             *)
LEMMA EchoKeeps ==
    ASSUME NEW t \in Screens, NEW key \in Keys \ {ENTER}, NEW junk \in Junk
    PROVE  /\ sys_putchar(t, key, junk) \in Screens
           /\ (CR \notin ToSet(junk) /\ NothingBehind(t)) => NothingBehind(sys_putchar(t, key, junk))
           /\ junk = <<>> => sys_putchar(t, key, junk) = terminal_puts(t, key)
<1> DEFINE k == <<key>>
           str == k \o junk
<1>1. key \in Chars /\ key # CR
  BY ShellConstants DEF ENTER
<1>2. k \in Seq(Chars) /\ Len(k) = 1 /\ k[1] = key
  BY <1>1
<1>3. junk \in Seq(Chars) /\ Len(junk) \in Nat /\ DOMAIN junk = 1 .. Len(junk)
  BY TerminalAssumption, LenProperties
<1> HIDE DEF k
<1>4. /\ str \in Seq(Chars) /\ Len(str) = Len(k) + Len(junk)
      /\ \A i \in 1 .. Len(k) : str[i] = k[i]
      /\ \A i \in Len(k) + 1 .. Len(k) + Len(junk) : str[i] = junk[i - Len(k)]
  BY <1>2, <1>3, ConcatAt
<1>5. sys_putchar(t, key, junk) = terminal_write(t, str)
  BY DEF sys_putchar, k
<1>6. junk = <<>> => str = k
  BY <1>2
<1> HIDE DEF str
<1>7. CR \notin ToSet(junk) => CR \notin ToSet(str)
  <2> SUFFICES ASSUME CR \in ToSet(str) PROVE CR \in ToSet(junk)
    OBVIOUS
  <2>1. PICK i \in DOMAIN str : str[i] = CR
    BY DEF ToSet
  <2>2. i \in 1 .. Len(str)
    BY <1>4, LenProperties
  <2>3. i # 1
    BY <1>1, <1>2, <1>4, <2>1
  <2>4. i \in Len(k) + 1 .. Len(k) + Len(junk) /\ i - 1 \in DOMAIN junk
    BY <1>2, <1>3, <1>4, <2>2, <2>3
  <2>5. junk[i - 1] = CR
    BY <1>2, <1>4, <2>1, <2>4
  <2> QED
    BY <2>4, <2>5 DEF ToSet
<1>8. junk = <<>> => terminal_write(t, str) = terminal_puts(t, key)
  BY <1>1, <1>6, WriteOne DEF k
<1> QED
  BY <1>4, <1>5, <1>7, <1>8, WriteKeeps

(* A key is read.                                                          *)
LEMMA ReadStep ==
    ASSUME IInv, NEW key \in Keys, NEW junk, junk \in Junk \/ junk = <<>>, key = ENTER \/ junk \in Junk,
           terminal_readline(key, junk)
    PROVE  IInv'
<1> DEFINE echoed == IF key = ENTER THEN T ELSE sys_putchar(T, key, junk)
           now == IF key = ENTER THEN line ELSE Edit(line, key)
           stays == plain /\ junk = <<>> /\ key # TAB /\ ~(key = BS /\ line = <<>>)
           neat == tidy /\ CR \notin ToSet(junk)
           ends == key = ENTER \/ Len(now) = MaxLine - 1
<1>1. /\ pc = "read" /\ child = None /\ line' = now /\ plain' = stays /\ tidy' = neat
      /\ IF ends THEN Run(now, echoed)
         ELSE T' = echoed /\ pc' = pc /\ used' = used /\ child' = child /\ last' = last
      /\ start' = start /\ printed' = printed
  BY DEF terminal_readline
<1>2. /\ T \in Screens /\ line \in Seq(Keys) /\ Len(line) \in Nat /\ Len(line) < MaxLine - 1
      /\ start \in Nat /\ used \in 0 .. MaxAllocations
      /\ tidy => NothingBehind(T)
      /\ plain => ShownAt(T, line, start)
      /\ plain \in BOOLEAN /\ tidy \in BOOLEAN
  BY <1>1, LenProperties DEF IInv, Typed, LineShown
<1>3. MaxLine \in Nat
  BY ShellConstants
<1>4. key # ENTER => junk \in Junk
  OBVIOUS
<1>5. echoed \in Screens /\ (neat => NothingBehind(echoed))
  <2>1. CASE key = ENTER
    BY <1>2, <2>1
  <2>2. CASE key # ENTER
    BY <1>2, <1>4, <2>2, EchoKeeps
  <2> QED
    BY <2>1, <2>2
<1>6. now \in Seq(Keys) /\ Len(now) \in Nat /\ Len(now) <= Len(line) + 1
  <2>1. CASE key = ENTER
    BY <1>2, <2>1
  <2>2. CASE key # ENTER
    BY <1>2, <2>2, EditIs, LenProperties
  <2> QED
    BY <2>1, <2>2
<1>7. (key # ENTER /\ stays) => ShownAt(echoed, now, start)
  <2> SUFFICES ASSUME key # ENTER, stays PROVE ShownAt(echoed, now, start)
    OBVIOUS
  <2>1. echoed = terminal_puts(T, key) /\ now = Edit(line, key)
    BY <1>2, <1>4, EchoKeeps
  <2>2. ShownAt(T, line, start)
    BY <1>2
  <2>3. CASE key = BS
    BY <1>2, <1>3, <2>1, <2>2, <2>3, BackspaceShown
  <2>4. CASE key # BS
    <3>1. key \in Letters \cup {SP}
      BY <2>4 DEF Keys
    <3>2. key \in Plain
      BY <3>1, ShellConstants
    <3> QED
      BY <1>2, <2>1, <2>2, <3>2, LetterShown
  <2> QED
    BY <2>3, <2>4
<1>8. stays \in BOOLEAN /\ neat \in BOOLEAN
  BY <1>2
<1> HIDE DEF echoed, now, stays, neat, ends
<1>9. line' \in Seq(Keys) /\ Len(line') <= MaxLine - 1 /\ start' \in Nat /\ plain' \in BOOLEAN /\ tidy' \in BOOLEAN
  BY <1>1, <1>2, <1>3, <1>6, <1>8
<1>10. CASE ends
  <2>1. Run(now, echoed)
    BY <1>1, <1>10
  <2>2. /\ T' \in Screens /\ (NothingBehind(echoed) => NothingBehind(T'))
        /\ pc' = "prompt" /\ used' \in 0 .. MaxAllocations /\ CommandParsed'
    BY <1>5, <1>6, <2>1, RunStep
  <2>3. Typed'
    BY <1>9, <2>2 DEF Typed
  <2>4. LineShown'
    BY <1>1, <1>5, <2>2 DEF LineShown
  <2> QED
    BY <2>2, <2>3, <2>4 DEF IInv
<1>11. CASE ~ends
  <2>1. T' = echoed /\ pc' = "read" /\ used' = used /\ child' = None /\ last' = last
    BY <1>1, <1>11
  <2>2. key # ENTER /\ Len(now) # MaxLine - 1
    BY <1>11 DEF ends
  <2>3. Typed'
    BY <1>2, <1>5, <1>9, <2>1 DEF Typed
  <2>4. Len(line') < MaxLine - 1
    BY <1>1, <1>2, <1>3, <1>6, <2>2
  <2>5. LineShown'
    BY <1>1, <1>5, <1>7, <2>1, <2>2, <2>4 DEF LineShown
  <2>6. CommandParsed'
    BY <2>1 DEF IInv, CommandParsed, Ran
  <2> QED
    BY <2>3, <2>5, <2>6 DEF IInv
<1> QED
  BY <1>10, <1>11

(* Nothing changes.                                                        *)
LEMMA StutterStep ==
    ASSUME IInv, UNCHANGED vars
    PROVE  IInv'
BY DEF IInv, Typed, LineShown, CommandParsed, Ran, vars, ShownAt, NothingBehind, Offset

(* Every step of the shell keeps the invariant.                            *)
LEMMA NextIInv ==
    ASSUME IInv, [Next]_vars
    PROVE  IInv'
<1>1. CASE prompt
  BY <1>1, PromptStep
<1>2. ASSUME NEW key \in Keys \ {ENTER}, NEW junk \in Junk, terminal_readline(key, junk)
      PROVE  IInv'
  BY <1>2, ReadStep
<1>3. CASE terminal_readline(ENTER, <<>>)
  <2>1. ENTER \in Keys
    BY DEF Keys
  <2> QED
    BY <1>3, <2>1, ReadStep
<1>4. ASSUME NEW size \in PrintSizes, NEW room \in BOOLEAN, child_prints(size, room)
      PROVE  IInv'
  BY <1>4, PrintsStep
<1>5. ASSUME NEW faults \in BOOLEAN, child_ends(faults)
      PROVE  IInv'
  BY <1>5, EndsStep
<1>6. CASE UNCHANGED vars
  BY <1>6, StutterStep
<1> QED
  BY <1>1, <1>2, <1>3, <1>4, <1>5, <1>6 DEF Next

(* The invariant shows that the line is on the screen.                     *)
LEMMA IInvShows ==
    ASSUME IInv
    PROVE  LineOnScreen
<1>1. TypeOK
  BY DEF IInv, Typed, TypeOK, Screens
<1>2. SUFFICES ASSUME pc = "read", child = None, plain, T.y < Height
      PROVE  /\ \A i \in DOMAIN line : T.cells[start + i - 1] = line[i]
             /\ Offset(T) = start + Len(line)
             /\ tidy => \A o \in Offset(T) .. Width * Height - 1 : T.cells[o] = Blank
  BY <1>1 DEF LineOnScreen
<1> DEFINE off == Offset(T)
           a == Width * Height
<1>3. /\ off = start + Len(line)
      /\ \A i \in 1 .. Len(line) : start + i - 1 \in Cells => T.cells[start + i - 1] = line[i]
      /\ tidy => \A o \in Cells : o >= off => T.cells[o] = Blank
      /\ DOMAIN line = 1 .. Len(line) /\ Len(line) \in Nat /\ start \in Nat
  BY <1>2, LenProperties DEF IInv, Typed, LineShown, ShownAt, NothingBehind
<1>4. off <= a /\ a \in Nat
  <2>1. T.x \in 0 .. Width /\ T.y \in Nat /\ Width \in Nat \ {0} /\ Height \in Nat /\ a \in Nat
    BY Constants DEF IInv, Typed, Screens
  <2>2. Width * T.y + Width <= Width * Height
    BY <1>2, <2>1, TimesMonotonic
  <2>3. off = Width * T.y + T.x
    BY <2>1 DEF Offset
  <2> HIDE DEF off
  <2>4. Width * T.y \in Int
    BY <2>1
  <2> QED
    BY <2>1, <2>2, <2>3, <2>4
<1>5. Cells = 0 .. a - 1
  BY DEF Cells
<1> HIDE DEF off, a
<1>6. \A i \in 1 .. Len(line) : start + i - 1 \in Cells
  BY <1>3, <1>4, <1>5
<1>7. \A o \in off .. a - 1 : o \in Cells /\ o >= off
  BY <1>3, <1>5
<1> QED
  BY <1>3, <1>6, <1>7 DEF off, a

(* Before the first command there were no words.                           *)
LEMMA NothingRan == Ran(Nothing)
<1> DEFINE args == basic_os_parse_command(<<>>, 0)
<1>1. /\ Nothing.line = <<>> /\ Nothing.room = 0 /\ Nothing.started = FALSE /\ Nothing.argv = <<>>
  BY DEF Nothing
<1>2. <<>> \in Seq(Keys) /\ 0 \in Nat /\ 0 \in 0 .. MaxAllocations
  BY ShellConstants
<1>3. args \in Seq(Seq(Keys)) /\ Len(args) = 0
  <2> DEFINE C == Cardinality(Starts(<<>>))
  <2>1. C \in Nat
    BY <1>2, StartsFinite
  <2>2. args \in Seq(Seq(Keys)) /\ Len(args) = IF C <= 0 THEN C ELSE 0
    BY <1>2, ParseIs
  <2> HIDE DEF args, C
  <2> QED
    BY <2>1, <2>2
<1>4. args = <<>>
  <2> HIDE DEF args
  <2> QED
    BY <1>3
<1> HIDE DEF args
<1>5. basic_os_parse_command(Nothing.line, Nothing.room) = <<>>
  BY <1>1, <1>4 DEF args
<1> QED
  BY <1>1, <1>2, <1>5 DEF Ran

(* The invariant shows that a program gets the words of its line.          *)
LEMMA IInvTokens ==
    ASSUME IInv
    PROVE  ArgvIsTokens
<1> DEFINE s == last.line
           C == Cardinality(Starts(s))
           w == Words(s)
           K == Min({last.room, Len(w)})
           cut == [n \in 1 .. K |-> strncpy(w[n], ArgSize)]
           args == basic_os_parse_command(s, last.room)
<1>1. /\ s \in Seq(Keys) /\ last.room \in Nat
      /\ last.started = (args # <<>> /\ args[1] \in Programs)
      /\ last.argv = IF last.started THEN process_inject_arguments(args) ELSE <<>>
  <2>1. Ran(last)
    BY NothingRan DEF IInv, CommandParsed
  <2> QED
    BY <2>1 DEF Ran
<1>2. C \in Nat
  BY <1>1, StartsFinite
<1>3. Len(w) = C
  <2> DEFINE E(n) == SubSeq(s, StartOf(s, n), EndOf(s, StartOf(s, n)))
             X == {E(n) : n \in 1 .. C}
  <2>1. w = [n \in 1 .. C |-> E(n)]
    BY WordsIs
  <2> HIDE DEF w, C, E
  <2>2. w \in [1 .. C -> X] /\ DOMAIN w = 1 .. C
    BY <2>1
  <2> HIDE DEF X
  <2> QED
    BY <1>2, <2>2, FunctionIsSeq
<1>4. /\ args \in Seq(Seq(Keys)) /\ Len(args) = IF C <= last.room THEN C ELSE last.room
      /\ \A k \in 1 .. Len(args) : args[k] = strncpy(w[k], ArgSize)
  BY <1>1, ParseIs
<1> HIDE DEF args, w, C
<1>5. Len(args) = K
  <2> DEFINE S == {last.room, Len(w)}
  <2>1. S \in SUBSET Nat /\ last.room \in S /\ Len(w) \in S
    BY <1>1, <1>2, <1>3
  <2> DEFINE m == Min(S)
  <2>2. m \in S /\ \A y \in S : m <= y
    <3> HIDE DEF S
    <3> QED
      BY <2>1, MinIs
  <2> HIDE DEF m
  <2>3. m <= last.room /\ m <= C /\ m \in {last.room, C}
    BY <1>3, <2>1, <2>2
  <2>4. Len(args) = m
    BY <1>1, <1>2, <1>4, <2>3
  <2> QED
    BY <2>4 DEF m
<1> HIDE DEF K
<1>6. args = cut
  <2>1. DOMAIN args = 1 .. K
    BY <1>4, <1>5, LenProperties
  <2>2. \A k \in 1 .. K : args[k] = strncpy(w[k], ArgSize)
    BY <1>4, <1>5
  <2>3. args = [k \in 1 .. K |-> args[k]]
    BY <1>4, <2>1, LenProperties
  <2> QED
    BY <2>2, <2>3
<1> HIDE DEF cut
<1>7. Len(args) + 1 > MaxAllocations <=> ~(Len(args) < MaxAllocations)
  <2>1. Len(args) \in Nat
    BY <1>4, LenProperties
  <2> QED
    BY <2>1, ShellConstants
<1>8. /\ last.started = (cut # <<>> /\ cut[1] \in Programs)
      /\ last.argv = IF last.started /\ Len(cut) < MaxAllocations THEN cut ELSE <<>>
  BY <1>1, <1>6, <1>7 DEF process_inject_arguments
<1> QED
  BY <1>8 DEF ArgvIsTokens, cut, K, w

----------------------------------------------------------------------------
(* The invariant holds always.                                             *)
THEOREM ShellInvariant == Spec => []IInv
<1>1. Init => IInv
  BY InitIInv
<1>2. IInv /\ [Next]_vars => IInv'
  BY NextIInv
<1> QED
  BY <1>1, <1>2, PTL DEF Spec

(* On every screen, for every line and however children print and end,     *)
(* what is typed is on the screen where the line began, with nothing       *)
(* behind it (terminal_readline, terminal_puts, terminal_backspace).       *)
THEOREM LinesStayOnScreen == Spec => []LineOnScreen
<1>1. IInv => LineOnScreen
  BY IInvShows
<1> QED
  BY <1>1, ShellInvariant, PTL

(* Whatever the line and however many slots are left, the first words, one *)
(* for each slot, each cut to its field, decide whether a program starts   *)
(* and are the arguments it gets (strtok, basic_os_parse_command,          *)
(* process_inject_arguments).                                              *)
THEOREM ProgramsGetTheirWords == Spec => []ArgvIsTokens
<1>1. IInv => ArgvIsTokens
  BY IInvTokens
<1> QED
  BY <1>1, ShellInvariant, PTL
=============================================================================
