--------------------------- MODULE KeyboardProofs ---------------------------
(***************************************************************************)
(* Proofs about the key buffers: the cells of each buffer match its        *)
(* counters, and the buffers implement a queue of characters per process.  *)
(*                                                                         *)
(* Window is inductive together with the types. The work is arithmetic:    *)
(* head and tail are counters of a fixed width that wrap around, cells are *)
(* found modulo the size of the buffer, and the two agree because the size *)
(* divides the range of the counters.                                      *)
(***************************************************************************)
EXTENDS Keyboard, BasicLemmas

(* The cells for counters that differ by a multiple of the size.           *)
LEMMA ModPlus ==
    ASSUME NEW B \in Nat \ {0}, NEW a \in Nat, NEW m \in Nat, m % B = 0
    PROVE  (a + m) % B = a % B
<1> DEFINE p == a \div B
           q == m \div B
           r == a % B
<1>1. p \in Nat /\ r \in 0 .. B - 1 /\ a = B * p + r
  BY Division
<1>2. q \in Nat /\ m = B * q
  BY Division
<1> HIDE DEF p, q, r
<1>3. a + m = B * (p + q) + r /\ p + q \in Nat
  BY <1>1, <1>2
<1>4. (B * (p + q) + r) % B = r
  BY <1>1, <1>3, DivModOf
<1> QED
  BY <1>3, <1>4 DEF r

(* Fewer than B steps from a counter lead to different cells.              *)
LEMMA ModDistinct ==
    ASSUME NEW B \in Nat \ {0}, NEW h \in Nat, NEW k \in 0 .. B, NEW l \in 0 .. B,
           k < l, (h + k) % B = (h + l) % B
    PROVE  k = 0 /\ l = B
<1> DEFINE p == (h + k) \div B
           q == (h + l) \div B
           r == (h + k) % B
<1>1. p \in Nat /\ q \in Nat /\ h + k = B * p + r /\ h + l = B * q + r /\ r \in 0 .. B - 1
  <2>1. h + k \in Nat /\ h + l \in Nat
    OBVIOUS
  <2>2. p \in Nat /\ r \in 0 .. B - 1 /\ h + k = B * p + r
    BY <2>1, Division
  <2>3. q \in Nat /\ h + l = B * q + ((h + l) % B)
    BY <2>1, Division
  <2>4. (h + l) % B = r
    OBVIOUS
  <2> HIDE DEF p, q, r
  <2> QED
    BY <2>2, <2>3, <2>4
<1> HIDE DEF p, q, r
<1>2. l - k = B * q - B * p
  BY <1>1
<1>3. B * (q - p) = l - k
  BY <1>1, <1>2
<1>4. q - p >= 1
  <2>1. SUFFICES ASSUME q - p <= 0 PROVE FALSE
    BY <1>1
  <2>2. p - q \in Nat
    BY <1>1, <2>1
  <2>3. B * (p - q) >= 0
    BY <2>2
  <2>4. B * (p - q) = k - l
    BY <1>1, <1>2
  <2> QED
    BY <2>3, <2>4
<1>5. B * (q - p - 1) >= 0
  <2>1. q - p - 1 \in Nat
    BY <1>1, <1>4
  <2> QED
    BY <2>1
<1>6. B * (q - p - 1) = l - k - B
  BY <1>1, <1>3
<1> QED
  BY <1>5, <1>6

(* Every cell is reached in fewer than B steps.                            *)
LEMMA ModCovers ==
    ASSUME NEW B \in Nat \ {0}, NEW h \in Nat, NEW i \in 0 .. B - 1
    PROVE  \E k \in 0 .. B - 1 : i = (h + k) % B
<1> DEFINE p == h \div B
           r == h % B
<1>1. p \in Nat /\ r \in 0 .. B - 1 /\ h = B * p + r
  BY Division
<1> HIDE DEF p, r
<1>2. CASE i >= r
  <2>1. i - r \in 0 .. B - 1 /\ h + (i - r) = B * p + i
    BY <1>1, <1>2
  <2>2. (B * p + i) % B = i
    BY <1>1, DivModOf
  <2> QED
    BY <2>1, <2>2
<1>3. CASE i < r
  <2>1. i - r + B \in 0 .. B - 1 /\ h + (i - r + B) = B * (p + 1) + i /\ p + 1 \in Nat
    BY <1>1, <1>3
  <2>2. (B * (p + 1) + i) % B = i
    BY <2>1, DivModOf
  <2> QED
    BY <2>1, <2>2
<1> QED
  BY <1>1, <1>2, <1>3

----------------------------------------------------------------------------
(* The key buffer of a process.                                            *)
Buffer == [buffer : [Cells -> Char \cup {NUL}],
           head : 0 .. CounterRange - 1, tail : 0 .. CounterRange - 1]

(* The window of one buffer.                                               *)
WindowOf(b) ==
    /\ Waiting(b) <= BufferSize
    /\ \A i \in Cells :
          b.buffer[i] # NUL <=> \E k \in 0 .. Waiting(b) - 1 : i = Index(b.head + k)

(* A cell that is empty holds no character.                                *)
LEMMA NulIsNoChar == NUL \notin Char
<1>1. NUL \notin Letters \X {"upper", "lower"} \cup Others \X {"plain"}
  BY DEF NUL
<1>2. NUL # PastByte
  BY DEF NUL, PastByte
<1> QED
  BY <1>1, <1>2 DEF Char

(* The number of keys that wait, with counters that wrap around.           *)
LEMMA WaitingIs ==
    ASSUME NEW h \in 0 .. CounterRange - 1, NEW t \in 0 .. CounterRange - 1
    PROVE  (t + CounterRange - h) % CounterRange =
              IF t >= h THEN t - h ELSE t + CounterRange - h
<1> DEFINE C == CounterRange
<1>1. C \in Nat \ {0}
  BY KeyboardAssumption
<1> HIDE DEF C
<1>2. CASE t >= h
  <2>1. t - h \in 0 .. C - 1 /\ t + C - h = C * 1 + (t - h)
    BY <1>1, <1>2 DEF C
  <2>2. (C * 1 + (t - h)) % C = t - h
    BY <1>1, <2>1, DivModOf
  <2> QED
    BY <1>2, <2>1, <2>2 DEF C
<1>3. CASE t < h
  <2>1. t + C - h \in 0 .. C - 1 /\ t + C - h = C * 0 + (t + C - h)
    BY <1>1, <1>3 DEF C
  <2>2. (C * 0 + (t + C - h)) % C = t + C - h
    BY <1>1, <2>1, DivModOf
  <2> QED
    BY <1>3, <2>1, <2>2 DEF C
<1> QED
  BY <1>1, <1>2, <1>3 DEF C

(* One step of a counter, and the cell it leads to.                        *)
LEMMA StepOf ==
    ASSUME NEW h \in 0 .. CounterRange - 1
    PROVE  /\ (h + 1) % CounterRange = IF h + 1 = CounterRange THEN 0 ELSE h + 1
           /\ (h + 1) % CounterRange \in 0 .. CounterRange - 1
<1> DEFINE C == CounterRange
<1>1. C \in Nat \ {0}
  BY KeyboardAssumption
<1> HIDE DEF C
<1>2. CASE h + 1 = C
  <2>1. (C * 1 + 0) % C = 0 /\ C * 1 + 0 = C
    BY <1>1, DivModOf
  <2> QED
    BY <1>1, <1>2, <2>1 DEF C
<1>3. CASE h + 1 # C
  <2>1. h + 1 \in 0 .. C - 1 /\ h + 1 = C * 0 + (h + 1)
    BY <1>1, <1>3 DEF C
  <2>2. (C * 0 + (h + 1)) % C = h + 1
    BY <1>1, <2>1, DivModOf
  <2> QED
    BY <1>3, <2>1, <2>2 DEF C
<1> QED
  BY <1>2, <1>3 DEF C

(* The cell of a key is the same before and after the head has moved by    *)
(* one, also when the counter wraps around.                                *)
LEMMA CellOfStep ==
    ASSUME NEW h \in 0 .. CounterRange - 1, NEW k \in Nat
    PROVE  Index(((h + 1) % CounterRange) + k) = Index(h + (k + 1))
<1>1. /\ CounterRange \in Nat /\ BufferSize \in Nat \ {0}
      /\ CounterRange % BufferSize = 0 /\ h \in Nat
  BY KeyboardAssumption
<1>2. CASE h + 1 = CounterRange
  <2>1. h + (k + 1) = k + CounterRange /\ (h + 1) % CounterRange = 0
    BY <1>1, <1>2, StepOf
  <2>2. (k + CounterRange) % BufferSize = k % BufferSize
    BY <1>1, ModPlus
  <2> QED
    BY <2>1, <2>2 DEF Index
<1>3. CASE h + 1 # CounterRange
  <2>1. (h + 1) % CounterRange = h + 1 /\ (h + 1) + k = h + (k + 1)
    BY <1>1, <1>3, StepOf
  <2> QED
    BY <2>1 DEF Index
<1> QED
  BY <1>2, <1>3

(* keyboard_get_tail_index and the cell of the head are cells.             *)
LEMMA IndexIsCell ==
    ASSUME NEW a \in Nat
    PROVE  Index(a) \in Cells
BY KeyboardAssumption, Division DEF Index, Cells

(* What the counters of a buffer say.                                      *)
LEMMA Counters ==
    ASSUME NEW b \in Buffer
    PROVE  /\ Waiting(b) \in 0 .. CounterRange - 1
           /\ b.tail = IF b.head + Waiting(b) < CounterRange THEN b.head + Waiting(b)
                       ELSE b.head + Waiting(b) - CounterRange
           /\ Index(b.tail) = Index(b.head + Waiting(b))
<1>1. /\ CounterRange \in Nat \ {0} /\ BufferSize \in Nat \ {0}
      /\ CounterRange % BufferSize = 0
      /\ b.head \in 0 .. CounterRange - 1 /\ b.tail \in 0 .. CounterRange - 1
  BY KeyboardAssumption DEF Buffer
<1>2. Waiting(b) = IF b.tail >= b.head THEN b.tail - b.head
                   ELSE b.tail + CounterRange - b.head
  BY <1>1, WaitingIs DEF Waiting
<1>3. /\ Waiting(b) \in 0 .. CounterRange - 1
      /\ b.tail = IF b.head + Waiting(b) < CounterRange THEN b.head + Waiting(b)
                  ELSE b.head + Waiting(b) - CounterRange
  BY <1>1, <1>2
<1>4. CASE b.head + Waiting(b) < CounterRange
  BY <1>3, <1>4
<1>5. CASE b.head + Waiting(b) >= CounterRange
  <2>1. b.tail + CounterRange = b.head + Waiting(b) /\ b.tail \in Nat
    BY <1>1, <1>3, <1>5
  <2>2. (b.tail + CounterRange) % BufferSize = b.tail % BufferSize
    BY <1>1, <2>1, ModPlus
  <2> QED
    BY <1>3, <2>1, <2>2 DEF Index
<1> QED
  BY <1>1, <1>3, <1>4, <1>5

(* Within a window: the cell at the tail is free unless the buffer is      *)
(* full, the cell at the head is free only if nothing waits.               *)
LEMMA Ends ==
    ASSUME NEW b \in Buffer, WindowOf(b)
    PROVE  /\ Index(b.tail) \in Cells /\ Index(b.head) \in Cells
           /\ b.buffer[Index(b.tail)] = NUL <=> Waiting(b) < BufferSize
           /\ b.buffer[Index(b.head)] = NUL <=> Waiting(b) = 0
<1> DEFINE w == Waiting(b)
           h == b.head
<1>1. /\ h \in Nat /\ w \in Nat /\ w <= BufferSize /\ BufferSize \in Nat \ {0}
      /\ Index(b.tail) = Index(h + w) /\ b.tail \in Nat
  BY Counters, KeyboardAssumption DEF Buffer, WindowOf
<1> HIDE DEF w, h
<1>2. Index(b.tail) \in Cells /\ Index(h) \in Cells
  BY <1>1, IndexIsCell
<1>3. ASSUME w < BufferSize PROVE b.buffer[Index(b.tail)] = NUL
  <2>1. ASSUME NEW k \in 0 .. w - 1 PROVE Index(b.tail) # Index(h + k)
    <3>1. k \in 0 .. BufferSize /\ w \in 0 .. BufferSize /\ k < w
      BY <1>1, <1>3
    <3> QED
      BY <1>1, <1>3, <3>1, ModDistinct DEF Index
  <2> QED
    BY <1>2, <2>1 DEF WindowOf, w, h
<1>4. ASSUME w = BufferSize PROVE b.buffer[Index(b.tail)] # NUL
  <2>1. \E k \in 0 .. BufferSize - 1 : Index(b.tail) = (h + k) % BufferSize
    BY <1>1, <1>2, ModCovers DEF Cells
  <2> QED
    BY <1>2, <1>4, <2>1 DEF WindowOf, w, h, Index
<1>5. ASSUME w > 0 PROVE b.buffer[Index(h)] # NUL
  <2>1. 0 \in 0 .. w - 1 /\ Index(h) = Index(h + 0)
    BY <1>1, <1>5
  <2> QED
    BY <1>2, <2>1 DEF WindowOf, w, h
<1>6. ASSUME w = 0 PROVE b.buffer[Index(h)] = NUL
  <2>1. 0 .. w - 1 = {}
    BY <1>6
  <2> QED
    BY <1>2, <2>1 DEF WindowOf, w, h
<1> QED
  BY <1>1, <1>2, <1>3, <1>4, <1>5, <1>6 DEF w, h

(* keyboard_push on a buffer with room.                                    *)
LEMMA PushKeeps ==
    ASSUME NEW b \in Buffer, WindowOf(b), NEW c \in Char, Waiting(b) < BufferSize
    PROVE  LET d == keyboard_push(b, c)
           IN  /\ WindowOf(d) /\ Waiting(d) = Waiting(b) + 1
               /\ \A k \in 0 .. Waiting(b) - 1 :
                     d.buffer[Index(d.head + k)] = b.buffer[Index(b.head + k)]
               /\ d.buffer[Index(d.head + Waiting(b))] = c
<1> DEFINE d == keyboard_push(b, c)
           w == Waiting(b)
           h == b.head
           C == CounterRange
<1>1. /\ h \in 0 .. C - 1 /\ w \in Nat /\ w < BufferSize /\ BufferSize \in Nat \ {0}
      /\ C \in Nat \ {0} /\ BufferSize < C /\ b.tail \in 0 .. C - 1
      /\ Index(b.tail) = Index(h + w) /\ Index(b.tail) \in Cells
      /\ b.tail = IF h + w < C THEN h + w ELSE h + w - C
  BY Counters, Ends, KeyboardAssumption DEF Buffer, WindowOf
<1>2. /\ d.head = h /\ d.tail = (b.tail + 1) % C
      /\ d.buffer = [b.buffer EXCEPT ![Index(b.tail)] = c]
  BY DEF keyboard_push, Buffer
<1>3. \A i \in Cells : d.buffer[i] = IF i = Index(b.tail) THEN c ELSE b.buffer[i]
  BY <1>2 DEF Buffer
<1> HIDE DEF d, w, h
<1>4. Waiting(d) = w + 1
  <2>1. d.tail = IF b.tail + 1 = C THEN 0 ELSE b.tail + 1
    BY <1>1, <1>2, StepOf
  <2>2. d.tail \in 0 .. C - 1 /\ d.head \in 0 .. C - 1
    BY <1>1, <1>2, <2>1
  <2>3. Waiting(d) = IF d.tail >= h THEN d.tail - h ELSE d.tail + C - h
    BY <1>2, <2>2, WaitingIs DEF Waiting
  <2> HIDE DEF C
  <2> QED
    BY <1>1, <2>1, <2>3
<1>5. ASSUME NEW k \in 0 .. w - 1 PROVE Index(h + k) # Index(b.tail) /\ Index(h + k) \in Cells
  <2>1. k \in 0 .. BufferSize /\ w \in 0 .. BufferSize /\ k < w /\ h + k \in Nat /\ h \in Nat
    BY <1>1
  <2>2. Index(h + k) \in Cells
    BY <2>1, IndexIsCell
  <2>3. (h + k) % BufferSize # (h + w) % BufferSize
    BY <1>1, <2>1, ModDistinct, ZenonT(30)
  <2> QED
    BY <1>1, <2>2, <2>3 DEF Index
<1>6. c # NUL
  BY NulIsNoChar
<1>7. ASSUME NEW i \in Cells
      PROVE  d.buffer[i] # NUL <=> \E k \in 0 .. Waiting(d) - 1 : i = Index(d.head + k)
  <2>1. b.buffer[i] # NUL <=> \E k \in 0 .. w - 1 : i = Index(h + k)
    BY DEF WindowOf, w, h
  <2>2. CASE i = Index(b.tail)
    <3>1. w \in 0 .. Waiting(d) - 1
      BY <1>1, <1>4
    <3> QED
      BY <1>1, <1>2, <1>3, <1>6, <2>2, <3>1
  <2>3. CASE i # Index(b.tail)
    <3>1. ASSUME NEW k \in 0 .. Waiting(d) - 1, i = Index(h + k) PROVE k \in 0 .. w - 1
      BY <1>1, <1>4, <2>3, <3>1
    <3>2. \A k \in 0 .. w - 1 : k \in 0 .. Waiting(d) - 1
      BY <1>1, <1>4
    <3> QED
      BY <1>2, <1>3, <2>1, <2>3, <3>1, <3>2
  <2> QED
    BY <2>2, <2>3
<1>8. WindowOf(d)
  BY <1>1, <1>4, <1>7 DEF WindowOf
<1>9. d.buffer[Index(d.head + w)] = c
  BY <1>1, <1>2, <1>3
<1>10. \A k \in 0 .. w - 1 : d.buffer[Index(d.head + k)] = b.buffer[Index(h + k)]
  BY <1>2, <1>3, <1>5
<1> QED
  BY <1>4, <1>8, <1>9, <1>10 DEF d, w, h

(* keyboard_pop on a buffer with something in it.                          *)
LEMMA PopKeeps ==
    ASSUME NEW b \in Buffer, WindowOf(b), Waiting(b) > 0
    PROVE  LET d == keyboard_pop(b)[2]
           IN  /\ keyboard_pop(b)[1] = b.buffer[Index(b.head)]
               /\ WindowOf(d) /\ Waiting(d) = Waiting(b) - 1
               /\ \A k \in 0 .. Waiting(b) - 2 :
                     d.buffer[Index(d.head + k)] = b.buffer[Index(b.head + (k + 1))]
<1> DEFINE d == keyboard_pop(b)[2]
           w == Waiting(b)
           h == b.head
           C == CounterRange
<1>1. /\ h \in 0 .. C - 1 /\ w \in Nat /\ w <= BufferSize /\ w > 0
      /\ BufferSize \in Nat \ {0} /\ C \in Nat \ {0} /\ BufferSize < C
      /\ b.tail \in 0 .. C - 1 /\ Index(h) \in Cells /\ b.buffer[Index(h)] # NUL
      /\ b.tail = IF h + w < C THEN h + w ELSE h + w - C
  BY Counters, Ends, KeyboardAssumption DEF Buffer, WindowOf
<1>2. /\ d = [b EXCEPT !.buffer[Index(h)] = NUL, !.head = (@ + 1) % C]
      /\ keyboard_pop(b)[1] = b.buffer[Index(h)]
  BY <1>1 DEF keyboard_pop
<1>3. /\ d.head = (h + 1) % C /\ d.tail = b.tail
      /\ d.buffer = [b.buffer EXCEPT ![Index(h)] = NUL]
  BY <1>2 DEF Buffer
<1>4. \A i \in Cells : d.buffer[i] = IF i = Index(h) THEN NUL ELSE b.buffer[i]
  BY <1>3 DEF Buffer
<1> HIDE DEF d, w, h
<1>5. Waiting(d) = w - 1
  <2>1. d.head = IF h + 1 = C THEN 0 ELSE h + 1
    BY <1>1, <1>3, StepOf
  <2>2. d.tail \in 0 .. C - 1 /\ d.head \in 0 .. C - 1
    BY <1>1, <1>3, <2>1
  <2>3. Waiting(d) = IF d.tail >= d.head THEN d.tail - d.head ELSE d.tail + C - d.head
    BY <2>2, WaitingIs DEF Waiting
  <2> HIDE DEF C
  <2> QED
    BY <1>1, <1>3, <2>1, <2>3
<1>6. \A k \in Nat : Index(d.head + k) = Index(h + (k + 1))
  BY <1>1, <1>3, CellOfStep
<1>7. ASSUME NEW k \in 1 .. w - 1 PROVE Index(h + k) # Index(h) /\ Index(h + k) \in Cells
  <2>1. /\ k \in 0 .. BufferSize /\ 0 \in 0 .. BufferSize /\ 0 < k /\ k # BufferSize
        /\ h + k \in Nat /\ h + 0 = h /\ h \in Nat
    BY <1>1
  <2> QED
    BY <1>1, <2>1, ModDistinct, IndexIsCell DEF Index
<1>8. ASSUME NEW i \in Cells
      PROVE  d.buffer[i] # NUL <=> \E k \in 0 .. Waiting(d) - 1 : i = Index(d.head + k)
  <2>1. b.buffer[i] # NUL <=> \E k \in 0 .. w - 1 : i = Index(h + k)
    BY DEF WindowOf, w, h
  <2>2. (\E k \in 0 .. Waiting(d) - 1 : i = Index(d.head + k))
           <=> \E k \in 1 .. w - 1 : i = Index(h + k)
    <3>1. ASSUME NEW k \in 0 .. Waiting(d) - 1, i = Index(d.head + k)
          PROVE  \E l \in 1 .. w - 1 : i = Index(h + l)
      <4>1. k + 1 \in 1 .. w - 1 /\ k \in Nat
        BY <1>1, <1>5
      <4> QED
        BY <1>6, <3>1, <4>1
    <3>2. ASSUME NEW k \in 1 .. w - 1, i = Index(h + k)
          PROVE  \E l \in 0 .. Waiting(d) - 1 : i = Index(d.head + l)
      <4>1. k - 1 \in 0 .. Waiting(d) - 1 /\ k - 1 \in Nat /\ (k - 1) + 1 = k
        BY <1>1, <1>5
      <4>2. Index(d.head + (k - 1)) = Index(h + ((k - 1) + 1))
        BY <1>6, <4>1
      <4> QED
        BY <3>2, <4>1, <4>2
    <3> QED
      BY <3>1, <3>2
  <2>3. CASE i = Index(h)
    <3>1. \A k \in 1 .. w - 1 : i # Index(h + k)
      BY <1>7, <2>3
    <3> QED
      BY <1>4, <2>2, <2>3, <3>1
  <2>4. CASE i # Index(h)
    <3>1. ASSUME NEW k \in 0 .. w - 1, i = Index(h + k) PROVE k \in 1 .. w - 1
      <4>1. k # 0
        BY <1>1, <2>4, <3>1
      <4> QED
        BY <1>1, <4>1
    <3>2. \A k \in 1 .. w - 1 : k \in 0 .. w - 1
      BY <1>1
    <3> QED
      BY <1>4, <2>1, <2>2, <2>4, <3>1, <3>2
  <2> QED
    BY <2>3, <2>4
<1>9. WindowOf(d)
  BY <1>1, <1>5, <1>8 DEF WindowOf
<1>10. ASSUME NEW k \in 0 .. w - 2
       PROVE  d.buffer[Index(d.head + k)] = b.buffer[Index(h + (k + 1))]
  <2>1. k + 1 \in 1 .. w - 1 /\ k \in Nat
    BY <1>1
  <2> QED
    BY <1>4, <1>6, <1>7, <2>1
<1> QED
  BY <1>2, <1>5, <1>9, <1>10 DEF d, w, h

(* Buffers keep their type.                                                *)
LEMMA BufferTypes ==
    /\ EmptyBuffer \in Buffer /\ WindowOf(EmptyBuffer) /\ Waiting(EmptyBuffer) = 0
    /\ \A b \in Buffer, c \in Char : keyboard_push(b, c) \in Buffer
    /\ \A b \in Buffer : /\ keyboard_pop(b)[1] \in Char \cup {NUL}
                         /\ keyboard_pop(b)[2] \in Buffer
<1>1. /\ CounterRange \in Nat \ {0} /\ BufferSize \in Nat \ {0} /\ 0 \in 0 .. CounterRange - 1
  BY KeyboardAssumption
<1>2. EmptyBuffer \in Buffer
  BY <1>1 DEF EmptyBuffer, Buffer
<1>3. EmptyBuffer.head = 0 /\ EmptyBuffer.tail = 0 /\ \A i \in Cells : EmptyBuffer.buffer[i] = NUL
  BY DEF EmptyBuffer
<1>4. Waiting(EmptyBuffer) = 0
  BY <1>1, <1>3, WaitingIs DEF Waiting
<1>5. WindowOf(EmptyBuffer)
  BY <1>1, <1>3, <1>4 DEF WindowOf
<1>6. ASSUME NEW b \in Buffer, NEW c \in Char PROVE keyboard_push(b, c) \in Buffer
  <2>1. (b.tail + 1) % CounterRange \in 0 .. CounterRange - 1
    BY StepOf DEF Buffer
  <2> QED
    BY <2>1 DEF keyboard_push, Buffer
<1>7. ASSUME NEW b \in Buffer
      PROVE  keyboard_pop(b)[1] \in Char \cup {NUL} /\ keyboard_pop(b)[2] \in Buffer
  <2>1. (b.head + 1) % CounterRange \in 0 .. CounterRange - 1
    BY StepOf DEF Buffer
  <2>2. b.head \in Nat
    BY <1>1 DEF Buffer
  <2>3. Index(b.head) \in Cells
    BY <2>2, IndexIsCell
  <2>4. b.buffer[Index(b.head)] \in Char \cup {NUL}
    BY <2>3 DEF Buffer
  <2>5. [b EXCEPT !.buffer[Index(b.head)] = NUL, !.head = (@ + 1) % CounterRange] \in Buffer
    BY <2>1 DEF Buffer
  <2> QED
    BY <2>4, <2>5 DEF keyboard_pop
<1> QED
  BY <1>2, <1>4, <1>5, <1>6, <1>7

(* What a key press can push.                                              *)
LEMMA PushedIsChar ==
    ASSUME NEW code \in Codes, NEW caps, NEW c \in classic_keyboard_scancode_to_char(code, caps),
           c # NUL
    PROVE  c \in Char
BY DEF classic_keyboard_scancode_to_char, Char

(* The window of every process whose keys were not overwritten.            *)
Windows == \A p \in Processes \ over : WindowOf(keyboard[p])

(* Window is the types and what WindowOf says of each buffer.              *)
LEMMA WindowParts == Window <=> TypeOK /\ Windows
BY DEF Window, Windows, WindowOf

(* The types of the keyboard, with a buffer per process.                   *)
LEMMA TypeParts ==
    TypeOK <=> /\ keyboard \in [Processes -> Buffer] /\ caps_lock \in BOOLEAN
               /\ focus \in Processes /\ running \in Processes
               /\ got \in Char \cup {NUL} /\ over \subseteq Processes
BY DEF TypeOK, Buffer

(* Buffers are empty at the start.                                         *)
LEMMA InitWindow == Init => Window
<1> SUFFICES ASSUME Init PROVE TypeOK /\ Windows
  BY WindowParts
<1>1. TypeOK
  BY BufferTypes, TypeParts DEF Init
<1>2. Windows
  BY BufferTypes DEF Init, Windows
<1> QED
  BY <1>1, <1>2

(* keyboard_push, keyboard_pop, and the rest keep cells and counters in    *)
(* step.                                                                   *)
LEMMA NextWindow == Window /\ [Next]_vars => Window'
<1> SUFFICES ASSUME Window, [Next]_vars PROVE TypeOK' /\ Windows'
  BY DEF Window, Windows, WindowOf
<1>1. /\ keyboard \in [Processes -> Buffer] /\ caps_lock \in BOOLEAN
      /\ focus \in Processes /\ running \in Processes
      /\ got \in Char \cup {NUL} /\ over \subseteq Processes
  BY WindowParts, TypeParts
<1>2. Windows
  BY WindowParts
<1>types. ASSUME keyboard' \in [Processes -> Buffer], caps_lock' \in BOOLEAN,
             focus' \in Processes, running' \in Processes,
             got' \in Char \cup {NUL}, over' \subseteq Processes
      PROVE  TypeOK'
  BY <1>types DEF TypeOK, Buffer
<1>3. ASSUME NEW code \in Codes, classic_keyboard_handle_interrupt(code)
      PROVE  TypeOK' /\ Windows'
  <2>1. /\ caps_lock' \in BOOLEAN /\ got' = NUL /\ focus' = focus /\ running' = running
    BY <1>1, <1>3 DEF classic_keyboard_handle_interrupt
  <2> DEFINE b == keyboard[focus]
  <2>2. PICK c \in classic_keyboard_scancode_to_char(code, caps_lock') :
           IF c = NUL
           THEN UNCHANGED <<keyboard, over>>
           ELSE /\ keyboard' = [keyboard EXCEPT ![focus] = keyboard_push(b, c)]
                /\ over' = IF b.buffer[Index(b.tail)] = NUL THEN over
                           ELSE over \cup {focus}
    BY <1>3 DEF classic_keyboard_handle_interrupt
  <2>3. CASE c = NUL
    BY <1>1, <1>2, <1>types, <2>1, <2>2, <2>3 DEF Windows
  <2>4. CASE c # NUL
    <3>1. c \in Char /\ b \in Buffer
      BY <1>1, <2>4, PushedIsChar
    <3>2. keyboard' \in [Processes -> Buffer] /\ over' \subseteq Processes
      BY <1>1, <2>2, <2>4, <3>1, BufferTypes
    <3>3. ASSUME NEW p \in Processes \ over' PROVE WindowOf(keyboard'[p])
      <4>1. p \notin over
        BY <2>2, <2>4, <3>3
      <4>2. WindowOf(keyboard[p])
        BY <1>2, <4>1 DEF Windows
      <4>3. CASE p # focus
        BY <1>1, <2>2, <2>4, <4>2, <4>3
      <4>4. CASE p = focus
        <5>1. b.buffer[Index(b.tail)] = NUL
          BY <2>2, <2>4, <3>3, <4>4
        <5>2. Waiting(b) < BufferSize
          BY <3>1, <4>2, <4>4, <5>1, Ends
        <5>3. WindowOf(keyboard_push(b, c))
          BY <3>1, <4>2, <4>4, <5>2, PushKeeps
        <5> QED
          BY <1>1, <2>2, <2>4, <4>4, <5>3
      <4> QED
        BY <4>3, <4>4
    <3> QED
      BY <1>1, <1>types, <2>1, <3>2, <3>3 DEF Windows
  <2> QED
    BY <2>3, <2>4
<1>4. CASE sys_get_key
  <2> DEFINE b == keyboard[running]
  <2>1. /\ got' = keyboard_pop(b)[1]
        /\ keyboard' = [keyboard EXCEPT ![running] = keyboard_pop(b)[2]]
        /\ UNCHANGED <<caps_lock, focus, running, over>>
    BY <1>4 DEF sys_get_key
  <2>2. b \in Buffer
    BY <1>1
  <2>3. keyboard' \in [Processes -> Buffer] /\ got' \in Char \cup {NUL}
    BY <1>1, <2>1, <2>2, BufferTypes
  <2>4. ASSUME NEW p \in Processes \ over PROVE WindowOf(keyboard'[p])
    <3>1. WindowOf(keyboard[p])
      BY <1>2 DEF Windows
    <3>2. CASE p # running
      BY <1>1, <2>1, <3>1, <3>2
    <3>3. CASE p = running /\ Waiting(b) > 0
      BY <1>1, <2>1, <2>2, <3>1, <3>3, PopKeeps
    <3>4. CASE p = running /\ Waiting(b) = 0
      <4>1. keyboard_pop(b)[2] = b
        BY <2>2, <3>1, <3>4, Ends DEF keyboard_pop
      <4> QED
        BY <1>1, <2>1, <3>1, <3>4, <4>1
    <3>5. Waiting(b) \in Nat
      BY <2>2, Counters, KeyboardAssumption
    <3> QED
      BY <3>2, <3>3, <3>4, <3>5
  <2> QED
    BY <1>1, <1>types, <2>1, <2>3, <2>4 DEF Windows
<1>5. ASSUME NEW f \in Processes, NEW r \in Processes, switch(f, r)
      PROVE  TypeOK' /\ Windows'
  BY <1>1, <1>2, <1>5, <1>types DEF switch, Windows
<1>6. ASSUME NEW p \in Processes, process_load_switch(p)
      PROVE  TypeOK' /\ Windows'
  <2>1. /\ keyboard' = [keyboard EXCEPT ![p] = EmptyBuffer] /\ over' = over \ {p}
        /\ focus' = p /\ running' \in {running, p} /\ got' = NUL /\ caps_lock' = caps_lock
    BY <1>6 DEF process_load_switch
  <2>2. TypeOK'
    BY <1>1, <1>types, <2>1, BufferTypes
  <2>3. Windows'
    BY <1>1, <1>2, <2>1, BufferTypes DEF Windows
  <2> QED
    BY <2>2, <2>3
<1>7. CASE UNCHANGED vars
  BY <1>1, <1>2, <1>7, <1>types DEF vars, Windows
<1> QED
  BY <1>3, <1>4, <1>5, <1>6, <1>7 DEF Next

(* In every buffer that was never overfull, the cells between head and     *)
(* tail hold characters and the others are empty, although the counters    *)
(* wrap around (keyboard_push, keyboard_pop).                              *)
THEOREM CellsMatchCounters == Spec => []Window
BY InitWindow, NextWindow, PTL DEF Spec

----------------------------------------------------------------------------
(* The unread keys as a sequence.                                          *)
LEMMA ContentsType ==
    ASSUME NEW b \in Buffer
    PROVE  /\ Contents(b) \in Seq(Char \cup {NUL}) /\ Len(Contents(b)) = Waiting(b)
           /\ \A k \in 1 .. Waiting(b) : Contents(b)[k] = b.buffer[Index(b.head + (k - 1))]
<1>1. Waiting(b) \in Nat /\ b.head \in Nat
  BY Counters, KeyboardAssumption DEF Buffer
<1>2. ASSUME NEW k \in 1 .. Waiting(b)
      PROVE  /\ b.buffer[Index(b.head + k - 1)] \in Char \cup {NUL}
             /\ b.head + k - 1 = b.head + (k - 1)
  <2>1. b.head + k - 1 \in Nat /\ b.head + k - 1 = b.head + (k - 1)
    BY <1>1
  <2>2. Index(b.head + k - 1) \in Cells
    BY <2>1, IndexIsCell
  <2> QED
    BY <2>1, <2>2 DEF Buffer
<1>3. Contents(b) \in [1 .. Waiting(b) -> Char \cup {NUL}]
  BY <1>2 DEF Contents
<1>4. Contents(b) \in Seq(Char \cup {NUL}) /\ Len(Contents(b)) = Waiting(b)
  BY <1>1, <1>3
<1>5. \A k \in 1 .. Waiting(b) : Contents(b)[k] = b.buffer[Index(b.head + (k - 1))]
  BY <1>2 DEF Contents
<1> QED
  BY <1>4, <1>5

(* keyboard_push puts the character behind the ones that wait.             *)
LEMMA ContentsPush ==
    ASSUME NEW b \in Buffer, WindowOf(b), NEW c \in Char, Waiting(b) < BufferSize
    PROVE  Contents(keyboard_push(b, c)) = Append(Contents(b), c)
<1> DEFINE d == keyboard_push(b, c)
           w == Waiting(b)
           S == Char \cup {NUL}
<1>1. d \in Buffer /\ Waiting(d) = w + 1 /\ w \in Nat
  BY BufferTypes, PushKeeps, Counters, KeyboardAssumption
<1>2. /\ \A k \in 0 .. w - 1 : d.buffer[Index(d.head + k)] = b.buffer[Index(b.head + k)]
      /\ d.buffer[Index(d.head + w)] = c
  BY PushKeeps
<1> HIDE DEF d, w
<1>3. /\ Contents(b) \in Seq(S) /\ Len(Contents(b)) = w
      /\ \A k \in 1 .. w : Contents(b)[k] = b.buffer[Index(b.head + (k - 1))]
  BY ContentsType DEF w
<1>4. /\ Contents(d) \in Seq(S) /\ Len(Contents(d)) = w + 1
      /\ \A k \in 1 .. w + 1 : Contents(d)[k] = d.buffer[Index(d.head + (k - 1))]
  BY <1>1, ContentsType
<1>5. /\ Append(Contents(b), c) \in Seq(S) /\ Len(Append(Contents(b), c)) = w + 1
      /\ \A k \in 1 .. w : Append(Contents(b), c)[k] = Contents(b)[k]
      /\ Append(Contents(b), c)[w + 1] = c
  BY <1>3
<1>6. ASSUME NEW k \in 1 .. w + 1 PROVE Contents(d)[k] = Append(Contents(b), c)[k]
  <2>1. CASE k = w + 1
    <3>1. k - 1 = w
      BY <1>1, <2>1
    <3> QED
      BY <1>2, <1>4, <1>5, <2>1, <3>1
  <2>2. CASE k # w + 1
    <3>1. k \in 1 .. w /\ k - 1 \in 0 .. w - 1
      BY <1>1, <2>2
    <3> QED
      BY <1>2, <1>3, <1>4, <1>5, <3>1
  <2> QED
    BY <2>1, <2>2
<1> HIDE DEF S
<1>7. Contents(d) = Append(Contents(b), c)
  BY <1>1, <1>4, <1>5, <1>6, SeqEqual
<1> QED
  BY <1>7 DEF d

(* keyboard_pop takes the first character that waits.                      *)
LEMMA ContentsPop ==
    ASSUME NEW b \in Buffer, WindowOf(b), Waiting(b) > 0
    PROVE  /\ keyboard_pop(b)[1] = Head(Contents(b)) /\ Contents(b) # <<>>
           /\ Contents(keyboard_pop(b)[2]) = Tail(Contents(b))
<1> DEFINE d == keyboard_pop(b)[2]
           w == Waiting(b)
           S == Char \cup {NUL}
<1>1. d \in Buffer /\ Waiting(d) = w - 1 /\ w \in Nat /\ w > 0 /\ b.head \in Nat
  BY BufferTypes, PopKeeps, Counters, KeyboardAssumption DEF Buffer
<1>2. /\ \A k \in 0 .. w - 2 : d.buffer[Index(d.head + k)] = b.buffer[Index(b.head + (k + 1))]
      /\ keyboard_pop(b)[1] = b.buffer[Index(b.head)]
  BY PopKeeps
<1> HIDE DEF d, w
<1>3. /\ Contents(b) \in Seq(S) /\ Len(Contents(b)) = w
      /\ \A k \in 1 .. w : Contents(b)[k] = b.buffer[Index(b.head + (k - 1))]
  BY ContentsType DEF w
<1>4. /\ Contents(d) \in Seq(S) /\ Len(Contents(d)) = w - 1
      /\ \A k \in 1 .. w - 1 : Contents(d)[k] = d.buffer[Index(d.head + (k - 1))]
  BY <1>1, ContentsType
<1>5. /\ Contents(b) # <<>> /\ Tail(Contents(b)) \in Seq(S)
      /\ Len(Tail(Contents(b))) = w - 1
      /\ \A k \in 1 .. w - 1 : Tail(Contents(b))[k] = Contents(b)[k + 1]
      /\ Head(Contents(b)) = Contents(b)[1]
  BY <1>1, <1>3
<1>6. Head(Contents(b)) = keyboard_pop(b)[1]
  <2>1. 1 \in 1 .. w /\ b.head + (1 - 1) = b.head
    BY <1>1
  <2> QED
    BY <1>2, <1>3, <1>5, <2>1
<1>7. ASSUME NEW k \in 1 .. w - 1 PROVE Contents(d)[k] = Tail(Contents(b))[k]
  <2>1. k - 1 \in 0 .. w - 2 /\ k + 1 \in 1 .. w /\ (k - 1) + 1 = (k + 1) - 1
    BY <1>1
  <2>2. d.buffer[Index(d.head + (k - 1))] = b.buffer[Index(b.head + ((k - 1) + 1))]
    BY <1>2, <2>1
  <2>3. Contents(b)[k + 1] = b.buffer[Index(b.head + ((k + 1) - 1))]
    BY <1>3, <2>1
  <2> QED
    BY <1>4, <1>5, <2>1, <2>2, <2>3
<1> HIDE DEF S
<1>8. Contents(d) = Tail(Contents(b))
  BY <1>1, <1>4, <1>5, <1>7, SeqEqual
<1> QED
  BY <1>5, <1>6, <1>8 DEF d

----------------------------------------------------------------------------
(* What waits for a process in the view of KeyQueue.                       *)
Pending == [p \in Processes |-> IF p \in over THEN <<>> ELSE Contents(keyboard[p])]

(* A key that is pressed is typed into the abstract queue or ignored.      *)
LEMMA PressTypes ==
    ASSUME Window, NEW code \in Codes, classic_keyboard_handle_interrupt(code)
    PROVE  (\E c \in Char : Keys!Type(c)) \/ Keys!Ignore
<1>1. /\ keyboard \in [Processes -> Buffer] /\ focus \in Processes /\ Windows
  BY WindowParts, TypeParts
<1>2. got' = NUL /\ focus' = focus /\ running' = running
  BY DEF classic_keyboard_handle_interrupt
<1> DEFINE b == keyboard[focus]
<1>3. PICK c \in classic_keyboard_scancode_to_char(code, caps_lock') :
         IF c = NUL
         THEN UNCHANGED <<keyboard, over>>
         ELSE /\ keyboard' = [keyboard EXCEPT ![focus] = keyboard_push(b, c)]
              /\ over' = IF b.buffer[Index(b.tail)] = NUL THEN over ELSE over \cup {focus}
  BY DEF classic_keyboard_handle_interrupt
<1>4. CASE c = NUL
  BY <1>2, <1>3, <1>4 DEF Keys!Ignore
<1>5. CASE c # NUL /\ focus \in over
  <2>1. over' = over
    BY <1>3, <1>5
  <2>2. \A p \in Processes \ over : keyboard'[p] = keyboard[p]
    BY <1>1, <1>3, <1>5
  <2>3. Pending' = Pending
    BY <2>1, <2>2 DEF Pending
  <2> QED
    BY <1>2, <2>1, <2>3 DEF Keys!Ignore, Pending
<1>6. CASE c # NUL /\ focus \notin over
  <2>1. c \in Char /\ b \in Buffer /\ WindowOf(b)
    BY <1>1, <1>6, PushedIsChar DEF Windows
  <2>2. \A p \in Processes : keyboard'[p] = IF p = focus THEN keyboard_push(b, c) ELSE keyboard[p]
    BY <1>1, <1>3, <1>6
  <2>3. Pending[focus] = Contents(b) /\ Len(Pending[focus]) = Waiting(b)
    BY <1>1, <1>6, <2>1, ContentsType DEF Pending
  <2>4. CASE Waiting(b) < BufferSize
    <3>1. over' = over
      BY <1>3, <1>6, <2>1, <2>4, Ends
    <3>2. Contents(keyboard'[focus]) = Append(Pending[focus], c)
      BY <1>1, <2>1, <2>2, <2>3, <2>4, ContentsPush
    <3>3. Pending' = [Pending EXCEPT ![focus] = Append(@, c)]
      BY <1>1, <1>6, <2>2, <3>1, <3>2 DEF Pending
    <3>4. Keys!Type(c)
      BY <1>2, <1>6, <2>3, <2>4, <3>1, <3>3 DEF Keys!Type, Pending
    <3> QED
      BY <2>1, <3>4
  <2>5. CASE ~ (Waiting(b) < BufferSize)
    <3>1. over' = over \cup {focus}
      BY <1>3, <1>6, <2>1, <2>5, Ends
    <3>2. Pending' = [Pending EXCEPT ![focus] = <<>>]
      BY <1>1, <2>2, <3>1 DEF Pending
    <3>3. Keys!Type(c)
      BY <1>2, <1>6, <2>3, <2>5, <3>1, <3>2 DEF Keys!Type, Pending
    <3> QED
      BY <2>1, <3>3
  <2> QED
    BY <2>4, <2>5
<1> QED
  BY <1>4, <1>5, <1>6

(* A process that asks for a key reads from the abstract queue.            *)
LEMMA GetReads ==
    ASSUME Window, sys_get_key
    PROVE  Keys!Read
<1>1. /\ keyboard \in [Processes -> Buffer] /\ running \in Processes /\ Windows
  BY WindowParts, TypeParts
<1> DEFINE b == keyboard[running]
<1>2. /\ got' = keyboard_pop(b)[1]
      /\ keyboard' = [keyboard EXCEPT ![running] = keyboard_pop(b)[2]]
      /\ UNCHANGED <<focus, running, over>>
  BY DEF sys_get_key
<1>3. \A p \in Processes : keyboard'[p] = IF p = running THEN keyboard_pop(b)[2] ELSE keyboard[p]
  BY <1>1, <1>2
<1>4. b \in Buffer
  BY <1>1
<1>5. CASE running \in over
  <2>1. Pending' = Pending
    BY <1>2, <1>3, <1>5 DEF Pending
  <2>2. got' \in Char \cup {NUL}
    BY <1>2, <1>4, BufferTypes
  <2> QED
    BY <1>2, <1>5, <2>1, <2>2 DEF Keys!Read, Pending
<1>6. CASE running \notin over
  <2>1. WindowOf(b) /\ Pending[running] = Contents(b) /\ Len(Contents(b)) = Waiting(b)
    BY <1>1, <1>4, <1>6, ContentsType DEF Windows, Pending
  <2>2. CASE Waiting(b) > 0
    <3>1. /\ got' = Head(Contents(b)) /\ Contents(b) # <<>>
          /\ Contents(keyboard_pop(b)[2]) = Tail(Contents(b))
      BY <1>2, <1>4, <2>1, <2>2, ContentsPop
    <3>2. Pending' = [Pending EXCEPT ![running] = Tail(@)]
      BY <1>1, <1>2, <1>3, <1>6, <2>1, <3>1 DEF Pending
    <3> QED
      BY <1>2, <1>6, <2>1, <3>1, <3>2 DEF Keys!Read, Pending
  <2>3. CASE Waiting(b) = 0
    <3>1. keyboard_pop(b) = <<NUL, b>>
      BY <1>4, <2>1, <2>3, Ends DEF keyboard_pop
    <3>2. got' = NUL /\ Pending' = Pending
      BY <1>2, <1>3, <3>1 DEF Pending
    <3>3. Contents(b) = <<>>
      BY <1>4, <2>1, <2>3, ContentsType
    <3> QED
      BY <1>2, <1>6, <2>1, <3>2, <3>3 DEF Keys!Read, Pending
  <2>4. Waiting(b) \in Nat
    BY <1>4, Counters, KeyboardAssumption
  <2> QED
    BY <2>2, <2>3, <2>4
<1> QED
  BY <1>5, <1>6

(* An empty buffer is an empty queue.                                      *)
LEMMA EmptyContents == Contents(EmptyBuffer) = <<>>
BY BufferTypes, ContentsType

(* Every process reads exactly what was typed to it, in order, as long as  *)
(* no key was typed to it while its buffer was full (keyboard_push,        *)
(* keyboard_pop, classic_keyboard_handle_interrupt, sys_get_key).          *)
THEOREM KeyboardImplementsQueue == Spec => ImplementsKeyQueue
<1>1. Init => Keys!Init
  <2> SUFFICES ASSUME Init PROVE Keys!Init
    OBVIOUS
  <2>1. \A p \in Processes : keyboard[p] = EmptyBuffer /\ p \notin over
    BY DEF Init
  <2>2. Pending = [p \in Processes |-> <<>>]
    BY <2>1, EmptyContents DEF Pending
  <2> QED
    BY <2>2 DEF Init, Keys!Init, Pending
<1>2. Window /\ [Next]_vars => [Keys!Next]_(Keys!keyVars)
  <2> SUFFICES ASSUME Window, [Next]_vars PROVE Keys!Next \/ UNCHANGED Keys!keyVars
    OBVIOUS
  <2>1. ASSUME NEW code \in Codes, classic_keyboard_handle_interrupt(code) PROVE Keys!Next
    BY <2>1, PressTypes DEF Keys!Next
  <2>2. ASSUME sys_get_key PROVE Keys!Next
    BY <2>2, GetReads DEF Keys!Next
  <2>3. ASSUME NEW f \in Processes, NEW r \in Processes, switch(f, r) PROVE Keys!Next
    <3>1. Keys!Switch
      BY <2>3 DEF switch, Keys!Switch
    <3> QED
      BY <3>1 DEF Keys!Next
  <2>4. ASSUME NEW p \in Processes, process_load_switch(p) PROVE Keys!Next
    <3>1. /\ keyboard' = [keyboard EXCEPT ![p] = EmptyBuffer] /\ over' = over \ {p}
          /\ focus' = p /\ running' \in {running, p} /\ got' = NUL
      BY <2>4 DEF process_load_switch
    <3>2. \A q \in Processes : keyboard'[q] = IF q = p THEN EmptyBuffer ELSE keyboard[q]
      BY <3>1, WindowParts, TypeParts
    <3>3. Pending' = [Pending EXCEPT ![p] = <<>>]
      <4>1. Pending'[p] = <<>>
        BY <3>1, <3>2, EmptyContents DEF Pending
      <4>2. ASSUME NEW q \in Processes, q # p PROVE Pending'[q] = Pending[q]
        BY <3>1, <3>2, <4>2 DEF Pending
      <4> QED
        BY <4>1, <4>2 DEF Pending
    <3>4. Keys!Replace(p)
      BY <3>1, <3>3 DEF Keys!Replace, Pending
    <3> QED
      BY <3>4 DEF Keys!Next
  <2>5. CASE UNCHANGED vars
    BY <2>5 DEF vars, Keys!keyVars
  <2> QED
    BY <2>1, <2>2, <2>3, <2>4, <2>5 DEF Next
<1> QED
  BY <1>1, <1>2, CellsMatchCounters, PTL DEF Spec, Keys!Spec, ImplementsKeyQueue
=============================================================================
