---------------------------- MODULE EntryProofs ----------------------------
(***************************************************************************)
(* Proofs about the way into and out of the kernel.                        *)
(*                                                                         *)
(* ResumesIntact speaks of the task that runs. For it to hold after the    *)
(* next switch, the image saved for every other live task must be the one  *)
(* it had when it was left (Waiting), and each saved image must be that of *)
(* a task in user mode (Images), because the return to user mode loads its *)
(* segments from there. The frame is read by name in task_save_state and   *)
(* popped by position in the return: FrameOrder says that the two orders   *)
(* are the same.                                                           *)
(***************************************************************************)
EXTENDS Entry, BasicLemmas

(* The registers a task has, by name.                                      *)
LEMMA RegistersAre ==
    Registers = {"edi", "esi", "ebp", "ebx", "edx", "ecx", "eax", "eip", "cs", "eflags",
                 "esp", "ss"}
BY DEF Registers, RegistersLayout, ToSet

(* The cells of a stack that was pushed in three parts.                    *)
LEMMA ConcatThree ==
    ASSUME NEW X, NEW a \in Seq(X), NEW e \in Seq(X), NEW d \in Seq(X)
    PROVE  /\ (a \o e) \o d \in Seq(X) /\ Len((a \o e) \o d) = Len(a) + Len(e) + Len(d)
           /\ \A i \in 1 .. Len(a) : ((a \o e) \o d)[i] = a[i]
<1>1. a \o e \in Seq(X)
  BY ConcatAt, Zenon
<1>2. PICK c \in Seq(X) : c = a \o e
  BY <1>1
<1>3. /\ Len(c) = Len(a) + Len(e)
      /\ \A i \in 1 .. Len(a) : c[i] = a[i]
  BY <1>2, ConcatAt, Zenon
<1>4. /\ c \o d \in Seq(X) /\ Len(c \o d) = Len(c) + Len(d)
      /\ \A i \in 1 .. Len(c) : (c \o d)[i] = c[i]
  BY ConcatAt, Zenon
<1>5. Len(a) \in Nat /\ Len(e) \in Nat /\ Len(d) \in Nat
  BY LenProperties
<1>6. \A i \in 1 .. Len(a) : i \in 1 .. Len(c)
  BY <1>3, <1>5
<1>7. \A i \in 1 .. Len(a) : (c \o d)[i] = a[i]
  BY <1>3, <1>4, <1>6, Zenon
<1> QED
  BY <1>2, <1>3, <1>4, <1>5, <1>7

(* The stack at the call of the handler.                                   *)
LEMMA PushedIs ==
    ASSUME NEW v
    PROVE  /\ Pushed(v)[1] = reg["edi"] /\ Pushed(v)[2] = reg["esi"]
           /\ Pushed(v)[3] = reg["ebp"] /\ Pushed(v)[5] = reg["ebx"]
           /\ Pushed(v)[6] = reg["edx"] /\ Pushed(v)[7] = reg["ecx"]
           /\ Pushed(v)[8] = reg["eax"]
           /\ Pushed(v)[10] = reg["eip"] /\ Pushed(v)[11] = reg["cs"]
           /\ Pushed(v)[12] = reg["eflags"] /\ Pushed(v)[13] = reg["esp"]
           /\ Pushed(v)[14] = reg["ss"]
<1> DEFINE A == [i \in DOMAIN ProcessorPushes |-> reg[ProcessorPushes[i]]]
           K == [i \in DOMAIN PushadPushes |->
                  IF PushadPushes[i] = "handler_esp" THEN Of("kernel stack") ELSE reg[PushadPushes[i]]]
           E == IF HasErrorCode(v) THEN <<Of("error")>> ELSE <<>>
           D == IF interrupt_no_err(v) THEN <<Of("dummy")>> ELSE <<>>
           V == {A[i] : i \in 1 .. 5} \cup {K[i] : i \in 1 .. 8} \cup {Of("error"), Of("dummy")}
<1>1. /\ DOMAIN ProcessorPushes = 1 .. 5
      /\ ProcessorPushes[1] = "ss" /\ ProcessorPushes[2] = "esp" /\ ProcessorPushes[3] = "eflags"
      /\ ProcessorPushes[4] = "cs" /\ ProcessorPushes[5] = "eip"
  BY DEF ProcessorPushes
<1>2. /\ DOMAIN PushadPushes = 1 .. 8
      /\ PushadPushes[1] = "eax" /\ PushadPushes[2] = "ecx" /\ PushadPushes[3] = "edx"
      /\ PushadPushes[4] = "ebx" /\ PushadPushes[6] = "ebp"
      /\ PushadPushes[7] = "esi" /\ PushadPushes[8] = "edi"
  BY DEF PushadPushes
<1>3. /\ A[1] = reg["ss"] /\ A[2] = reg["esp"] /\ A[3] = reg["eflags"] /\ A[4] = reg["cs"]
      /\ A[5] = reg["eip"]
  BY <1>1
<1>4. /\ K[1] = reg["eax"] /\ K[2] = reg["ecx"] /\ K[3] = reg["edx"] /\ K[4] = reg["ebx"]
      /\ K[6] = reg["ebp"] /\ K[7] = reg["esi"] /\ K[8] = reg["edi"]
  <2>1. \A i \in 1 .. 8 : PushadPushes[i] # "handler_esp" => K[i] = reg[PushadPushes[i]]
    BY <1>2, Zenon
  <2> HIDE DEF K
  <2> QED
    BY <1>2, <2>1
<1>5. Pushed(v) = Reverse(((A \o E) \o D) \o K)
  BY DEF Pushed
<1>6. A \in Seq(V) /\ Len(A) = 5 /\ K \in Seq(V) /\ Len(K) = 8
  <2>1. A \in [1 .. 5 -> V] /\ K \in [1 .. 8 -> V]
    BY <1>1, <1>2
  <2> HIDE DEF A, K, V
  <2>2. \A m \in Nat : \A f \in [1 .. m -> V] : f \in Seq(V) /\ Len(f) = m
    BY FunctionIsSeq, Zenon
  <2>3. A \in Seq(V) /\ Len(A) = 5
    BY <2>1, <2>2
  <2>4. K \in Seq(V) /\ Len(K) = 8
    BY <2>1, <2>2
  <2> QED
    BY <2>3, <2>4
<1>7. /\ E \in Seq(V) /\ D \in Seq(V)
      /\ Len(E) + Len(D) = 1
  <2>1. Of("error") \in V /\ Of("dummy") \in V
    OBVIOUS
  <2> HIDE DEF V
  <2>2. CASE HasErrorCode(v)
    <3>1. E = <<Of("error")>> /\ D = <<>>
      BY <2>2 DEF HasErrorCode, interrupt_no_err
    <3> HIDE DEF E, D
    <3> QED
      BY <2>1, <3>1
  <2>3. CASE ~HasErrorCode(v)
    <3>1. E = <<>> /\ D = <<Of("dummy")>>
      BY <2>3 DEF HasErrorCode, interrupt_no_err
    <3> HIDE DEF E, D
    <3> QED
      BY <2>1, <3>1
  <2> QED
    BY <2>2, <2>3
<1> HIDE DEF A, K, E, D, V
<1> DEFINE P == (A \o E) \o D
           S == P \o K
<1>8. P \in Seq(V) /\ Len(P) = 6 /\ \A i \in 1 .. 5 : P[i] = A[i]
  <2>1. Len(E) \in Nat /\ Len(D) \in Nat
    BY <1>7, LenProperties
  <2>0. A \in Seq(V) /\ E \in Seq(V) /\ D \in Seq(V)
    BY <1>6, <1>7
  <2>2. /\ P \in Seq(V) /\ Len(P) = Len(A) + Len(E) + Len(D)
        /\ \A i \in 1 .. Len(A) : P[i] = A[i]
    BY <2>0, ConcatThree, ZenonT(30)
  <2> HIDE DEF P
  <2> QED
    BY <1>6, <1>7, <2>1, <2>2
<1> HIDE DEF P
<1>9. /\ S \in Seq(V) /\ Len(S) = 14
      /\ \A i \in 1 .. 5 : S[i] = A[i]
      /\ \A i \in 7 .. 14 : S[i] = K[i - 6]
  <2>1. /\ S \in Seq(V) /\ Len(S) = Len(P) + Len(K)
        /\ \A i \in 1 .. Len(P) : S[i] = P[i]
        /\ \A i \in Len(P) + 1 .. Len(P) + Len(K) : S[i] = K[i - Len(P)]
    BY <1>6, <1>8, ConcatAt, ZenonT(30)
  <2> HIDE DEF S
  <2> QED
    BY <1>6, <1>8, <2>1
<1>10. Pushed(v) = Reverse(S)
  BY <1>5 DEF P
<1> HIDE DEF S
<1>11. \A i \in 1 .. 14 : Pushed(v)[i] = S[15 - i]
  BY <1>9, <1>10 DEF Reverse
<1>12. /\ Pushed(v)[1] = S[14] /\ Pushed(v)[2] = S[13] /\ Pushed(v)[3] = S[12]
       /\ Pushed(v)[5] = S[10] /\ Pushed(v)[6] = S[9] /\ Pushed(v)[7] = S[8]
       /\ Pushed(v)[8] = S[7] /\ Pushed(v)[10] = S[5] /\ Pushed(v)[11] = S[4]
       /\ Pushed(v)[12] = S[3] /\ Pushed(v)[13] = S[2] /\ Pushed(v)[14] = S[1]
  BY <1>11
<1>13. /\ S[14] = K[8] /\ S[13] = K[7] /\ S[12] = K[6] /\ S[10] = K[4] /\ S[9] = K[3]
       /\ S[8] = K[2] /\ S[7] = K[1]
       /\ S[5] = A[5] /\ S[4] = A[4] /\ S[3] = A[3] /\ S[2] = A[2] /\ S[1] = A[1]
  BY <1>9
<1> QED
  BY <1>3, <1>4, <1>12, <1>13

(* The order of the words on the kernel stack, from the top, and the place *)
(* of a register in it.                                                    *)
FrameOrder(o) ==
    /\ DOMAIN o = 1 .. 14
    /\ o[1] = "edi" /\ o[2] = "esi" /\ o[3] = "ebp" /\ o[4] = "handler_esp" /\ o[5] = "ebx"
    /\ o[6] = "edx" /\ o[7] = "ecx" /\ o[8] = "eax" /\ o[9] = "err_code" /\ o[10] = "eip"
    /\ o[11] = "cs" /\ o[12] = "eflags" /\ o[13] = "esp" /\ o[14] = "ss"

Index(o, r) == CHOOSE i \in DOMAIN o : o[i] = r

(* A register has one place in the frame.                                  *)
LEMMA Located ==
    ASSUME NEW o, FrameOrder(o), NEW k \in 1 .. 14, NEW r, o[k] = r
    PROVE  Index(o, r) = k
<1>1. \A i \in 1 .. 14 : o[i] = r => i = k
  BY DEF FrameOrder
<1>2. DOMAIN o = 1 .. 14
  BY DEF FrameOrder
<1>3. Index(o, r) \in DOMAIN o /\ o[Index(o, r)] = r
  BY <1>2, Zenon DEF Index
<1> QED
  BY <1>1, <1>2, <1>3

(* What is read from the frame under the name of a register is what that   *)
(* register held when the frame was pushed.                                *)
LEMMA ReadByName ==
    ASSUME NEW v, NEW o, FrameOrder(o)
    PROVE  \A r \in Registers : Pushed(v)[Index(o, r)] = reg[r]
<1> SUFFICES ASSUME NEW r \in Registers
             PROVE  Pushed(v)[Index(o, r)] = reg[r]
  OBVIOUS
<1> DEFINE s == Pushed(v)
<1>1. /\ s[1] = reg["edi"] /\ s[2] = reg["esi"] /\ s[3] = reg["ebp"] /\ s[5] = reg["ebx"]
      /\ s[6] = reg["edx"] /\ s[7] = reg["ecx"] /\ s[8] = reg["eax"]
      /\ s[10] = reg["eip"] /\ s[11] = reg["cs"]
      /\ s[12] = reg["eflags"] /\ s[13] = reg["esp"] /\ s[14] = reg["ss"]
  BY PushedIs
<1> HIDE DEF s
<1>2. PICK k \in 1 .. 14 : o[k] = r /\ s[k] = reg[r]
  BY <1>1, RegistersAre DEF FrameOrder
<1>3. Index(o, r) = k
  BY <1>2, Located, Zenon
<1> QED
  BY <1>2, <1>3 DEF s

(* struct interrupt_frame lists the words in that order ...                *)
LEMMA FrameLayoutOrder == FrameOrder(FrameLayout)
BY DEF FrameOrder, FrameLayout

(* ... and so do popad, the pop of the error code and iret.                *)
PopOrder == Reverse(PushadPushes) \o <<"err_code">> \o Reverse(ProcessorPushes)

(* The order of the pops is the one of the frame.                          *)
LEMMA PopOrderOrder == FrameOrder(PopOrder)
<1> DEFINE a == Reverse(PushadPushes)
           b == Reverse(ProcessorPushes)
           e == <<"err_code">>
           V == {"edi", "esi", "ebp", "handler_esp", "ebx", "edx", "ecx", "eax", "err_code",
                 "eip", "cs", "eflags", "esp", "ss"}
<1>1. /\ a \in Seq(V) /\ Len(a) = 8
      /\ a[1] = "edi" /\ a[2] = "esi" /\ a[3] = "ebp" /\ a[4] = "handler_esp" /\ a[5] = "ebx"
      /\ a[6] = "edx" /\ a[7] = "ecx" /\ a[8] = "eax"
  <2>1. /\ DOMAIN a = 1 .. 8 /\ a = [i \in 1 .. 8 |-> PushadPushes[9 - i]]
    BY DEF Reverse, PushadPushes
  <2> HIDE DEF a
  <2>2. /\ a[1] = "edi" /\ a[2] = "esi" /\ a[3] = "ebp" /\ a[4] = "handler_esp" /\ a[5] = "ebx"
        /\ a[6] = "edx" /\ a[7] = "ecx" /\ a[8] = "eax"
    BY <2>1 DEF PushadPushes
  <2>3. a \in [1 .. 8 -> V]
    BY <2>1, <2>2
  <2> HIDE DEF V
  <2>4. a \in Seq(V) /\ Len(a) = 8
    BY <2>3, FunctionIsSeq
  <2> QED
    BY <2>2, <2>4
<1>2. /\ b \in Seq(V) /\ Len(b) = 5
      /\ b[1] = "eip" /\ b[2] = "cs" /\ b[3] = "eflags" /\ b[4] = "esp" /\ b[5] = "ss"
  <2>1. /\ DOMAIN b = 1 .. 5 /\ b = [i \in 1 .. 5 |-> ProcessorPushes[6 - i]]
    BY DEF Reverse, ProcessorPushes
  <2> HIDE DEF b
  <2>2. b[1] = "eip" /\ b[2] = "cs" /\ b[3] = "eflags" /\ b[4] = "esp" /\ b[5] = "ss"
    BY <2>1 DEF ProcessorPushes
  <2>3. b \in [1 .. 5 -> V]
    BY <2>1, <2>2
  <2> HIDE DEF V
  <2>4. b \in Seq(V) /\ Len(b) = 5
    BY <2>3, FunctionIsSeq
  <2> QED
    BY <2>2, <2>4
<1>3. e \in Seq(V) /\ Len(e) = 1 /\ e[1] = "err_code"
  OBVIOUS
<1>4. PopOrder = (a \o e) \o b
  BY DEF PopOrder
<1> HIDE DEF a, b, e, V
<1> DEFINE c == a \o e
<1>5. /\ c \in Seq(V) /\ Len(c) = Len(a) + Len(e)
      /\ \A i \in 1 .. Len(a) : c[i] = a[i]
      /\ \A i \in Len(a) + 1 .. Len(a) + Len(e) : c[i] = e[i - Len(a)]
  BY <1>1, <1>3, ConcatAt, ZenonT(30)
<1> HIDE DEF c
<1>6. /\ c \in Seq(V) /\ Len(c) = 9
      /\ c[1] = a[1] /\ c[2] = a[2] /\ c[3] = a[3] /\ c[4] = a[4] /\ c[5] = a[5]
      /\ c[6] = a[6] /\ c[7] = a[7] /\ c[8] = a[8] /\ c[9] = e[1]
  BY <1>1, <1>3, <1>5
<1> DEFINE d == c \o b
<1>7. /\ d \in Seq(V) /\ Len(d) = Len(c) + Len(b)
      /\ \A i \in 1 .. Len(c) : d[i] = c[i]
      /\ \A i \in Len(c) + 1 .. Len(c) + Len(b) : d[i] = b[i - Len(c)]
  BY <1>2, <1>6, ConcatAt, ZenonT(30)
<1>8. PopOrder = d
  BY <1>4 DEF c
<1> HIDE DEF d
<1>9. DOMAIN d = 1 .. 14
  BY <1>2, <1>6, <1>7
<1>10. /\ d[1] = c[1] /\ d[2] = c[2] /\ d[3] = c[3] /\ d[4] = c[4] /\ d[5] = c[5]
       /\ d[6] = c[6] /\ d[7] = c[7] /\ d[8] = c[8] /\ d[9] = c[9]
       /\ d[10] = b[1] /\ d[11] = b[2] /\ d[12] = b[3] /\ d[13] = b[4] /\ d[14] = b[5]
  BY <1>2, <1>6, <1>7
<1> QED
  BY <1>1, <1>2, <1>3, <1>6, <1>8, <1>9, <1>10 DEF FrameOrder

(* A return without a switch restores every register.                      *)
LEMMA PoppedIs ==
    ASSUME NEW v
    PROVE  /\ DOMAIN Popped(Pushed(v)) = Registers
           /\ \A r \in Registers : Popped(Pushed(v))[r] = reg[r]
<1>1. Popped(Pushed(v)) = [r \in Registers |-> Pushed(v)[Index(PopOrder, r)]]
  BY DEF Popped, PopOrder, Index
<1>2. \A r \in Registers : Pushed(v)[Index(PopOrder, r)] = reg[r]
  BY ReadByName, PopOrderOrder, Zenon
<1> QED
  BY <1>1, <1>2, Zenon

(* task_save_state copies every register from the frame.                   *)
LEMMA SavedIs ==
    ASSUME NEW v
    PROVE  /\ DOMAIN task_save_state(Frame(Pushed(v))) = Registers
           /\ \A r \in Registers : task_save_state(Frame(Pushed(v)))[r] = reg[r]
<1>1. \A r \in Registers : r \in ToSet(FrameLayout)
  BY RegistersAre DEF ToSet, FrameLayout
<1>2. ASSUME NEW r \in Registers
      PROVE  Frame(Pushed(v))[r] = reg[r]
  <2>1. \A q \in Registers : Pushed(v)[Index(FrameLayout, q)] = reg[q]
    BY ReadByName, FrameLayoutOrder, Zenon
  <2> QED
    BY <1>1, <2>1, Zenon DEF Frame, Index
<1> QED
  BY <1>2, Zenon DEF task_save_state

(* task_return restores every register but ebp and eflags, and loads the   *)
(* data segments from the word at offset 44, which is ss.                  *)
LEMMA RestoredIs ==
    ASSUME NEW s
    PROVE  /\ DOMAIN task_return(s) = Registers
           /\ \A r \in Registers \ {"ebp", "eflags"} : task_return(s)[r] = s[r]
           /\ At(s, 44) = s["ss"]
<1> DEFINE a == At(s, 0)     b == At(s, 4)    c == At(s, 16)   d == At(s, 20)
           e == At(s, 24)    f == At(s, 12)   g == At(s, 28)   h == At(s, 32)
           i == At(s, 40)    j == At(s, 44)   k == Of("kernel stack")  l == Of("kernel flags")
           n == task_return(s)
<1>1. /\ a = s["edi"] /\ b = s["esi"] /\ c = s["edx"] /\ d = s["ecx"] /\ e = s["eax"]
      /\ f = s["ebx"] /\ g = s["eip"] /\ h = s["cs"] /\ i = s["esp"] /\ j = s["ss"]
  BY DEF At, RegistersLayout
<1>2. n = [edi |-> a, esi |-> b, ebp |-> k, edx |-> c, ecx |-> d, eax |-> e, ebx |-> f,
           eip |-> g, cs |-> h, eflags |-> l, esp |-> i, ss |-> j]
  BY DEF task_return
<1> HIDE DEF a, b, c, d, e, f, g, h, i, j, k, l, n
<1>3. /\ DOMAIN n = {"edi", "esi", "ebp", "edx", "ecx", "eax", "ebx", "eip", "cs", "eflags", "esp", "ss"}
      /\ n["edi"] = a /\ n["esi"] = b /\ n["edx"] = c /\ n["ecx"] = d /\ n["eax"] = e
      /\ n["ebx"] = f /\ n["eip"] = g /\ n["cs"] = h /\ n["esp"] = i /\ n["ss"] = j
  BY <1>2
<1>4. DOMAIN n = Registers
  BY <1>3, RegistersAre
<1>5. \A r \in Registers \ {"ebp", "eflags"} : n[r] = s[r]
  BY <1>1, <1>3, RegistersAre
<1> QED
  BY <1>1, <1>4, <1>5 DEF n, j

----------------------------------------------------------------------------
(* The registers that survive a switch; images that agree on them; the     *)
(* image of a task in user mode.                                           *)
Kept == Registers \ {"ebp", "eflags"}
Agree(f, g) == \A r \in Kept : f[r] = g[r]
UserImage(f) == DOMAIN f = Registers /\ f["cs"] = UserCode /\ f["ss"] = UserData

(* Every live task has the image of a task in user mode.                   *)
Images ==
    /\ DOMAIN saved = Tasks /\ DOMAIN mine = Tasks
    /\ \A t \in Tasks : DOMAIN mine[t] = Registers
    /\ \A t \in live : UserImage(saved[t])

(* A task that waits has the image it was left with; the one that runs has *)
(* its own registers.                                                      *)
Waiting == mode = "user" => \A t \in live \ {current} : Agree(saved[t], mine[t])
Running == mode = "user" => Agree(reg, mine[current])

(* The inductive invariant.                                                *)
IInv ==
    /\ mode \in {"user", "panic"}
    /\ UserModeSane
    /\ Images
    /\ Waiting
    /\ Running
    /\ MasterServes

(* The segments survive a switch, and eax is a register of its own.        *)
LEMMA KeptAre == "cs" \in Kept /\ "ss" \in Kept /\ Kept \subseteq Registers /\ "eax" \in Registers
                 /\ "cs" # "eax" /\ "ss" # "eax"
BY RegistersAre DEF Kept

(* A new task starts in user mode with the registers task_init gave it.    *)
LEMMA NewIs ==
    ASSUME NEW t
    PROVE  UserImage(NewRegisters(t)) /\ UserImage(task_return(NewRegisters(t)))
           /\ Agree(task_return(NewRegisters(t)), NewRegisters(t))
<1>1. UserImage(NewRegisters(t))
  BY RegistersAre DEF UserImage, NewRegisters
<1>2. /\ DOMAIN task_return(NewRegisters(t)) = Registers
      /\ \A r \in Kept : task_return(NewRegisters(t))[r] = NewRegisters(t)[r]
  BY RestoredIs, Zenon DEF Kept
<1> QED
  BY <1>1, <1>2, KeptAre, Zenon DEF UserImage, Agree

(* task_save_state on the frame of an interrupt.                           *)
LEMMA SaveKeeps ==
    ASSUME NEW v
    PROVE  LET s == task_save_state(Frame(Pushed(v)))
           IN  /\ UserImage(reg) => UserImage(s)
               /\ Agree(s, reg)
<1>1. /\ DOMAIN task_save_state(Frame(Pushed(v))) = Registers
      /\ \A r \in Registers : task_save_state(Frame(Pushed(v)))[r] = reg[r]
  BY SavedIs
<1> QED
  BY <1>1, KeptAre, Zenon DEF UserImage, Agree

(* A return without a switch leaves a task in user mode as it was.         *)
LEMMA PopKeeps ==
    ASSUME NEW v
    PROVE  /\ UserImage(reg) => UserImage(Popped(Pushed(v)))
           /\ Agree(Popped(Pushed(v)), reg)
<1>1. /\ DOMAIN Popped(Pushed(v)) = Registers
      /\ \A r \in Registers : Popped(Pushed(v))[r] = reg[r]
  BY PoppedIs
<1> QED
  BY <1>1, KeptAre, Zenon DEF UserImage, Agree

(* task_return leaves a task in user mode as it was saved.                 *)
LEMMA RestoreKeeps ==
    ASSUME NEW s
    PROVE  /\ UserImage(s) => UserImage(task_return(s)) /\ At(s, 44) = UserData
           /\ Agree(task_return(s), s)
<1>1. /\ DOMAIN task_return(s) = Registers
      /\ \A r \in Kept : task_return(s)[r] = s[r]
      /\ At(s, 44) = s["ss"]
  BY RestoredIs, Zenon DEF Kept
<1> QED
  BY <1>1, KeptAre, Zenon DEF UserImage, Agree

(* Agreement is transitive ...                                             *)
LEMMA AgreeTrans ==
    ASSUME NEW f, NEW g, NEW h, Agree(f, g), Agree(g, h)
    PROVE  Agree(f, h)
BY Zenon DEF Agree

(* ... and symmetric.                                                      *)
LEMMA AgreeSym ==
    ASSUME NEW f, NEW g, Agree(f, g)
    PROVE  Agree(g, f)
BY Zenon DEF Agree

(* After the acknowledgement of the first controller only interrupts of    *)
(* the second are in service.                                              *)
LEMMA AckLeavesSecond ==
    ASSUME IInv, mode = "user", NEW n \in 0 .. 15
    PROVE  /\ _ACK_IRQ_EOI(Raise(n)) \subseteq 0 .. 15
           /\ \A k \in _ACK_IRQ_EOI(Raise(n)) : k > 7
<1>1. in_service \subseteq 0 .. 15 /\ \A k \in in_service : k > 7
  BY DEF IInv, MasterServes, UserModeSane, TypeOK
<1>0. \A k \in in_service : k \in 0 .. 15 /\ ~(k <= 7)
  BY <1>1
<1>2. \A k : k \in _ACK_IRQ_EOI(Raise(n)) =>
               k \in Raise(n) /\ ~(k <= 7 /\ \A j \in Raise(n) : j <= 7 => k <= j)
  BY DEF _ACK_IRQ_EOI
<1>3. PICK m \in 0 .. 7 : \A k \in Raise(n) : k \in 0 .. 15 /\ (k <= 7 => k = m)
  <2>1. CASE n <= 7
    <3>1. \A k \in Raise(n) : k \in in_service \/ k = n
      BY <2>1 DEF Raise
    <3>2. n \in 0 .. 7 /\ \A k \in Raise(n) : k \in 0 .. 15 /\ (k <= 7 => k = n)
      BY <1>0, <2>1, <3>1
    <3> QED
      BY <3>2
  <2>2. CASE n > 7
    <3>1. \A k \in Raise(n) : k \in in_service \/ k = n \/ k = 2
      BY DEF Raise
    <3>2. \A k \in Raise(n) : k \in 0 .. 15 /\ (k <= 7 => k = 2)
      BY <1>0, <2>2, <3>1
    <3> QED
      BY <3>2
  <2> QED
    BY <2>1, <2>2
<1>4. \A k \in _ACK_IRQ_EOI(Raise(n)) : k \in 0 .. 15 /\ ~(k <= 7)
  BY <1>2, <1>3
<1> QED
  BY <1>4

(* The first task runs with the registers task_init gave it.               *)
LEMMA InitIInv == Init => IInv
<1> SUFFICES ASSUME Init PROVE IInv
  OBVIOUS
<1>1. PICK t \in Tasks : /\ current = t /\ live = {t} /\ page = t
                         /\ reg = task_return(NewRegisters(t))
  BY DEF Init
<1>2. \A u : UserImage(NewRegisters(u)) /\ UserImage(task_return(NewRegisters(u)))
  BY NewIs, Zenon
<1>3. /\ saved = [u \in Tasks |-> NewRegisters(u)]
      /\ mine = [u \in Tasks |-> task_return(NewRegisters(u))]
      /\ segments = UserData /\ in_service = {} /\ mode = "user"
  BY DEF Init
<1>4. DOMAIN reg = Registers /\ reg["cs"] = UserCode /\ reg["ss"] = UserData
  BY <1>1, <1>2, Zenon DEF UserImage
<1>5. UserModeSane
  BY <1>1, <1>3, <1>4 DEF UserModeSane, TypeOK
<1>6. Images
  BY <1>1, <1>2, <1>3, Zenon DEF Images, UserImage
<1>7. Waiting /\ Running
  BY <1>1, <1>3, Zenon DEF Waiting, Running, Agree
<1> QED
  BY <1>3, <1>5, <1>6, <1>7 DEF IInv, MasterServes

(* What the entries have in common: the images that the tasks of live will *)
(* come back from are good, and those of the tasks that wait are what the  *)
(* tasks last had.                                                         *)
ImagesGood ==
    /\ DOMAIN saved' = Tasks
    /\ \A t \in live : UserImage(saved'[t])
    /\ \A t \in live \ {current} : Agree(saved'[t], mine[t])

(* What the invariant says in user mode.                                   *)
LEMMA UserState ==
    ASSUME IInv, mode = "user"
    PROVE  /\ current \in live /\ live \subseteq Tasks /\ current \in Tasks
           /\ UserImage(reg) /\ Agree(reg, mine[current])
           /\ DOMAIN saved = Tasks /\ DOMAIN mine = Tasks
           /\ \A t \in Tasks : DOMAIN mine[t] = Registers
           /\ \A t \in live : UserImage(saved[t])
           /\ \A t \in live \ {current} : Agree(saved[t], mine[t])
           /\ page = current /\ segments = UserData
           /\ in_service \subseteq 0 .. 15 /\ \A k \in in_service : k > 7
BY DEF IInv, UserModeSane, TypeOK, Images, Waiting, Running, UserImage, MasterServes

(* After task_save_state the images are good, and the one of the running   *)
(* task is what it had.                                                    *)
LEMMA SaveGood ==
    ASSUME IInv, mode = "user", NEW v, Save(v)
    PROVE  ImagesGood /\ Agree(saved'[current], mine[current])
<1> DEFINE s == task_save_state(Frame(Pushed(v)))
<1>1. UserImage(s) /\ Agree(s, reg)
  BY SaveKeeps, UserState
<1>2. Agree(s, mine[current])
  BY <1>1, AgreeTrans, UserState, Zenon
<1>3. saved' = [saved EXCEPT ![current] = s]
  BY DEF Save
<1> HIDE DEF s
<1>4. /\ DOMAIN saved' = Tasks /\ saved'[current] = s
      /\ \A t \in Tasks : t # current => saved'[t] = saved[t]
  BY <1>3, UserState
<1> QED
  BY <1>1, <1>2, <1>4, UserState, Zenon DEF ImagesGood

(* Images that nobody saves to stay good.                                  *)
LEMMA NoSaveGood ==
    ASSUME IInv, mode = "user", UNCHANGED saved
    PROVE  ImagesGood
BY UserState DEF ImagesGood

(* A return to the task that was interrupted keeps the invariant.          *)
LEMMA ReturnKeeps ==
    ASSUME IInv, mode = "user", NEW v, Return(v), ImagesGood, mine' = mine,
           in_service' \subseteq 0 .. 15, \A k \in in_service' : k > 7
    PROVE  IInv'
<1>1. UserImage(Popped(Pushed(v))) /\ Agree(Popped(Pushed(v)), reg)
  BY PopKeeps, UserState
<1>2. /\ reg' = Popped(Pushed(v)) /\ page' = current /\ segments' = UserData
      /\ current' = current /\ live' = live /\ mode' = mode
  BY DEF Return, task_page
<1>3. UserImage(reg') /\ Agree(reg', mine[current])
  BY <1>1, <1>2, AgreeTrans, UserState, Zenon
<1>4. UserModeSane'
  BY <1>2, <1>3, UserState DEF UserModeSane, TypeOK, UserImage
<1>5. Images'
  BY <1>2, UserState, Zenon DEF Images, ImagesGood
<1>6. Waiting' /\ Running'
  BY <1>2, <1>3, Zenon DEF Waiting, Running, ImagesGood
<1> QED
  BY <1>2, <1>4, <1>5, <1>6 DEF IInv, MasterServes

(* A switch to a task loads its image, its pages and its segments.         *)
LEMMA SwitchKeeps ==
    ASSUME NEW t, NEW image, SwitchTo(t, image), UserImage(image[t])
    PROVE  /\ current' = t /\ page' = t /\ segments' = UserData
           /\ UserImage(reg') /\ Agree(reg', image[t])
<1> DEFINE s == image[t]
<1>1. current' = t /\ page' = t /\ reg' = task_return(s) /\ segments' = At(s, 44)
  BY DEF SwitchTo
<1>2. UserImage(s)
  OBVIOUS
<1> HIDE DEF s
<1>3. UserImage(task_return(s)) /\ At(s, 44) = UserData /\ Agree(task_return(s), s)
  BY <1>2, RestoreKeeps, Zenon
<1>4. UserImage(reg') /\ Agree(reg', s) /\ segments' = UserData
  BY <1>1, <1>3, Zenon
<1> QED
  BY <1>1, <1>4 DEF s

(* The end of the running task keeps the invariant.                        *)
LEMMA TerminateKeeps ==
    ASSUME IInv, mode = "user", ImagesGood, TerminateCurrent(saved'), UNCHANGED <<mine, in_service>>
    PROVE  IInv'
<1>1. live' = live \ {current} /\ mine' = mine /\ in_service' = in_service
  BY DEF TerminateCurrent
<1>2. Images'
  BY <1>1, UserState, Zenon DEF Images, ImagesGood
<1>3. CASE live' = {}
  <2>1. mode' = "panic" /\ page' = "kernel" /\ segments' = KernelData /\ reg' = reg /\ current' = current
    BY <1>3 DEF TerminateCurrent
  <2>2. UserModeSane'
    BY <1>1, <2>1, UserState DEF UserModeSane, TypeOK, UserImage
  <2> QED
    BY <1>2, <2>1, <2>2 DEF IInv, MasterServes, Waiting, Running
<1>4. CASE live' # {}
  <2>1. PICK t \in live' : SwitchTo(t, saved')
    BY <1>4 DEF TerminateCurrent
  <2>2. mode' = "user"
    BY <1>4 DEF TerminateCurrent
  <2>3. t \in live /\ t # current /\ t \in Tasks
    BY <1>1, <2>1, UserState
  <2>4. UserImage(saved'[t]) /\ Agree(saved'[t], mine[t])
    BY <2>3 DEF ImagesGood
  <2>5. /\ current' = t /\ page' = t /\ segments' = UserData
        /\ UserImage(reg') /\ Agree(reg', saved'[t])
    BY <2>1, <2>4, SwitchKeeps, Zenon
  <2>6. Agree(reg', mine[t])
    BY <2>4, <2>5, AgreeTrans, Zenon
  <2>7. UserModeSane'
    BY <1>1, <2>1, <2>2, <2>3, <2>5, UserState DEF UserModeSane, TypeOK, UserImage
  <2>8. Waiting' /\ Running'
    BY <1>1, <2>2, <2>5, <2>6, Zenon DEF Waiting, Running, ImagesGood
  <2>9. MasterServes'
    BY <1>1, UserState DEF MasterServes
  <2> QED
    BY <1>2, <2>2, <2>7, <2>8, <2>9 DEF IInv
<1> QED
  BY <1>3, <1>4

(* The result of a system call in eax changes nothing else.                *)
LEMMA ResultInEax ==
    ASSUME NEW f, NEW g, UserImage(f), DOMAIN g = Registers, Agree(f, g)
    PROVE  LET fr == [f EXCEPT !["eax"] = Result]
               gr == [g EXCEPT !["eax"] = Result]
           IN  UserImage(fr) /\ DOMAIN gr = Registers /\ Agree(fr, gr)
<1> DEFINE fr == [f EXCEPT !["eax"] = Result]
           gr == [g EXCEPT !["eax"] = Result]
<1>1. DOMAIN f = Registers /\ f["cs"] = UserCode /\ f["ss"] = UserData
  BY DEF UserImage
<1>2. /\ DOMAIN fr = Registers /\ DOMAIN gr = Registers
      /\ fr["eax"] = Result /\ gr["eax"] = Result
      /\ \A r \in Registers : r # "eax" => fr[r] = f[r] /\ gr[r] = g[r]
  BY <1>1, KeptAre
<1> HIDE DEF fr, gr
<1>3. fr["cs"] = UserCode /\ fr["ss"] = UserData
  BY <1>1, <1>2, KeptAre
<1>4. \A r \in Kept : fr[r] = gr[r]
  <2>1. \A r \in Kept : f[r] = g[r]
    BY DEF Agree
  <2> QED
    BY <1>2, <2>1, KeptAre, Zenon
<1> QED
  BY <1>2, <1>3, <1>4 DEF UserImage, Agree, fr, gr

(* Every way into and out of the kernel keeps the invariant.               *)
LEMMA NextIInv ==
    ASSUME IInv, [Next]_vars
    PROVE  IInv'
<1>1. CASE user_step
  <2> USE <1>1
  <2>1. mode = "user"
    BY DEF user_step
  <2>2. /\ saved' = saved /\ current' = current /\ live' = live /\ page' = page
        /\ segments' = segments /\ in_service' = in_service /\ mode' = mode
        /\ mine' = [mine EXCEPT ![current] = reg']
    BY DEF user_step
  <2>3. PICK v \in {1, 2} :
          reg' = [r \in Registers |-> IF r \in {"cs", "ss"} THEN reg[r] ELSE <<current, r, v>>]
    BY DEF user_step
  <2>4. UserImage(reg')
    <3>1. UserImage(reg)
      BY <2>1, UserState
    <3>2. "cs" \in Registers /\ "ss" \in Registers
      BY RegistersAre
    <3> QED
      BY <2>3, <3>1, <3>2 DEF UserImage
  <2>5. /\ DOMAIN mine' = Tasks /\ mine'[current] = reg'
        /\ \A t \in Tasks : t # current => mine'[t] = mine[t]
    BY <2>1, <2>2, UserState
  <2>6. UserModeSane'
    BY <2>1, <2>2, <2>4, UserState DEF UserModeSane, TypeOK, UserImage
  <2>7. Images'
    <3>1. \A t \in Tasks : DOMAIN mine'[t] = Registers
      BY <2>1, <2>4, <2>5, UserState, Zenon DEF UserImage
    <3> QED
      BY <2>1, <2>2, <2>5, <3>1, UserState, Zenon DEF Images
  <2>8. Waiting' /\ Running'
    <3>1. \A t \in live \ {current} : Agree(saved[t], mine'[t])
      BY <2>1, <2>5, UserState
    <3>2. Agree(reg', mine'[current])
      BY <2>5 DEF Agree
    <3> QED
      BY <2>2, <3>1, <3>2, Zenon DEF Waiting, Running
  <2> QED
    BY <2>1, <2>2, <2>6, <2>7, <2>8 DEF IInv, MasterServes
<1>2. CASE timer_interrupt
  <2> USE <1>2
  <2>1. /\ mode = "user" /\ Save(32) /\ in_service' = _ACK_IRQ_EOI(Raise(0))
        /\ mine' = mine /\ live' = live /\ mode' = mode
    BY DEF timer_interrupt
  <2>2. PICK t \in live : SwitchTo(t, saved')
    BY DEF timer_interrupt
  <2>3. ImagesGood /\ Agree(saved'[current], mine[current])
    BY <2>1, SaveGood
  <2>4. UserImage(saved'[t]) /\ \A u \in live : Agree(saved'[u], mine[u])
    BY <2>2, <2>3, Zenon DEF ImagesGood
  <2>5. /\ current' = t /\ page' = t /\ segments' = UserData
        /\ UserImage(reg') /\ Agree(reg', saved'[t])
    BY <2>2, <2>4, SwitchKeeps, Zenon
  <2>6. Agree(reg', mine[t])
    BY <2>4, <2>5, AgreeTrans, Zenon
  <2>7. in_service' \subseteq 0 .. 15 /\ \A k \in in_service' : k > 7
    BY <2>1, AckLeavesSecond
  <2>8. UserModeSane'
    BY <2>1, <2>2, <2>5, <2>7, UserState DEF UserModeSane, TypeOK, UserImage
  <2>9. Images'
    BY <2>1, <2>3, UserState, Zenon DEF Images, ImagesGood
  <2>10. Waiting' /\ Running'
    BY <2>1, <2>4, <2>5, <2>6, Zenon DEF Waiting, Running
  <2> QED
    BY <2>1, <2>7, <2>8, <2>9, <2>10 DEF IInv, MasterServes
<1>3. ASSUME NEW n \in Lines, irq(n)
      PROVE  IInv'
  <2>1. /\ mode = "user" /\ in_service' = _ACK_IRQ_EOI(Raise(n)) /\ mine' = mine
        /\ Return(32 + n)
        /\ Save(32 + n) \/ UNCHANGED saved
    BY <1>3 DEF irq
  <2>2. n \in 0 .. 15
    BY EntryAssumption
  <2>3. in_service' \subseteq 0 .. 15 /\ \A k \in in_service' : k > 7
    BY <2>1, <2>2, AckLeavesSecond
  <2>4. ImagesGood
    BY <2>1, SaveGood, NoSaveGood, Zenon
  <2> QED
    BY <2>1, <2>3, <2>4, ReturnKeeps, Zenon
<1>4. ASSUME NEW v \in Exceptions, exception(v)
      PROVE  IInv'
  <2>1. /\ mode = "user" /\ mine' = mine /\ in_service' = in_service
        /\ Save(v) \/ UNCHANGED saved
        /\ TerminateCurrent(saved') \/ Return(v)
    BY <1>4 DEF exception
  <2>2. ImagesGood
    BY <2>1, SaveGood, NoSaveGood, Zenon
  <2>3. in_service' \subseteq 0 .. 15 /\ \A k \in in_service' : k > 7
    BY <2>1, UserState
  <2>4. CASE TerminateCurrent(saved')
    BY <2>1, <2>2, <2>4, TerminateKeeps
  <2>5. CASE Return(v)
    BY <2>1, <2>2, <2>3, <2>5, ReturnKeeps, Zenon
  <2> QED
    BY <2>1, <2>4, <2>5
<1>5. CASE isr80h_handler
  <2> USE <1>5
  <2> DEFINE p == Popped(Pushed(128))
  <2>1. /\ mode = "user" /\ Save(128) /\ page' = current /\ segments' = UserData
        /\ reg' = [p EXCEPT !["eax"] = Result]
        /\ mine' = [mine EXCEPT ![current]["eax"] = Result]
        /\ current' = current /\ live' = live /\ in_service' = in_service /\ mode' = mode
    BY DEF isr80h_handler, task_page
  <2>2. ImagesGood
    BY <2>1, SaveGood
  <2>3. UserImage(p) /\ Agree(p, mine[current])
    BY <2>1, PopKeeps, AgreeTrans, UserState, Zenon
  <2> HIDE DEF p
  <2> DEFINE m == [mine[current] EXCEPT !["eax"] = Result]
  <2>4. UserImage(reg') /\ DOMAIN m = Registers /\ Agree(reg', m)
    BY <2>1, <2>3, ResultInEax, UserState, Zenon
  <2>5. mine' = [mine EXCEPT ![current] = m]
    BY <2>1
  <2> HIDE DEF m
  <2>6. /\ DOMAIN mine' = Tasks /\ mine'[current] = m
        /\ \A t \in Tasks : t # current => mine'[t] = mine[t]
    BY <2>1, <2>5, UserState
  <2>7. UserModeSane'
    BY <2>1, <2>4, UserState DEF UserModeSane, TypeOK, UserImage
  <2>8. Images'
    <3>1. \A t \in Tasks : DOMAIN mine'[t] = Registers
      BY <2>1, <2>4, <2>6, UserState, Zenon
    <3> QED
      BY <2>1, <2>2, <2>6, <3>1, Zenon DEF Images, ImagesGood
  <2>9. Waiting' /\ Running'
    <3>1. \A t \in live \ {current} : Agree(saved'[t], mine'[t])
      BY <2>1, <2>2, <2>6, UserState DEF ImagesGood
    <3> QED
      BY <2>1, <2>4, <2>6, <3>1, Zenon DEF Waiting, Running
  <2>10. MasterServes'
    BY <2>1, UserState DEF MasterServes
  <2> QED
    BY <2>1, <2>7, <2>8, <2>9, <2>10 DEF IInv
<1>6. CASE sys_exit
  <2>1. mode = "user" /\ Save(128) /\ TerminateCurrent(saved') /\ UNCHANGED <<mine, in_service>>
    BY <1>6 DEF sys_exit
  <2> QED
    BY <2>1, SaveGood, TerminateKeeps
<1>7. ASSUME NEW t \in Tasks, sys_process_load_start(t)
      PROVE  IInv'
  <2> DEFINE s == task_save_state(Frame(Pushed(128)))
  <2>1. /\ mode = "user" /\ t \notin live
        /\ saved' = [saved EXCEPT ![current] = s, ![t] = NewRegisters(t)]
        /\ SwitchTo(t, saved') /\ live' = live \cup {t}
        /\ mine' = [mine EXCEPT ![t] = reg'] /\ in_service' = in_service /\ mode' = mode
    BY <1>7 DEF sys_process_load_start
  <2>2. UserImage(s) /\ Agree(s, mine[current])
    BY <2>1, SaveKeeps, AgreeTrans, UserState, Zenon
  <2> HIDE DEF s
  <2>3. t # current /\ current \in Tasks
    BY <2>1, UserState
  <2>4. /\ DOMAIN saved' = Tasks /\ saved'[t] = NewRegisters(t) /\ saved'[current] = s
        /\ \A u \in Tasks : u # t /\ u # current => saved'[u] = saved[u]
    BY <2>1, <2>3, UserState
  <2>5. UserImage(saved'[t])
    BY <2>4, NewIs, Zenon
  <2>6. /\ current' = t /\ page' = t /\ segments' = UserData
        /\ UserImage(reg') /\ Agree(reg', saved'[t])
    BY <2>1, <2>5, SwitchKeeps, Zenon
  <2>7. /\ DOMAIN mine' = Tasks /\ mine'[t] = reg'
        /\ \A u \in Tasks : u # t => mine'[u] = mine[u]
    BY <2>1, UserState
  <2>8. UserModeSane'
    BY <2>1, <2>6, UserState DEF UserModeSane, TypeOK, UserImage
  <2>9. \A u \in live : UserImage(saved'[u]) /\ Agree(saved'[u], mine'[u])
    <3> SUFFICES ASSUME NEW u \in live
                 PROVE  UserImage(saved'[u]) /\ Agree(saved'[u], mine'[u])
      OBVIOUS
    <3>1. u \in Tasks /\ u # t /\ mine'[u] = mine[u]
      BY <2>1, <2>7, UserState
    <3>2. CASE u = current
      BY <2>2, <2>4, <3>1, <3>2, Zenon
    <3>3. CASE u # current
      <4>1. saved'[u] = saved[u]
        BY <2>4, <3>1, <3>3
      <4>2. UserImage(saved[u]) /\ Agree(saved[u], mine[u])
        BY <2>1, <3>3, UserState
      <4> QED
        BY <3>1, <4>1, <4>2, Zenon
    <3> QED
      BY <3>2, <3>3
  <2>10. Images'
    <3>1. \A u \in Tasks : DOMAIN mine'[u] = Registers
      BY <2>1, <2>6, <2>7, UserState, Zenon DEF UserImage
    <3>2. \A u \in live' : UserImage(saved'[u])
      BY <2>1, <2>5, <2>9, Zenon
    <3> QED
      BY <2>4, <2>7, <3>1, <3>2, Zenon DEF Images
  <2>11. Waiting' /\ Running'
    <3>1. \A u \in live' \ {t} : Agree(saved'[u], mine'[u])
      BY <2>1, <2>9, Zenon
    <3>2. Agree(reg', mine'[t])
      BY <2>7 DEF Agree
    <3> QED
      BY <2>6, <3>1, <3>2, Zenon DEF Waiting, Running
  <2>12. MasterServes'
    BY <2>1, UserState DEF MasterServes
  <2> QED
    BY <2>1, <2>8, <2>10, <2>11, <2>12 DEF IInv
<1>8. ASSUME NEW t \in Tasks, sys_invoke_fails(t)
      PROVE  IInv'
  <2> DEFINE s == task_save_state(Frame(Pushed(128)))
             p == Popped(Pushed(128))
             m == [mine[current] EXCEPT !["eax"] = Result]
  <2>1. /\ mode = "user" /\ t \notin live
        /\ saved' = [saved EXCEPT ![current] = s, ![t] = NewRegisters(t)]
        /\ live' = live \cup {t} /\ page' = current /\ segments' = UserData
        /\ reg' = [p EXCEPT !["eax"] = Result]
        /\ mine' = [mine EXCEPT ![current]["eax"] = Result, ![t] = task_return(NewRegisters(t))]
        /\ current' = current /\ in_service' = in_service /\ mode' = mode
    BY <1>8 DEF sys_invoke_fails, task_page
  <2>2. UserImage(s)
    BY <2>1, SaveKeeps, UserState, Zenon
  <2>3. UserImage(p) /\ Agree(p, mine[current])
    BY <2>1, PopKeeps, AgreeTrans, UserState, Zenon
  <2> HIDE DEF s, p
  <2>4. UserImage(reg') /\ DOMAIN m = Registers /\ Agree(reg', m)
    BY <2>1, <2>3, ResultInEax, UserState, Zenon
  <2>5. t # current /\ current \in Tasks
    BY <2>1, UserState
  <2>6. /\ DOMAIN saved' = Tasks /\ saved'[t] = NewRegisters(t) /\ saved'[current] = s
        /\ \A u \in Tasks : u # t /\ u # current => saved'[u] = saved[u]
    BY <2>1, <2>5, UserState
  <2>7. mine' = [mine EXCEPT ![current] = m, ![t] = task_return(NewRegisters(t))]
    BY <2>1
  <2> HIDE DEF m
  <2>8. /\ DOMAIN mine' = Tasks /\ mine'[t] = task_return(NewRegisters(t)) /\ mine'[current] = m
        /\ \A u \in Tasks : u # t /\ u # current => mine'[u] = mine[u]
    BY <2>1, <2>5, <2>7, UserState
  <2>9. UserModeSane'
    BY <2>1, <2>4, UserState DEF UserModeSane, TypeOK, UserImage
  <2>10. /\ UserImage(NewRegisters(t)) /\ UserImage(task_return(NewRegisters(t)))
         /\ Agree(NewRegisters(t), task_return(NewRegisters(t)))
    BY NewIs, AgreeSym, Zenon
  <2>11. \A u \in live \ {current} : UserImage(saved'[u]) /\ Agree(saved'[u], mine'[u])
    <3> SUFFICES ASSUME NEW u \in live \ {current}
                 PROVE  UserImage(saved'[u]) /\ Agree(saved'[u], mine'[u])
      OBVIOUS
    <3>1. u \in Tasks /\ u # t /\ u # current
      BY <2>1, UserState
    <3>2. mine'[u] = mine[u] /\ saved'[u] = saved[u]
      BY <2>6, <2>8, <3>1
    <3>3. UserImage(saved[u]) /\ Agree(saved[u], mine[u])
      BY <2>1, UserState
    <3> QED
      BY <3>2, <3>3, Zenon
  <2>12. Images'
    <3>1. \A u \in Tasks : DOMAIN mine'[u] = Registers
      BY <2>1, <2>4, <2>8, <2>10, UserState, Zenon DEF UserImage
    <3>2. \A u \in live' : UserImage(saved'[u])
      BY <2>1, <2>2, <2>6, <2>10, <2>11, Zenon
    <3> QED
      BY <2>6, <2>8, <3>1, <3>2, Zenon DEF Images
  <2>13. Waiting' /\ Running'
    <3>1. \A u \in live' \ {current} : Agree(saved'[u], mine'[u])
      BY <2>1, <2>6, <2>8, <2>10, <2>11, Zenon
    <3> QED
      BY <2>1, <2>4, <2>8, <3>1, Zenon DEF Waiting, Running
  <2>14. MasterServes'
    BY <2>1, UserState DEF MasterServes
  <2> QED
    BY <2>1, <2>9, <2>12, <2>13, <2>14 DEF IInv
<1>9. CASE UNCHANGED vars
  BY <1>9 DEF vars, IInv, UserModeSane, TypeOK, Images, Waiting, Running, MasterServes, Agree, UserImage
<1> QED
  BY <1>1, <1>2, <1>3, <1>4, <1>5, <1>6, <1>7, <1>8, <1>9 DEF Next

(* The inductive invariant holds of every behaviour.                       *)
LEMMA InductiveInvariant == Spec => []IInv
BY InitIInv, NextIInv, PTL DEF Spec

(* A task resumes with the registers it was interrupted with, ebp and      *)
(* eflags aside, whatever tasks ran meanwhile (isr80h, interrupt wrappers, *)
(* task_save_state, task_return).                                          *)
THEOREM RegistersSurvive == Spec => []ResumesIntact
<1>1. IInv => ResumesIntact
  BY DEF IInv, Running, ResumesIntact, Agree, Kept
<1> QED
  BY <1>1, InductiveInvariant, PTL

(* User code runs with its own pages and with the data segments of user    *)
(* mode, whichever way the kernel was left (kernel_page, task_page).       *)
THEOREM KernelPageIsUndone == Spec => []UserModeSane
<1>1. IInv => UserModeSane
  BY DEF IInv
<1> QED
  BY <1>1, InductiveInvariant, PTL

(* No interrupt of the first controller stays in service, so the timer and *)
(* the keyboard are always served (interrupt_handler, the acknowledgement  *)
(* of interrupts).                                                         *)
THEOREM TimerAndKeyboardServed == Spec => []MasterServes
<1>1. IInv => MasterServes
  BY DEF IInv
<1> QED
  BY <1>1, InductiveInvariant, PTL
=============================================================================
