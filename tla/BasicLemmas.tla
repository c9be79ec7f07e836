---------------------------- MODULE BasicLemmas ----------------------------
(***************************************************************************)
(* Facts the proofs of several components need.  Induction over the        *)
(* naturals, as a fact about sets; the existence of functions that are     *)
(* defined by recursion; sequences given by their cells; division with     *)
(* rest; and the least and greatest element of a set.                      *)
(***************************************************************************)
EXTENDS Integers, Sequences, FiniteSetsExt, TLAPS, SequenceTheorems, WellFoundedInduction

(* A set of naturals that is not empty has a least element.                *)
LEMMA LeastElement ==
    ASSUME NEW S \in SUBSET Nat, S # {}
    PROVE  \E x \in S : \A y \in S : x <= y
<1> DEFINE R == {ss \in Nat \X Nat : ss[1] < ss[2]}
<1>1. IsWellFoundedOn(R, Nat)
  BY NatLessThanWellFounded DEF OpToRel
<1> HIDE DEF R
<1>2. \E x \in S : \A y \in S : ~ (<<y, x>> \in R)
  BY <1>1, WFMin
<1>3. PICK x \in S : \A y \in S : ~ (<<y, x>> \in R)
  BY <1>2
<1>4. ASSUME NEW y \in S PROVE x <= y
  <2>1. <<y, x>> \in Nat \X Nat /\ <<y, x>>[1] = y /\ <<y, x>>[2] = x
    OBVIOUS
  <2>2. ~ (y < x)
    BY <1>3, <2>1, Zenon DEF R
  <2> QED
    BY <2>2
<1> QED
  BY <1>4

(* Induction, for a set of naturals.                                       *)
LEMMA SetInduction ==
    ASSUME NEW S, 0 \in S, \A n \in Nat : n \in S => n + 1 \in S
    PROVE  \A n \in Nat : n \in S
<1> DEFINE T == {n \in Nat : n \notin S}
<1>1. SUFFICES ASSUME T # {} PROVE FALSE
  OBVIOUS
<1>2. T \in SUBSET Nat
  OBVIOUS
<1>3. PICK x \in T : \A y \in T : x <= y
  BY <1>1, <1>2, LeastElement
<1>4. x \in Nat /\ x # 0 /\ x \notin S
  OBVIOUS
<1>5. x - 1 \in Nat /\ ~ (x <= x - 1) /\ (x - 1) + 1 = x
  BY <1>4
<1>6. x - 1 \in S
  BY <1>3, <1>5
<1> QED
  BY <1>4, <1>5, <1>6

(* The same, with all smaller numbers as hypothesis.                       *)
LEMMA StrongInduction ==
    ASSUME NEW S, \A n \in Nat : (\A m \in 0 .. n - 1 : m \in S) => n \in S
    PROVE  \A n \in Nat : n \in S
<1> DEFINE T == {n \in Nat : n \notin S}
<1>1. SUFFICES ASSUME T # {} PROVE FALSE
  OBVIOUS
<1>2. PICK x \in T : \A y \in T : x <= y
  BY <1>1, LeastElement
<1>3. \A m \in 0 .. x - 1 : m \in Nat /\ ~(x <= m)
  OBVIOUS
<1>4. \A m \in 0 .. x - 1 : m \in S
  BY <1>2, <1>3
<1> QED
  BY <1>4

(* g is the run of a loop: F[x, k] is the state that round k makes of x.   *)
LoopRun(g, x0, F, n) ==
    g[0] = x0 /\ \A k \in 1 .. n : g[k] = F[<<g[k - 1], k - 1>>]

(* A loop of n rounds has a run.  This is what makes a definition by       *)
(* recursion over 0 .. n mean what it says.                                *)
LEMMA LoopRuns ==
    ASSUME NEW X, NEW x0 \in X, NEW F \in [X \X Nat -> X], NEW n \in Nat
    PROVE  \E g \in [0 .. n -> X] : LoopRun(g, x0, F, n)
<1> DEFINE IsRun(d, g) == g[0] = x0 /\ \A k \in 1 .. d : g[k] = F[<<g[k - 1], k - 1>>]
           S == {d \in Nat : \E g \in [0 .. d -> X] : IsRun(d, g)}
<1>1. 0 \in S
  <2> DEFINE g == [k \in 0 .. 0 |-> x0]
  <2>1. g \in [0 .. 0 -> X] /\ g[0] = x0
    OBVIOUS
  <2>2. 1 .. 0 = {}
    OBVIOUS
  <2> HIDE DEF g
  <2>3. IsRun(0, g)
    BY <2>1, <2>2
  <2> QED
    BY <2>1, <2>3
<1>2. ASSUME NEW d \in Nat, d \in S PROVE d + 1 \in S
  <2>1. PICK g \in [0 .. d -> X] : IsRun(d, g)
    BY <1>2
  <2> DEFINE h == [k \in 0 .. d + 1 |-> IF k <= d THEN g[k] ELSE F[<<g[d], d>>]]
  <2>2. d \in 0 .. d /\ g[d] \in X /\ <<g[d], d>> \in X \X Nat
    OBVIOUS
  <2>3. h \in [0 .. d + 1 -> X]
    <3>1. \A k \in 0 .. d + 1 : k <= d => k \in 0 .. d
      OBVIOUS
    <3> QED
      BY <2>2, <3>1
  <2>4. /\ \A k \in 0 .. d : h[k] = g[k]
        /\ h[d + 1] = F[<<g[d], d>>]
    <3>1. \A k \in 0 .. d : k \in 0 .. d + 1 /\ k <= d
      OBVIOUS
    <3>2. d + 1 \in 0 .. d + 1 /\ ~(d + 1 <= d)
      OBVIOUS
    <3> QED
      BY <3>1, <3>2
  <2> HIDE DEF h
  <2>5. ASSUME NEW k \in 1 .. d + 1
        PROVE  h[k] = F[<<h[k - 1], k - 1>>]
    <3>1. CASE k <= d
      <4>1. k \in 1 .. d /\ k \in 0 .. d /\ k - 1 \in 0 .. d
        BY <3>1
      <4> QED
        BY <2>1, <2>4, <4>1
    <3>2. CASE k = d + 1
      <4>1. k - 1 = d /\ d \in 0 .. d
        BY <3>2
      <4> QED
        BY <2>4, <3>2, <4>1
    <3> QED
      BY <3>1, <3>2
  <2>6. h[0] = x0
    <3>1. 0 \in 0 .. d
      OBVIOUS
    <3> QED
      BY <2>1, <2>4, <3>1
  <2>7. d + 1 \in Nat
    OBVIOUS
  <2>8. IsRun(d + 1, h)
    BY <2>5, <2>6
  <2> QED
    BY <2>3, <2>7, <2>8
<1> HIDE DEF S
<1>3. n \in S
  BY <1>1, <1>2, SetInduction
<1> QED
  BY <1>3 DEF S, LoopRun

----------------------------------------------------------------------------
(* A function on 1 .. n is a sequence of length n.                         *)
LEMMA FunctionIsSeq ==
    ASSUME NEW X, NEW n \in Nat, NEW f \in [1 .. n -> X]
    PROVE  f \in Seq(X) /\ Len(f) = n
<1>1. f \in Seq(X)
  BY SeqDef
<1>2. Len(f) \in Nat /\ DOMAIN f = 1 .. Len(f)
  BY <1>1, LenProperties
<1>3. 1 .. Len(f) = 1 .. n
  BY <1>2
<1> QED
  BY <1>1, <1>2, <1>3

(* The cells of a concatenation.                                           *)
LEMMA ConcatAt ==
    ASSUME NEW X, NEW s \in Seq(X), NEW t \in Seq(X)
    PROVE  /\ s \o t \in Seq(X) /\ Len(s \o t) = Len(s) + Len(t)
           /\ \A i \in 1 .. Len(s) : (s \o t)[i] = s[i]
           /\ \A i \in Len(s) + 1 .. Len(s) + Len(t) : (s \o t)[i] = t[i - Len(s)]
<1> DEFINE c == s \o t
<1>1. /\ c \in Seq(X) /\ Len(c) = Len(s) + Len(t)
      /\ \A i \in 1 .. Len(s) + Len(t) : c[i] = IF i <= Len(s) THEN s[i] ELSE t[i - Len(s)]
  BY ConcatProperties, Zenon
<1>2. Len(s) \in Nat /\ Len(t) \in Nat
  BY LenProperties
<1> HIDE DEF c
<1>3. \A i \in 1 .. Len(s) : i \in 1 .. Len(s) + Len(t) /\ i <= Len(s)
  BY <1>2
<1>4. \A i \in Len(s) + 1 .. Len(s) + Len(t) : i \in 1 .. Len(s) + Len(t) /\ ~(i <= Len(s))
  BY <1>2
<1> QED
  BY <1>1, <1>2, <1>3, <1>4 DEF c

----------------------------------------------------------------------------
(* Division with rest.                                                     *)
LEMMA Division ==
    ASSUME NEW a \in Nat, NEW B \in Nat \ {0}
    PROVE  a \div B \in Nat /\ a % B \in 0 .. B - 1 /\ a = B * (a \div B) + (a % B)
OBVIOUS

(* Multiplication keeps the order.                                         *)
LEMMA TimesMonotonic ==
    ASSUME NEW B \in Nat \ {0}, NEW x \in Nat, NEW y \in Nat
    PROVE  /\ B * x \in Nat /\ B * y \in Nat
           /\ x < y => B * x + B <= B * y
           /\ x <= y => B * x <= B * y
           /\ B * x < B * y => x < y
           /\ B * x <= B * y => x <= y
<1>1. ASSUME NEW u \in Nat, NEW v \in Nat, u < v PROVE B * u + B <= B * v
  <2>1. v - u - 1 \in Nat
    BY <1>1
  <2>2. B * (v - u - 1) >= 0
    BY <2>1
  <2>3. B * (v - u - 1) = B * v - B * u - B
    OBVIOUS
  <2> QED
    BY <2>2, <2>3
<1>2. B * x \in Nat /\ B * y \in Nat
  OBVIOUS
<1>3. x < y => B * x + B <= B * y
  BY <1>1
<1>4. y < x => B * y + B <= B * x
  BY <1>1
<1> QED
  BY <1>2, <1>3, <1>4

(* Quotient and rest are unique.                                           *)
LEMMA UniqueRest ==
    ASSUME NEW B \in Nat \ {0}, NEW p \in Nat, NEW q \in Nat,
           NEW r \in 0 .. B - 1, NEW s \in 0 .. B - 1, B * p + r = B * q + s
    PROVE  r = s /\ p = q
<1>1. B * p \in Nat /\ B * q \in Nat
  OBVIOUS
<1>2. (p < q => B * p + B <= B * q) /\ (q < p => B * q + B <= B * p)
  BY TimesMonotonic
<1>3. p = q
  BY <1>1, <1>2
<1> QED
  BY <1>1, <1>3

(* Quotient and rest of a multiple and a remainder.                        *)
LEMMA DivModOf ==
    ASSUME NEW B \in Nat \ {0}, NEW p \in Nat, NEW r \in 0 .. B - 1
    PROVE  (B * p + r) % B = r /\ (B * p + r) \div B = p
<1> DEFINE a == B * p + r
<1>1. a \in Nat /\ B * p \in Nat
  OBVIOUS
<1> HIDE DEF a
<1>2. a \div B \in Nat /\ a % B \in 0 .. B - 1 /\ a = B * (a \div B) + (a % B)
  BY <1>1, Division
<1>3. B * p + r = B * (a \div B) + (a % B)
  BY <1>2 DEF a
<1>4. r = a % B /\ p = a \div B
  BY <1>2, <1>3, UniqueRest
<1> QED
  BY <1>4 DEF a

----------------------------------------------------------------------------
(* A largest element of a finite set of numbers is what Max finds, and a   *)
(* smallest one is what Min finds.                                         *)
LEMMA MaxIs ==
    ASSUME NEW n \in Nat, NEW S \in SUBSET (1 .. n), S # {}
    PROVE  Max(S) \in S /\ \A y \in S : y <= Max(S)
<1> DEFINE T == {n - x : x \in S}
<1>1. T \in SUBSET Nat /\ T # {}
  <2>1. \A x \in S : x \in 1 .. n /\ n - x \in Nat
    OBVIOUS
  <2>2. PICK x \in S : TRUE
    OBVIOUS
  <2> QED
    BY <2>1, <2>2
<1>2. PICK t \in T : \A y \in T : t <= y
  BY <1>1, LeastElement
<1>3. PICK x \in S : t = n - x
  BY <1>2
<1>4. \A y \in S : x >= y
  <2> SUFFICES ASSUME NEW y \in S PROVE x >= y
    OBVIOUS
  <2>1. n - y \in T
    OBVIOUS
  <2> QED
    BY <1>2, <1>3, <2>1
<1>5. Max(S) \in S /\ \A y \in S : Max(S) >= y
  BY <1>4, Zenon DEF Max
<1> QED
  BY <1>5

(* A set of naturals that is not empty has the element that Min finds.     *)
LEMMA MinIs ==
    ASSUME NEW S \in SUBSET Nat, S # {}
    PROVE  Min(S) \in S /\ \A y \in S : Min(S) <= y
<1>1. PICK x \in S : \A y \in S : x <= y
  BY LeastElement
<1> QED
  BY <1>1, Zenon DEF Min
=============================================================================
