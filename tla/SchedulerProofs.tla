-------------------------- MODULE SchedulerProofs --------------------------
(***************************************************************************)
(* Proofs about the task list, the scheduler and the console.              *)
(*                                                                         *)
(* The first part is about the list of task.c alone: Linked(L, q) says     *)
(* that head, tail, next and prev of L link the tasks of q, in order and   *)
(* each once, and the lemmas say what task_new, task_list_remove and       *)
(* task_get_next make of q.                                                *)
(*                                                                         *)
(* The second part proves the invariants of Scheduler and that it          *)
(* implements RunQueue. None of ListIntact, ProcessTable, KeyboardOwned    *)
(* and PanicOnlyWhenEmpty is inductive alone: ListIntact speaks of the     *)
(* walk along next, and says nothing of the pointer prev that              *)
(* task_list_remove follows. IInv adds that some q is linked and holds     *)
(* exactly the live tasks (ListOrdered), until a task is removed through a *)
(* stale prev field, and that the running task is alive (CurrentLives).    *)
(*                                                                         *)
(* The third part proves of Console that keys reach the process that had   *)
(* the focus.                                                              *)
(***************************************************************************)
EXTENDS Console, BasicLemmas, FiniteSetTheorems, SequenceTheorems

(* No task is twice in q.                                                  *)
Injective(q) == \A i, j \in 1 .. Len(q) : q[i] = q[j] => i = j

(* q is the list that L links.                                             *)
Linked(L, q) ==
    /\ Injective(q)
    /\ L.head = IF q = <<>> THEN None ELSE q[1]
    /\ L.tail = IF q = <<>> THEN None ELSE q[Len(q)]
    /\ \A i \in 1 .. Len(q) :
          L.next[q[i]] = IF i = Len(q) THEN None ELSE q[i + 1]
    /\ \A i \in 2 .. Len(q) : L.prev[q[i]] # None

(* A sequence of different tasks is no longer than there are tasks, which  *)
(* is the bound of the walk in Chain.                                      *)
LEMMA LengthBound ==
    ASSUME NEW q \in Seq(Tasks), Injective(q)
    PROVE  /\ Len(q) <= Cardinality(Tasks)
           /\ Cardinality(ToSet(q)) = Len(q)
<1>1. q \in [1 .. Len(q) -> Tasks] /\ Len(q) \in Nat /\ DOMAIN q = 1 .. Len(q)
  OBVIOUS
<1>2. IsFiniteSet(1 .. Len(q)) /\ Cardinality(1 .. Len(q)) = Len(q)
  <2>1. Len(q) \in Int /\ 1 \in Int
    BY <1>1
  <2>2. IsFiniteSet(1 .. Len(q))
    BY <2>1, FS_Interval
  <2>3. Cardinality(1 .. Len(q)) = IF 1 > Len(q) THEN 0 ELSE Len(q) - 1 + 1
    BY <2>1, FS_Interval
  <2> QED
    BY <1>1, <2>2, <2>3
<1>3. q \in Injection(1 .. Len(q), Tasks)
  BY <1>1 DEF Injective, Injection, IsInjective
<1>4. Len(q) <= Cardinality(Tasks)
  BY <1>2, <1>3, TasksAssumption, FS_Injection
<1>5. q \in [1 .. Len(q) -> ToSet(q)]
  BY <1>1 DEF ToSet
<1>6. q \in Bijection(1 .. Len(q), ToSet(q))
  BY <1>5, <1>1 DEF Bijection, Injection, Surjection, ToSet, Injective, IsInjective
<1>7. Cardinality(ToSet(q)) = Len(q)
  BY <1>2, <1>6, FS_Bijection DEF ExistsBijection
<1> QED
  BY <1>4, <1>7

(* The next fields followed from the head give the list.                   *)
LEMMA ChainIs ==
    ASSUME NEW L, NEW q \in Seq(Tasks), Linked(L, q)
    PROVE  Chain(L) = q
<1> DEFINE N == Cardinality(Tasks)
           n == Len(q)
           step(f, k) ==
              IF k = 0 THEN IF L.head = None THEN <<>> ELSE <<L.head>>
              ELSE LET c == f[k - 1]
                   IN  IF c = <<>> \/ L.next[Last(c)] = None THEN c
                       ELSE Append(c, L.next[Last(c)])
           most(k) == IF k + 1 <= n THEN k + 1 ELSE n
           g == [k \in 0 .. N |-> SubSeq(q, 1, most(k))]
           from == CHOOSE from : from = [k \in 0 .. N |-> step(from, k)]
<1>1. N \in Nat /\ n \in Nat /\ n <= N
  BY LengthBound, TasksAssumption, FS_CardinalityType DEF Linked
<1>2. \A k \in 1 .. n : q[k] \in Tasks /\ q[k] # None
  BY TasksAssumption
<1> HIDE DEF N
<1>3. ASSUME NEW k \in 0 .. N PROVE step(g, k) = SubSeq(q, 1, most(k))
  <2>1. CASE k = 0 /\ n = 0
    <3>1. q = <<>> /\ L.head = None
      BY <2>1 DEF Linked
    <3> QED
      BY <2>1, <3>1
  <2>2. CASE k = 0 /\ n > 0
    <3>1. q # <<>> /\ L.head = q[1] /\ L.head # None
      BY <2>2, <1>2 DEF Linked
    <3>2. SubSeq(q, 1, 1) = <<q[1]>>
      <4>1. SubSeq(q, 1, 1) \in Seq(Tasks) /\ Len(SubSeq(q, 1, 1)) = 1
            /\ SubSeq(q, 1, 1)[1] = q[1]
        BY <2>2
      <4>2. <<q[1]>> \in Seq(Tasks) /\ Len(<<q[1]>>) = 1 /\ <<q[1]>>[1] = q[1]
        BY <2>2, <1>2
      <4>3. \A i \in 1 .. 1 : i = 1
        OBVIOUS
      <4> HIDE DEF g, step, most, n
      <4> QED
        BY <4>1, <4>2, <4>3, SeqEqual
    <3> QED
      BY <2>2, <3>1, <3>2
  <2>3. CASE k > 0 /\ n = 0
    <3>1. g[k - 1] = <<>>
      BY <2>3, <1>1
    <3> QED
      BY <2>3, <3>1
  <2>4. CASE k > 0 /\ n > 0
    <3> DEFINE m == most(k - 1)
    <3>1. m \in 1 .. n /\ g[k - 1] = SubSeq(q, 1, m)
      BY <2>4, <1>1
    <3> HIDE DEF m, g
    <3>2. Len(SubSeq(q, 1, m)) = m /\ SubSeq(q, 1, m)[m] = q[m]
      BY <3>1
    <3>3. SubSeq(q, 1, m) # <<>> /\ Last(SubSeq(q, 1, m)) = q[m]
      BY <3>1, <3>2 DEF Last
    <3>4. L.next[q[m]] = IF m = n THEN None ELSE q[m + 1]
      BY <3>1 DEF Linked
    <3>5. CASE m = n
      <4>1. most(k) = m
        BY <3>5, <2>4 DEF m
      <4> QED
        BY <3>1, <3>3, <3>4, <3>5, <4>1, <2>4
    <3>6. CASE m # n
      <4>1. most(k) = m + 1 /\ m + 1 \in 1 .. n
        BY <3>6, <2>4, <3>1 DEF m
      <4>2. q[m + 1] # None
        BY <4>1, <1>2
      <4>3. Append(SubSeq(q, 1, m), q[m + 1]) = SubSeq(q, 1, m + 1)
        BY <4>1, <3>1
      <4>4. k # 0
        BY <2>4
      <4> HIDE DEF most
      <4> QED
        BY <3>1, <3>3, <3>4, <3>6, <4>1, <4>2, <4>3, <4>4
    <3> QED
      BY <3>5, <3>6
  <2>5. k = 0 \/ k > 0
    BY <1>1
  <2>6. n = 0 \/ n > 0
    BY <1>1
  <2> HIDE DEF n, step, g, most
  <2> QED
    BY <2>1, <2>2, <2>3, <2>4, <2>5, <2>6
<1>4. g = [k \in 0 .. N |-> step(g, k)]
  BY <1>3
<1>5. from = [k \in 0 .. N |-> step(from, k)]
  BY <1>4, Zenon
<1>6. Chain(L) = from[N]
  BY DEF Chain, N
<1> HIDE DEF from
<1> DEFINE S == {k \in Nat : k \in 0 .. N => from[k] = g[k]}
<1>7. 0 \in S
  BY <1>1, <1>3, <1>5
<1>8. ASSUME NEW k \in Nat, k \in S PROVE k + 1 \in S
  <2>1. SUFFICES ASSUME k + 1 \in 0 .. N PROVE from[k + 1] = g[k + 1]
    OBVIOUS
  <2>2. from[k] = g[k]
    BY <1>8, <2>1, <1>1
  <2>3. from[k + 1] = step(from, k + 1)
    BY <1>5, <2>1
  <2>4. step(from, k + 1) = step(g, k + 1)
    <3>1. (k + 1) - 1 = k /\ k + 1 # 0
      BY <1>8
    <3> QED
      BY <2>2, <3>1
  <2> QED
    BY <2>1, <2>3, <2>4, <1>3
<1> HIDE DEF S
<1>9. N \in S
  BY <1>7, <1>8, <1>1, SetInduction
<1>10. from[N] = g[N]
  BY <1>9, <1>1 DEF S
<1>11. g[N] = q
  BY <1>1
<1> QED
  BY <1>6, <1>10, <1>11

----------------------------------------------------------------------------
(* The list operations of task.c return lists.                             *)
LEMMA ListTypes ==
    ASSUME NEW L \in List, NEW t \in Tasks
    PROVE  /\ task_new(L, t) \in List
           /\ Unlinked(L, t) \in List
           /\ task_list_remove(L, t) \in List
           /\ task_switch(L, t) \in List
           /\ L.current # None => task_get_next(L) \in TaskPtr
<1>1. task_new(L, t) \in List
  <2>1. [L EXCEPT !.next[t] = None, !.prev[t] = None] \in List
    BY DEF List, TaskPtr
  <2>2. CASE L.head = None
    BY <2>1, <2>2 DEF task_new, List, TaskPtr
  <2>3. CASE L.head # None /\ L.tail = None
    BY <2>1, <2>3 DEF task_new, List, TaskPtr
  <2>4. CASE L.head # None /\ L.tail # None
    BY <2>1, <2>4 DEF task_new, List, TaskPtr
  <2> QED
    BY <2>2, <2>3, <2>4
<1>2. Unlinked(L, t) \in List
  <2>1. CASE L.prev[t] = None
    BY <2>1 DEF Unlinked, List, TaskPtr
  <2>2. CASE L.prev[t] # None
    BY <2>2 DEF Unlinked, List, TaskPtr
  <2> QED
    BY <2>1, <2>2
<1>3. ASSUME NEW M \in List, M.current # None
      PROVE  task_get_next(M) \in TaskPtr
  BY <1>3 DEF task_get_next, List, TaskPtr
<1>4. task_list_remove(L, t) \in List
  <2> DEFINE M == Unlinked(L, t)
  <2>1. M \in List /\ M.current = L.current
    BY <1>2 DEF Unlinked, List
  <2> HIDE DEF M
  <2>2. CASE t = L.current
    <3>1. M.current # None
      BY <2>1, <2>2, TasksAssumption
    <3>2. task_get_next(M) \in TaskPtr
      BY <1>3, <2>1, <3>1
    <3>3. [M EXCEPT !.current = task_get_next(M)] \in List
      BY <2>1, <3>2 DEF List
    <3> QED
      BY <2>2, <3>3 DEF task_list_remove, M
  <2>3. CASE t # L.current
    BY <2>1, <2>3 DEF task_list_remove, M
  <2> QED
    BY <2>2, <2>3
<1>5. task_switch(L, t) \in List
  BY DEF task_switch, List, TaskPtr
<1> QED
  BY <1>1, <1>2, <1>3, <1>4, <1>5

(* A new task comes last.                                                  *)
LEMMA Appended ==
    ASSUME NEW L \in List, NEW q \in Seq(Tasks), Linked(L, q),
           NEW t \in Tasks, t \notin ToSet(q)
    PROVE  /\ Append(q, t) \in Seq(Tasks)
           /\ Linked(task_new(L, t), Append(q, t))
           /\ ToSet(Append(q, t)) = ToSet(q) \cup {t}
           /\ task_new(L, t).current = IF q = <<>> THEN t ELSE L.current
<1> DEFINE M == task_new(L, t)
           r == Append(q, t)
           n == Len(q)
<1>1. /\ r \in Seq(Tasks) /\ n \in Nat /\ Len(r) = n + 1 /\ r # <<>>
      /\ r[n + 1] = t
      /\ \A i \in 1 .. n : r[i] = q[i] /\ q[i] \in Tasks /\ q[i] # t
  BY DEF ToSet
<1>2. ToSet(r) = ToSet(q) \cup {t}
  <2>1. ASSUME NEW x PROVE x \in ToSet(r) <=> x \in ToSet(q) \cup {t}
    BY <1>1 DEF ToSet
  <2> QED
    BY <2>1
<1> HIDE DEF r
<1>3. Injective(r)
  <2>1. SUFFICES ASSUME NEW i \in 1 .. n + 1, NEW j \in 1 .. n + 1, r[i] = r[j]
                 PROVE  i = j
    BY <1>1 DEF Injective
  <2>2. CASE i \in 1 .. n /\ j \in 1 .. n
    BY <1>1, <2>1, <2>2 DEF Linked, Injective
  <2>3. CASE i = n + 1 /\ j \in 1 .. n
    BY <1>1, <2>1, <2>3
  <2>4. CASE j = n + 1 /\ i \in 1 .. n
    BY <1>1, <2>1, <2>4
  <2> QED
    BY <1>1, <2>2, <2>3, <2>4
<1>4. CASE q = <<>>
  <2>1. /\ M.head = t /\ M.tail = t /\ M.current = t
        /\ M.next[t] = None /\ n = 0
    BY <1>4 DEF Linked, task_new, List
  <2> HIDE DEF M
  <2>2. Linked(M, r)
    BY <1>1, <1>3, <2>1 DEF Linked
  <2> QED
    BY <1>1, <1>2, <1>4, <2>1, <2>2 DEF M, r
<1>5. CASE q # <<>>
  <2>1. n >= 1 /\ L.head = q[1] /\ L.tail = q[n] /\ L.head # None /\ L.tail # None
        /\ L.tail # t /\ L.tail \in Tasks
    BY <1>1, <1>5, TasksAssumption DEF Linked
  <2>2. /\ M.head = q[1] /\ M.tail = t /\ M.current = L.current
        /\ M.next = [L.next EXCEPT ![t] = None, ![q[n]] = t]
        /\ M.prev = [L.prev EXCEPT ![t] = q[n]]
    BY <2>1 DEF task_new, List
  <2>3. /\ M.next[t] = None /\ M.next[q[n]] = t /\ M.prev[t] # None
        /\ \A u \in Tasks : u # t /\ u # q[n] => M.next[u] = L.next[u]
        /\ \A u \in Tasks : u # t => M.prev[u] = L.prev[u]
    BY <2>1, <2>2 DEF List
  <2> HIDE DEF M
  <2>4. ASSUME NEW i \in 1 .. n + 1
        PROVE  M.next[r[i]] = IF i = n + 1 THEN None ELSE r[i + 1]
    <3>1. CASE i = n + 1
      BY <1>1, <2>3, <3>1
    <3>2. CASE i = n
      BY <1>1, <2>1, <2>3, <3>2
    <3>3. CASE i < n
      <4>1. q[i] # q[n] /\ q[i] \in Tasks /\ q[i] # t /\ i + 1 \in 1 .. n /\ i # n
        BY <1>1, <3>3 DEF Linked, Injective
      <4>2. L.next[q[i]] = q[i + 1]
        BY <4>1, <3>3 DEF Linked
      <4> QED
        BY <1>1, <2>3, <4>1, <4>2
    <3> QED
      BY <1>1, <3>1, <3>2, <3>3
  <2>5. ASSUME NEW i \in 2 .. n + 1 PROVE M.prev[r[i]] # None
    BY <1>1, <2>3 DEF Linked
  <2>6. Linked(M, r)
    <3>1. M.head = r[1] /\ M.tail = r[Len(r)]
      BY <1>1, <2>1, <2>2
    <3> HIDE DEF n
    <3> QED
      BY <1>1, <1>3, <2>4, <2>5, <3>1, Zenon DEF Linked
  <2> QED
    BY <1>1, <1>2, <1>5, <2>2, <2>6 DEF M, r
<1> QED
  BY <1>4, <1>5

(* The sequence without its jth element.                                   *)
LEMMA Without ==
    ASSUME NEW q \in Seq(Tasks), NEW j \in 1 .. Len(q)
    PROVE  /\ RemoveAt(q, j) \in Seq(Tasks)
           /\ Len(RemoveAt(q, j)) = Len(q) - 1
           /\ \A i \in 1 .. Len(q) - 1 :
                 RemoveAt(q, j)[i] = IF i < j THEN q[i] ELSE q[i + 1]
<1> DEFINE n == Len(q)
           a == SubSeq(q, 1, j - 1)
           b == SubSeq(q, j + 1, n)
<1>1. /\ a \in Seq(Tasks) /\ Len(a) = j - 1
      /\ \A i \in 1 .. j - 1 : a[i] = q[i]
  OBVIOUS
<1>2. /\ b \in Seq(Tasks) /\ Len(b) = n - j
      /\ \A i \in 1 .. n - j : b[i] = q[j + i]
  <2>1. n \in Nat /\ \A i \in j + 1 .. n : q[i] \in Tasks
    OBVIOUS
  <2>2. /\ b \in Seq(Tasks)
        /\ Len(b) = IF j + 1 <= n THEN n - (j + 1) + 1 ELSE 0
        /\ \A i \in 1 .. n - (j + 1) + 1 : b[i] = q[(j + 1) + i - 1]
    BY <2>1, SubSeqProperties
  <2> QED
    BY <2>1, <2>2
<1> HIDE DEF a, b
<1>3. /\ a \o b \in Seq(Tasks) /\ Len(a \o b) = Len(a) + Len(b)
      /\ \A i \in 1 .. Len(a) + Len(b) :
            (a \o b)[i] = IF i <= Len(a) THEN a[i] ELSE b[i - Len(a)]
  BY <1>1, <1>2, ConcatProperties
<1>4. n \in Nat /\ j \in Nat /\ Len(a) + Len(b) = n - 1
  BY <1>1, <1>2
<1>5. ASSUME NEW i \in 1 .. n - 1
      PROVE  (a \o b)[i] = IF i < j THEN q[i] ELSE q[i + 1]
  <2>1. CASE i < j
    <3>1. i \in 1 .. j - 1 /\ i <= Len(a) /\ i \in 1 .. Len(a) + Len(b)
      BY <2>1, <1>1, <1>4
    <3> QED
      BY <3>1, <2>1, <1>1, <1>3
  <2>2. CASE i >= j
    <3>1. /\ i - Len(a) \in 1 .. n - j /\ ~ (i <= Len(a)) /\ i \in 1 .. Len(a) + Len(b)
          /\ j + (i - Len(a)) = i + 1 /\ ~ (i < j)
      BY <2>2, <1>1, <1>4
    <3> QED
      BY <3>1, <1>2, <1>3
  <2> QED
    BY <1>4, <2>1, <2>2
<1> QED
  BY <1>3, <1>4, <1>5 DEF RemoveAt, a, b

(* Taking out an element that occurs once.                                 *)
LEMMA WithoutSet ==
    ASSUME NEW q \in Seq(Tasks), NEW j \in 1 .. Len(q), Injective(q)
    PROVE  /\ Injective(RemoveAt(q, j))
           /\ ToSet(RemoveAt(q, j)) = ToSet(q) \ {q[j]}
<1> DEFINE n == Len(q)
           r == RemoveAt(q, j)
           at(i) == IF i < j THEN i ELSE i + 1
<1>1. /\ r \in Seq(Tasks) /\ Len(r) = n - 1 /\ n \in Nat /\ n >= 1
      /\ \A i \in 1 .. n - 1 : r[i] = q[at(i)]
  <2>1. /\ r \in Seq(Tasks) /\ Len(r) = n - 1
        /\ \A i \in 1 .. n - 1 : r[i] = IF i < j THEN q[i] ELSE q[i + 1]
    BY Without
  <2> HIDE DEF r
  <2> QED
    BY <2>1
<1> HIDE DEF r
<1>2. ASSUME NEW i \in 1 .. n - 1 PROVE at(i) \in 1 .. n /\ at(i) # j
  BY <1>1
<1>3. Injective(r)
  <2>1. SUFFICES ASSUME NEW i \in 1 .. n - 1, NEW k \in 1 .. n - 1, r[i] = r[k]
                 PROVE  i = k
    BY <1>1 DEF Injective
  <2>2. at(i) = at(k)
    BY <1>1, <1>2, <2>1 DEF Injective
  <2> QED
    BY <2>2
<1>4. ASSUME NEW x PROVE x \in ToSet(r) <=> x \in ToSet(q) \ {q[j]}
  <2>1. ASSUME x \in ToSet(r) PROVE x \in ToSet(q) \ {q[j]}
    <3>1. PICK i \in 1 .. n - 1 : x = r[i]
      BY <1>1, <2>1 DEF ToSet
    <3>2. x = q[at(i)] /\ at(i) \in 1 .. n /\ at(i) # j
      BY <1>1, <1>2, <3>1
    <3> QED
      BY <3>2 DEF ToSet, Injective
  <2>2. ASSUME x \in ToSet(q), x # q[j] PROVE x \in ToSet(r)
    <3>1. PICK k \in 1 .. n : x = q[k]
      BY <2>2 DEF ToSet
    <3>2. k # j
      BY <2>2, <3>1
    <3>3. CASE k < j
      <4>1. k \in 1 .. n - 1 /\ at(k) = k
        BY <3>3, <1>1
      <4> QED
        BY <4>1, <1>1, <3>1 DEF ToSet
    <3>4. CASE k > j
      <4>1. k - 1 \in 1 .. n - 1 /\ at(k - 1) = k
        BY <3>4, <1>1
      <4>2. r[k - 1] = q[at(k - 1)]
        BY <4>1, <1>1
      <4>3. r[k - 1] = x /\ k - 1 \in DOMAIN r
        BY <4>1, <4>2, <1>1, <3>1
      <4> QED
        BY <4>3, Zenon DEF ToSet
    <3> QED
      BY <3>2, <3>3, <3>4, <1>1
  <2> QED
    BY <2>1, <2>2
<1> QED
  BY <1>3, <1>4 DEF r

(* Taking a task out of the list, when its prev field is not stale.        *)
LEMMA Removed ==
    ASSUME NEW L \in List, NEW q \in Seq(Tasks), Linked(L, q),
           NEW j \in 1 .. Len(q),
           L.prev[q[j]] # None =>
              \E i \in 1 .. Len(q) : L.prev[q[j]] = q[i] /\ L.next[q[i]] = q[j]
    PROVE  LET M == task_list_remove(L, q[j])
               r == RemoveAt(q, j)
           IN  /\ Linked(M, r)
               /\ M.current = IF q[j] # L.current THEN L.current
                              ELSE IF r = <<>> THEN None
                              ELSE IF j = Len(q) THEN r[1] ELSE r[j]
<1> DEFINE n == Len(q)
           t == q[j]
           U == Unlinked(L, t)
           r == RemoveAt(q, j)
<1>1. /\ n \in Nat /\ n >= 1 /\ r \in Seq(Tasks) /\ Len(r) = n - 1
      /\ \A i \in 1 .. n : q[i] \in Tasks /\ q[i] # None
  <2>1. r \in Seq(Tasks) /\ Len(r) = n - 1
    BY Without, Zenon
  <2> HIDE DEF r
  <2>2. n \in Nat /\ n >= 1
    OBVIOUS
  <2>3. \A i \in 1 .. n : q[i] \in Tasks
    OBVIOUS
  <2>4. \A i \in 1 .. n : q[i] # None
    BY <2>3, TasksAssumption, Zenon
  <2> QED
    BY <2>1, <2>2, <2>3, <2>4, Zenon
<1>2. /\ \A i \in 1 .. n - 1 : i < j => r[i] = q[i]
      /\ \A i \in 1 .. n - 1 : i >= j => r[i] = q[i + 1]
  <2>1. \A i \in 1 .. n - 1 : r[i] = IF i < j THEN q[i] ELSE q[i + 1]
    BY Without
  <2> HIDE DEF r
  <2> QED
    BY <2>1, <1>1
<1>3. Injective(r)
  BY WithoutSet DEF Linked
<1>4. r = <<>> <=> n = 1
  <2> HIDE DEF r
  <2> QED
    BY <1>1
<1> HIDE DEF r
<1>5. /\ \A i \in 1 .. n : L.next[q[i]] = IF i = n THEN None ELSE q[i + 1]
      /\ \A i \in 2 .. n : L.prev[q[i]] # None
      /\ L.head = q[1] /\ L.tail = q[n]
  BY <1>1 DEF Linked
<1>6. L.prev[t] = IF j = 1 THEN None ELSE q[j - 1]
  <2>1. CASE L.prev[t] = None
    <3>1. j = 1
      BY <1>1, <1>5, <2>1
    <3> QED
      BY <2>1, <3>1
  <2>2. CASE L.prev[t] # None
    <3>1. PICK i \in 1 .. n : L.prev[t] = q[i] /\ L.next[q[i]] = q[j]
      BY <2>2
    <3>2. i # n
      BY <1>1, <1>5, <3>1
    <3>3. q[i + 1] = q[j] /\ i + 1 \in 1 .. n
      BY <1>1, <1>5, <3>1, <3>2
    <3>4. i + 1 = j
      BY <3>3 DEF Linked, Injective
    <3> QED
      BY <1>1, <3>1, <3>4
  <2> QED
    BY <2>1, <2>2
<1>7. \A i, k \in 1 .. n : q[i] = q[k] => i = k
  BY DEF Linked, Injective
<1>8. /\ U \in List /\ U.current = L.current /\ U.prev = L.prev
      /\ U.head = IF j = 1 THEN L.next[t] ELSE q[1]
      /\ U.tail = IF j = n THEN L.prev[t] ELSE q[n]
      /\ U.next = IF j = 1 THEN L.next ELSE [L.next EXCEPT ![q[j - 1]] = L.next[t]]
  <2>1. U \in List
    BY <1>1, ListTypes
  <2>2. t = L.head <=> j = 1
    BY <1>1, <1>5, <1>7
  <2>3. t = L.tail <=> j = n
    BY <1>1, <1>5, <1>7
  <2>4. j # 1 => q[j - 1] # None
    BY <1>1
  <2> QED
    BY <1>5, <1>6, <2>1, <2>2, <2>3, <2>4 DEF Unlinked, List
<1>9. /\ U.next[t] = L.next[t]
      /\ j # 1 => U.next[q[j - 1]] = L.next[t]
      /\ \A i \in 1 .. n : i # j - 1 => U.next[q[i]] = L.next[q[i]]
  <2>1. CASE j = 1
    BY <1>1, <1>8, <2>1
  <2>2. CASE j # 1
    <3>1. j - 1 \in 1 .. n /\ q[j - 1] \in Tasks /\ L.next \in [Tasks -> TaskPtr]
      BY <1>1, <2>2 DEF List
    <3>2. \A i \in 1 .. n : i # j - 1 => q[i] # q[j - 1] /\ q[i] \in Tasks
      BY <1>1, <1>7, <3>1
    <3>3. j # j - 1
      OBVIOUS
    <3> QED
      BY <1>8, <2>2, <3>1, <3>2, <3>3
  <2> QED
    BY <2>1, <2>2
<1> HIDE DEF U
<1>10. ASSUME NEW i \in 1 .. n - 1
       PROVE  U.next[r[i]] = IF i = n - 1 THEN None ELSE r[i + 1]
  <2>1. CASE i < j - 1
    <3>1. /\ i \in 1 .. n /\ i # n /\ i < j /\ i # j - 1
          /\ i + 1 \in 1 .. n - 1 /\ i + 1 < j /\ i # n - 1
      BY <1>1, <2>1
    <3>2. r[i] = q[i] /\ r[i + 1] = q[i + 1]
      BY <1>2, <3>1
    <3>3. U.next[q[i]] = q[i + 1]
      BY <1>5, <1>9, <3>1
    <3> QED
      BY <3>1, <3>2, <3>3
  <2>2. CASE i = j - 1
    <3>1. U.next[r[i]] = L.next[t] /\ j = i + 1
      BY <1>1, <1>2, <1>9, <2>2
    <3>2. L.next[t] = IF j = n THEN None ELSE q[j + 1]
      BY <1>5
    <3>3. j # n => r[j] = q[j + 1] /\ i # n - 1
      BY <1>1, <1>2, <2>2
    <3> QED
      BY <1>1, <3>1, <3>2, <3>3
  <2>3. CASE i >= j
    <3>1. r[i] = q[i + 1] /\ i + 1 \in 1 .. n /\ i + 1 # j - 1
      BY <1>1, <1>2, <2>3
    <3>2. U.next[q[i + 1]] = IF i + 1 = n THEN None ELSE q[(i + 1) + 1]
      BY <1>5, <1>9, <3>1
    <3>3. ASSUME i # n - 1 PROVE r[i + 1] = q[(i + 1) + 1]
      <4>1. i + 1 \in 1 .. n - 1 /\ i + 1 >= j
        BY <1>1, <2>3, <3>3
      <4> QED
        BY <1>2, <4>1
    <3> QED
      BY <1>1, <3>1, <3>2, <3>3
  <2> QED
    BY <1>1, <2>1, <2>2, <2>3
<1>11. ASSUME NEW i \in 2 .. n - 1 PROVE U.prev[r[i]] # None
  <2>1. CASE i < j
    <3>1. i \in 1 .. n - 1 /\ i \in 2 .. n
      BY <1>1
    <3>2. r[i] = q[i]
      BY <1>2, <2>1, <3>1
    <3> QED
      BY <1>5, <1>8, <3>1, <3>2
  <2>2. CASE i >= j
    <3>1. i \in 1 .. n - 1 /\ i + 1 \in 2 .. n
      BY <1>1
    <3>2. r[i] = q[i + 1]
      BY <1>2, <2>2, <3>1
    <3> QED
      BY <1>5, <1>8, <3>1, <3>2
  <2> QED
    BY <1>1, <2>1, <2>2
<1>12. U.head = IF r = <<>> THEN None ELSE r[1]
  <2>1. CASE n = 1
    BY <1>4, <1>5, <1>8, <2>1
  <2>2. CASE n > 1 /\ j = 1
    BY <1>1, <1>2, <1>4, <1>5, <1>8, <2>2
  <2>3. CASE n > 1 /\ j > 1
    BY <1>1, <1>2, <1>4, <1>5, <1>8, <2>3
  <2> QED
    BY <1>1, <2>1, <2>2, <2>3
<1>13. U.tail = IF r = <<>> THEN None ELSE r[Len(r)]
  <2>1. CASE n = 1
    BY <1>4, <1>6, <1>8, <2>1
  <2>2. CASE n > 1 /\ j = n
    BY <1>1, <1>2, <1>4, <1>6, <1>8, <2>2
  <2>3. CASE n > 1 /\ j < n
    BY <1>1, <1>2, <1>4, <1>8, <2>3
  <2> QED
    BY <1>1, <2>1, <2>2, <2>3
<1>14. ASSUME NEW M, M.head = U.head, M.tail = U.tail, M.next = U.next, M.prev = U.prev
       PROVE  Linked(M, r)
  <2>1. \A i \in 1 .. Len(r) : M.next[r[i]] = IF i = Len(r) THEN None ELSE r[i + 1]
    BY <1>1, <1>10, <1>14
  <2>2. \A i \in 2 .. Len(r) : M.prev[r[i]] # None
    BY <1>1, <1>11, <1>14
  <2> QED
    BY <1>3, <1>12, <1>13, <1>14, <2>1, <2>2, Zenon DEF Linked
<1> DEFINE M == task_list_remove(L, t)
<1>15. CASE t # L.current
  <2>1. M = U
    BY <1>15 DEF task_list_remove, U
  <2> HIDE DEF M
  <2> QED
    BY <1>8, <1>14, <1>15, <2>1 DEF M, r
<1>16. CASE t = L.current
  <2>1. M = [U EXCEPT !.current = task_get_next(U)]
    BY <1>16 DEF task_list_remove, U
  <2>2. /\ M.head = U.head /\ M.tail = U.tail /\ M.next = U.next /\ M.prev = U.prev
        /\ M.current = task_get_next(U)
    BY <1>8, <2>1 DEF List
  <2>3. task_get_next(U) = IF L.next[t] # None THEN L.next[t] ELSE U.head
    BY <1>8, <1>9, <1>16 DEF task_get_next
  <2>4. L.next[t] = IF j = n THEN None ELSE q[j + 1]
    BY <1>5
  <2>5. j # n => q[j + 1] # None /\ r[j] = q[j + 1] /\ r # <<>>
    BY <1>1, <1>2, <1>4
  <2>6. task_get_next(U) = IF r = <<>> THEN None ELSE IF j = n THEN r[1] ELSE r[j]
    BY <1>12, <2>3, <2>4, <2>5
  <2> HIDE DEF M, n
  <2> QED
    BY <1>14, <1>16, <2>2, <2>6, Zenon DEF M, r, n
<1> QED
  BY <1>15, <1>16

----------------------------------------------------------------------------
(* The list links the live tasks in the order of some sequence.            *)
Ordered(q) == q \in Seq(Tasks) /\ Linked(list, q) /\ ToSet(q) = live

(* The task that runs was not freed; and a list from which no task was     *)
(* removed through a stale prev field links exactly the live tasks.        *)
CurrentLives == mode = "user" => list.current \in live
ListOrdered == ~dirty => mode # "wild" /\ \E q : Ordered(q)

(* The inductive invariant of the scheduler.                               *)
IInv == /\ TypeOK /\ ProcessTable /\ KeyboardOwned /\ CurrentLives
        /\ ListOrdered /\ PanicOnlyWhenEmpty

----------------------------------------------------------------------------
(* get_free_process_slot returns an empty slot of the process table.       *)
LEMMA SlotIsFree ==
    ASSUME FreeSlots # {}
    PROVE  get_free_process_slot \in FreeSlots
<1>1. FreeSlots \in SUBSET Nat
  BY ProcessesAssumption DEF FreeSlots, Pids
<1>2. \E p \in FreeSlots : \A q \in FreeSlots : p <= q
  BY <1>1, LeastElement
<1> QED
  BY <1>2, Zenon DEF get_free_process_slot

(* process_unlink: the keyboard stays with its process, or goes to one     *)
(* that is left, or to none.                                               *)
LEMMA UnlinkFinds ==
    ASSUME NEW p, NEW table
    PROVE  LET others == {q \in Pids : table[q] # None}
           IN  /\ current_process # p => process_unlink(p, table) = current_process
               /\ current_process = p /\ others = {} => process_unlink(p, table) = None
               /\ current_process = p /\ others # {} => process_unlink(p, table) \in others
<1> DEFINE others == {q \in Pids : table[q] # None}
<1>1. others \in SUBSET Nat
  BY ProcessesAssumption DEF Pids
<1> HIDE DEF others
<1>2. others # {} => \E q \in others : \A r \in others : q <= r
  BY <1>1, LeastElement
<1>3. others # {} => (CHOOSE q \in others : \A r \in others : q <= r) \in others
  BY <1>2, Zenon
<1>4. process_unlink(p, table) =
         IF current_process # p THEN current_process
         ELSE IF others = {} THEN None
         ELSE CHOOSE q \in others : \A r \in others : q <= r
  BY Zenon DEF process_unlink, others
<1> QED
  BY <1>3, <1>4, Zenon DEF others

----------------------------------------------------------------------------
(* Before the first load there is no task, no process and no owner of the  *)
(* keyboard.                                                               *)
LEMMA InitIInv == Init => IInv
<1> SUFFICES ASSUME Init PROVE IInv
  OBVIOUS
<1>1. PICK t \in Tasks : /\ list = task_new(NoTasks, t) /\ live = {t}
                         /\ processes = [p \in Pids |-> IF p = 0 THEN t ELSE None]
  BY DEF Init
<1>2. NoTasks \in List /\ Linked(NoTasks, <<>>) /\ <<>> \in Seq(Tasks)
  BY DEF NoTasks, List, TaskPtr, Linked, Injective
<1>3. ToSet(<<>>) = {}
  BY DEF ToSet
<1>4. /\ list \in List /\ list.current = t
      /\ Append(<<>>, t) \in Seq(Tasks) /\ Linked(list, Append(<<>>, t))
      /\ ToSet(Append(<<>>, t)) = {t}
  BY <1>1, <1>2, <1>3, ListTypes, Appended
<1>5. 0 \in Pids /\ None \notin Pids /\ t # None
  BY ProcessesAssumption, TasksAssumption DEF Pids
<1>6. TypeOK
  BY <1>1, <1>4, <1>5 DEF Init, TypeOK, TaskPtr
<1>7. ProcessTable /\ KeyboardOwned
  BY <1>1, <1>5 DEF Init, ProcessTable, KeyboardOwned
<1>8. CurrentLives /\ ListOrdered /\ PanicOnlyWhenEmpty
  BY <1>1, <1>4 DEF Init, CurrentLives, ListOrdered, PanicOnlyWhenEmpty, Ordered
<1> QED
  BY <1>6, <1>7, <1>8 DEF IInv

(* The task after the current one.                                         *)
LEMMA GetNext ==
    ASSUME NEW L \in List, NEW q \in Seq(Tasks), Linked(L, q),
           NEW i \in 1 .. Len(q), L.current = q[i]
    PROVE  task_get_next(L) = q[IF i = Len(q) THEN 1 ELSE i + 1]
<1>1. q # <<>> /\ L.head = q[1]
  BY DEF Linked
<1>2. L.next[q[i]] = IF i = Len(q) THEN None ELSE q[i + 1]
  BY DEF Linked
<1>3. i # Len(q) => q[i + 1] # None
  BY TasksAssumption
<1> QED
  BY <1>1, <1>2, <1>3 DEF task_get_next

(* Only the current task changes in a switch.                              *)
LEMMA Switched ==
    ASSUME NEW L \in List, NEW q, NEW t \in Tasks
    PROVE  /\ task_switch(L, t).current = t
           /\ Linked(L, q) => Linked(task_switch(L, t), q)
<1>1. /\ task_switch(L, t).current = t
      /\ task_switch(L, t).head = L.head /\ task_switch(L, t).tail = L.tail
      /\ task_switch(L, t).next = L.next /\ task_switch(L, t).prev = L.prev
  BY DEF task_switch, List
<1> QED
  BY <1>1, Zenon DEF Linked

(* What task_next does to a list that links the tasks in alive.            *)
LEMMA NextOrdered ==
    ASSUME NEW L \in List, NEW q \in Seq(Tasks), Linked(L, q), q # <<>>,
           NEW i \in 1 .. Len(q), L.current = q[i],
           NEW alive, ToSet(q) = alive, task_next(L, alive)
    PROVE  /\ list' \in List /\ mode' = "user" /\ Linked(list', q)
           /\ list'.current = q[IF i = Len(q) THEN 1 ELSE i + 1]
           /\ list'.current \in alive
<1> DEFINE k == IF i = Len(q) THEN 1 ELSE i + 1
<1>1. k \in 1 .. Len(q) /\ q[k] \in Tasks /\ q[k] # None /\ q[k] \in alive /\ L.current # None
  BY TasksAssumption DEF ToSet
<1>2. task_get_next(L) = q[k]
  BY GetNext
<1> HIDE DEF k
<1>3. list' = task_switch(L, q[k]) /\ mode' = "user"
  BY <1>1, <1>2 DEF task_next
<1> QED
  BY <1>1, <1>3, ListTypes, Switched DEF k

(* What it does to any list.                                               *)
LEMMA NextTypes ==
    ASSUME NEW L \in List, NEW alive, alive \in SUBSET Tasks, task_next(L, alive)
    PROVE  /\ list' \in List /\ mode' \in {"user", "panic", "wild"}
           /\ mode' = "user" => list'.current \in alive
<1>1. CASE L.current = None
  BY <1>1 DEF task_next
<1>2. CASE L.current # None /\ task_get_next(L) = None
  BY <1>2 DEF task_next
<1>3. CASE L.current # None /\ task_get_next(L) # None
  <2> DEFINE t == task_get_next(L)
  <2>1. t \in Tasks
    <3>1. L.current \in Tasks
      BY <1>3 DEF List, TaskPtr
    <3>2. t \in TaskPtr
      BY <1>3, <3>1, ListTypes
    <3> QED
      BY <3>2, <1>3 DEF TaskPtr
  <2> HIDE DEF t
  <2>2. list' = task_switch(L, t) /\ mode' = IF t \in alive THEN "user" ELSE "wild"
    BY <1>3 DEF task_next, t
  <2>3. list' \in List /\ list'.current = t
    BY <2>1, <2>2, ListTypes, Switched
  <2> QED
    BY <2>2, <2>3
<1> QED
  BY <1>1, <1>2, <1>3

----------------------------------------------------------------------------
(* The current task has a place in the list.                               *)
LEMMA CurrentPlace ==
    ASSUME NEW q, Ordered(q), list.current \in live
    PROVE  /\ q \in Seq(Tasks) /\ Linked(list, q) /\ q # <<>>
           /\ \E i \in 1 .. Len(q) : list.current = q[i]
<1>1. q \in Seq(Tasks) /\ Linked(list, q) /\ list.current \in ToSet(q)
  BY DEF Ordered
<1>2. \E i \in 1 .. Len(q) : list.current = q[i]
  BY <1>1 DEF ToSet
<1> QED
  BY <1>1, <1>2

(* A timer tick, in a list that is in order.                               *)
LEMMA TimerOrdered ==
    ASSUME IInv, timer_interrupt, NEW q, Ordered(q)
    PROVE  /\ Ordered(q)' /\ mode' = "user" /\ list'.current \in live
           /\ \E i \in 1 .. Len(q) :
                 list.current = q[i] /\ list'.current = q[IF i = Len(q) THEN 1 ELSE i + 1]
<1>1. list \in List /\ list.current \in live /\ task_next(list, live) /\ live' = live
  BY DEF timer_interrupt, IInv, TypeOK, CurrentLives
<1>2. PICK i \in 1 .. Len(q) : list.current = q[i]
  BY <1>1, CurrentPlace
<1>3. q \in Seq(Tasks) /\ Linked(list, q) /\ q # <<>> /\ ToSet(q) = live
  BY <1>1, CurrentPlace DEF Ordered
<1>4. /\ mode' = "user" /\ Linked(list', q)
      /\ list'.current = q[IF i = Len(q) THEN 1 ELSE i + 1] /\ list'.current \in live
  BY <1>1, <1>2, <1>3, NextOrdered
<1> QED
  BY <1>1, <1>2, <1>3, <1>4 DEF Ordered

(* The timer switches to the next task of the list and changes nothing     *)
(* else.                                                                   *)
LEMMA TimerStep == ASSUME IInv, timer_interrupt PROVE IInv'
<1>1. /\ list \in List /\ live \in SUBSET Tasks /\ mode = "user" /\ task_next(list, live)
      /\ UNCHANGED <<live, owner, processes, current_process, dirty>>
  BY DEF timer_interrupt, IInv, TypeOK
<1>2. /\ list' \in List /\ mode' \in {"user", "panic", "wild"}
      /\ mode' = "user" => list'.current \in live
  BY <1>1, NextTypes
<1>3. TypeOK' /\ CurrentLives'
  BY <1>1, <1>2 DEF IInv, TypeOK, CurrentLives
<1>4. ProcessTable' /\ KeyboardOwned'
  BY <1>1 DEF IInv, ProcessTable, KeyboardOwned
<1>5. ~dirty => mode' = "user" /\ \E q : Ordered(q)'
  BY TimerOrdered DEF IInv, ListOrdered
<1>6. ListOrdered' /\ PanicOnlyWhenEmpty'
  BY <1>1, <1>5 DEF ListOrdered, PanicOnlyWhenEmpty
<1> QED
  BY <1>3, <1>4, <1>6 DEF IInv

----------------------------------------------------------------------------
(* A program that is loaded, in a list that is in order.                   *)
LEMMA LoadOrdered ==
    ASSUME IInv, NEW t \in Tasks, t \notin live, live' = live \cup {t}, mode = "user",
           list' = task_switch(task_new(list, t), t) \/ list' = task_new(list, t),
           NEW q, Ordered(q)
    PROVE  Ordered(Append(q, t))' /\ list'.current \in {list.current, t}
<1>1. /\ list \in List /\ q \in Seq(Tasks) /\ Linked(list, q) /\ ToSet(q) = live
      /\ list.current \in live
  BY DEF IInv, TypeOK, Ordered, CurrentLives
<1>2. /\ task_new(list, t) \in List
      /\ Append(q, t) \in Seq(Tasks) /\ ToSet(Append(q, t)) = live \cup {t}
      /\ Linked(task_new(list, t), Append(q, t))
      /\ task_new(list, t).current \in {list.current, t}
  BY <1>1, ListTypes, Appended
<1>3. Linked(list', Append(q, t)) /\ list'.current \in {list.current, t}
  BY <1>2, Switched
<1> QED
  BY <1>2, <1>3 DEF Ordered

(* A process that is loaded gets a free slot, and its task goes to the end *)
(* of the list.                                                            *)
LEMMA LoadStep ==
    ASSUME IInv, NEW t \in Tasks, process_load_switch(t),
           list' = task_switch(task_new(list, t), t) \/ list' = task_new(list, t)
    PROVE  IInv'
<1> DEFINE s == get_free_process_slot
<1>1. /\ mode = "user" /\ t \notin live /\ live' = live \cup {t}
      /\ owner' = [owner EXCEPT ![t] = s]
      /\ processes' = [processes EXCEPT ![s] = t]
      /\ current_process' = s /\ mode' = mode /\ dirty' = dirty
  BY DEF process_load_switch
<1>2. s \in Pids /\ processes[s] = None /\ s # None /\ t # None
  BY SlotIsFree, ProcessesAssumption, TasksAssumption DEF process_load_switch, FreeSlots
<1> HIDE DEF s
<1>3. /\ list \in List /\ live \subseteq Tasks /\ owner \in [Tasks -> Pids]
      /\ processes \in [Pids -> TaskPtr] /\ dirty \in BOOLEAN /\ list.current \in live
  BY <1>1 DEF IInv, TypeOK, CurrentLives
<1>4. list' \in List /\ list'.current \in {list.current, t}
  <2>1. task_new(list, t) \in List
    BY <1>3, ListTypes
  <2>2. task_new(list, t).current \in {list.current, t}
    BY <1>3 DEF task_new, List
  <2> QED
    BY <2>1, <2>2, ListTypes, Switched
<1>5. TypeOK' /\ CurrentLives'
  BY <1>1, <1>2, <1>3, <1>4 DEF TypeOK, CurrentLives, TaskPtr
<1>6. ProcessTable'
  <2>1. ASSUME NEW u \in live' PROVE processes'[owner'[u]] = u
    <3>1. CASE u = t
      BY <1>1, <1>2, <1>3, <3>1
    <3>2. CASE u # t
      <4>1. u \in live /\ owner'[u] = owner[u] /\ processes[owner[u]] = u /\ owner[u] \in Pids
        BY <1>1, <1>3, <2>1, <3>2 DEF IInv, ProcessTable
      <4>2. owner[u] # s
        BY <1>2, <1>3, <4>1, TasksAssumption
      <4> QED
        BY <1>1, <1>3, <4>1, <4>2
    <3> QED
      BY <3>1, <3>2
  <2>2. ASSUME NEW p \in Pids, processes'[p] # None
        PROVE  processes'[p] \in live' /\ owner'[processes'[p]] = p
    <3>1. CASE p = s
      BY <1>1, <1>2, <1>3, <3>1
    <3>2. CASE p # s
      <4>1. processes'[p] = processes[p]
        BY <1>1, <1>3, <3>2
      <4>2. processes[p] \in live /\ owner[processes[p]] = p
        BY <2>2, <4>1 DEF IInv, ProcessTable
      <4>3. processes[p] # t /\ processes[p] \in Tasks
        BY <1>1, <1>3, <4>2
      <4> QED
        BY <1>1, <1>3, <4>1, <4>2, <4>3
    <3> QED
      BY <3>1, <3>2
  <2> QED
    BY <2>1, <2>2 DEF ProcessTable
<1>7. KeyboardOwned'
  BY <1>1, <1>2, <1>3 DEF KeyboardOwned
<1>8. ListOrdered'
  BY <1>1, LoadOrdered DEF IInv, ListOrdered
<1>9. PanicOnlyWhenEmpty'
  BY <1>1 DEF PanicOnlyWhenEmpty
<1> QED
  BY <1>5, <1>6, <1>7, <1>8, <1>9 DEF IInv

----------------------------------------------------------------------------
(* A load that fails, in a list that is in order.                          *)
LEMMA FailsOrdered ==
    ASSUME IInv, NEW t \in Tasks, process_load_fails(t), NEW q, Ordered(q)
    PROVE  Ordered(q)' /\ list'.current = list.current /\ list'.tail = list.tail
<1> DEFINE M == task_new(list, t)
           r == Append(q, t)
           n == Len(q)
<1>1. /\ list \in List /\ q \in Seq(Tasks) /\ Linked(list, q) /\ ToSet(q) = live
      /\ list.current \in live /\ t \notin live /\ live' = live
      /\ list' = task_list_remove(M, t) /\ n \in Nat
  BY DEF IInv, TypeOK, Ordered, CurrentLives, process_load_fails
<1>2. q # <<>> /\ n >= 1
  BY <1>1, CurrentPlace
<1>3. /\ M \in List /\ r \in Seq(Tasks) /\ Linked(M, r) /\ M.current = list.current
  BY <1>1, <1>2, ListTypes, Appended
<1>4. M.prev[t] = list.tail /\ list.tail = q[n] /\ M.next[q[n]] = t
  <2>1. /\ list.head # None /\ list.tail = q[n] /\ list.tail # None
        /\ q[n] \in Tasks /\ q[n] # t
    BY <1>1, <1>2, TasksAssumption DEF Linked, ToSet
  <2> QED
    BY <1>1, <2>1 DEF task_new, List
<1>5. /\ n + 1 \in 1 .. Len(r) /\ Len(r) = n + 1 /\ r[n + 1] = t
      /\ n \in 1 .. Len(r) /\ r[n] = q[n]
  BY <1>1, <1>2
<1>6. RemoveAt(r, n + 1) = q
  <2>1. /\ RemoveAt(r, n + 1) \in Seq(Tasks) /\ Len(RemoveAt(r, n + 1)) = n
        /\ \A i \in 1 .. n : RemoveAt(r, n + 1)[i] = IF i < n + 1 THEN r[i] ELSE r[i + 1]
    <3>1. (n + 1) - 1 = n
      BY <1>1
    <3> HIDE DEF r, n
    <3> QED
      BY <1>3, <1>5, <3>1, Without
  <2>2. \A i \in 1 .. n : RemoveAt(r, n + 1)[i] = q[i]
    BY <1>1, <2>1
  <2> HIDE DEF r
  <2> QED
    BY <1>1, <2>1, <2>2, SeqEqual
<1> HIDE DEF M, r
<1>7. M.prev[r[n + 1]] = r[n] /\ M.next[r[n]] = r[n + 1]
  BY <1>4, <1>5
<1>8. t # list.current
  BY <1>1
<1>9. Linked(list', q) /\ list'.current = list.current
  BY <1>1, <1>3, <1>5, <1>6, <1>7, <1>8, Removed
<1>10. list'.tail = list.tail
  BY <1>1, <1>2, <1>9 DEF Linked
<1> QED
  BY <1>1, <1>9, <1>10 DEF Ordered

(* A load that fails after its task was made takes the task out again.     *)
LEMMA FailsStep == ASSUME IInv, NEW t \in Tasks, process_load_fails(t) PROVE IInv'
<1>1. /\ mode = "user" /\ t \notin live
      /\ list' = task_list_remove(task_new(list, t), t)
      /\ mode' = IF list'.current \in live THEN "user" ELSE "wild"
      /\ UNCHANGED <<live, owner, processes, current_process, dirty>>
  BY DEF process_load_fails
<1>2. list' \in List
  BY <1>1, ListTypes DEF IInv, TypeOK
<1>3. TypeOK' /\ CurrentLives'
  BY <1>1, <1>2 DEF IInv, TypeOK, CurrentLives
<1>4. ProcessTable' /\ KeyboardOwned' /\ PanicOnlyWhenEmpty'
  BY <1>1 DEF IInv, ProcessTable, KeyboardOwned, PanicOnlyWhenEmpty
<1>5. ListOrdered'
  <2>1. SUFFICES ASSUME ~dirty PROVE mode' = "user" /\ \E q : Ordered(q)'
    BY <1>1 DEF ListOrdered
  <2>2. PICK q : Ordered(q)
    BY <2>1 DEF IInv, ListOrdered
  <2>3. Ordered(q)' /\ list'.current = list.current
    BY <2>2, FailsOrdered
  <2> QED
    BY <1>1, <2>3 DEF IInv, CurrentLives
<1> QED
  BY <1>3, <1>4, <1>5 DEF IInv

----------------------------------------------------------------------------
(* The end of a process, for the process table: its entry is gone, and the *)
(* keyboard is left without an owner exactly when no process is left.      *)
LEMMA TerminateTable ==
    ASSUME IInv, TerminateCurrent
    PROVE  /\ ProcessTable'
           /\ processes' \in [Pids -> TaskPtr]
           /\ current_process' \in Pids \cup {None}
           /\ current_process' # None => processes'[current_process'] # None
           /\ current_process' = None <=> live' = {}
<1> DEFINE t == list.current
           p == owner[t]
           others == {q \in Pids : processes'[q] # None}
<1>1. /\ mode = "user" /\ live' = live \ {t} /\ owner' = owner
      /\ processes' = [processes EXCEPT ![p] = None]
      /\ current_process' = process_unlink(p, processes')
  BY DEF TerminateCurrent
<1>2. /\ live \subseteq Tasks /\ owner \in [Tasks -> Pids] /\ processes \in [Pids -> TaskPtr]
      /\ t \in live /\ t \in Tasks /\ p \in Pids /\ processes[p] = t
      /\ current_process \in Pids /\ processes[current_process] # None
      /\ None \notin Pids
  BY <1>1, ProcessesAssumption
  DEF IInv, TypeOK, CurrentLives, ProcessTable, KeyboardOwned
<1> HIDE DEF t, p
<1>3. processes'[p] = None /\ \A q \in Pids : q # p => processes'[q] = processes[q]
  BY <1>1, <1>2
<1>4. \A u \in live' : u # t /\ u \in live /\ owner[u] # p /\ owner[u] \in Pids
                       /\ processes[owner[u]] = u
  BY <1>1, <1>2 DEF IInv, ProcessTable
<1>5. \A q \in Pids : processes'[q] # None =>
          processes[q] \in live /\ owner[processes[q]] = q /\ q # p
  BY <1>3 DEF IInv, ProcessTable
<1>6. \A q \in Pids : processes'[q] # None =>
          processes'[q] \in live' /\ owner[processes'[q]] = q
  <2> SUFFICES ASSUME NEW q \in Pids, processes'[q] # None
               PROVE  processes'[q] \in live' /\ owner[processes'[q]] = q
    OBVIOUS
  <2>1. processes'[q] = processes[q] /\ processes[q] \in live /\ owner[processes[q]] = q /\ q # p
    BY <1>3, <1>5
  <2>2. processes[q] # t
    BY <2>1 DEF p
  <2> QED
    BY <1>1, <2>1, <2>2
<1>7. \A u \in live' : processes'[owner[u]] = u /\ u # None
  BY <1>2, <1>3, <1>4, TasksAssumption
<1>8. ProcessTable'
  BY <1>1, <1>6, <1>7 DEF ProcessTable
<1>9. others = {} <=> live' = {}
  <2>1. ASSUME NEW u \in live' PROVE others # {}
    BY <1>4, <1>7
  <2>2. ASSUME NEW q \in others PROVE live' # {}
    BY <1>6
  <2> QED
    BY <2>1, <2>2
<1>10. current_process # p => current_process \in others
  BY <1>2, <1>3
<1> HIDE DEF others
<1>11. /\ current_process # p => current_process' = current_process
       /\ current_process = p /\ others = {} => current_process' = None
       /\ current_process = p /\ others # {} => current_process' \in others
  BY <1>1, UnlinkFinds DEF others
<1>12. current_process' \in others \/ (current_process' = None /\ others = {})
  BY <1>10, <1>11
<1>13. others \subseteq Pids /\ \A q \in others : processes'[q] # None
  BY DEF others
<1>14. processes' \in [Pids -> TaskPtr]
  BY <1>1, <1>2 DEF TaskPtr
<1> QED
  BY <1>2, <1>8, <1>9, <1>12, <1>13, <1>14

(* The end of a process, in a list that is in order.                       *)
LEMMA TerminateOrdered ==
    ASSUME IInv, TerminateCurrent, ~dirty', NEW q, Ordered(q)
    PROVE  \E j \in 1 .. Len(q) :
              /\ list.current = q[j]
              /\ Ordered(RemoveAt(q, j))'
              /\ IF RemoveAt(q, j) = <<>>
                 THEN mode' = "panic" /\ list'.current = None
                 ELSE mode' = "user" /\ list'.current \in ToSet(RemoveAt(q, j))
<1> DEFINE t == list.current
           L == task_list_remove(list, t)
<1>1. /\ mode = "user" /\ live' = live \ {t} /\ ~Stale(t)
      /\ IF current_process' = None THEN list' = L /\ mode' = "panic"
         ELSE task_next(L, live')
  BY DEF TerminateCurrent
<1>2. list \in List /\ list.current \in live /\ ToSet(q) = live /\ live \subseteq Tasks
  BY <1>1 DEF IInv, TypeOK, CurrentLives, Ordered
<1>3. PICK j \in 1 .. Len(q) : t = q[j]
  BY <1>2, CurrentPlace
<1>4. q \in Seq(Tasks) /\ Linked(list, q) /\ Injective(q)
  BY DEF Ordered, Linked
<1> DEFINE r == RemoveAt(q, j)
<1>5. /\ r \in Seq(Tasks) /\ ToSet(r) = live' /\ Len(r) = Len(q) - 1
      /\ DOMAIN r = 1 .. Len(q) - 1
  BY <1>1, <1>2, <1>3, <1>4, Without, WithoutSet
<1>6. list.prev[q[j]] # None =>
         \E i \in 1 .. Len(q) : list.prev[q[j]] = q[i] /\ list.next[q[i]] = q[j]
  <2>1. SUFFICES ASSUME list.prev[t] # None
                 PROVE  \E i \in 1 .. Len(q) : list.prev[t] = q[i] /\ list.next[q[i]] = t
    BY <1>3
  <2>2. list.prev[t] \in ToSet(q) /\ list.next[list.prev[t]] = t
    BY <1>1, <1>2, <2>1 DEF Stale
  <2> QED
    BY <1>4, <2>2 DEF ToSet
<1>7. /\ Linked(L, r) /\ L \in List
      /\ L.current = IF r = <<>> THEN None ELSE IF j = Len(q) THEN r[1] ELSE r[j]
  <2>1. L \in List
    BY <1>2, ListTypes
  <2>2. /\ Linked(task_list_remove(list, q[j]), r)
        /\ task_list_remove(list, q[j]).current =
              IF q[j] # list.current THEN list.current
              ELSE IF r = <<>> THEN None
              ELSE IF j = Len(q) THEN r[1] ELSE r[j]
    BY <1>2, <1>4, <1>6, Removed
  <2>3. L = task_list_remove(list, q[j]) /\ q[j] = list.current
    BY <1>3
  <2> HIDE DEF L, r
  <2> QED
    BY <2>1, <2>2, <2>3
<1> HIDE DEF r, L
<1>8. CASE r = <<>>
  <2>1. live' = {}
    BY <1>5, <1>8 DEF ToSet
  <2>2. current_process' = None
    BY <2>1, TerminateTable
  <2>3. list' = L /\ mode' = "panic"
    BY <1>1, <2>2
  <2>4. Ordered(r)' /\ list'.current = None
    BY <1>5, <1>7, <1>8, <2>3 DEF Ordered
  <2> QED
    BY <1>3, <1>8, <2>3, <2>4 DEF r
<1>9. CASE r # <<>>
  <2> DEFINE k == IF j = Len(q) THEN 1 ELSE j
  <2>1. k \in 1 .. Len(r) /\ L.current = r[k]
    BY <1>3, <1>4, <1>5, <1>7, <1>9
  <2>2. live' # {}
    BY <1>5, <2>1 DEF ToSet
  <2>3. task_next(L, live')
    BY <1>1, <2>2, TerminateTable
  <2> HIDE DEF k
  <2>4. mode' = "user" /\ Linked(list', r) /\ list'.current \in live'
    BY <1>5, <1>7, <1>9, <2>1, <2>3, NextOrdered
  <2> QED
    BY <1>3, <1>5, <1>9, <2>4 DEF Ordered, r
<1> QED
  BY <1>8, <1>9

(* The end of the running process: its task leaves the list, its slot is   *)
(* free, the keyboard has an owner if a process is left, and the next task *)
(* runs.                                                                   *)
LEMMA TerminateStep == ASSUME IInv, TerminateCurrent PROVE IInv'
<1> DEFINE t == list.current
           L == task_list_remove(list, t)
<1>1. /\ mode = "user" /\ live' = live \ {t} /\ dirty' = (dirty \/ Stale(t))
      /\ IF current_process' = None THEN list' = L /\ mode' = "panic"
         ELSE task_next(L, live')
      /\ owner' = owner
  BY DEF TerminateCurrent
<1>2. list \in List /\ t \in Tasks /\ live' \in SUBSET Tasks /\ owner \in [Tasks -> Pids]
  BY <1>1 DEF IInv, TypeOK, CurrentLives
<1>3. L \in List
  BY <1>2, ListTypes
<1> HIDE DEF L
<1>4. /\ list' \in List /\ mode' \in {"user", "panic", "wild"}
      /\ mode' = "user" => list'.current \in live'
  <2>1. CASE current_process' = None
    BY <1>1, <1>3, <2>1
  <2>2. CASE current_process' # None
    BY <1>1, <1>2, <1>3, <2>2, NextTypes
  <2> QED
    BY <2>1, <2>2
<1>5. dirty' \in BOOLEAN
  BY <1>1, Zenon DEF Stale
<1>6. TypeOK' /\ CurrentLives'
  BY <1>1, <1>2, <1>4, <1>5, TerminateTable DEF TypeOK, CurrentLives
<1>7. ProcessTable'
  BY TerminateTable
<1>8. ListOrdered' /\ PanicOnlyWhenEmpty'
  <2>1. SUFFICES ASSUME ~dirty'
                 PROVE  mode' # "wild" /\ (\E q : Ordered(q)') /\ (mode' = "panic" => live' = {})
    BY DEF ListOrdered, PanicOnlyWhenEmpty
  <2>2. PICK q : Ordered(q)
    BY <1>1, <2>1 DEF IInv, ListOrdered
  <2>3. PICK j \in 1 .. Len(q) :
              /\ Ordered(RemoveAt(q, j))'
              /\ IF RemoveAt(q, j) = <<>> THEN mode' = "panic" ELSE mode' = "user"
    BY <2>1, <2>2, TerminateOrdered
  <2>4. RemoveAt(q, j) = <<>> => live' = {}
    BY <2>3 DEF Ordered, ToSet
  <2> QED
    BY <2>3, <2>4
<1>9. KeyboardOwned'
  <2>1. SUFFICES ASSUME mode' # "panic" PROVE current_process' # None
    BY TerminateTable DEF KeyboardOwned
  <2> QED
    BY <1>1, <2>1
<1> QED
  BY <1>6, <1>7, <1>8, <1>9 DEF IInv

----------------------------------------------------------------------------
(* Every step of the scheduler keeps the inductive invariant.              *)
LEMMA NextIInv == IInv /\ [Next]_vars => IInv'
<1> SUFFICES ASSUME IInv, [Next]_vars PROVE IInv'
  OBVIOUS
<1>1. CASE timer_interrupt
  BY <1>1, TimerStep
<1>2. ASSUME NEW t \in Tasks, Load(t) PROVE IInv'
  <2>1. CASE sys_process_load_start(t)
    BY <2>1, LoadStep DEF sys_process_load_start
  <2>2. CASE sys_invoke_sys_command(t)
    BY <2>2, LoadStep DEF sys_invoke_sys_command
  <2>3. CASE process_load_fails(t)
    BY <2>3, FailsStep
  <2> QED
    BY <1>2, <2>1, <2>2, <2>3 DEF Load
<1>3. CASE sys_exit
  BY <1>3, TerminateStep DEF sys_exit
<1>4. CASE interrupt_handlers_terminate_current_process
  BY <1>4, TerminateStep DEF interrupt_handlers_terminate_current_process
<1>5. CASE UNCHANGED vars
  <2>1. TypeOK' /\ ProcessTable' /\ KeyboardOwned' /\ CurrentLives' /\ PanicOnlyWhenEmpty'
    BY <1>5 DEF IInv, vars, TypeOK, ProcessTable, KeyboardOwned, CurrentLives,
                PanicOnlyWhenEmpty
  <2>2. ListOrdered'
    BY <1>5 DEF IInv, vars, ListOrdered, Ordered
  <2> QED
    BY <2>1, <2>2 DEF IInv
<1> QED
  BY <1>1, <1>2, <1>3, <1>4, <1>5 DEF Next

(* The inductive invariant holds of every behaviour.                       *)
LEMMA Invariance == Spec => []IInv
<1> QED
  BY InitIInv, NextIInv, PTL DEF Spec

(* The next fields, followed from the head, give the live tasks.           *)
LEMMA ChainOrdered ==
    ASSUME NEW q, Ordered(q)
    PROVE  Chain(list) = q /\ WellLinked(list, live)
<1>1. q \in Seq(Tasks) /\ Linked(list, q) /\ Injective(q) /\ ToSet(q) = live
  BY DEF Ordered, Linked
<1>2. Chain(list) = q
  BY <1>1, ChainIs
<1>3. Cardinality(ToSet(q)) = Len(q)
  BY <1>1, LengthBound
<1>4. list.tail = IF live = {} THEN None ELSE Last(q)
  <2>1. q = <<>> <=> live = {}
    <3>1. q = <<>> => live = {}
      BY <1>1 DEF ToSet
    <3>2. q # <<>> => q[1] \in live
      BY <1>1 DEF ToSet
    <3> QED
      BY <3>1, <3>2
  <2> QED
    BY <1>1, <2>1 DEF Linked, Last
<1> QED
  BY <1>1, <1>2, <1>3, <1>4 DEF WellLinked

(* After a step, the walk along next gives the linked sequence.            *)
LEMMA ChainOrderedNext ==
    ASSUME NEW q, Ordered(q)'
    PROVE  Chain(list') = q
<1>1. q \in Seq(Tasks) /\ Linked(list', q)
  BY DEF Ordered
<1> QED
  BY <1>1, ChainIs

(* A list that links a sequence is intact.                                 *)
LEMMA IInvListIntact == IInv => ListIntact
BY ChainOrdered DEF IInv, ListIntact, ListOrdered, CurrentLives

(* Type correctness of the scheduler.                                      *)
THEOREM TypeCorrect == Spec => []TypeOK
BY Invariance, PTL DEF IInv

(* Until a task is removed through a stale prev field, the task list of    *)
(* task.c links exactly the live tasks, each once, from head to tail, and  *)
(* the running task is one of them.                                        *)
THEOREM ListStaysIntact == Spec => []ListIntact
BY Invariance, IInvListIntact, PTL

(* Every live task belongs to one entry of the process table, which names  *)
(* it, and no entry names a freed task, even when the list is broken       *)
(* (process_load_switch, process_terminate).                               *)
THEOREM TableMatchesTasks == Spec => []ProcessTable
BY Invariance, PTL DEF IInv

(* The keyboard belongs to a process that exists, as long as one does      *)
(* (process_switch, process_unlink).                                       *)
THEOREM KeyboardHasOwner == Spec => []KeyboardOwned
BY Invariance, PTL DEF IInv

(* Until the list is broken, the kernel panics for want of a task only     *)
(* when no task is left (task_get_next, task_next).                        *)
THEOREM PanicsOnlyEmpty == Spec => []PanicOnlyWhenEmpty
BY Invariance, PTL DEF IInv

(* A load that fails after its task was made leaves the order of the       *)
(* tasks, the tail of the list and the running task as they were           *)
(* (process_load_for_slot, task_free).                                     *)
THEOREM FailedLoads == Spec => FailedLoadHarmless
<1> DEFINE A == (~dirty /\ \E t \in Tasks : process_load_fails(t)) =>
                   /\ Chain(list') = Chain(list)
                   /\ list'.tail = list.tail
                   /\ list'.current = list.current
<1>1. IInv /\ [Next]_vars => [A]_vars
  <2>1. SUFFICES ASSUME IInv, ~dirty, NEW t \in Tasks, process_load_fails(t)
                 PROVE  /\ Chain(list') = Chain(list)
                        /\ list'.tail = list.tail
                        /\ list'.current = list.current
    BY Zenon
  <2>2. PICK q : Ordered(q)
    BY <2>1 DEF IInv, ListOrdered
  <2>3. Ordered(q)' /\ list'.current = list.current /\ list'.tail = list.tail
    BY <2>1, <2>2, FailsOrdered
  <2>4. Chain(list) = q /\ Chain(list') = q
    BY <2>2, <2>3, ChainOrdered, ChainOrderedNext
  <2> QED
    BY <2>3, <2>4
<1>2. Spec => [][Next]_vars
  BY PTL DEF Spec
<1>3. Spec => [][A]_vars
  BY <1>1, <1>2, Invariance, PTL
<1> QED
  BY <1>3, Zenon DEF FailedLoadHarmless

----------------------------------------------------------------------------
(* The state of the run queue in terms of the list.                        *)
LEMMA QueueState ==
    ASSUME IInv
    PROVE  Broken = dirty
BY DEF IInv, TypeOK, ListOrdered, Broken

(* After a step the list is broken in the sense of the mapping exactly     *)
(* when it was spoiled.                                                    *)
LEMMA QueueStateNext ==
    ASSUME IInv'
    PROVE  Broken' = dirty'
BY DEF IInv, TypeOK, ListOrdered, Broken

(* After a step the mapping gives the linked sequence and the running      *)
(* task.                                                                   *)
LEMMA QueueValueNext ==
    ASSUME NEW q, Ordered(q)', ~Broken'
    PROVE  /\ (IF Broken THEN <<>> ELSE Chain(list))' = q
           /\ (IF Broken THEN None ELSE list.current)' = list'.current
<1>1. Chain(list') = q
  BY ChainOrderedNext
<1>2. Chain(list)' = Chain(list')
  BY DEF Chain
<1>3. Chain(list)' = q
  BY <1>1, <1>2
<1> QED
  BY <1>3

(* Until the list is broken the scheduler implements the round robin of    *)
(* RunQueue: a loaded task goes to the end of the queue, a tick moves to   *)
(* the task behind the running one, and a task that ends leaves the rest   *)
(* in order.                                                               *)
THEOREM SchedulerImplementsQueue == Spec => ImplementsQueue
<1>1. Init => Queue!Init
  <2> SUFFICES ASSUME Init PROVE Queue!Init
    OBVIOUS
  <2>1. IInv /\ ~dirty /\ ~Broken
    BY InitIInv, QueueState DEF Init
  <2>2. PICK t \in Tasks : live = {t}
    BY DEF Init
  <2>3. PICK q : Ordered(q)
    BY <2>1 DEF IInv, ListOrdered
  <2>4. list.current = t
    BY <2>1, <2>2 DEF Init, IInv, CurrentLives
  <2>5. q = <<t>>
    <3>1. q \in Seq(Tasks) /\ Len(q) \in Nat /\ ToSet(q) = {t} /\ Injective(q)
      BY <2>2, <2>3 DEF Ordered, Linked
    <3>2. Len(q) = 1
      <4>1. Cardinality(ToSet(q)) = Len(q)
        BY <3>1, LengthBound
      <4> QED
        BY <3>1, <4>1, FS_Singleton
    <3>3. q[1] \in ToSet(q)
      BY <3>1, <3>2 DEF ToSet
    <3>4. <<t>> \in Seq(Tasks) /\ Len(<<t>>) = 1 /\ <<t>>[1] = t
      OBVIOUS
    <3>5. q[1] = t /\ \A i \in 1 .. 1 : i = 1
      BY <3>1, <3>3
    <3> QED
      BY <3>1, <3>2, <3>4, <3>5, SeqEqual
  <2> QED
    BY <2>1, <2>2, <2>3, <2>4, <2>5, ChainOrdered DEF Queue!Init
<1>2. IInv /\ IInv' /\ [Next]_vars => [Queue!Next]_(Queue!queueVars)
  <2> SUFFICES ASSUME IInv, IInv', [Next]_vars
               PROVE  Queue!Next \/ UNCHANGED Queue!queueVars
    OBVIOUS
  <2>1. Broken = dirty /\ Broken' = dirty' /\ dirty \in BOOLEAN /\ dirty' \in BOOLEAN
    BY QueueState, QueueStateNext DEF IInv, TypeOK
  <2>2. CASE UNCHANGED vars
    BY <2>2 DEF vars, Queue!queueVars, Broken
  <2>3. CASE Next /\ dirty
    <3>1. dirty'
      BY <2>3 DEF Next, timer_interrupt, Load, sys_process_load_start,
                  sys_invoke_sys_command, process_load_switch, process_load_fails,
                  sys_exit, interrupt_handlers_terminate_current_process, TerminateCurrent
    <3> QED
      BY <2>1, <2>3, <3>1 DEF Queue!queueVars
  <2>4. CASE Next /\ ~dirty /\ dirty'
    BY <2>1, <2>4 DEF Queue!Next, Queue!Default
  <2>5. CASE Next /\ ~dirty /\ ~dirty'
    <3>1. PICK q : Ordered(q)
      BY <2>5 DEF IInv, ListOrdered
    <3>2. Chain(list) = q /\ q \in Seq(Tasks) /\ ToSet(q) = live /\ Injective(q)
      BY <3>1, ChainOrdered DEF Ordered, Linked
    <3>3. ~Broken /\ ~Broken'
      BY <2>1, <2>5
    <3> DEFINE Q == IF Broken THEN <<>> ELSE Chain(list)
               R == IF Broken THEN None ELSE list.current
    <3>q. Q = q /\ R = list.current /\ UNCHANGED Broken
      BY <2>1, <2>5, <3>2, <3>3
    <3>4. ASSUME timer_interrupt PROVE Queue!Tick
      <4>1. PICK i \in 1 .. Len(q) :
               list.current = q[i] /\ list'.current = q[IF i = Len(q) THEN 1 ELSE i + 1]
        BY <3>1, <3>4, TimerOrdered
      <4>2. Q' = q /\ R' = list'.current
        BY <3>1, <3>3, <3>4, TimerOrdered, QueueValueNext
      <4>3. DOMAIN q = 1 .. Len(q)
        BY <3>2
      <4>4. (CHOOSE j \in DOMAIN q : q[j] = q[i]) = i
        BY <3>2, <4>3 DEF Injective
      <4> HIDE DEF Q, R
      <4>5. Queue!Successor(q[i]) = q[IF i = Len(q) THEN 1 ELSE i + 1]
        <5> DEFINE k == CHOOSE j \in DOMAIN Q : Q[j] = q[i]
        <5>1. Queue!Successor(q[i]) = Q[IF k = Len(Q) THEN 1 ELSE k + 1]
          BY DEF Queue!Successor, Q
        <5>2. k = i
          BY <3>q, <4>4
        <5> QED
          BY <3>q, <5>1, <5>2, Zenon
      <4> QED
        BY <3>q, <4>1, <4>2, <4>5 DEF Queue!Tick, Q, R
    <3>5. ASSUME NEW t \in Tasks, process_load_switch(t),
                 list' = task_switch(task_new(list, t), t) \/ list' = task_new(list, t)
          PROVE  Queue!Join(t)
      <4>1. t \notin live /\ live' = live \cup {t} /\ mode = "user"
        BY <3>5 DEF process_load_switch
      <4>2. Ordered(Append(q, t))' /\ list'.current \in {list.current, t}
        BY <3>1, <3>5, <4>1, LoadOrdered
      <4>3. Q' = Append(q, t) /\ R' = list'.current
        BY <4>2, <3>3, QueueValueNext
      <4>4. Queue!ToSet(q) = ToSet(q)
        BY DEF Queue!ToSet, ToSet
      <4> QED
        BY <3>2, <3>q, <4>1, <4>2, <4>3, <4>4 DEF Queue!Join
    <3>6. ASSUME NEW t \in Tasks, process_load_fails(t)
          PROVE  UNCHANGED Queue!queueVars
      <4>1. Ordered(q)' /\ list'.current = list.current
        BY <3>1, <3>6, FailsOrdered
      <4>2. Q' = q /\ R' = list'.current
        BY <4>1, <3>3, QueueValueNext
      <4> QED
        BY <3>q, <4>1, <4>2 DEF Queue!queueVars
    <3>7. ASSUME TerminateCurrent PROVE Queue!Leave
      <4>1. PICK j \in 1 .. Len(q) :
               /\ list.current = q[j]
               /\ Ordered(RemoveAt(q, j))'
               /\ IF RemoveAt(q, j) = <<>>
                  THEN mode' = "panic" /\ list'.current = None
                  ELSE mode' = "user" /\ list'.current \in ToSet(RemoveAt(q, j))
        BY <2>5, <3>1, <3>7, TerminateOrdered
      <4> DEFINE r == RemoveAt(q, j)
      <4>2. Q' = r /\ R' = list'.current
        BY <4>1, <3>3, QueueValueNext
      <4>3. j \in DOMAIN q
        BY <3>2
      <4>4. list'.current \in IF r = <<>> THEN {None} ELSE Queue!ToSet(r)
        BY <4>1 DEF Queue!ToSet, ToSet
      <4>5. r = Queue!RemoveAt(q, j)
        BY DEF Queue!RemoveAt, RemoveAt
      <4> QED
        BY <3>q, <4>1, <4>2, <4>3, <4>4, <4>5 DEF Queue!Leave
    <3>8. Queue!Tick \/ (\E t \in Tasks : Queue!Join(t)) \/ Queue!Leave
          \/ UNCHANGED Queue!queueVars
      BY <2>5, <3>4, <3>5, <3>6, <3>7
      DEF Next, Load, sys_process_load_start, sys_invoke_sys_command, sys_exit,
          interrupt_handlers_terminate_current_process
    <3> QED
      BY <3>3, <3>8 DEF Queue!Next
  <2> QED
    BY <2>1, <2>2, <2>3, <2>4, <2>5
<1> QED
  BY <1>1, <1>2, Invariance, PTL DEF Spec, Queue!Spec, ImplementsQueue

----------------------------------------------------------------------------
(* A key that was pressed: the process it went to and what became of it;   *)
(* the keys that wait for p; keys in the order they were pressed.          *)
Key == [to : Pids \cup {None}, state : {"waiting", "done", "diverted"}]
WaitingIn(ks, p) == {k \in DOMAIN ks : ks[k].to = p /\ ks[k].state = "waiting"}
Increasing(s) == \A i, j \in DOMAIN s : i < j => s[i] < s[j]

(* The types of the variables of Console.                                  *)
ConsoleTypes ==
    /\ keys \in Seq(Key)
    /\ waiting \in [Pids -> Seq(Nat)]
    /\ \A k \in DOMAIN keys : keys[k].state = "waiting" => keys[k].to \in Pids

(* The inductive invariant of the console.                                 *)
ConsoleIInv == IInv /\ ConsoleTypes /\ KeysFollowFocus

(* KeysFollowFocus, in the terms of the lemmas below.                      *)
LEMMA FocusIs ==
    KeysFollowFocus <=>
        /\ \A p \in Pids : ToSet(waiting[p]) = WaitingIn(keys, p) /\ Increasing(waiting[p])
        /\ \A k \in DOMAIN keys : keys[k].state # "diverted"
        /\ \A k \in DOMAIN keys : keys[k].state = "waiting" => processes[keys[k].to] # None
BY Zenon DEF KeysFollowFocus, WaitingIn, Increasing

(* A buffer without keys.                                                  *)
LEMMA EmptyWaits == ToSet(<<>>) = {} /\ Increasing(<<>>) /\ <<>> \in Seq(Nat)
BY DEF ToSet, Increasing

(* At the start no key was pressed.                                        *)
LEMMA ConsoleInitIInv == ConsoleInit => ConsoleIInv
<1> SUFFICES ASSUME ConsoleInit PROVE ConsoleIInv
  OBVIOUS
<1>1. IInv
  BY InitIInv DEF ConsoleInit
<1>2. keys = <<>> /\ DOMAIN keys = {} /\ keys \in Seq(Key)
  BY DEF ConsoleInit
<1>3. ConsoleTypes
  BY <1>2, EmptyWaits DEF ConsoleInit, ConsoleTypes
<1>4. \A p \in Pids : WaitingIn(keys, p) = {} /\ waiting[p] = <<>>
  BY <1>2 DEF WaitingIn, ConsoleInit
<1>5. KeysFollowFocus
  BY <1>2, <1>4, EmptyWaits, FocusIs, Zenon
<1> QED
  BY <1>1, <1>3, <1>5 DEF ConsoleIInv

(* A step of the scheduler: the buffer of a process that ends goes with    *)
(* it, the others stay.                                                    *)
LEMMA ScheduleKeys ==
    ASSUME ConsoleIInv, IInv', Buffers,
           keys' = [k \in DOMAIN keys |->
                     IF keys[k].state = "waiting" /\ Ends(keys[k].to) THEN Done ELSE keys[k]]
    PROVE  ConsoleIInv'
<1>1. /\ keys \in Seq(Key) /\ waiting \in [Pids -> Seq(Nat)]
      /\ \A k \in DOMAIN keys : keys[k].state = "waiting" => keys[k].to \in Pids
  BY DEF ConsoleIInv, ConsoleTypes
<1>2. /\ DOMAIN keys' = DOMAIN keys
      /\ \A k \in DOMAIN keys : keys'[k] = IF keys[k].state = "waiting" /\ Ends(keys[k].to)
                                           THEN Done ELSE keys[k]
  BY Zenon
<1>3. Done \in Key /\ Done.state = "done"
  BY DEF Done, Key
<1>4. keys' \in Seq(Key)
  <2>1. Len(keys) \in Nat /\ DOMAIN keys = 1 .. Len(keys)
    BY <1>1, LenProperties
  <2>2. \A k \in 1 .. Len(keys) : keys[k] \in Key
    BY <1>1
  <2>3. keys' \in [1 .. Len(keys) -> Key]
    <3>1. \A k \in 1 .. Len(keys) : keys'[k] \in Key
      BY <1>2, <1>3, <2>1, <2>2, Zenon
    <3> QED
      BY <2>1, <3>1
  <2> QED
    BY <2>1, <2>3, SeqDef
<1>5. \A k \in DOMAIN keys' : keys'[k].state = "waiting" =>
          keys'[k] = keys[k] /\ ~Ends(keys[k].to)
  BY <1>2, <1>3
<1>6. /\ waiting' \in [Pids -> Seq(Nat)]
      /\ \A p \in Pids : processes'[p] # processes[p] => waiting'[p] = <<>>
      /\ \A p \in Pids : processes'[p] = processes[p] => waiting'[p] = waiting[p]
  BY <1>1, EmptyWaits DEF Buffers
<1>7. ConsoleTypes'
  BY <1>1, <1>2, <1>4, <1>5, <1>6 DEF ConsoleTypes
<1>8. /\ \A p \in Pids : ToSet(waiting[p]) = WaitingIn(keys, p) /\ Increasing(waiting[p])
      /\ \A k \in DOMAIN keys : keys[k].state # "diverted"
      /\ \A k \in DOMAIN keys : keys[k].state = "waiting" => processes[keys[k].to] # None
  BY FocusIs DEF ConsoleIInv
<1>9. ASSUME NEW p \in Pids
      PROVE  ToSet(waiting'[p]) = WaitingIn(keys', p) /\ Increasing(waiting'[p])
  <2>1. CASE processes'[p] = processes[p]
    <3>1. \A k \in DOMAIN keys : keys[k].to = p /\ keys[k].state = "waiting" => keys'[k] = keys[k]
      BY <1>2, <2>1 DEF Ends
    <3>2. \A k \in DOMAIN keys' : keys'[k].to = p /\ keys'[k].state = "waiting" => keys'[k] = keys[k]
      BY <1>5
    <3>3. WaitingIn(keys', p) = WaitingIn(keys, p)
      BY <1>2, <3>1, <3>2 DEF WaitingIn
    <3> QED
      BY <1>6, <1>8, <2>1, <3>3, Zenon
  <2>2. CASE processes'[p] # processes[p]
    <3>1. WaitingIn(keys', p) = {}
      <4> SUFFICES ASSUME NEW k \in DOMAIN keys', keys'[k].to = p, keys'[k].state = "waiting"
                   PROVE  FALSE
        BY DEF WaitingIn
      <4>1. keys'[k] = keys[k] /\ ~Ends(keys[k].to) /\ k \in DOMAIN keys
        BY <1>2, <1>5
      <4>2. keys[k].to = p /\ keys[k].state = "waiting"
        BY <4>1
      <4>3. processes[p] # None
        BY <1>8, <4>1, <4>2
      <4> QED
        BY <2>2, <4>1, <4>2, <4>3 DEF Ends
    <3> QED
      BY <1>6, <2>2, <3>1, EmptyWaits, Zenon
  <2> QED
    BY <2>1, <2>2
<1>10. \A k \in DOMAIN keys' : keys'[k].state # "diverted"
  BY <1>2, <1>3, <1>8
<1>11. \A k \in DOMAIN keys' : keys'[k].state = "waiting" => processes'[keys'[k].to] # None
  BY <1>2, <1>5, <1>8 DEF Ends
<1>12. KeysFollowFocus'
  BY <1>9, <1>10, <1>11, Zenon DEF KeysFollowFocus, WaitingIn, Increasing
<1> QED
  BY <1>7, <1>12 DEF ConsoleIInv

(* A key that is pressed waits at the end of the buffer of the process     *)
(* that has the keyboard.                                                  *)
LEMMA PushKeys == ASSUME ConsoleIInv, keyboard_push PROVE ConsoleIInv'
<1> DEFINE c == current_process
           n == Len(keys) + 1
           e == [to |-> c, state |-> "waiting"]
<1>1. /\ keys \in Seq(Key) /\ waiting \in [Pids -> Seq(Nat)]
      /\ \A k \in DOMAIN keys : keys[k].state = "waiting" => keys[k].to \in Pids
      /\ IInv
  BY DEF ConsoleIInv, ConsoleTypes
<1>2. /\ mode = "user" /\ c # None /\ keys' = Append(keys, e)
      /\ waiting' = [waiting EXCEPT ![c] = Append(@, Len(keys'))]
      /\ UNCHANGED vars
  BY DEF keyboard_push
<1>3. c \in Pids /\ processes[c] # None
  BY <1>1, <1>2 DEF IInv, TypeOK, KeyboardOwned
<1>4. e \in Key /\ e.to = c /\ e.state = "waiting"
  BY <1>3 DEF Key
<1> HIDE DEF c, e
<1>5. Len(keys) \in Nat /\ n \in Nat /\ DOMAIN keys = 1 .. Len(keys)
  BY <1>1, LenProperties
<1>6. /\ keys' \in Seq(Key) /\ Len(keys') = n
      /\ \A k \in 1 .. Len(keys) : keys'[k] = keys[k]
      /\ keys'[n] = e
  BY <1>1, <1>2, <1>4, AppendProperties
<1>7. DOMAIN keys' = 1 .. n /\ DOMAIN keys' = DOMAIN keys \cup {n} /\ n \notin DOMAIN keys
  BY <1>5, <1>6
<1>8. /\ waiting'[c] = Append(waiting[c], n)
      /\ \A p \in Pids : p # c => waiting'[p] = waiting[p]
      /\ DOMAIN waiting' = Pids
  BY <1>1, <1>2, <1>3, <1>6
<1> DEFINE w == waiting[c]
           v == waiting'[c]
<1>9. w \in Seq(Nat) /\ ToSet(w) = WaitingIn(keys, c) /\ Increasing(w)
  BY <1>1, <1>3, FocusIs, Zenon DEF ConsoleIInv
<1>10. v = Append(w, n)
  BY <1>8
<1> HIDE DEF w, v
<1>11. /\ v \in Seq(Nat) /\ Len(v) = Len(w) + 1
       /\ \A i \in 1 .. Len(w) : v[i] = w[i]
       /\ v[Len(w) + 1] = n
  BY <1>5, <1>9, <1>10, AppendProperties
<1>12. Len(w) \in Nat /\ DOMAIN w = 1 .. Len(w) /\ DOMAIN v = 1 .. Len(w) + 1
  BY <1>9, <1>11, LenProperties
<1>13. ToSet(v) = ToSet(w) \cup {n}
  <2>1. \A x : x \in ToSet(w) => x \in ToSet(v)
    BY <1>11, <1>12 DEF ToSet
  <2>2. n \in ToSet(v)
    BY <1>11, <1>12 DEF ToSet
  <2>3. \A i \in DOMAIN v : v[i] \in ToSet(w) \cup {n}
    <3>1. \A i \in DOMAIN v : i \in DOMAIN w \/ i = Len(w) + 1
      BY <1>12
    <3>2. \A i \in DOMAIN w : v[i] = w[i] /\ w[i] \in ToSet(w)
      BY <1>11, <1>12 DEF ToSet
    <3> QED
      BY <1>11, <3>1, <3>2
  <2>4. \A x \in ToSet(v) : x \in ToSet(w) \cup {n}
    BY <2>3 DEF ToSet
  <2> QED
    BY <2>1, <2>2, <2>4
<1>14. WaitingIn(keys', c) = WaitingIn(keys, c) \cup {n}
  <2>1. WaitingIn(keys', c) = {k \in DOMAIN keys' : keys'[k].to = c /\ keys'[k].state = "waiting"}
    BY DEF WaitingIn
  <2> QED
    BY <1>4, <1>5, <1>6, <1>7, <2>1 DEF WaitingIn
<1>15. \A p \in Pids : p # c => WaitingIn(keys', p) = WaitingIn(keys, p)
  BY <1>4, <1>5, <1>6, <1>7 DEF WaitingIn
<1>16. Increasing(v)
  <2>1. \A i \in DOMAIN w : w[i] \in 1 .. Len(keys)
    BY <1>5, <1>9 DEF ToSet, WaitingIn
  <2>2. \A i, j \in 1 .. Len(w) : i < j => w[i] < w[j]
    BY <1>9, <1>12 DEF Increasing
  <2> SUFFICES ASSUME NEW i \in 1 .. Len(w) + 1, NEW j \in 1 .. Len(w) + 1, i < j
               PROVE  v[i] < v[j]
    BY <1>12 DEF Increasing
  <2>3. i \in 1 .. Len(w) /\ v[i] = w[i]
    BY <1>11, <1>12
  <2>4. CASE j \in 1 .. Len(w)
    BY <1>11, <2>2, <2>3, <2>4
  <2>5. CASE j = Len(w) + 1
    BY <1>5, <1>11, <1>12, <2>1, <2>3, <2>5
  <2> QED
    BY <1>12, <2>4, <2>5
<1>17. \A p \in Pids : ToSet(waiting'[p]) = WaitingIn(keys', p) /\ Increasing(waiting'[p])
  <2>1. \A p \in Pids : ToSet(waiting[p]) = WaitingIn(keys, p) /\ Increasing(waiting[p])
    BY FocusIs, Zenon DEF ConsoleIInv
  <2>2. ToSet(waiting'[c]) = WaitingIn(keys', c) /\ Increasing(waiting'[c])
    BY <1>9, <1>13, <1>14, <1>16, Zenon DEF v
  <2> QED
    BY <1>8, <1>15, <2>1, <2>2, Zenon
<1>18. /\ \A k \in DOMAIN keys : keys[k].state # "diverted"
       /\ \A k \in DOMAIN keys : keys[k].state = "waiting" => processes[keys[k].to] # None
  BY FocusIs, Zenon DEF ConsoleIInv
<1>19. \A k \in DOMAIN keys' : keys'[k].state # "diverted"
  BY <1>4, <1>5, <1>6, <1>7, <1>18
<1>20. \A k \in DOMAIN keys' : keys'[k].state = "waiting" =>
          keys'[k].to \in Pids /\ processes'[keys'[k].to] # None
  <2>1. processes' = processes
    BY <1>2 DEF vars
  <2> QED
    BY <1>1, <1>3, <1>4, <1>5, <1>6, <1>7, <1>18, <2>1
<1>21. waiting' \in [Pids -> Seq(Nat)]
  <2>1. \A p \in Pids : waiting'[p] \in Seq(Nat)
    BY <1>1, <1>8, <1>11 DEF v
  <2> QED
    BY <1>2, <1>1, <2>1
<1>22. ConsoleTypes'
  BY <1>6, <1>20, <1>21 DEF ConsoleTypes
<1>23. KeysFollowFocus'
  BY <1>17, <1>19, <1>20, Zenon DEF KeysFollowFocus, WaitingIn, Increasing
<1>24. IInv'
  BY <1>1, <1>2, NextIInv
<1> QED
  BY <1>22, <1>23, <1>24 DEF ConsoleIInv

(* A process that asks for a key gets the oldest of its own.               *)
LEMMA PopKeys == ASSUME ConsoleIInv, keyboard_pop PROVE ConsoleIInv'
<1> DEFINE p == owner[list.current]
           w == waiting[p]
           n == Head(w)
           v == waiting'[p]
<1>1. /\ keys \in Seq(Key) /\ waiting \in [Pids -> Seq(Nat)]
      /\ \A k \in DOMAIN keys : keys[k].state = "waiting" => keys[k].to \in Pids
      /\ IInv
  BY DEF ConsoleIInv, ConsoleTypes
<1>2. /\ mode = "user" /\ w # <<>>
      /\ keys' = [keys EXCEPT ![n] = IF @.to = p THEN Done ELSE [to |-> p, state |-> "diverted"]]
      /\ waiting' = [waiting EXCEPT ![p] = Tail(@)]
      /\ UNCHANGED vars
  BY DEF keyboard_pop
<1>3. p \in Pids
  BY <1>1, <1>2 DEF IInv, CurrentLives, TypeOK
<1> HIDE DEF p
<1>4. w \in Seq(Nat) /\ ToSet(w) = WaitingIn(keys, p) /\ Increasing(w)
  BY <1>1, <1>3, FocusIs, Zenon DEF ConsoleIInv
<1>5. v = Tail(w) /\ DOMAIN waiting' = Pids /\ \A q \in Pids : q # p => waiting'[q] = waiting[q]
  BY <1>1, <1>2, <1>3
<1> HIDE DEF w, v
<1>6. /\ Len(w) \in Nat /\ Len(w) >= 1 /\ DOMAIN w = 1 .. Len(w) /\ n = w[1]
      /\ v \in Seq(Nat) /\ Len(v) = Len(w) - 1 /\ DOMAIN v = 1 .. Len(w) - 1
      /\ \A i \in 1 .. Len(w) - 1 : v[i] = w[i + 1]
  BY <1>2, <1>4, <1>5
<1>7. n \in WaitingIn(keys, p)
  <2>1. n \in ToSet(w)
    BY <1>6 DEF ToSet
  <2> QED
    BY <1>4, <2>1
<1> HIDE DEF n
<1>8. n \in DOMAIN keys /\ keys[n].to = p /\ keys[n].state = "waiting"
  BY <1>7 DEF WaitingIn
<1>9. /\ DOMAIN keys' = DOMAIN keys /\ keys'[n] = Done
      /\ \A k \in DOMAIN keys : k # n => keys'[k] = keys[k]
  BY <1>2, <1>8
<1>10. Done \in Key /\ Done.state = "done"
  BY DEF Done, Key
<1>11. keys' \in Seq(Key)
  <2>1. Len(keys) \in Nat /\ DOMAIN keys = 1 .. Len(keys)
    BY <1>1, LenProperties
  <2>2. \A k \in 1 .. Len(keys) : keys[k] \in Key
    BY <1>1
  <2>3. keys' \in [1 .. Len(keys) -> Key]
    <3>1. \A k \in 1 .. Len(keys) : keys'[k] \in Key
      BY <1>9, <1>10, <2>1, <2>2, Zenon
    <3> QED
      BY <1>2, <2>1, <3>1
  <2> QED
    BY <2>1, <2>3, SeqDef
<1>12. WaitingIn(keys', p) = WaitingIn(keys, p) \ {n}
  <2>1. WaitingIn(keys', p) = {k \in DOMAIN keys' : keys'[k].to = p /\ keys'[k].state = "waiting"}
    BY DEF WaitingIn
  <2> QED
    BY <1>9, <1>10, <2>1 DEF WaitingIn
<1>13. \A q \in Pids : q # p => WaitingIn(keys', q) = WaitingIn(keys, q)
  BY <1>8, <1>9, <1>10 DEF WaitingIn
<1>14. \A i, j \in 1 .. Len(w) : i < j => w[i] < w[j]
  BY <1>4, <1>6 DEF Increasing
<1>15. Increasing(v)
  <2> SUFFICES ASSUME NEW i \in 1 .. Len(w) - 1, NEW j \in 1 .. Len(w) - 1, i < j
               PROVE  v[i] < v[j]
    BY <1>6 DEF Increasing
  <2>1. i + 1 \in 1 .. Len(w) /\ j + 1 \in 1 .. Len(w) /\ i + 1 < j + 1
    BY <1>6
  <2>2. w[i + 1] < w[j + 1]
    BY <1>14, <2>1
  <2> QED
    BY <1>6, <2>2
<1>16. ToSet(v) = ToSet(w) \ {n}
  <2>1. \A i \in 1 .. Len(w) : w[i] \in Nat
    BY <1>4, <1>6
  <2>2. \A i \in DOMAIN v : v[i] \in ToSet(w) /\ v[i] # n
    <3> SUFFICES ASSUME NEW i \in 1 .. Len(w) - 1 PROVE v[i] \in ToSet(w) /\ v[i] # n
      BY <1>6
    <3>1. i + 1 \in 1 .. Len(w) /\ 1 < i + 1 /\ 1 \in 1 .. Len(w)
      BY <1>6
    <3>2. w[1] < w[i + 1]
      BY <1>14, <3>1
    <3>3. v[i] # n
      BY <1>6, <2>1, <3>1, <3>2
    <3> QED
      BY <1>6, <3>1, <3>3 DEF ToSet
  <2>3. \A i \in DOMAIN w : w[i] # n => w[i] \in ToSet(v)
    <3> SUFFICES ASSUME NEW i \in 1 .. Len(w), w[i] # n PROVE w[i] \in ToSet(v)
      BY <1>6
    <3>1. i # 1
      BY <1>6
    <3>2. i - 1 \in DOMAIN v
      BY <1>6, <3>1
    <3>3. w[i] = v[i - 1]
      BY <1>6, <3>2
    <3> QED
      BY <3>2, <3>3 DEF ToSet
  <2>4. \A x \in ToSet(v) : x \in ToSet(w) /\ x # n
    BY <2>2 DEF ToSet
  <2>5. \A x \in ToSet(w) : x # n => x \in ToSet(v)
    BY <2>3 DEF ToSet
  <2> QED
    BY <2>4, <2>5
<1>17. \A q \in Pids : ToSet(waiting'[q]) = WaitingIn(keys', q) /\ Increasing(waiting'[q])
  <2>1. \A q \in Pids : ToSet(waiting[q]) = WaitingIn(keys, q) /\ Increasing(waiting[q])
    BY FocusIs, Zenon DEF ConsoleIInv
  <2>2. ToSet(waiting'[p]) = WaitingIn(keys', p) /\ Increasing(waiting'[p])
    BY <1>4, <1>12, <1>15, <1>16, Zenon DEF v
  <2> QED
    BY <1>5, <1>13, <2>1, <2>2, Zenon
<1>18. /\ \A k \in DOMAIN keys : keys[k].state # "diverted"
       /\ \A k \in DOMAIN keys : keys[k].state = "waiting" => processes[keys[k].to] # None
  BY FocusIs, Zenon DEF ConsoleIInv
<1>19. \A k \in DOMAIN keys' : keys'[k].state # "diverted"
  BY <1>9, <1>10, <1>18
<1>20. \A k \in DOMAIN keys' : keys'[k].state = "waiting" =>
          keys'[k].to \in Pids /\ processes'[keys'[k].to] # None
  <2>1. processes' = processes
    BY <1>2 DEF vars
  <2> QED
    BY <1>1, <1>9, <1>10, <1>18, <2>1
<1>21. waiting' \in [Pids -> Seq(Nat)]
  <2>1. \A q \in Pids : waiting'[q] \in Seq(Nat)
    BY <1>1, <1>5, <1>6 DEF v
  <2> QED
    BY <1>1, <1>2, <2>1
<1>22. ConsoleTypes'
  BY <1>11, <1>20, <1>21 DEF ConsoleTypes
<1>23. KeysFollowFocus'
  BY <1>17, <1>19, <1>20, Zenon DEF KeysFollowFocus, WaitingIn, Increasing
<1>24. IInv'
  BY <1>1, <1>2, NextIInv
<1> QED
  BY <1>22, <1>23, <1>24 DEF ConsoleIInv

(* Every step of the console keeps the inductive invariant.                *)
LEMMA ConsoleNextIInv == ConsoleIInv /\ [ConsoleNext]_consoleVars => ConsoleIInv'
<1> SUFFICES ASSUME ConsoleIInv, [ConsoleNext]_consoleVars PROVE ConsoleIInv'
  OBVIOUS
<1>1. CASE schedule
  <2>1. IInv'
    BY <1>1, NextIInv DEF schedule, ConsoleIInv
  <2> QED
    BY <1>1, <2>1, ScheduleKeys DEF schedule
<1>2. CASE keyboard_push
  BY <1>2, PushKeys
<1>3. CASE keyboard_pop
  BY <1>3, PopKeys
<1>4. CASE UNCHANGED consoleVars
  <2>1. IInv'
    BY <1>4, NextIInv DEF consoleVars, ConsoleIInv
  <2>2. keys' = keys /\ waiting' = waiting /\ processes' = processes
    BY <1>4 DEF consoleVars, vars
  <2> QED
    BY <2>1, <2>2 DEF ConsoleIInv, ConsoleTypes, KeysFollowFocus
<1> QED
  BY <1>1, <1>2, <1>3, <1>4 DEF ConsoleNext

(* A key goes to the process that had the keyboard when it was pressed,    *)
(* waits there in order, and is never given to another, whatever processes *)
(* are loaded and ended meanwhile (keyboard_push, keyboard_pop,            *)
(* process_unlink).                                                        *)
THEOREM KeysReachTheirProcess == ConsoleSpec => []KeysFollowFocus
<1>1. ConsoleIInv => KeysFollowFocus
  BY DEF ConsoleIInv
<1> QED
  BY <1>1, ConsoleInitIInv, ConsoleNextIInv, PTL DEF ConsoleSpec
=============================================================================
