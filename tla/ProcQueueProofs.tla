-------------------------- MODULE ProcQueueProofs --------------------------
(***************************************************************************)
(* What the queue operations return and preserve, for queues of any length *)
(* over any set of PCBs.                                                   *)
(***************************************************************************)
EXTENDS ProcQueue, SequenceTheorems, FiniteSetTheorems, WellFoundedInduction, TLAPS

(* A non-empty set of natural numbers has the minimum that insertPoint     *)
(* chooses.                                                                *)
LEMMA MinOfNaturals ==
    ASSUME NEW T, T \subseteq Nat, T # {}
    PROVE  Min(T) \in T /\ \A y \in T : Min(T) <= y
<1>. DEFINE R == {ss \in Nat \X Nat : ss[1] < ss[2]}
<1>1. IsWellFoundedOn(R, Nat)
  BY NatLessThanWellFounded, Zenon DEF OpToRel
<1>2. PICK x \in T : \A y \in T : ~ (<<y, x>> \in R)
  <2>. HIDE DEF R
  <2>. QED BY <1>1, WFMin
<1>3. ASSUME NEW y \in T
      PROVE  x <= y
  <2>1. ~ (y < x)
    BY <1>2, <<y, x>> \in Nat \X Nat, <<y, x>>[1] = y, <<y, x>>[2] = x
  <2>. QED BY <2>1
<1>. QED
  BY <1>3 DEF Min

(* InsertAt element by element: what list_add before position i links.     *)
LEMMA InsertAtElements ==
    ASSUME NEW S, NEW q \in Seq(S), NEW p \in S, NEW i \in 1..(Len(q) + 1)
    PROVE  /\ InsertAt(q, i, p) \in Seq(S)
           /\ Len(InsertAt(q, i, p)) = Len(q) + 1
           /\ \A j \in 1..(i - 1) : InsertAt(q, i, p)[j] = q[j]
           /\ InsertAt(q, i, p)[i] = p
           /\ \A j \in i..Len(q) : InsertAt(q, i, p)[j + 1] = q[j]
<1>. DEFINE a == SubSeq(q, 1, i - 1)
            b == SubSeq(q, i, Len(q))
<1>1. /\ a \in Seq(S) /\ Len(a) = i - 1
      /\ \A j \in 1..(i - 1) : a[j] = q[j]
  OBVIOUS
<1>2. /\ b \in Seq(S) /\ Len(b) = Len(q) - i + 1
      /\ \A j \in 1..(Len(q) - i + 1) : b[j] = q[i + j - 1]
  OBVIOUS
<1>. HIDE DEF a, b
<1>3. /\ a \o <<p>> \in Seq(S) /\ Len(a \o <<p>>) = i
      /\ \A j \in 1..i : (a \o <<p>>)[j] = IF j < i THEN q[j] ELSE p
  BY <1>1
<1>. DEFINE c == a \o <<p>>
<1>. HIDE DEF c
<1>4. /\ c \in Seq(S) /\ Len(c) = i
      /\ \A j \in 1..i : c[j] = IF j < i THEN q[j] ELSE p
  BY <1>3 DEF c
<1>5. /\ c \o b \in Seq(S) /\ Len(c \o b) = Len(q) + 1
      /\ \A j \in 1..(Len(q) + 1) :
           (c \o b)[j] = IF j <= i THEN c[j] ELSE b[j - i]
  <2>1. /\ c \o b \in Seq(S) /\ Len(c \o b) = Len(c) + Len(b)
        /\ \A j \in 1..(Len(c) + Len(b)) :
             (c \o b)[j] = IF j <= Len(c) THEN c[j] ELSE b[j - Len(c)]
    BY <1>2, <1>4, ConcatProperties
  <2>2. Len(c) = i /\ Len(c) + Len(b) = Len(q) + 1
    BY <1>2, <1>4
  <2>. QED BY <2>1, <2>2
<1>6. \A j \in i..Len(q) : /\ j + 1 \in 1..(Len(q) + 1) /\ ~ (j + 1 <= i)
                           /\ b[j + 1 - i] = q[j]
  BY <1>2
<1>7. InsertAt(q, i, p) = c \o b
  BY DEF InsertAt, a, b, c
<1>. QED
  BY <1>4, <1>5, <1>6, <1>7

(* The members of a queue of PCBs.                                         *)
LEMMA ToSetSeq ==
    ASSUME NEW S, NEW q \in Seq(S)
    PROVE  /\ ToSet(q) = {q[i] : i \in 1..Len(q)}
           /\ ToSet(q) \subseteq S
           /\ \A i \in 1..Len(q) : q[i] \in ToSet(q)
  BY DEF ToSet

(* insertPoint is a position of the queue, or the one behind its last; all *)
(* before it have at least p's priority, and who is there has less.        *)
LEMMA InsertPoint ==
    ASSUME NEW S, NEW q \in Seq(S), NEW p \in S, NEW prio \in [S -> Int]
    PROVE  /\ insertPoint(q, prio, p) \in 1..(Len(q) + 1)
           /\ \A i \in 1..Len(q) : /\ i < insertPoint(q, prio, p) =>
                                        prio[q[i]] >= prio[p]
                                   /\ i = insertPoint(q, prio, p) =>
                                        prio[q[i]] < prio[p]
<1>. DEFINE T == {i \in 1..Len(q) : prio[q[i]] < prio[p]} \cup {Len(q) + 1}
<1>1. T \subseteq Nat /\ T # {} /\ T \subseteq 1..(Len(q) + 1)
  OBVIOUS
<1>2. Min(T) \in T /\ \A y \in T : Min(T) <= y
  <2>. HIDE DEF T
  <2>. QED BY <1>1, MinOfNaturals
<1>3. insertPoint(q, prio, p) = Min(T)
  BY DEF insertPoint
<1>. DEFINE m == Min(T)
<1>. HIDE DEF m
<1>4. m \in T /\ \A y \in T : m <= y
  BY <1>2 DEF m
<1>5. \A i \in 1..Len(q) : prio[q[i]] \in Int
  OBVIOUS
<1>6. prio[p] \in Int
  OBVIOUS
<1>7. ASSUME NEW i \in 1..Len(q)
      PROVE  /\ i < m => prio[q[i]] >= prio[p]
             /\ i = m => prio[q[i]] < prio[p]
  <2>1. i < m => i \notin T
    BY <1>4, <1>1
  <2>2. i = m => i \in T
    BY <1>4
  <2>3. i \in T <=> prio[q[i]] < prio[p]
    OBVIOUS
  <2>. HIDE DEF T
  <2>. QED BY <2>1, <2>2, <2>3, <1>5, <1>6
<1>. QED
  BY <1>1, <1>3, <1>4, <1>7 DEF m

(* The queue is in decreasing priority order.                              *)
Sorted(q, prio) ==
    \A i, j \in 1..Len(q) : i < j => prio[q[i]] >= prio[q[j]]

(* insertProcQ adds p and nobody else, once, and keeps the queue in order. *)
LEMMA InsertProcQ ==
    ASSUME NEW S, NEW q \in Seq(S), NEW p \in S, NEW prio \in [S -> Int]
    PROVE  /\ insertProcQ(q, prio, p) \in Seq(S)
           /\ insertProcQ(q, prio, p) # <<>>
           /\ ToSet(insertProcQ(q, prio, p)) = ToSet(q) \cup {p}
           /\ IsInjective(q) /\ p \notin ToSet(q) =>
                IsInjective(insertProcQ(q, prio, p))
           /\ Sorted(q, prio) => Sorted(insertProcQ(q, prio, p), prio)
<1>. DEFINE n == insertPoint(q, prio, p)
            r == insertProcQ(q, prio, p)
<1>1. /\ n \in 1..(Len(q) + 1)
      /\ \A i \in 1..Len(q) : /\ i < n => prio[q[i]] >= prio[p]
                              /\ i = n => prio[q[i]] < prio[p]
  BY InsertPoint
<1>2. r = InsertAt(q, n, p)
  BY DEF insertProcQ
<1>. HIDE DEF n, r
<1>3. /\ r \in Seq(S) /\ r # <<>>
      /\ Len(r) = Len(q) + 1
      /\ \A j \in 1..(n - 1) : r[j] = q[j]
      /\ r[n] = p
      /\ \A j \in n..Len(q) : r[j + 1] = q[j]
  <2>1. n \in 1..(Len(q) + 1)
    BY <1>1
  <2>2. /\ r \in Seq(S)
        /\ Len(r) = Len(q) + 1
        /\ \A j \in 1..(n - 1) : r[j] = q[j]
        /\ r[n] = p
        /\ \A j \in n..Len(q) : r[j + 1] = q[j]
    <3>1. /\ InsertAt(q, n, p) \in Seq(S)
          /\ Len(InsertAt(q, n, p)) = Len(q) + 1
          /\ \A j \in 1..(n - 1) : InsertAt(q, n, p)[j] = q[j]
          /\ InsertAt(q, n, p)[n] = p
          /\ \A j \in n..Len(q) : InsertAt(q, n, p)[j + 1] = q[j]
      BY ONLY q \in Seq(S), p \in S, <2>1, InsertAtElements
    <3>. QED BY <1>2, <3>1
  <2>. QED BY <2>2
<1>n. n \in 1..(Len(q) + 1) /\ Len(q) \in Nat /\ Len(r) = Len(q) + 1
  BY <1>1, <1>3
(* Where the members of r come from.                                       *)
<1>lo. ASSUME NEW j \in 1..Len(r), j < n
       PROVE  j \in 1..Len(q) /\ r[j] = q[j]
  BY <1>n, <1>3, <1>lo
<1>at. ASSUME NEW j \in 1..Len(r), j = n
       PROVE  r[j] = p
  BY <1>3, <1>at
<1>hi. ASSUME NEW j \in 1..Len(r), j > n
       PROVE  j - 1 \in n..Len(q) /\ j - 1 \in 1..Len(q) /\ r[j] = q[j - 1]
  <2>1. j - 1 \in n..Len(q) /\ j - 1 \in 1..Len(q) /\ (j - 1) + 1 = j
    BY <1>n, <1>3, <1>hi
  <2>. QED BY <1>3, <2>1
<1>4. ToSet(r) = ToSet(q) \cup {p}
  <2>1. ASSUME NEW j \in 1..Len(r) PROVE r[j] \in ToSet(q) \cup {p}
    <3>1. \A k \in 1..Len(q) : q[k] \in ToSet(q)
      BY ToSetSeq
    <3>2. CASE j < n
      BY <1>lo, <3>1, <3>2
    <3>3. CASE j = n
      BY <1>at, <3>3
    <3>4. CASE j > n
      BY <1>hi, <3>1, <3>4
    <3>. QED BY <1>n, <3>2, <3>3, <3>4
  <2>2. ASSUME NEW j \in 1..Len(q) PROVE q[j] \in ToSet(r)
    <3>1. r[j] = q[j] \/ r[j + 1] = q[j]
      BY <1>n, <1>3
    <3>2. j \in 1..Len(r) /\ j + 1 \in 1..Len(r)
      BY <1>3
    <3>3. \A k \in 1..Len(r) : r[k] \in ToSet(r)
      BY <1>3, ToSetSeq
    <3>. QED BY <3>1, <3>2, <3>3
  <2>3. p \in ToSet(r)
    BY <1>n, <1>3, ToSetSeq
  <2>4. ToSet(r) = {r[j] : j \in 1..Len(r)} /\ ToSet(q) = {q[j] : j \in 1..Len(q)}
    BY <1>3, ToSetSeq
  <2>. QED BY <2>1, <2>2, <2>3, <2>4
<1>5. ASSUME IsInjective(q), p \notin ToSet(q) PROVE IsInjective(r)
  <2>1. \A i \in 1..Len(q) : q[i] # p
    BY <1>5, ToSetSeq
  <2>2. \A i, j \in 1..Len(q) : q[i] = q[j] => i = j
    BY <1>5 DEF IsInjective
  <2>3. ASSUME NEW i \in 1..Len(r), NEW j \in 1..Len(r), i < j
        PROVE  r[i] # r[j]
    <3>1. CASE j < n
      <4>1. i \in 1..Len(r) /\ i < n
        BY <1>n, <2>3, <3>1
      <4>. QED BY <1>n, <1>lo, <2>2, <2>3, <3>1, <4>1
    <3>2. CASE j = n
      BY <1>n, <1>lo, <1>at, <2>1, <2>3, <3>2
    <3>3. CASE j > n /\ i < n
      <4>1. i \in 1..Len(q) /\ j - 1 \in 1..Len(q) /\ i # j - 1
        BY <1>n, <1>lo, <1>hi, <3>3
      <4>. QED BY <1>lo, <1>hi, <2>2, <3>3, <4>1
    <3>4. CASE j > n /\ i = n
      BY <1>at, <1>hi, <2>1, <3>4
    <3>5. CASE j > n /\ i > n
      <4>1. i - 1 \in 1..Len(q) /\ j - 1 \in 1..Len(q) /\ i - 1 # j - 1
        BY <1>n, <1>hi, <2>3, <3>5
      <4>. QED BY <1>hi, <2>2, <3>5, <4>1
    <3>. QED BY <1>n, <3>1, <3>2, <3>3, <3>4, <3>5
  <2>4. \A i, j \in 1..Len(r) : r[i] = r[j] => i = j
    <3>1. SUFFICES ASSUME NEW i \in 1..Len(r), NEW j \in 1..Len(r), r[i] = r[j]
                   PROVE  ~ (i < j) /\ ~ (j < i)
      BY <1>n
    <3>. QED BY <2>3, <3>1
  <2>. QED BY <1>3, <2>4 DEF IsInjective
<1>6. ASSUME Sorted(q, prio) PROVE Sorted(r, prio)
  <2>1. \A i, j \in 1..Len(q) : i < j => prio[q[i]] >= prio[q[j]]
    BY <1>6 DEF Sorted
  <2>2. \A i \in 1..Len(q) : prio[q[i]] \in Int
    OBVIOUS
  <2>3. ASSUME NEW i \in 1..Len(q), i >= n PROVE prio[q[i]] <= prio[p]
    <3>1. n \in 1..Len(q)
      BY <1>n, <2>3
    <3>2. prio[q[n]] < prio[p] /\ prio[q[n]] \in Int /\ prio[q[i]] \in Int /\ prio[p] \in Int
      BY <1>1, <2>2, <3>1
    <3>3. i = n \/ prio[q[n]] >= prio[q[i]]
      BY <2>1, <2>3, <3>1
    <3>. QED BY <3>2, <3>3
  <2>4. ASSUME NEW i \in 1..Len(r), NEW j \in 1..Len(r), i < j
        PROVE  prio[r[i]] >= prio[r[j]]
    <3>1. CASE j < n
      <4>1. i \in 1..Len(q) /\ j \in 1..Len(q) /\ r[i] = q[i] /\ r[j] = q[j]
        BY <1>n, <1>lo, <2>4, <3>1
      <4>. QED BY <2>1, <2>4, <4>1
    <3>2. CASE j = n
      <4>1. i \in 1..Len(q) /\ r[i] = q[i] /\ r[j] = p
        BY <1>n, <1>lo, <1>at, <2>4, <3>2
      <4>. QED BY <1>1, <2>4, <3>2, <4>1
    <3>3. CASE j > n
      <4>1. j - 1 \in n..Len(q) /\ r[j] = q[j - 1] /\ j - 1 \in 1..Len(q)
        BY <1>n, <1>hi, <3>3
      <4>2. CASE i < n
        <5>1. i \in 1..Len(q) /\ r[i] = q[i] /\ i < j - 1
          BY <1>n, <1>lo, <4>1, <4>2
        <5>. QED BY <2>1, <4>1, <5>1
      <4>3. CASE i = n
        <5>1. r[i] = p
          BY <1>at, <4>3
        <5>2. prio[q[j - 1]] <= prio[p] /\ prio[q[j - 1]] \in Int /\ prio[p] \in Int
          BY <1>n, <2>2, <2>3, <4>1
        <5>. QED BY <4>1, <5>1, <5>2
      <4>4. CASE i > n
        <5>1. i - 1 \in 1..Len(q) /\ r[i] = q[i - 1]
          BY <1>hi, <4>4
        <5>2. i - 1 < j - 1
          BY <1>n, <2>4
        <5>. QED BY <2>1, <4>1, <5>1, <5>2
      <4>. QED BY <1>n, <1>3, <4>2, <4>3, <4>4
    <3>. QED BY <1>n, <1>3, <3>1, <3>2, <3>3
  <2>. QED BY <1>3, <2>4 DEF Sorted
<1>. QED
  BY <1>3, <1>4, <1>5, <1>6 DEF r

(* removeProcQ and dispatch(): the rest of a non-empty queue is the queue  *)
(* without its head.                                                       *)
LEMMA TailOfQueue ==
    ASSUME NEW S, NEW q \in Seq(S), q # <<>>
    PROVE  /\ Head(q) \in S /\ Head(q) \in ToSet(q)
           /\ Tail(q) \in Seq(S)
           /\ ToSet(q) = ToSet(Tail(q)) \cup {Head(q)}
           /\ IsInjective(q) => /\ IsInjective(Tail(q))
                                /\ Head(q) \notin ToSet(Tail(q))
           /\ \A prio : Sorted(q, prio) => Sorted(Tail(q), prio)
<1>1. /\ Head(q) = q[1] /\ Tail(q) \in Seq(S)
      /\ Len(q) \in Nat /\ Len(q) >= 1
      /\ Len(Tail(q)) = Len(q) - 1
      /\ \A i \in 1..(Len(q) - 1) : Tail(q)[i] = q[i + 1]
  OBVIOUS
<1>. DEFINE t == Tail(q)
<1>. HIDE DEF t
<1>2. /\ t \in Seq(S) /\ Len(t) = Len(q) - 1 /\ Len(t) \in Nat
      /\ \A i \in 1..Len(t) : i + 1 \in 1..Len(q) /\ t[i] = q[i + 1]
  BY <1>1 DEF t
<1>3. \A i \in 1..Len(t) : t[i] \in ToSet(t)
  BY <1>2, ToSetSeq
<1>4. Head(q) \in S /\ Head(q) \in ToSet(q)
  BY <1>1, ToSetSeq
<1>5. ASSUME NEW i \in 1..Len(q)
      PROVE  i = 1 \/ (i - 1 \in 1..Len(t) /\ q[i] = t[i - 1])
  <2>1. i # 1 => i - 1 \in 1..Len(t) /\ (i - 1) + 1 = i
    BY <1>1, <1>2
  <2>. QED BY <1>2, <2>1
<1>6. ToSet(q) = ToSet(t) \cup {Head(q)}
  <2>1. ToSet(q) = {q[i] : i \in 1..Len(q)} /\ ToSet(t) = {t[i] : i \in 1..Len(t)}
    BY <1>2, ToSetSeq
  <2>2. \A i \in 1..Len(q) : q[i] \in ToSet(t) \cup {Head(q)}
    BY <1>1, <1>3, <1>5
  <2>3. \A i \in 1..Len(t) : t[i] \in ToSet(q)
    BY <1>2, <2>1
  <2>. QED BY <1>4, <2>1, <2>2, <2>3
<1>7. ASSUME IsInjective(q) PROVE IsInjective(t) /\ Head(q) \notin ToSet(t)
  <2>1. \A i, j \in 1..Len(q) : q[i] = q[j] => i = j
    BY <1>7 DEF IsInjective
  <2>2. \A i, j \in 1..Len(t) : t[i] = t[j] => i = j
    BY <1>2, <2>1
  <2>3. \A i \in 1..Len(t) : t[i] # Head(q)
    BY <1>1, <1>2, <2>1
  <2>4. IsInjective(t)
    BY <1>2, <2>2 DEF IsInjective
  <2>5. Head(q) \notin ToSet(t)
    BY <1>2, <2>3, ToSetSeq
  <2>. QED BY <2>4, <2>5
<1>8. ASSUME NEW prio, Sorted(q, prio) PROVE Sorted(t, prio)
  <2>1. \A i, j \in 1..Len(q) : i < j => prio[q[i]] >= prio[q[j]]
    BY <1>8 DEF Sorted
  <2>2. ASSUME NEW i \in 1..Len(t), NEW j \in 1..Len(t), i < j
        PROVE  prio[t[i]] >= prio[t[j]]
    <3>1. i + 1 \in 1..Len(q) /\ j + 1 \in 1..Len(q) /\ i + 1 < j + 1
      BY <1>2, <2>2
    <3>2. t[i] = q[i + 1] /\ t[j] = q[j + 1]
      BY <1>2
    <3>. QED BY <2>1, <3>1, <3>2
  <2>. QED BY <2>2 DEF Sorted
<1>. QED
  BY <1>2, <1>4, <1>6, <1>7, <1>8 DEF t

(* insertBlocked: p goes to the tail of the queue.                         *)
LEMMA AppendToQueue ==
    ASSUME NEW S, NEW q \in Seq(S), NEW p \in S
    PROVE  /\ Append(q, p) \in Seq(S) /\ Append(q, p) # <<>>
           /\ ToSet(Append(q, p)) = ToSet(q) \cup {p}
           /\ IsInjective(q) /\ p \notin ToSet(q) => IsInjective(Append(q, p))
<1>. DEFINE r == Append(q, p)
<1>1. /\ r \in Seq(S) /\ r # <<>> /\ Len(r) = Len(q) + 1 /\ Len(q) \in Nat
      /\ \A i \in 1..Len(q) : r[i] = q[i]
      /\ r[Len(q) + 1] = p
  OBVIOUS
<1>. HIDE DEF r
<1>2. ToSet(r) = {r[i] : i \in 1..Len(r)} /\ ToSet(q) = {q[i] : i \in 1..Len(q)}
  BY <1>1, ToSetSeq
<1>3. \A i \in 1..Len(r) : i \in 1..Len(q) \/ i = Len(q) + 1
  BY <1>1
<1>4. ToSet(r) = ToSet(q) \cup {p}
  <2>1. \A i \in 1..Len(r) : r[i] \in ToSet(q) \cup {p}
    BY <1>1, <1>2, <1>3
  <2>2. \A i \in 1..Len(q) : q[i] \in ToSet(r)
    BY <1>1, <1>2
  <2>3. p \in ToSet(r)
    BY <1>1, <1>2
  <2>. QED BY <1>2, <2>1, <2>2, <2>3
<1>5. ASSUME IsInjective(q), p \notin ToSet(q) PROVE IsInjective(r)
  <2>1. \A i \in 1..Len(q) : q[i] # p
    BY <1>2, <1>5
  <2>2. \A i, j \in 1..Len(q) : q[i] = q[j] => i = j
    BY <1>5 DEF IsInjective
  <2>3. \A i, j \in 1..Len(r) : r[i] = r[j] => i = j
    BY <1>1, <1>3, <2>1, <2>2
  <2>. QED BY <1>1, <2>3 DEF IsInjective
<1>. QED
  BY <1>1, <1>4, <1>5 DEF r

(* list_add puts its element in front of the queue.                        *)
LEMMA ConsToQueue ==
    ASSUME NEW S, NEW q \in Seq(S), NEW p \in S
    PROVE  /\ Cons(p, q) \in Seq(S) /\ Cons(p, q) # <<>>
           /\ Head(Cons(p, q)) = p /\ Tail(Cons(p, q)) = q
           /\ ToSet(Cons(p, q)) = ToSet(q) \cup {p}
           /\ IsInjective(q) /\ p \notin ToSet(q) => IsInjective(Cons(p, q))
<1>. DEFINE r == Cons(p, q)
<1>1. /\ r \in Seq(S) /\ r # <<>> /\ Len(r) = Len(q) + 1 /\ Len(q) \in Nat
      /\ r[1] = p
      /\ \A i \in 1..Len(q) : r[i + 1] = q[i]
  BY DEF Cons
<1>2. Head(r) = p
  BY <1>1
<1>3. Tail(r) = q
  <2>1. Tail(r) \in Seq(S) /\ Len(Tail(r)) = Len(q)
    BY <1>1
  <2>2. \A i \in 1..Len(q) : Tail(r)[i] = q[i]
    BY <1>1, <2>1
  <2>. HIDE DEF r
  <2>. QED BY <2>1, <2>2, SeqEqual
<1>. HIDE DEF r
<1>4. r # <<>> /\ r \in Seq(S)
  BY <1>1
<1>5. ToSet(r) = ToSet(Tail(r)) \cup {Head(r)}
  BY <1>4, TailOfQueue
<1>6. ASSUME IsInjective(q), p \notin ToSet(q)
      PROVE  IsInjective(r)
  <2>1. DOMAIN r = 1..(Len(q) + 1) /\ DOMAIN q = 1..Len(q)
    BY <1>1
  <2>2. \A i \in 1..Len(q) : q[i] \in ToSet(q)
    BY ToSetSeq
  <2>3. \A i \in 2..(Len(q) + 1) : i - 1 \in 1..Len(q) /\ r[i] = q[i - 1]
    BY <1>1
  <2>4. \A i \in 2..(Len(q) + 1) : r[i] # r[1]
    BY <1>1, <1>6, <2>2, <2>3
  <2>5. \A i, j \in 2..(Len(q) + 1) : r[i] = r[j] => i = j
    <3>. SUFFICES ASSUME NEW i \in 2..(Len(q) + 1), NEW j \in 2..(Len(q) + 1),
                         r[i] = r[j]
                  PROVE  i = j
      OBVIOUS
    <3>1. q[i - 1] = q[j - 1] /\ i - 1 \in DOMAIN q /\ j - 1 \in DOMAIN q
      BY <2>1, <2>3
    <3>2. i - 1 = j - 1
      BY <1>6, <3>1 DEF IsInjective
    <3>. QED BY <1>1, <3>2
  <2>6. \A i \in 1..(Len(q) + 1) : i = 1 \/ i \in 2..(Len(q) + 1)
    BY <1>1
  <2>. QED BY <2>1, <2>4, <2>5, <2>6 DEF IsInjective
<1>. QED BY <1>1, <1>2, <1>3, <1>5, <1>6 DEF r

(* RemoveAt element by element: list_del of the PCB at position k.         *)
LEMMA RemoveAtElements ==
    ASSUME NEW S, NEW q \in Seq(S), NEW k \in 1..Len(q)
    PROVE  /\ RemoveAt(q, k) \in Seq(S)
           /\ Len(RemoveAt(q, k)) = Len(q) - 1
           /\ \A j \in 1..(Len(q) - 1) :
                RemoveAt(q, k)[j] = IF j < k THEN q[j] ELSE q[j + 1]
<1>. DEFINE a == SubSeq(q, 1, k - 1)
            b == SubSeq(q, k + 1, Len(q))
<1>1. /\ a \in Seq(S) /\ Len(a) = k - 1
      /\ \A j \in 1..(k - 1) : a[j] = q[j]
  OBVIOUS
<1>2. /\ b \in Seq(S) /\ Len(b) = Len(q) - k
      /\ \A j \in 1..(Len(q) - k) : b[j] = q[k + j]
  OBVIOUS
<1>3. RemoveAt(q, k) = a \o b
  BY DEF RemoveAt
<1>. HIDE DEF a, b
<1>4. /\ a \o b \in Seq(S) /\ Len(a \o b) = Len(a) + Len(b)
      /\ \A j \in 1..(Len(a) + Len(b)) :
           (a \o b)[j] = IF j <= Len(a) THEN a[j] ELSE b[j - Len(a)]
  BY <1>1, <1>2, ConcatProperties
<1>5. Len(a) = k - 1 /\ Len(a) + Len(b) = Len(q) - 1
  BY <1>1, <1>2
<1>6. \A j \in 1..(Len(q) - 1) :
         ~ (j <= k - 1) => b[j - (k - 1)] = q[j + 1]
  BY <1>2
<1>. QED
  BY <1>1, <1>3, <1>4, <1>5, <1>6

(* outProcQ and outBlocked: p leaves the queue, the others stay in order;  *)
(* a queue without p is unchanged.                                         *)
LEMMA RemoveFromQueue ==
    ASSUME NEW S, NEW q \in Seq(S), NEW p
    PROVE  /\ RemoveFirst(q, p) \in Seq(S)
           /\ IsInjective(q) => /\ ToSet(RemoveFirst(q, p)) = ToSet(q) \ {p}
                                /\ IsInjective(RemoveFirst(q, p))
           /\ \A prio : Sorted(q, prio) => Sorted(RemoveFirst(q, p), prio)
<1>1. CASE ~ \E i \in 1..Len(q) : q[i] = p
  <2>1. RemoveFirst(q, p) = q
    BY <1>1 DEF RemoveFirst
  <2>2. p \notin ToSet(q)
    BY <1>1, ToSetSeq
  <2>. QED BY <2>1, <2>2
<1>2. CASE \E i \in 1..Len(q) : q[i] = p
  <2>. DEFINE T == {i \in 1..Len(q) : q[i] = p}
              k == Min(T)
  <2>1. T \subseteq Nat /\ T # {}
    BY <1>2
  <2>2. k \in T
    <3>. HIDE DEF T
    <3>. QED BY <2>1, MinOfNaturals
  <2>3. SelectInSeq(q, LAMBDA v : v = p) = k
    BY <2>1 DEF SelectInSeq
  <2>4. RemoveFirst(q, p) = RemoveAt(q, k)
    BY <1>2, <2>3 DEF RemoveFirst
  <2>5. k \in 1..Len(q) /\ q[k] = p
    BY <2>2
  <2>. DEFINE r == RemoveAt(q, k)
  <2>. HIDE DEF T, k, r
  <2>6. /\ r \in Seq(S) /\ Len(r) = Len(q) - 1 /\ Len(q) \in Nat
        /\ \A j \in 1..Len(r) : r[j] = IF j < k THEN q[j] ELSE q[j + 1]
    <3>1. /\ RemoveAt(q, k) \in Seq(S)
          /\ Len(RemoveAt(q, k)) = Len(q) - 1
          /\ \A j \in 1..(Len(q) - 1) :
               RemoveAt(q, k)[j] = IF j < k THEN q[j] ELSE q[j + 1]
      BY ONLY q \in Seq(S), <2>5, RemoveAtElements
    <3>. QED BY <3>1 DEF r
  <2>7. \A j \in 1..Len(r) : /\ j < k => j \in 1..Len(q) /\ r[j] = q[j]
                             /\ j >= k => j + 1 \in 1..Len(q) /\ r[j] = q[j + 1]
    BY <2>5, <2>6
  <2>8. ASSUME IsInjective(q)
        PROVE  ToSet(r) = ToSet(q) \ {p} /\ IsInjective(r)
    <3>1. \A i, j \in 1..Len(q) : q[i] = q[j] => i = j
      BY <2>8 DEF IsInjective
    <3>2. ToSet(r) = {r[i] : i \in 1..Len(r)} /\ ToSet(q) = {q[i] : i \in 1..Len(q)}
      BY <2>6, ToSetSeq
    <3>3. \A j \in 1..Len(r) : r[j] \in ToSet(q) /\ r[j] # p
      BY <2>5, <2>6, <2>7, <3>1, <3>2
    <3>4. ASSUME NEW i \in 1..Len(q), q[i] # p PROVE q[i] \in ToSet(r)
      <4>1. CASE i < k
        BY <2>5, <2>6, <2>7, <3>2, <4>1
      <4>2. CASE i > k
        <5>1. i - 1 \in 1..Len(r) /\ i - 1 >= k /\ (i - 1) + 1 = i
          BY <2>5, <2>6, <4>2
        <5>2. r[i - 1] = q[i]
          BY <2>7, <5>1
        <5>. QED BY <3>2, <5>1, <5>2
      <4>. QED BY <2>5, <3>4, <4>1, <4>2
    <3>5. \A i, j \in 1..Len(r) : r[i] = r[j] => i = j
      BY <2>5, <2>6, <2>7, <3>1
    <3>6. ToSet(r) = ToSet(q) \ {p}
      BY <3>2, <3>3, <3>4
    <3>7. IsInjective(r)
      BY <2>6, <3>5 DEF IsInjective
    <3>. QED BY <3>6, <3>7
  <2>9. ASSUME NEW prio, Sorted(q, prio) PROVE Sorted(r, prio)
    <3>1. \A i, j \in 1..Len(q) : i < j => prio[q[i]] >= prio[q[j]]
      BY <2>9 DEF Sorted
    <3>2. ASSUME NEW i \in 1..Len(r), NEW j \in 1..Len(r), i < j
          PROVE  prio[r[i]] >= prio[r[j]]
      <4>i. /\ i < k => i \in 1..Len(q) /\ r[i] = q[i]
            /\ i >= k => i + 1 \in 1..Len(q) /\ r[i] = q[i + 1]
        BY <2>7
      <4>j. /\ j < k => j \in 1..Len(q) /\ r[j] = q[j]
            /\ j >= k => j + 1 \in 1..Len(q) /\ r[j] = q[j + 1]
        BY <2>7
      <4>k. i \in Int /\ j \in Int /\ k \in Int
        BY <2>5
      <4>1. CASE j < k
        BY <3>1, <3>2, <4>i, <4>j, <4>k, <4>1
      <4>2. CASE i < k /\ j >= k
        <5>1. i < j + 1
          BY <3>2, <4>k
        <5>. QED BY <3>1, <4>i, <4>j, <4>2, <5>1
      <4>3. CASE i >= k
        <5>1. i + 1 < j + 1 /\ j >= k
          BY <3>2, <4>k, <4>3
        <5>. QED BY <3>1, <4>i, <4>j, <4>3, <5>1
      <4>. QED BY <4>k, <4>1, <4>2, <4>3
    <3>. QED BY <3>2 DEF Sorted
  <2>. QED BY <2>4, <2>6, <2>8, <2>9 DEF r
<1>. QED
  BY <1>1, <1>2

(* outProcQ and outBlocked change nothing when p is not on the queue.      *)
LEMMA RemoveAbsent ==
    ASSUME NEW S, NEW q \in Seq(S), NEW p, p \notin ToSet(q)
    PROVE  RemoveFirst(q, p) = q
<1>1. ~ \E i \in 1..Len(q) : q[i] = p
  BY ToSetSeq
<1>. QED BY <1>1 DEF RemoveFirst
-----------------------------------------------------------------------------
(* Ranks among a set of positions: from one position to the next they grow *)
(* by one or stay, and they grow exactly at the members of the set.        *)
LEMMA RankStep ==
    ASSUME NEW n \in Nat, NEW K \in SUBSET (1..n), NEW i \in 0..n
    PROVE  /\ Rank(K, i) \in Nat /\ Rank(K, 0) = 0 /\ Rank(K, n) = Cardinality(K)
           /\ i # 0 => Rank(K, i) = IF i \in K THEN Rank(K, i - 1) + 1 ELSE Rank(K, i - 1)
<1>0. \A j \in K : j \in Int /\ 1 <= j /\ j <= n
  OBVIOUS
<1>1. IsFiniteSet(K)
  <2>1. IsFiniteSet(1..n)
    BY FS_Interval
  <2>. QED BY <2>1, FS_Subset
<1>2. \A m \in 0..n : IsFiniteSet({j \in K : j <= m}) /\ Rank(K, m) \in Nat
  <2>. TAKE m \in 0..n
  <2>1. IsFiniteSet({j \in K : j <= m})
    BY <1>1, FS_Subset
  <2>. QED BY <2>1, FS_CardinalityType DEF Rank
<1>3. Rank(K, 0) = 0
  <2>1. \A j \in K : ~ (j <= 0)
    BY <1>0
  <2>2. {j \in K : j <= 0} = {}
    BY <2>1, Zenon
  <2>. QED BY <2>2, FS_EmptySet DEF Rank
<1>4. Rank(K, n) = Cardinality(K)
  <2>1. {j \in K : j <= n} = K
    BY <1>0
  <2>. QED BY <2>1 DEF Rank
<1>5. ASSUME i # 0
      PROVE  Rank(K, i) = IF i \in K THEN Rank(K, i - 1) + 1 ELSE Rank(K, i - 1)
  <2>. DEFINE A == {j \in K : j <= i - 1}
              B == {j \in K : j <= i}
  <2>1. i - 1 \in 0..n /\ i \notin A
    BY <1>5
  <2>2. IsFiniteSet(A)
    BY <1>2, <2>1
  <2>a. \A j \in K : j <= i <=> (j <= i - 1 \/ j = i)
    BY <1>0
  <2>3. CASE i \in K
    <3>1. B = A \cup {i}
      BY <2>3, <2>a, Zenon
    <3>. HIDE DEF A, B
    <3>2. Cardinality(B) = Cardinality(A) + 1
      BY <2>1, <2>2, <3>1, FS_AddElement
    <3>. QED BY <2>3, <3>2 DEF Rank, A, B
  <2>4. CASE i \notin K
    <3>1. B = A
      BY <2>4, <2>a, Zenon
    <3>. QED BY <2>4, <3>1 DEF Rank
  <2>. QED BY <2>3, <2>4
<1>. QED BY <1>2, <1>3, <1>4, <1>5

(* Ranks of members are different and in their order.                      *)
LEMMA RankOrder ==
    ASSUME NEW n \in Nat, NEW K \in SUBSET (1..n), NEW i \in K, NEW j \in K, i < j
    PROVE  Rank(K, i) < Rank(K, j)
<1>. DEFINE A == {k \in K : k <= i}
            B == {k \in K : k <= j}
<1>1. IsFiniteSet(B)
  <2>1. IsFiniteSet(1..n)
    BY FS_Interval
  <2>. QED BY <2>1, FS_Subset
<1>0. \A k \in K : k \in Int
  OBVIOUS
<1>a. (\A k \in K : k <= i => k <= j) /\ j <= j /\ ~ (j <= i)
  BY <1>0
<1>2. A \in SUBSET B /\ j \in B /\ j \notin A
  BY <1>a, Zenon
<1>. HIDE DEF A, B
<1>3. IsFiniteSet(A) /\ Cardinality(A) <= Cardinality(B) /\ Cardinality(A) # Cardinality(B)
  BY <1>1, <1>2, FS_Subset
<1>4. Cardinality(A) \in Nat /\ Cardinality(B) \in Nat
  BY <1>1, <1>3, FS_CardinalityType
<1>5. Cardinality(A) < Cardinality(B)
  BY <1>3, <1>4
<1>. QED BY <1>5 DEF Rank, A, B

(* Every rank up to the size of the set is some member's.                  *)
LEMMA RankOnto ==
    ASSUME NEW n \in Nat, NEW K \in SUBSET (1..n), NEW k \in 1..Cardinality(K)
    PROVE  \E i \in K : Rank(K, i) = k
<1>. DEFINE T == {i \in 0..n : k <= Rank(K, i)}
            m == Min(T)
<1>1. n \in T /\ T \subseteq Nat
  BY RankStep
<1>2. m \in T /\ \A y \in T : m <= y
  <2>. HIDE DEF T
  <2>. QED BY <1>1, MinOfNaturals
<1>. HIDE DEF m
<1>3. m \in 0..n /\ k <= Rank(K, m)
  BY <1>2
<1>4. m # 0
  BY <1>3, RankStep
<1>5. m - 1 \in 0..n /\ m - 1 \notin T
  <2>1. m - 1 \in 0..n /\ ~ (m <= m - 1)
    BY <1>3, <1>4
  <2>. QED BY <1>2, <2>1
<1>6. Rank(K, m - 1) \in Nat /\ Rank(K, m) \in Nat /\ Rank(K, m - 1) < k
  <2>1. Rank(K, m - 1) \in Nat /\ Rank(K, m) \in Nat
    BY <1>3, <1>5, RankStep, ZenonT(60)
  <2>2. k \in Int /\ ~ (k <= Rank(K, m - 1))
    BY <1>5
  <2>. QED BY <2>1, <2>2
<1>7. Rank(K, m) = IF m \in K THEN Rank(K, m - 1) + 1 ELSE Rank(K, m - 1)
  BY <1>3, <1>4, RankStep, SMTT(60)
<1>. QED BY <1>3, <1>6, <1>7

(* Every member of a set of positions has a rank up to its size.           *)
LEMMA RankInto ==
    ASSUME NEW n \in Nat, NEW K \in SUBSET (1..n), NEW i \in K
    PROVE  Rank(K, i) \in 1..Cardinality(K) /\ Cardinality(K) \in Nat
<1>1. i \in 0..n /\ i - 1 \in 0..n /\ i # 0
  OBVIOUS
<1>2. Rank(K, i) = Rank(K, i - 1) + 1 /\ Rank(K, i - 1) \in Nat
  BY <1>1, RankStep, ZenonT(60)
<1>3. IsFiniteSet(K)
  <2>1. IsFiniteSet(1..n)
    BY FS_Interval
  <2>. QED BY <2>1, FS_Subset
<1>4. Rank(K, i) <= Cardinality(K)
  BY <1>3, FS_Subset DEF Rank
<1>5. Cardinality(K) \in Nat
  BY <1>3, FS_CardinalityType
<1>. QED BY <1>2, <1>4, <1>5

(* The positions of a queue that Without keeps.                            *)
Kept(q, D) == {i \in 1..Len(q) : q[i] \notin D}

(* Without, element by element: position k holds the k-th that is Kept.    *)
LEMMA WithoutAt ==
    ASSUME NEW S, NEW q \in Seq(S), NEW D, NEW K, K = Kept(q, D)
    PROVE  /\ Without(q, D) \in Seq(S) /\ Len(Without(q, D)) = Cardinality(K)
           /\ Cardinality(K) \in Nat
           /\ \A i \in K : Rank(K, i) \in 1..Cardinality(K) /\ Without(q, D)[Rank(K, i)] = q[i]
           /\ \A k \in 1..Cardinality(K) : \E i \in K : Rank(K, i) = k
<1>. DEFINE n == Len(q)
            f(k) == CHOOSE i \in K : Rank(K, i) = k
<1>1. n \in Nat /\ K \in SUBSET (1..n)
  BY DEF Kept
<1>2. Without(q, D) = [k \in 1..Cardinality(K) |-> q[f(k)]]
  BY DEF Without, Kept
<1>. HIDE DEF n
<1>3. \A k \in 1..Cardinality(K) : \E i \in K : Rank(K, i) = k
  BY <1>1, RankOnto
<1>4. \A i \in K : Rank(K, i) \in 1..Cardinality(K)
  BY <1>1, RankInto
<1>5. Cardinality(K) \in Nat
  <2>1. IsFiniteSet(1..n)
    BY <1>1, FS_Interval
  <2>. QED BY <1>1, <2>1, FS_Subset, FS_CardinalityType
<1>6. \A k \in 1..Cardinality(K) : f(k) \in K /\ Rank(K, f(k)) = k
  BY <1>3
<1>7. \A i, j \in K : Rank(K, i) = Rank(K, j) => i = j
  <2>. SUFFICES ASSUME NEW i \in K, NEW j \in K, i # j PROVE Rank(K, i) # Rank(K, j)
    OBVIOUS
  <2>1. i < j \/ j < i
    BY <1>1
  <2>2. Rank(K, i) \in Nat /\ Rank(K, j) \in Nat
    BY <1>4, <1>5
  <2>3. i < j => Rank(K, i) < Rank(K, j)
    BY <1>1, RankOrder
  <2>4. j < i => Rank(K, j) < Rank(K, i)
    BY <1>1, RankOrder
  <2>. QED BY <2>1, <2>2, <2>3, <2>4
<1>8. \A i \in K : f(Rank(K, i)) = i
  BY <1>4, <1>6, <1>7
<1>9. \A k \in 1..Cardinality(K) : q[f(k)] \in S
  <2>1. \A i \in K : i \in 1..Len(q)
    BY <1>1 DEF n
  <2>2. \A i \in 1..Len(q) : q[i] \in S
    OBVIOUS
  <2>. HIDE DEF f
  <2>. QED BY <1>6, <2>1, <2>2
<1>. HIDE DEF f
<1>10. Without(q, D) \in Seq(S) /\ Len(Without(q, D)) = Cardinality(K)
  BY <1>2, <1>5, <1>9
<1>11. \A i \in K : Without(q, D)[Rank(K, i)] = q[i]
  BY <1>2, <1>4, <1>8
<1>. QED BY <1>3, <1>4, <1>5, <1>10, <1>11

(* The members of D leave; the others stay, once each if they were there   *)
(* once.                                                                   *)
LEMMA WithoutMembers ==
    ASSUME NEW S, NEW q \in Seq(S), NEW D
    PROVE  /\ Without(q, D) \in Seq(S)
           /\ ToSet(Without(q, D)) = ToSet(q) \ D
           /\ IsInjective(q) => IsInjective(Without(q, D))
<1>. DEFINE K == Kept(q, D)
            r == Without(q, D)
<1>1. /\ r \in Seq(S) /\ Len(r) = Cardinality(K)
      /\ \A i \in K : Rank(K, i) \in 1..Len(r) /\ r[Rank(K, i)] = q[i]
      /\ \A k \in 1..Len(r) : \E i \in K : Rank(K, i) = k
  BY WithoutAt
<1>2. \A i \in K : i \in 1..Len(q) /\ q[i] \notin D
  BY DEF Kept
<1>3. \A i \in 1..Len(q) : q[i] \notin D => i \in K
  BY DEF Kept
<1>. HIDE DEF K, r
<1>4. ToSet(r) = {r[k] : k \in 1..Len(r)} /\ ToSet(q) = {q[i] : i \in 1..Len(q)}
  BY <1>1, ToSetSeq
<1>5. ToSet(r) = ToSet(q) \ D
  BY <1>1, <1>2, <1>3, <1>4
<1>6. ASSUME IsInjective(q) PROVE IsInjective(r)
  <2>1. \A i, j \in 1..Len(q) : q[i] = q[j] => i = j
    BY <1>6 DEF IsInjective
  <2>2. \A k, l \in 1..Len(r) : r[k] = r[l] => k = l
    BY <1>1, <1>2, <2>1
  <2>. QED BY <1>1, <2>2 DEF IsInjective
<1>. QED BY <1>1, <1>5, <1>6 DEF r

(* A process that leaves alone: outProcQ and outBlocked.                   *)
LEMMA WithoutOne ==
    ASSUME NEW S, NEW q \in Seq(S), NEW p, IsInjective(q)
    PROVE  Without(q, {p}) = RemoveFirst(q, p)
<1>. SUFFICES ASSUME NEW D, D = {p} PROVE Without(q, D) = RemoveFirst(q, p)
  OBVIOUS
<1>. DEFINE K == Kept(q, D)
            r == Without(q, D)
            n == Len(q)
<1>1. /\ r \in Seq(S) /\ Len(r) = Cardinality(K)
      /\ \A i \in K : Rank(K, i) \in 1..Len(r) /\ r[Rank(K, i)] = q[i]
      /\ \A k \in 1..Len(r) : \E i \in K : Rank(K, i) = k
  BY ONLY q \in Seq(S), WithoutAt
<1>2. n \in Nat /\ \A m \in 0..n : IsFiniteSet(1..m) /\ Cardinality(1..m) = m
  BY FS_Interval
<1>3. CASE p \notin ToSet(q)
  <2>1. K = 1..n
    BY <1>3, ToSetSeq DEF Kept
  <2>. HIDE DEF K, r, n
  <2>2. \A i \in 1..n : Rank(K, i) = i
    <3>. TAKE i \in 1..n
    <3>. DEFINE X == {j \in K : j <= i}
    <3>1. X = 1..i /\ i \in 0..n
      BY <1>2, <2>1
    <3>2. Rank(K, i) = Cardinality(X)
      BY DEF Rank
    <3>. HIDE DEF X
    <3>. QED BY <1>2, <3>1, <3>2
  <2>3. Len(r) = n
    BY <1>1, <1>2, <2>1
  <2>4. \A i \in 1..n : r[i] = q[i]
    BY <1>1, <2>1, <2>2
  <2>5. r = q
    BY <1>1, <2>3, <2>4 DEF n
  <2>. QED BY <1>3, <2>5, RemoveAbsent DEF r
<1>4. CASE p \in ToSet(q)
  <2>. DEFINE T == {i \in 1..Len(q) : q[i] = p}
              m == Min(T)
  <2>1. T \subseteq Nat /\ T # {}
    BY <1>4, ToSetSeq
  <2>2. m \in T
    <3>. HIDE DEF T
    <3>. QED BY <2>1, MinOfNaturals
  <2>3. SelectInSeq(q, LAMBDA v : v = p) = m
    BY <2>1 DEF SelectInSeq
  <2>4. RemoveFirst(q, p) = RemoveAt(q, m)
    BY <2>1, <2>3 DEF RemoveFirst
  <2>5. m \in 1..n /\ q[m] = p
    BY <2>2
  <2>6. K = (1..n) \ {m}
    <3>1. \A i \in 1..n : q[i] = p <=> i = m
      BY <2>5 DEF IsInjective
    <3>. QED BY <3>1 DEF Kept
  <2>. DEFINE a == RemoveAt(q, m)
  <2>7. /\ a \in Seq(S) /\ Len(a) = n - 1
        /\ \A j \in 1..(n - 1) : a[j] = IF j < m THEN q[j] ELSE q[j + 1]
    <3>. HIDE DEF m, T
    <3>. QED BY <2>5, RemoveAtElements
  <2>. HIDE DEF K, r, n, T, m, a
  <2>8. Len(r) = n - 1
    <3>1. IsFiniteSet(1..n) /\ Cardinality(1..n) = n /\ m \in 1..n
      BY <1>2, <2>5
    <3>2. Cardinality((1..n) \ {m}) = n - 1
      BY <3>1, FS_RemoveElement
    <3>. QED BY <1>1, <2>6, <3>2
  <2>9. \A i \in K : Rank(K, i) = IF i < m THEN i ELSE i - 1
    <3>. TAKE i \in K
    <3>. DEFINE X == {j \in K : j <= i}
    <3>0. i \in 1..n /\ i # m /\ i \in 0..n /\ i \in Nat /\ m \in Nat
      BY <1>2, <2>5, <2>6
    <3>a. Rank(K, i) = Cardinality(X)
      BY DEF Rank
    <3>b. IsFiniteSet(1..i) /\ Cardinality(1..i) = i
      BY <1>2, <3>0
    <3>1. CASE i < m
      <4>1. X = 1..i
        BY <1>2, <2>5, <2>6, <3>0, <3>1
      <4>. HIDE DEF X
      <4>. QED BY <3>0, <3>1, <3>a, <3>b, <4>1
    <3>2. CASE i > m
      <4>1. X = (1..i) \ {m} /\ m \in 1..i
        BY <1>2, <2>5, <2>6, <3>0, <3>2
      <4>2. Cardinality((1..i) \ {m}) = i - 1
        BY <3>b, <4>1, FS_RemoveElement
      <4>. HIDE DEF X
      <4>. QED BY <3>0, <3>2, <3>a, <4>1, <4>2
    <3>. QED BY <2>5, <3>0, <3>1, <3>2
  <2>10. \A k \in 1..(n - 1) : r[k] = a[k]
    <3>. TAKE k \in 1..(n - 1)
    <3>1. CASE k < m
      <4>0. k \in 1..n /\ k # m
        BY <1>2, <2>5, <3>1
      <4>1. k \in K /\ Rank(K, k) = k
        BY <2>6, <2>9, <3>1, <4>0
      <4>. QED BY <1>1, <2>7, <3>1, <4>1
    <3>2. CASE k >= m
      <4>1. k + 1 \in K /\ ~ (k + 1 < m) /\ (k + 1) - 1 = k
        BY <1>2, <2>5, <2>6, <3>2
      <4>2. Rank(K, k + 1) = k
        BY <2>9, <4>1
      <4>. QED BY <1>1, <2>5, <2>7, <3>2, <4>1, <4>2
    <3>. QED BY <2>5, <3>1, <3>2
  <2>11. r = a
    BY <1>1, <1>2, <2>5, <2>7, <2>8, <2>10
  <2>. QED BY <2>4, <2>11 DEF r, a
<1>. QED BY <1>3, <1>4
=============================================================================
