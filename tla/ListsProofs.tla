---------------------------- MODULE ListsProofs ----------------------------
(***************************************************************************)
(* The linked lists of phase 1 for tables of any size: whatever is linked  *)
(* and unlinked, every list_head of the heap is on one circular list or on *)
(* none, and what list_for_each visits are the queues of QueueSpec.        *)
(***************************************************************************)
EXTENDS Lists, FiniteSetTheorems, TLAPS

PQ == INSTANCE ProcQueueProofs

HeapType == [next : [Nodes -> Nodes \cup {NULL}], prev : [Nodes -> Nodes \cup {NULL}]]

(* The circle of head and the members of q, from head at 0 back to head.   *)
Ring(h, head, q) ==
    /\ head \in Nodes /\ q \in Seq(Nodes)
    /\ \A i \in 1..Len(q) : q[i] # head
    /\ \A i, j \in 1..Len(q) : q[i] = q[j] => i = j
    /\ \A i \in 0..Len(q) : /\ h.next[At(q, head, i)] = At(q, head, i + 1)
                            /\ h.prev[At(q, head, i + 1)] = At(q, head, i)

(* The list_heads on the list of head.                                     *)
On(head, q) == {head} \cup {q[i] : i \in 1..Len(q)}

(* The heap h is the lists Q, one for each head in DOMAIN Q, and nothing   *)
(* else: a list_head on none of them was never initialised.  A PCB that    *)
(* was taken off its list is the head of an empty one.                     *)
WellFormed(h, Q) ==
    /\ h \in HeapType
    /\ \A a \in DOMAIN Q : Ring(h, a, Q[a])
    /\ \A a, b \in DOMAIN Q : a # b => On(a, Q[a]) \cap On(b, Q[b]) = {}
    /\ \A n \in Nodes : h.next[n] # NULL => \E a \in DOMAIN Q : n \in On(a, Q[a])

(* Which lists there are and of what: PCBs that the caller has in hand are *)
(* alone, all others on a list, as are all descriptors.                    *)
Shape(h, hl, Q) ==
    /\ WellFormed(h, Q)
    /\ Heads \subseteq DOMAIN Q /\ DOMAIN Q \cap Descs = {} /\ DOMAIN Q \cap Pcbs = hl
    /\ Q[pcbFree_h] \in Seq(Pcbs) /\ Q[readyQueue] \in Seq(Pcbs)
    /\ Q[semdFree_h] \in Seq(Descs) /\ Q[semd_h] \in Seq(Descs)
    /\ \A p \in hl : Q[p] = <<>>
    /\ \A d \in Descs : procq(d) \in DOMAIN Q => Q[procq(d)] \in Seq(Pcbs)
    /\ \A n \in Pcbs \cup Descs : h.next[n] # NULL

(* An active descriptor has a key of its own and waiters; a free one that  *)
(* was used before has none.                                               *)
Keyed(key, Q) ==
    /\ \A i \in 1..Len(Q[semd_h]) : LET d == Q[semd_h][i]
                                    IN /\ key[d] \in Sems
                                       /\ procq(d) \in DOMAIN Q /\ Q[procq(d)] # <<>>
    /\ \A i, j \in 1..Len(Q[semd_h]) : key[Q[semd_h][i]] = key[Q[semd_h][j]] => i = j
    /\ \A i \in 1..Len(Q[semdFree_h]) : LET d == Q[semdFree_h][i]
                                        IN procq(d) \in DOMAIN Q => Q[procq(d)] = <<>>

-----------------------------------------------------------------------------
(* The first match of a search, the smallest of its positions.             *)
LEMMA MinOfNaturals ==
    ASSUME NEW T, T \subseteq Nat, T # {}
    PROVE  Min(T) \in T /\ \A y \in T : Min(T) <= y
  BY PQ!MinOfNaturals DEF PQ!Min, Min

LEMMA NodesFinite == IsFiniteSet(Nodes) /\ Cardinality(Nodes) \in Nat
<1>. DEFINE P == {procq(d) : d \in Descs}
            f == [d \in Descs |-> procq(d)]
<1>1. f \in Surjection(Descs, P)
  BY DEF Surjection
<1>2. IsFiniteSet(P)
  BY <1>1, TablesAssumption, FS_Surjection
<1>3. IsFiniteSet(Heads)
  <2>1. IsFiniteSet({}) /\ Heads = ((({} \cup {pcbFree_h}) \cup {readyQueue})
                                      \cup {semdFree_h}) \cup {semd_h}
    BY FS_EmptySet DEF Heads
  <2>. QED BY <2>1, FS_AddElement
<1>. HIDE DEF P
<1>4. IsFiniteSet(Pcbs \cup Descs)
  BY TablesAssumption, FS_Union
<1>5. IsFiniteSet((Pcbs \cup Descs) \cup Heads)
  BY <1>3, <1>4, FS_Union
<1>6. IsFiniteSet(((Pcbs \cup Descs) \cup Heads) \cup P)
  BY <1>2, <1>5, FS_Union
<1>7. Nodes = ((Pcbs \cup Descs) \cup Heads) \cup P
  BY DEF Nodes, P
<1>. QED BY <1>6, <1>7, FS_CardinalityType

(* The circle, position by position.                                       *)
LEMMA RingAt ==
    ASSUME NEW h, NEW a, NEW q, Ring(h, a, q)
    PROVE  /\ Len(q) \in Nat /\ At(q, a, 0) = a /\ At(q, a, Len(q) + 1) = a
           /\ \A i \in 1..Len(q) : At(q, a, i) = q[i]
           /\ \A i \in 0..(Len(q) + 1) : At(q, a, i) \in Nodes
           /\ \A i, j \in 0..Len(q) : At(q, a, i) = At(q, a, j) => i = j
           /\ On(a, q) = {At(q, a, i) : i \in 0..Len(q)}
<1>1. Len(q) \in Nat /\ q \in Seq(Nodes) /\ a \in Nodes
  BY DEF Ring
<1>2. \A i \in 1..Len(q) : q[i] \in Nodes /\ q[i] # a
  BY DEF Ring
<1>3. /\ At(q, a, 0) = a /\ At(q, a, Len(q) + 1) = a
      /\ \A i \in 1..Len(q) : At(q, a, i) = q[i]
  BY <1>1 DEF At
<1>4. \A i \in 0..(Len(q) + 1) : At(q, a, i) \in Nodes
  BY <1>1, <1>2 DEF At
<1>5. \A i, j \in 0..Len(q) : At(q, a, i) = At(q, a, j) => i = j
  BY <1>1, <1>2 DEF At, Ring
<1>6. On(a, q) = {At(q, a, i) : i \in 0..Len(q)}
  <2>1. \A i \in 0..Len(q) : i = 0 \/ i \in 1..Len(q)
    BY <1>1
  <2>2. 0 \in 0..Len(q) /\ \A i \in 1..Len(q) : i \in 0..Len(q)
    BY <1>1
  <2>. QED BY <1>3, <2>1, <2>2 DEF On
<1>. QED BY <1>1, <1>3, <1>4, <1>5, <1>6

(* No circle has more members than there are list_heads.                   *)
LEMMA RingFits ==
    ASSUME NEW h, NEW a, NEW q, Ring(h, a, q)
    PROVE  Len(q) + 1 <= Cardinality(Nodes)
<1>. DEFINE f == [i \in 0..Len(q) |-> At(q, a, i)]
<1>1. Len(q) \in Nat /\ IsFiniteSet(Nodes)
  BY RingAt, NodesFinite
<1>2. f \in Injection(0..Len(q), Nodes)
  <2>1. f \in [0..Len(q) -> Nodes]
    BY RingAt
  <2>2. \A i, j \in 0..Len(q) : f[i] = f[j] => i = j
    BY RingAt
  <2>. QED BY <2>1, <2>2 DEF Injection, IsInjective
<1>3. Cardinality(0..Len(q)) <= Cardinality(Nodes)
  <2>. HIDE DEF f
  <2>. QED BY <1>1, <1>2, FS_Injection
<1>4. Cardinality(0..Len(q)) = Len(q) + 1
  BY <1>1, FS_Interval
<1>. QED BY <1>3, <1>4

(* Following next from head: the recursion has a solution, because it has  *)
(* one on every shorter range.                                             *)
Walks(f, h, head, n) == f = [i \in 0..n |-> IF i = 0 THEN head ELSE h.next[f[i - 1]]]

LEMMA WalkExists ==
    ASSUME NEW h, NEW head, NEW N \in Nat
    PROVE  \E f : Walks(f, h, head, N)
<1>. DEFINE Solves(f, n) == Walks(f, h, head, n)
            Bad == {n \in Nat : ~ \E f : Solves(f, n)}
            m == Min(Bad)
<1>. SUFFICES ASSUME Bad # {} PROVE FALSE
  OBVIOUS
<1>1. m \in Bad /\ \A y \in Bad : m <= y
  <2>1. Bad \subseteq Nat
    OBVIOUS
  <2>. HIDE DEF Bad
  <2>. QED BY <2>1, MinOfNaturals
<1>. HIDE DEF m
<1>2. m # 0
  <2>1. Solves([i \in 0..0 |-> head], 0)
    BY DEF Walks
  <2>. QED BY <1>1, <2>1
<1>3. m - 1 \in Nat /\ m - 1 \notin Bad
  <2>1. m \in Nat
    BY <1>1
  <2>. HIDE DEF Bad
  <2>. QED BY <1>1, <1>2, <2>1
<1>4. PICK f : Solves(f, m - 1)
  BY <1>3
<1>. DEFINE g == [i \in 0..m |-> IF i = m THEN h.next[f[m - 1]] ELSE f[i]]
<1>5. \A i \in 0..m : g[i] = IF i = 0 THEN head ELSE h.next[g[i - 1]]
  <2>0. m \in Nat /\ m # 0
    BY <1>1, <1>2
  <2>1. \A i \in 0..(m - 1) : f[i] = IF i = 0 THEN head ELSE h.next[f[i - 1]]
    BY <1>4 DEF Walks
  <2>. HIDE DEF Solves, Bad
  <2>2. ASSUME NEW i \in 0..m PROVE g[i] = IF i = 0 THEN head ELSE h.next[g[i - 1]]
    <3>1. CASE i = m
      BY <2>0, <3>1
    <3>2. CASE i # m
      <4>1. i \in 0..(m - 1) /\ (i # 0 => i - 1 \in 0..m /\ i - 1 # m)
        BY <2>0, <3>2
      <4>. QED BY <2>1, <3>2, <4>1
    <3>. QED BY <3>1, <3>2
  <2>. QED BY <2>2
<1>6. Solves(g, m)
  <2>. HIDE DEF Bad
  <2>. QED BY <1>5 DEF Walks
<1>. QED BY <1>1, <1>6

(* list_for_each visits the members of a circle, in order, and comes back. *)
LEMMA ForEach ==
    ASSUME NEW h, NEW head, NEW q, Ring(h, head, q)
    PROVE  list_for_each(h, head) = q
<1>. DEFINE N == Cardinality(Nodes)
            pos == CHOOSE f : f = [i \in 0..N |-> IF i = 0 THEN head ELSE h.next[f[i - 1]]]
            ends == {i \in 1..N : pos[i] = head}
            L == Len(q)
<1>1. list_for_each(h, head) = [i \in 1..(Min(ends \cup {N + 1}) - 1) |-> pos[i]]
  BY DEF list_for_each
<1>2. N \in Nat /\ L \in Nat /\ L + 1 <= N
  BY NodesFinite, RingAt, RingFits
<1>. HIDE DEF N
<1>3. pos = [i \in 0..N |-> IF i = 0 THEN head ELSE h.next[pos[i - 1]]]
  <2>1. pos = CHOOSE f : Walks(f, h, head, N)
    BY DEF Walks
  <2>. HIDE DEF pos
  <2>2. Walks(pos, h, head, N)
    BY <1>2, <2>1, WalkExists
  <2>. QED BY <2>2 DEF Walks
<1>. HIDE DEF pos
<1>4. pos[0] = head /\ \A i \in 1..N : pos[i] = h.next[pos[i - 1]]
  BY <1>2, <1>3
<1>5. \A i \in 0..(L + 1) : pos[i] = At(q, head, i)
  <2>. DEFINE Bad == {i \in 0..(L + 1) : pos[i] # At(q, head, i)}
              m == Min(Bad)
  <2>. SUFFICES ASSUME Bad # {} PROVE FALSE
    OBVIOUS
  <2>1. m \in Bad /\ \A y \in Bad : m <= y
    <3>1. Bad \subseteq Nat
      BY <1>2
    <3>. HIDE DEF Bad
    <3>. QED BY <3>1, MinOfNaturals
  <2>. HIDE DEF m
  <2>2. m \in 0..(L + 1) /\ pos[m] # At(q, head, m)
    BY <2>1
  <2>3. m # 0
    BY <1>4, <2>2, RingAt
  <2>4. m - 1 \in 0..L /\ m \in 1..N /\ (m - 1) + 1 = m
    BY <1>2, <2>2, <2>3
  <2>5. m - 1 \notin Bad
    <3>. HIDE DEF Bad
    <3>. QED BY <2>1, <2>4
  <2>6. pos[m - 1] = At(q, head, m - 1)
    BY <1>2, <2>4, <2>5
  <2>7. h.next[At(q, head, m - 1)] = At(q, head, (m - 1) + 1)
    BY <2>4 DEF Ring
  <2>. QED BY <1>4, <2>2, <2>4, <2>6, <2>7
<1>6. \A i \in 1..L : pos[i] = q[i] /\ pos[i] # head
  <2>1. \A i \in 1..L : i \in 0..(L + 1) /\ At(q, head, i) = q[i] /\ q[i] # head
    <3>1. \A i \in 1..L : i \in 0..(L + 1)
      BY <1>2
    <3>2. \A i \in 1..L : At(q, head, i) = q[i]
      BY RingAt
    <3>3. \A i \in 1..L : q[i] # head
      BY DEF Ring
    <3>. QED BY <3>1, <3>2, <3>3
  <2>. QED BY <1>5, <2>1
<1>7. L + 1 \in ends
  BY <1>2, <1>5, RingAt
<1>8. \A i \in ends \cup {N + 1} : L + 1 <= i
  <2>1. \A i \in ends : i \in 1..N /\ i \notin 1..L
    BY <1>6
  <2>. HIDE DEF ends
  <2>. QED BY <1>2, <2>1
<1>9. Min(ends \cup {N + 1}) = L + 1
  <2>. DEFINE T == ends \cup {N + 1}
  <2>1. T \subseteq Nat /\ L + 1 \in T
    BY <1>2, <1>7
  <2>. HIDE DEF T
  <2>2. Min(T) \in T /\ Min(T) <= L + 1
    BY <2>1, MinOfNaturals
  <2>3. Min(T) \in Nat /\ L + 1 <= Min(T)
    BY <1>8, <2>1, <2>2 DEF T
  <2>. QED BY <1>2, <2>2, <2>3 DEF T
<1>10. list_for_each(h, head) = [i \in 1..L |-> q[i]]
  <2>1. (L + 1) - 1 = L
    BY <1>2
  <2>. HIDE DEF L, ends
  <2>. QED BY <1>1, <1>6, <1>9, <2>1
<1>. QED BY <1>10 DEF Ring
-----------------------------------------------------------------------------
(* The sequence operators, position by position.                           *)
LEMMA InsertAtElements ==
    ASSUME NEW S, NEW q \in Seq(S), NEW x \in S, NEW k \in 1..(Len(q) + 1)
    PROVE  /\ InsertAt(q, k, x) \in Seq(S) /\ Len(InsertAt(q, k, x)) = Len(q) + 1
           /\ \A i \in 1..(Len(q) + 1) :
                InsertAt(q, k, x)[i] = IF i < k THEN q[i] ELSE IF i = k THEN x ELSE q[i - 1]
<1>. DEFINE r == InsertAt(q, k, x)
<1>0. r = PQ!InsertAt(q, k, x)
  BY DEF PQ!InsertAt, InsertAt
<1>. HIDE DEF r
<1>p. /\ PQ!InsertAt(q, k, x) \in Seq(S)
      /\ Len(PQ!InsertAt(q, k, x)) = Len(q) + 1
      /\ \A j \in 1..(k - 1) : PQ!InsertAt(q, k, x)[j] = q[j]
      /\ PQ!InsertAt(q, k, x)[k] = x
      /\ \A j \in k..Len(q) : PQ!InsertAt(q, k, x)[j + 1] = q[j]
  BY PQ!InsertAtElements, SMTT(60)
<1>1. /\ r \in Seq(S) /\ Len(r) = Len(q) + 1 /\ r[k] = x
      /\ \A j \in 1..(k - 1) : r[j] = q[j]
      /\ \A j \in k..Len(q) : r[j + 1] = q[j]
  BY <1>0, <1>p, ZenonT(60)
<1>2. \A i \in 1..(Len(q) + 1) : r[i] = IF i < k THEN q[i] ELSE IF i = k THEN x ELSE q[i - 1]
  <2>. TAKE i \in 1..(Len(q) + 1)
  <2>0. Len(q) \in Nat
    OBVIOUS
  <2>1. CASE i < k
    BY <1>1, <2>0, <2>1
  <2>2. CASE i > k
    <3>1. i - 1 \in k..Len(q) /\ (i - 1) + 1 = i /\ ~ (i < k) /\ i # k
      BY <2>0, <2>2
    <3>. QED BY <1>1, <3>1
  <2>. QED BY <1>1, <2>0, <2>1, <2>2
<1>. QED BY <1>1, <1>2 DEF r

LEMMA RemoveAtElements ==
    ASSUME NEW S, NEW q \in Seq(S), NEW k \in 1..Len(q)
    PROVE  /\ RemoveAt(q, k) \in Seq(S) /\ Len(RemoveAt(q, k)) = Len(q) - 1
           /\ \A i \in 1..(Len(q) - 1) : RemoveAt(q, k)[i] = IF i < k THEN q[i] ELSE q[i + 1]
  BY PQ!RemoveAtElements DEF PQ!RemoveAt, RemoveAt
-----------------------------------------------------------------------------
(***************************************************************************)
(* The functions of listx.h on one circle.                                 *)
(***************************************************************************)
(* g is h with x linked between u and v, x alone, x unlinked from between. *)
Added(h, g, x, u, v) ==
    /\ g \in HeapType
    /\ \A n \in Nodes : g.next[n] = IF n = u THEN x ELSE IF n = x THEN v ELSE h.next[n]
    /\ \A n \in Nodes : g.prev[n] = IF n = x THEN u ELSE IF n = v THEN x ELSE h.prev[n]

Alone(h, g, x) ==
    /\ g \in HeapType
    /\ \A n \in Nodes : g.next[n] = IF n = x THEN x ELSE h.next[n]
    /\ \A n \in Nodes : g.prev[n] = IF n = x THEN x ELSE h.prev[n]

Deleted(h, g, x, u, v) ==
    /\ g \in HeapType
    /\ \A n \in Nodes : g.next[n] = IF n = x THEN x ELSE IF n = u THEN v ELSE h.next[n]
    /\ \A n \in Nodes : g.prev[n] = IF n = x THEN x ELSE IF n = v THEN u ELSE h.prev[n]

LEMMA ListAddAt ==
    ASSUME NEW h \in HeapType, NEW x \in Nodes, NEW u \in Nodes, NEW v \in Nodes
    PROVE  Added(h, __list_add(h, x, u, v), x, u, v)
  BY DEF HeapType, __list_add, Added

LEMMA InitListAt ==
    ASSUME NEW h \in HeapType, NEW x \in Nodes
    PROVE  Alone(h, INIT_LIST_HEAD(h, x), x)
  BY DEF HeapType, INIT_LIST_HEAD, Alone

LEMMA ListDelAt ==
    ASSUME NEW h \in HeapType, NEW x \in Nodes, NEW u \in Nodes, NEW v \in Nodes,
           h.prev[x] = u, h.next[x] = v
    PROVE  Deleted(h, list_del(h, x), x, u, v)
<1>. DEFINE f == __list_del(h, u, v)
            g == list_del(h, x)
<1>1. /\ f \in HeapType
      /\ \A n \in Nodes : f.next[n] = IF n = u THEN v ELSE h.next[n]
      /\ \A n \in Nodes : f.prev[n] = IF n = v THEN u ELSE h.prev[n]
  BY DEF HeapType, __list_del
<1>2. g = INIT_LIST_HEAD(f, x)
  BY DEF list_del
<1>. HIDE DEF f, g
<1>3. Alone(f, g, x)
  BY <1>1, <1>2, InitListAt
<1>4. Deleted(h, g, x, u, v)
  BY <1>1, <1>3 DEF Alone, Deleted
<1>. QED BY <1>4 DEF g

(* A circle is only its own pointers.                                      *)
LEMMA RingFrame ==
    ASSUME NEW h, NEW g, NEW a, NEW q, Ring(h, a, q),
           \A n \in On(a, q) : g.next[n] = h.next[n] /\ g.prev[n] = h.prev[n]
    PROVE  Ring(g, a, q)
<1>1. /\ Len(q) \in Nat /\ At(q, a, 0) = a /\ At(q, a, Len(q) + 1) = a
      /\ \A i \in 0..Len(q) : At(q, a, i) \in On(a, q)
  BY RingAt
<1>2. \A i \in 0..Len(q) : At(q, a, i + 1) \in On(a, q)
  <2>. TAKE i \in 0..Len(q)
  <2>1. CASE i = Len(q)
    <3>1. 0 \in 0..Len(q)
      BY <1>1
    <3>. QED BY <1>1, <2>1, <3>1
  <2>2. CASE i # Len(q)
    BY <1>1, <2>2
  <2>. QED BY <2>1, <2>2
<1>. QED BY <1>1, <1>2 DEF Ring

(* Who is on a circle has a successor.                                     *)
LEMMA RingNext ==
    ASSUME NEW h, NEW a, NEW q, Ring(h, a, q)
    PROVE  /\ \A n \in On(a, q) : n \in Nodes /\ h.next[n] \in Nodes /\ h.next[n] # NULL
           /\ \A n \in On(a, q) : h.next[n] \in On(a, q) /\ h.prev[n] \in On(a, q)
<1>1. /\ Len(q) \in Nat /\ At(q, a, 0) = a /\ At(q, a, Len(q) + 1) = a
      /\ \A i \in 0..(Len(q) + 1) : At(q, a, i) \in Nodes
      /\ On(a, q) = {At(q, a, i) : i \in 0..Len(q)}
  BY RingAt
<1>2. \A i \in 0..Len(q) : At(q, a, i + 1) \in On(a, q)
  <2>. TAKE i \in 0..Len(q)
  <2>1. CASE i = Len(q)
    <3>1. 0 \in 0..Len(q)
      BY <1>1
    <3>. QED BY <1>1, <2>1, <3>1
  <2>2. CASE i # Len(q)
    BY <1>1, <2>2
  <2>. QED BY <2>1, <2>2
<1>3. \A i \in 0..Len(q) : h.next[At(q, a, i)] = At(q, a, i + 1)
  BY DEF Ring
<1>4. \A i \in 0..Len(q) : \E j \in 0..Len(q) : h.prev[At(q, a, i)] = At(q, a, j)
  <2>. TAKE i \in 0..Len(q)
  <2>1. \A j \in 0..Len(q) : h.prev[At(q, a, j + 1)] = At(q, a, j)
    BY DEF Ring
  <2>2. CASE i = 0
    <3>1. Len(q) \in 0..Len(q)
      BY <1>1
    <3>. QED BY <1>1, <2>1, <2>2, <3>1
  <2>3. CASE i # 0
    <3>1. i - 1 \in 0..Len(q) /\ (i - 1) + 1 = i
      BY <1>1, <2>3
    <3>. QED BY <2>1, <3>1
  <2>. QED BY <2>2, <2>3
<1>5. \A n \in On(a, q) : n \in Nodes /\ h.next[n] \in On(a, q) /\ h.prev[n] \in On(a, q)
  <2>. TAKE n \in On(a, q)
  <2>1. PICK i \in 0..Len(q) : n = At(q, a, i)
    BY <1>1
  <2>2. n \in Nodes /\ h.next[n] \in On(a, q)
    <3>1. i \in 0..(Len(q) + 1)
      BY <1>1
    <3>. QED BY <1>1, <1>2, <1>3, <2>1, <3>1
  <2>3. h.prev[n] \in On(a, q)
    BY <1>1, <1>4, <2>1
  <2>. QED BY <2>2, <2>3
<1>6. NULL \notin Nodes
  BY TablesAssumption
<1>. QED BY <1>5, <1>6

(* An empty list: head points to itself, both ways.                        *)
LEMMA EmptyRing ==
    ASSUME NEW h, NEW a \in Nodes
    PROVE  /\ Ring(h, a, <<>>) <=> h.next[a] = a /\ h.prev[a] = a
           /\ On(a, <<>>) = {a}
<1>1. Len(<<>>) = 0 /\ <<>> \in Seq(Nodes) /\ 1..0 = {} /\ 0..0 = {0}
  OBVIOUS
<1>2. \A i : At(<<>>, a, i) = a
  BY <1>1 DEF At
<1>3. On(a, <<>>) = {a}
  BY <1>1 DEF On
<1>. QED BY <1>1, <1>2, <1>3 DEF Ring

(* __list_add between two neighbours of a circle.                          *)
LEMMA RingInsert ==
    ASSUME NEW h \in HeapType, NEW a, NEW q, Ring(h, a, q),
           NEW x \in Nodes, x \notin On(a, q), NEW k \in 1..(Len(q) + 1),
           NEW g, g = __list_add(h, x, At(q, a, k - 1), At(q, a, k))
    PROVE  /\ Ring(g, a, InsertAt(q, k, x))
           /\ On(a, InsertAt(q, k, x)) = On(a, q) \cup {x}
           /\ g \in HeapType
           /\ \A n \in Nodes \ (On(a, q) \cup {x}) :
                g.next[n] = h.next[n] /\ g.prev[n] = h.prev[n]
           /\ \A n \in On(a, q) \cup {x} : g.next[n] # NULL
<1>. DEFINE L == Len(q)
            r == InsertAt(q, k, x)
            u == At(q, a, k - 1)
            v == At(q, a, k)
<1>1. /\ L \in Nat /\ At(q, a, 0) = a /\ At(q, a, L + 1) = a
      /\ \A i \in 0..(L + 1) : At(q, a, i) \in Nodes
      /\ \A i, j \in 0..L : At(q, a, i) = At(q, a, j) => i = j
      /\ On(a, q) = {At(q, a, i) : i \in 0..L}
  BY RingAt
<1>2. a \in Nodes /\ q \in Seq(Nodes)
  BY DEF Ring
<1>3. k - 1 \in 0..L /\ k - 1 \in 0..(L + 1) /\ k \in 0..(L + 1) /\ (k - 1) + 1 = k
  BY <1>1
<1>4. u \in Nodes /\ v \in Nodes
  BY <1>1, <1>3
<1>5. /\ g \in HeapType
      /\ \A n \in Nodes : g.next[n] = IF n = u THEN x ELSE IF n = x THEN v ELSE h.next[n]
      /\ \A n \in Nodes : g.prev[n] = IF n = x THEN u ELSE IF n = v THEN x ELSE h.prev[n]
  <2>. HIDE DEF u, v
  <2>1. g = __list_add(h, x, u, v)
    BY DEF u, v
  <2>2. Added(h, g, x, u, v)
    BY <1>4, <2>1, ListAddAt
  <2>. QED BY <2>2 DEF Added
<1>6. /\ r \in Seq(Nodes) /\ Len(r) = L + 1
      /\ \A i \in 1..(L + 1) : r[i] = IF i < k THEN q[i] ELSE IF i = k THEN x ELSE q[i - 1]
  BY <1>2, InsertAtElements
<1>. HIDE DEF r
<1>7. \A i \in 0..(L + 2) : At(r, a, i) = IF i < k THEN At(q, a, i)
                                          ELSE IF i = k THEN x ELSE At(q, a, i - 1)
  BY <1>1, <1>6 DEF At
<1>8. \A i \in 0..(L + 1) : At(q, a, i) # x
  <2>1. \A i \in 0..L : At(q, a, i) # x
    BY <1>1
  <2>. QED BY <1>1, <2>1
<1>9. \A i \in 0..L : h.next[At(q, a, i)] = At(q, a, i + 1) /\ h.prev[At(q, a, i + 1)] = At(q, a, i)
  BY DEF Ring
<1>10. \A i \in 1..(L + 1), j \in 1..(L + 1) : At(q, a, i) = At(q, a, j) => i = j
  BY <1>1
<1>11. ASSUME NEW i \in 0..(L + 1)
       PROVE  g.next[At(r, a, i)] = At(r, a, i + 1) /\ g.prev[At(r, a, i + 1)] = At(r, a, i)
  <2>1. CASE i < k - 1
    <3>1. i \in 0..L /\ i + 1 \in 1..(L + 1) /\ i # k - 1 /\ i + 1 # k /\ i + 1 < k /\ i < k
      BY <1>1, <2>1
    <3>2. At(r, a, i) = At(q, a, i) /\ At(r, a, i + 1) = At(q, a, i + 1)
      BY <1>1, <1>7, <3>1
    <3>3. At(q, a, i) # u /\ At(q, a, i + 1) # v /\ At(q, a, i) # x /\ At(q, a, i + 1) # x
      BY <1>1, <1>3, <1>8, <1>10, <3>1
    <3>4. At(q, a, i) \in Nodes /\ At(q, a, i + 1) \in Nodes
      BY <1>1, <3>1
    <3>. QED BY <1>5, <1>9, <3>1, <3>2, <3>3, <3>4
  <2>2. CASE i = k - 1
    <3>1. At(r, a, i) = u /\ At(r, a, i + 1) = x
      BY <1>1, <1>7, <2>2
    <3>. QED BY <1>4, <1>5, <3>1
  <2>3. CASE i = k
    <3>1. At(r, a, i) = x /\ At(r, a, i + 1) = v
      BY <1>1, <1>7, <2>3
    <3>2. v # x /\ u # x
      BY <1>3, <1>8
    <3>. QED BY <1>4, <1>5, <3>1, <3>2
  <2>4. CASE i > k
    <3>1. /\ i - 1 \in 0..L /\ i \in 1..(L + 1) /\ i - 1 # k - 1 /\ i # k
          /\ (i - 1) + 1 = i /\ (i + 1) - 1 = i
      BY <1>1, <2>4
    <3>2. At(r, a, i) = At(q, a, i - 1) /\ At(r, a, i + 1) = At(q, a, i)
      BY <1>1, <1>7, <2>4
    <3>3. At(q, a, i - 1) # u /\ At(q, a, i) # v /\ At(q, a, i - 1) # x /\ At(q, a, i) # x
      BY <1>1, <1>3, <1>8, <1>10, <3>1
    <3>4. At(q, a, i - 1) \in Nodes /\ At(q, a, i) \in Nodes
      BY <1>1, <3>1
    <3>. QED BY <1>5, <1>9, <3>1, <3>2, <3>3, <3>4
  <2>. QED BY <1>1, <2>1, <2>2, <2>3, <2>4
<1>12. /\ \A i \in 1..(L + 1) : r[i] # a
       /\ \A i, j \in 1..(L + 1) : r[i] = r[j] => i = j
  <2>1. \A i \in 1..L : q[i] # a /\ q[i] # x
    BY <1>2 DEF Ring, On
  <2>2. a # x
    BY <1>2 DEF On
  <2>3. \A i, j \in 1..L : q[i] = q[j] => i = j
    BY DEF Ring
  <2>4. \A i \in 1..(L + 1) : \/ i < k /\ i \in 1..L /\ r[i] = q[i]
                              \/ i = k /\ r[i] = x
                              \/ i > k /\ i - 1 \in 1..L /\ r[i] = q[i - 1]
    BY <1>1, <1>6
  <2>5. \A i \in 1..(L + 1) : r[i] # a
    BY <2>1, <2>2, <2>4
  <2>6. ASSUME NEW i \in 1..(L + 1), NEW j \in 1..(L + 1), r[i] = r[j] PROVE i = j
    <3>i. \/ i < k /\ i \in 1..L /\ r[i] = q[i]
          \/ i = k /\ r[i] = x
          \/ i > k /\ i - 1 \in 1..L /\ r[i] = q[i - 1]
      BY <2>4
    <3>j. \/ j < k /\ j \in 1..L /\ r[j] = q[j]
          \/ j = k /\ r[j] = x
          \/ j > k /\ j - 1 \in 1..L /\ r[j] = q[j - 1]
      BY <2>4
    <3>. QED BY <1>1, <2>1, <2>3, <2>6, <3>i, <3>j, SMTT(60)
  <2>. QED BY <2>5, <2>6
<1>13. Ring(g, a, r)
  BY <1>2, <1>6, <1>11, <1>12 DEF Ring
<1>14. On(a, r) = On(a, q) \cup {x}
  <2>1. \A i \in 1..(L + 1) : r[i] = x \/ \E j \in 1..L : r[i] = q[j]
    <3>. TAKE i \in 1..(L + 1)
    <3>1. \/ i \in 1..L /\ r[i] = q[i]
          \/ r[i] = x
          \/ i - 1 \in 1..L /\ r[i] = q[i - 1]
      BY <1>1, <1>6
    <3>. QED BY <3>1
  <2>2. \A j \in 1..L : \E i \in 1..(L + 1) : r[i] = q[j]
    <3>. TAKE j \in 1..L
    <3>1. CASE j < k
      BY <1>1, <1>6, <3>1
    <3>2. CASE j >= k
      <4>1. j + 1 \in 1..(L + 1) /\ ~ (j + 1 < k) /\ j + 1 # k /\ (j + 1) - 1 = j
        BY <1>1, <3>2
      <4>2. r[j + 1] = q[j]
        BY <1>6, <4>1
      <4>. QED BY <4>1, <4>2
    <3>. QED BY <3>1, <3>2
  <2>3. r[k] = x /\ k \in 1..(L + 1)
    BY <1>6
  <2>. QED BY <1>6, <2>1, <2>2, <2>3 DEF On
<1>15. \A n \in Nodes \ (On(a, q) \cup {x}) : g.next[n] = h.next[n] /\ g.prev[n] = h.prev[n]
  <2>1. u \in On(a, q) /\ v \in On(a, q)
    <3>1. v = At(q, a, 0) \/ k \in 0..L
      BY <1>1
    <3>2. 0 \in 0..L
      BY <1>1
    <3>. QED BY <1>1, <1>3, <3>1, <3>2
  <2>. QED BY <1>5, <2>1
<1>16. \A n \in On(a, r) : g.next[n] # NULL
  BY <1>13, RingNext
<1>. QED BY <1>5, <1>13, <1>14, <1>15, <1>16 DEF r

(* list_del of the member at k: the circle closes, the member is alone.    *)
LEMMA RingRemove ==
    ASSUME NEW h \in HeapType, NEW a, NEW q, Ring(h, a, q), NEW k \in 1..Len(q),
           NEW x, x = q[k], NEW g, g = list_del(h, x)
    PROVE  /\ Ring(g, a, RemoveAt(q, k)) /\ Ring(g, x, <<>>)
           /\ On(a, RemoveAt(q, k)) = On(a, q) \ {x} /\ x \in On(a, q)
           /\ g \in HeapType
           /\ \A n \in Nodes \ On(a, q) : g.next[n] = h.next[n] /\ g.prev[n] = h.prev[n]
<1>. DEFINE L == Len(q)
            r == RemoveAt(q, k)
            u == At(q, a, k - 1)
            v == At(q, a, k + 1)
<1>1. /\ L \in Nat /\ At(q, a, 0) = a /\ At(q, a, L + 1) = a
      /\ \A i \in 0..(L + 1) : At(q, a, i) \in Nodes
      /\ \A i, j \in 0..L : At(q, a, i) = At(q, a, j) => i = j
      /\ On(a, q) = {At(q, a, i) : i \in 0..L}
      /\ At(q, a, k) = x
  BY RingAt
<1>2. a \in Nodes /\ q \in Seq(Nodes) /\ x \in Nodes
  BY DEF Ring
<1>3. /\ k - 1 \in 0..L /\ k - 1 \in 0..(L + 1) /\ k \in 0..L /\ k + 1 \in 0..(L + 1)
      /\ k + 1 \in 1..(L + 1) /\ k \in 1..(L + 1) /\ (k - 1) + 1 = k /\ k - 1 # k
  BY <1>1
<1>4. u \in Nodes /\ v \in Nodes
  BY <1>1, <1>3
<1>9. \A i \in 0..L : h.next[At(q, a, i)] = At(q, a, i + 1) /\ h.prev[At(q, a, i + 1)] = At(q, a, i)
  BY DEF Ring
<1>10. \A i \in 1..(L + 1), j \in 1..(L + 1) : At(q, a, i) = At(q, a, j) => i = j
  BY <1>1
<1>5. /\ g \in HeapType
      /\ \A n \in Nodes : g.next[n] = IF n = x THEN x ELSE IF n = u THEN v ELSE h.next[n]
      /\ \A n \in Nodes : g.prev[n] = IF n = x THEN x ELSE IF n = v THEN u ELSE h.prev[n]
  <2>1. h.prev[x] = u /\ h.next[x] = v
    BY <1>1, <1>3, <1>9
  <2>. HIDE DEF u, v
  <2>2. Deleted(h, g, x, u, v)
    BY <1>2, <1>4, <2>1, ListDelAt
  <2>. QED BY <2>2 DEF Deleted
<1>6. /\ r \in Seq(Nodes) /\ Len(r) = L - 1
      /\ \A i \in 1..(L - 1) : r[i] = IF i < k THEN q[i] ELSE q[i + 1]
  BY <1>2, RemoveAtElements
<1>. HIDE DEF r
<1>7. \A i \in 0..L : At(r, a, i) = IF i < k THEN At(q, a, i) ELSE At(q, a, i + 1)
  BY <1>1, <1>6 DEF At
<1>8. \A i \in 0..(L + 1) : At(q, a, i) = x => i = k
  <2>1. \A i \in 0..L : At(q, a, i) = x => i = k
    BY <1>1, <1>3
  <2>2. x # At(q, a, 0)
    BY <1>1, <1>3
  <2>. QED BY <1>1, <2>1, <2>2
<1>11. ASSUME NEW i \in 0..(L - 1)
       PROVE  g.next[At(r, a, i)] = At(r, a, i + 1) /\ g.prev[At(r, a, i + 1)] = At(r, a, i)
  <2>1. CASE i < k - 1
    <3>1. /\ i \in 0..L /\ i + 1 \in 1..(L + 1) /\ i # k - 1 /\ i + 1 # k /\ i # k
          /\ i \in 0..(L + 1) /\ i + 1 \in 0..(L + 1) /\ i + 1 # k + 1
      BY <1>1, <2>1
    <3>2. At(r, a, i) = At(q, a, i) /\ At(r, a, i + 1) = At(q, a, i + 1)
      BY <1>1, <1>7, <2>1
    <3>3. At(q, a, i) # u /\ At(q, a, i + 1) # v /\ At(q, a, i) # x /\ At(q, a, i + 1) # x
      BY <1>1, <1>3, <1>8, <1>10, <3>1
    <3>4. At(q, a, i) \in Nodes /\ At(q, a, i + 1) \in Nodes
      BY <1>1, <3>1
    <3>. QED BY <1>5, <1>9, <3>1, <3>2, <3>3, <3>4
  <2>2. CASE i = k - 1
    <3>1. At(r, a, i) = u /\ At(r, a, i + 1) = v
      BY <1>1, <1>7, <2>2
    <3>2. u # x /\ v # x
      BY <1>3, <1>8
    <3>. QED BY <1>4, <1>5, <3>1, <3>2
  <2>3. CASE i >= k
    <3>1. /\ i + 1 \in 0..L /\ i + 1 \in 0..(L + 1) /\ i + 2 \in 0..(L + 1) /\ i + 2 \in 1..(L + 1)
          /\ i + 1 # k - 1 /\ i + 2 # k + 1 /\ i + 1 # k /\ i + 2 # k /\ (i + 1) + 1 = i + 2
      BY <1>1, <2>3
    <3>2. At(r, a, i) = At(q, a, i + 1) /\ At(r, a, i + 1) = At(q, a, i + 2)
      BY <1>1, <1>7, <2>3
    <3>3. At(q, a, i + 1) # u /\ At(q, a, i + 2) # v /\ At(q, a, i + 1) # x /\ At(q, a, i + 2) # x
      BY <1>1, <1>3, <1>8, <1>10, <3>1
    <3>4. At(q, a, i + 1) \in Nodes /\ At(q, a, i + 2) \in Nodes
      BY <1>1, <3>1
    <3>. QED BY <1>5, <1>9, <3>1, <3>2, <3>3, <3>4
  <2>. QED BY <1>1, <2>1, <2>2, <2>3
<1>b. \A i \in 1..L : q[i] # a
  BY DEF Ring
<1>c. \A i, j \in 1..L : q[i] = q[j] => i = j
  BY DEF Ring
<1>d. \A i \in 1..(L - 1) : \/ i < k /\ i \in 1..L /\ r[i] = q[i]
                            \/ i >= k /\ i + 1 \in 1..L /\ r[i] = q[i + 1]
  BY <1>1, <1>6
<1>12. /\ \A i \in 1..(L - 1) : r[i] # a /\ r[i] # x
       /\ \A i, j \in 1..(L - 1) : r[i] = r[j] => i = j
  <2>1. \A i \in 1..(L - 1) : r[i] # a /\ r[i] # x
    BY <1>b, <1>c, <1>d
  <2>2. ASSUME NEW i \in 1..(L - 1), NEW j \in 1..(L - 1), r[i] = r[j] PROVE i = j
    <3>i. \/ i < k /\ i \in 1..L /\ r[i] = q[i]
          \/ i >= k /\ i + 1 \in 1..L /\ r[i] = q[i + 1]
      BY <1>d
    <3>j. \/ j < k /\ j \in 1..L /\ r[j] = q[j]
          \/ j >= k /\ j + 1 \in 1..L /\ r[j] = q[j + 1]
      BY <1>d
    <3>. QED BY <1>1, <1>c, <2>2, <3>i, <3>j
  <2>. QED BY <2>1, <2>2
<1>13. Ring(g, a, r)
  BY <1>2, <1>6, <1>11, <1>12 DEF Ring
<1>14. On(a, r) = On(a, q) \ {x}
  <2>1. \A i \in 1..(L - 1) : \E j \in 1..L : r[i] = q[j]
    BY <1>d
  <2>2. ASSUME NEW j \in 1..L, q[j] # x PROVE \E i \in 1..(L - 1) : r[i] = q[j]
    <3>1. CASE j < k
      <4>1. j \in 1..(L - 1)
        BY <1>1, <3>1
      <4>. QED BY <1>6, <3>1, <4>1
    <3>2. CASE j > k
      <4>1. j - 1 \in 1..(L - 1) /\ ~ (j - 1 < k) /\ (j - 1) + 1 = j
        BY <1>1, <3>2
      <4>2. r[j - 1] = q[j]
        BY <1>6, <4>1
      <4>. QED BY <4>1, <4>2
    <3>. QED BY <1>1, <2>2, <3>1, <3>2
  <2>3. a # x
    BY <1>b
  <2>4. \A n \in On(a, r) : n \in On(a, q) /\ n # x
    BY <1>6, <1>12, <2>1, <2>3 DEF On
  <2>5. \A n \in On(a, q) : n # x => n \in On(a, r)
    BY <1>6, <2>2 DEF On
  <2>. QED BY <2>4, <2>5
<1>15. \A n \in Nodes \ On(a, q) : g.next[n] = h.next[n] /\ g.prev[n] = h.prev[n]
  <2>1. u \in On(a, q) /\ x \in On(a, q)
    BY <1>1, <1>3
  <2>2. v \in On(a, q)
    <3>1. v = At(q, a, 0) \/ k + 1 \in 0..L
      BY <1>1
    <3>2. 0 \in 0..L
      BY <1>1
    <3>. QED BY <1>1, <3>1, <3>2
  <2>. QED BY <1>5, <2>1, <2>2
<1>16. Ring(g, x, <<>>)
  BY <1>2, <1>5, EmptyRing
<1>17. x \in On(a, q)
  BY DEF On
<1>. QED BY <1>5, <1>13, <1>14, <1>15, <1>16, <1>17 DEF r
-----------------------------------------------------------------------------
(***************************************************************************)
(* The functions of listx.h on the whole heap: what they leave of lists Q. *)
(***************************************************************************)
Put(Q, a, k, x) == [b \in DOMAIN Q \ {x} |-> IF b = a THEN InsertAt(Q[a], k, x) ELSE Q[b]]

Take(Q, a, k) == [b \in DOMAIN Q \cup {Q[a][k]} |->
    IF b = a THEN RemoveAt(Q[a], k) ELSE IF b = Q[a][k] THEN <<>> ELSE Q[b]]

Fresh(Q, x) == [b \in DOMAIN Q \cup {x} |-> IF b = x THEN <<>> ELSE Q[b]]

(* Who is alone is linked into a list.                                     *)
LEMMA PutWellFormed ==
    ASSUME NEW h, NEW Q, WellFormed(h, Q), NEW a \in DOMAIN Q, NEW x \in DOMAIN Q,
           a # x, Q[x] = <<>>, NEW k \in 1..(Len(Q[a]) + 1), NEW g,
           g = __list_add(h, x, At(Q[a], a, k - 1), At(Q[a], a, k))
    PROVE  /\ WellFormed(g, Put(Q, a, k, x))
           /\ \A n \in Nodes : h.next[n] # NULL => g.next[n] # NULL
<1>. DEFINE R == Put(Q, a, k, x)
            q == Q[a]
            r == InsertAt(q, k, x)
<1>1. /\ h \in HeapType
      /\ \A b \in DOMAIN Q : Ring(h, b, Q[b])
      /\ \A b, c \in DOMAIN Q : b # c => On(b, Q[b]) \cap On(c, Q[c]) = {}
      /\ \A n \in Nodes : h.next[n] # NULL => \E b \in DOMAIN Q : n \in On(b, Q[b])
  BY DEF WellFormed
<1>2. x \in Nodes /\ On(x, Q[x]) = {x} /\ x \notin On(a, q)
  <2>1. x \in Nodes
    BY <1>1 DEF Ring
  <2>2. On(x, Q[x]) = {x}
    BY <2>1, EmptyRing
  <2>. QED BY <1>1, <2>1, <2>2
<1>3. /\ Ring(g, a, r) /\ On(a, r) = On(a, q) \cup {x} /\ g \in HeapType
      /\ \A n \in Nodes \ (On(a, q) \cup {x}) : g.next[n] = h.next[n] /\ g.prev[n] = h.prev[n]
      /\ \A n \in On(a, q) \cup {x} : g.next[n] # NULL
  <2>1. Ring(h, a, q)
    BY <1>1
  <2>. HIDE DEF r, q
  <2>2. g = __list_add(h, x, At(q, a, k - 1), At(q, a, k)) /\ k \in 1..(Len(q) + 1)
    BY DEF q
  <2>. QED BY <1>1, <1>2, <2>1, <2>2, RingInsert DEF r
<1>4. /\ DOMAIN R = DOMAIN Q \ {x} /\ R[a] = r
      /\ \A b \in DOMAIN R : b # a => R[b] = Q[b]
  BY DEF Put
<1>. HIDE DEF R, r
<1>5. ASSUME NEW b \in DOMAIN R, b # a
      PROVE  Ring(g, b, R[b]) /\ On(b, R[b]) \cap On(a, R[a]) = {}
  <2>1. Ring(h, b, Q[b]) /\ b \in DOMAIN Q /\ b # x
    BY <1>1, <1>4
  <2>2. On(b, Q[b]) \cap On(a, q) = {} /\ x \notin On(b, Q[b])
    BY <1>1, <1>2, <1>5, <2>1
  <2>3. \A n \in On(b, Q[b]) : n \in Nodes
    BY <2>1, RingNext
  <2>4. \A n \in On(b, Q[b]) : g.next[n] = h.next[n] /\ g.prev[n] = h.prev[n]
    BY <1>3, <2>2, <2>3
  <2>5. Ring(g, b, Q[b])
    BY <2>1, <2>4, RingFrame
  <2>. QED BY <1>3, <1>4, <1>5, <2>2, <2>5
<1>6. \A b \in DOMAIN R : Ring(g, b, R[b])
  BY <1>3, <1>4, <1>5
<1>7. \A b, c \in DOMAIN R : b # c => On(b, R[b]) \cap On(c, R[c]) = {}
  <2>. SUFFICES ASSUME NEW b \in DOMAIN R, NEW c \in DOMAIN R, b # c
                PROVE  On(b, R[b]) \cap On(c, R[c]) = {}
    OBVIOUS
  <2>1. CASE b = a
    BY <1>5, <2>1
  <2>2. CASE c = a
    BY <1>5, <2>2
  <2>3. CASE b # a /\ c # a
    BY <1>1, <1>4, <2>3
  <2>. QED BY <2>1, <2>2, <2>3
<1>8. ASSUME NEW n \in Nodes, g.next[n] # NULL PROVE \E b \in DOMAIN R : n \in On(b, R[b])
  <2>1. CASE n \in On(a, q) \cup {x}
    BY <1>3, <1>4, <2>1
  <2>2. CASE n \notin On(a, q) \cup {x}
    <3>1. PICK b \in DOMAIN Q : n \in On(b, Q[b])
      BY <1>1, <1>3, <1>8, <2>2
    <3>2. b # a /\ b # x
      BY <1>2, <2>2, <3>1
    <3>. QED BY <1>4, <3>1, <3>2
  <2>. QED BY <2>1, <2>2
<1>9. WellFormed(g, R)
  BY <1>3, <1>6, <1>7, <1>8 DEF WellFormed
<1>10. \A n \in Nodes : h.next[n] # NULL => g.next[n] # NULL
  BY <1>3
<1>. QED BY <1>9, <1>10 DEF R

(* A member of a list is unlinked and alone.                               *)
LEMMA TakeWellFormed ==
    ASSUME NEW h, NEW Q, WellFormed(h, Q), NEW a \in DOMAIN Q, NEW k \in 1..Len(Q[a]),
           NEW g, g = list_del(h, Q[a][k])
    PROVE  /\ WellFormed(g, Take(Q, a, k)) /\ Q[a][k] \notin DOMAIN Q
           /\ \A n \in Nodes : h.next[n] # NULL => g.next[n] # NULL
<1>. DEFINE R == Take(Q, a, k)
            q == Q[a]
            x == q[k]
            r == RemoveAt(q, k)
<1>1. /\ h \in HeapType
      /\ \A b \in DOMAIN Q : Ring(h, b, Q[b])
      /\ \A b, c \in DOMAIN Q : b # c => On(b, Q[b]) \cap On(c, Q[c]) = {}
      /\ \A n \in Nodes : h.next[n] # NULL => \E b \in DOMAIN Q : n \in On(b, Q[b])
  BY DEF WellFormed
<1>2. x # a /\ x \in On(a, q) /\ x \in Nodes
  BY <1>1 DEF Ring, On
<1>3. /\ Ring(g, a, r) /\ Ring(g, x, <<>>) /\ On(a, r) = On(a, q) \ {x} /\ g \in HeapType
      /\ \A n \in Nodes \ On(a, q) : g.next[n] = h.next[n] /\ g.prev[n] = h.prev[n]
  <2>1. Ring(h, a, q)
    BY <1>1
  <2>2. g = list_del(h, x) /\ k \in 1..Len(q)
    OBVIOUS
  <2>. HIDE DEF r, q
  <2>. QED BY <1>1, <2>1, <2>2, RingRemove DEF r
<1>4. x \notin DOMAIN Q
  <2>1. \A b \in DOMAIN Q : b \in On(b, Q[b])
    BY DEF On
  <2>. QED BY <1>1, <1>2, <2>1
<1>5. /\ DOMAIN R = DOMAIN Q \cup {x} /\ R[a] = r /\ R[x] = <<>>
      /\ \A b \in DOMAIN Q : b # a => R[b] = Q[b]
  BY <1>2, <1>4 DEF Take
<1>o. On(x, <<>>) = {x}
  BY <1>2, EmptyRing
<1>. HIDE DEF R, r, x, q
<1>6. ASSUME NEW b \in DOMAIN Q, b # a
      PROVE  /\ Ring(g, b, R[b]) /\ On(b, R[b]) \cap On(a, R[a]) = {}
             /\ On(b, R[b]) \cap On(x, R[x]) = {}
  <2>1. Ring(h, b, Q[b]) /\ On(b, Q[b]) \cap On(a, q) = {}
    BY <1>1, <1>6 DEF q
  <2>3. \A n \in On(b, Q[b]) : n \in Nodes
    BY <2>1, RingNext
  <2>4. \A n \in On(b, Q[b]) : g.next[n] = h.next[n] /\ g.prev[n] = h.prev[n]
    BY <1>3, <2>1, <2>3
  <2>5. Ring(g, b, Q[b])
    BY <2>1, <2>4, RingFrame
  <2>. QED BY <1>2, <1>3, <1>5, <1>6, <1>o, <2>1, <2>5
<1>7. \A b \in DOMAIN R : Ring(g, b, R[b])
  BY <1>3, <1>5, <1>6
<1>8. \A b, c \in DOMAIN R : b # c => On(b, R[b]) \cap On(c, R[c]) = {}
  <2>. SUFFICES ASSUME NEW b \in DOMAIN R, NEW c \in DOMAIN R, b # c
                PROVE  On(b, R[b]) \cap On(c, R[c]) = {}
    OBVIOUS
  <2>1. On(a, R[a]) \cap On(x, R[x]) = {}
    BY <1>3, <1>5, <1>o
  <2>2. CASE b \notin {a, x} /\ c \notin {a, x}
    BY <1>1, <1>5, <2>2
  <2>3. CASE b \in {a, x} /\ c \in {a, x}
    BY <2>1, <2>3
  <2>4. CASE b \in {a, x} /\ c \notin {a, x}
    BY <1>5, <1>6, <2>4
  <2>5. CASE b \notin {a, x} /\ c \in {a, x}
    BY <1>5, <1>6, <2>5
  <2>. QED BY <2>2, <2>3, <2>4, <2>5
<1>9. ASSUME NEW n \in Nodes, g.next[n] # NULL PROVE \E b \in DOMAIN R : n \in On(b, R[b])
  <2>1. CASE n \in On(a, q)
    BY <1>3, <1>5, <1>o, <2>1
  <2>2. CASE n \notin On(a, q)
    <3>1. PICK b \in DOMAIN Q : n \in On(b, Q[b])
      BY <1>1, <1>3, <1>9, <2>2
    <3>2. b # a
      BY <2>2, <3>1 DEF q
    <3>. QED BY <1>5, <3>1, <3>2
  <2>. QED BY <2>1, <2>2
<1>10. WellFormed(g, R)
  BY <1>3, <1>7, <1>8, <1>9 DEF WellFormed
<1>11. \A n \in Nodes : h.next[n] # NULL => g.next[n] # NULL
  <2>1. \A n \in On(a, q) : g.next[n] # NULL
    <3>1. \A n \in On(a, r) : g.next[n] # NULL
      BY <1>3, RingNext
    <3>2. \A n \in On(x, <<>>) : g.next[n] # NULL
      BY <1>3, RingNext
    <3>. QED BY <1>3, <1>o, <3>1, <3>2
  <2>. QED BY <1>3, <2>1
<1>. QED BY <1>4, <1>10, <1>11 DEF R, x, q

(* INIT_LIST_HEAD of what is alone, or was never on a list.                *)
LEMMA FreshWellFormed ==
    ASSUME NEW h, NEW Q, WellFormed(h, Q), NEW x \in Nodes,
           \/ x \in DOMAIN Q /\ Q[x] = <<>>
           \/ h.next[x] = NULL,
           NEW g, g = INIT_LIST_HEAD(h, x)
    PROVE  /\ WellFormed(g, Fresh(Q, x))
           /\ \A n \in Nodes : h.next[n] # NULL => g.next[n] # NULL
<1>. DEFINE R == Fresh(Q, x)
<1>1. /\ h \in HeapType
      /\ \A b \in DOMAIN Q : Ring(h, b, Q[b])
      /\ \A b, c \in DOMAIN Q : b # c => On(b, Q[b]) \cap On(c, Q[c]) = {}
      /\ \A n \in Nodes : h.next[n] # NULL => \E b \in DOMAIN Q : n \in On(b, Q[b])
  BY DEF WellFormed
<1>2. /\ g \in HeapType
      /\ \A n \in Nodes : g.next[n] = IF n = x THEN x ELSE h.next[n]
      /\ \A n \in Nodes : g.prev[n] = IF n = x THEN x ELSE h.prev[n]
  BY <1>1, InitListAt DEF Alone
<1>3. /\ DOMAIN R = DOMAIN Q \cup {x} /\ R[x] = <<>>
      /\ \A b \in DOMAIN Q : b # x => R[b] = Q[b]
  BY DEF Fresh
<1>. HIDE DEF R
<1>4. Ring(g, x, <<>>) /\ On(x, <<>>) = {x}
  BY <1>2, EmptyRing
<1>5. \A b \in DOMAIN Q : b # x => x \notin On(b, Q[b])
  <2>1. CASE x \in DOMAIN Q /\ Q[x] = <<>>
    BY <1>1, <1>4, <2>1
  <2>2. CASE h.next[x] = NULL
    BY <1>1, <2>2, RingNext
  <2>. QED BY <2>1, <2>2
<1>6. ASSUME NEW b \in DOMAIN R, b # x PROVE Ring(g, b, R[b])
  <2>1. b \in DOMAIN Q /\ R[b] = Q[b] /\ Ring(h, b, Q[b])
    BY <1>1, <1>3, <1>6
  <2>2. \A n \in On(b, Q[b]) : n \in Nodes
    BY <2>1, RingNext
  <2>3. \A n \in On(b, Q[b]) : g.next[n] = h.next[n] /\ g.prev[n] = h.prev[n]
    BY <1>2, <1>5, <1>6, <2>1, <2>2
  <2>. QED BY <2>1, <2>3, RingFrame
<1>7. \A b, c \in DOMAIN R : b # c => On(b, R[b]) \cap On(c, R[c]) = {}
  <2>. SUFFICES ASSUME NEW b \in DOMAIN R, NEW c \in DOMAIN R, b # c
                PROVE  On(b, R[b]) \cap On(c, R[c]) = {}
    OBVIOUS
  <2>1. CASE b # x /\ c # x
    BY <1>1, <1>3, <2>1
  <2>2. CASE b = x
    BY <1>3, <1>4, <1>5, <2>2
  <2>3. CASE c = x
    BY <1>3, <1>4, <1>5, <2>3
  <2>. QED BY <2>1, <2>2, <2>3
<1>8. ASSUME NEW n \in Nodes, g.next[n] # NULL PROVE \E b \in DOMAIN R : n \in On(b, R[b])
  <2>1. CASE n = x
    BY <1>3, <1>4, <2>1
  <2>2. CASE n # x
    <3>1. PICK b \in DOMAIN Q : n \in On(b, Q[b])
      BY <1>1, <1>2, <1>8, <2>2
    <3>2. CASE b = x
      <4>1. Q[x] = <<>> \/ h.next[x] = NULL
        OBVIOUS
      <4>2. Ring(h, x, Q[x]) /\ x \in On(x, Q[x])
        BY <1>1, <3>1, <3>2 DEF On
      <4>3. h.next[x] # NULL
        BY <4>2, RingNext
      <4>. QED BY <1>4, <2>2, <3>1, <3>2, <4>1, <4>3
    <3>3. CASE b # x
      BY <1>3, <3>1, <3>3
    <3>. QED BY <3>2, <3>3
  <2>. QED BY <2>1, <2>2
<1>9. NULL # x
  BY TablesAssumption
<1>. QED BY <1>2, <1>3, <1>4, <1>6, <1>7, <1>8, <1>9 DEF WellFormed, R

(* Where the pointers of a list lead.                                      *)
LEMMA Neighbours ==
    ASSUME NEW h, NEW Q, WellFormed(h, Q), NEW a \in DOMAIN Q
    PROVE  /\ list_empty(h, a) <=> Q[a] = <<>>
           /\ Len(Q[a]) \in Nat
           /\ Q[a] # <<>> => h.next[a] = Q[a][1] /\ 1 \in 1..Len(Q[a])
           /\ \A k \in 1..(Len(Q[a]) + 1) :
                /\ h.next[At(Q[a], a, k - 1)] = At(Q[a], a, k)
                /\ h.prev[At(Q[a], a, k)] = At(Q[a], a, k - 1)
           /\ \A x : /\ list_add(h, x, a) = __list_add(h, x, At(Q[a], a, 1 - 1), At(Q[a], a, 1))
                     /\ list_add_tail(h, x, a) =
                          __list_add(h, x, At(Q[a], a, (Len(Q[a]) + 1) - 1), At(Q[a], a, Len(Q[a]) + 1))
           /\ list_for_each(h, a) = Q[a]
<1>. DEFINE q == Q[a]
            L == Len(q)
<1>1. Ring(h, a, q)
  BY DEF WellFormed
<1>. HIDE DEF q
<1>2. /\ L \in Nat /\ At(q, a, 0) = a /\ At(q, a, L + 1) = a
      /\ \A i \in 1..L : At(q, a, i) = q[i]
  BY <1>1, RingAt
<1>3. \A i \in 0..L : h.next[At(q, a, i)] = At(q, a, i + 1) /\ h.prev[At(q, a, i + 1)] = At(q, a, i)
  BY <1>1 DEF Ring
<1>4. ASSUME NEW k \in 1..(L + 1)
      PROVE  h.next[At(q, a, k - 1)] = At(q, a, k) /\ h.prev[At(q, a, k)] = At(q, a, k - 1)
  <2>1. k - 1 \in 0..L /\ (k - 1) + 1 = k
    BY <1>2
  <2>. QED BY <1>3, <2>1
<1>5. h.next[a] = At(q, a, 1) /\ h.prev[a] = At(q, a, L)
  <2>1. 0 \in 0..L /\ 0 + 1 = 1 /\ L \in 0..L
    BY <1>2
  <2>. QED BY <1>2, <1>3, <2>1
<1>6. q \in Seq(Nodes) /\ \A i \in 1..L : q[i] # a
  BY <1>1 DEF Ring
<1>7. q # <<>> => 1 \in 1..L
  BY <1>6
<1>8. list_empty(h, a) <=> q = <<>>
  <2>1. CASE q = <<>>
    <3>1. L + 1 = 1
      BY <2>1
    <3>. QED BY <1>2, <1>5, <2>1, <3>1 DEF list_empty
  <2>2. CASE q # <<>>
    BY <1>2, <1>5, <1>6, <1>7, <2>2 DEF list_empty
  <2>. QED BY <2>1, <2>2
<1>9. 1 - 1 = 0 /\ (L + 1) - 1 = L
  BY <1>2
<1>10. \A x : /\ list_add(h, x, a) = __list_add(h, x, At(q, a, 1 - 1), At(q, a, 1))
              /\ list_add_tail(h, x, a) = __list_add(h, x, At(q, a, (L + 1) - 1), At(q, a, L + 1))
  BY <1>2, <1>5, <1>9 DEF list_add, list_add_tail
<1>11. list_for_each(h, a) = q
  BY <1>1, ForEach
<1>. QED BY <1>2, <1>4, <1>5, <1>7, <1>8, <1>10, <1>11 DEF q
-----------------------------------------------------------------------------
(***************************************************************************)
(* What pcb.c and asl.c do with these lists.                               *)
(***************************************************************************)
ProcQs == {procq(d) : d \in Descs}
PcbHeads == {pcbFree_h, readyQueue} \cup ProcQs

LEMMA Kinds ==
    /\ Pcbs \cap Descs = {} /\ (Pcbs \cup Descs) \cap (Heads \cup ProcQs) = {}
    /\ Heads \cap ProcQs = {} /\ NULL \notin Nodes
    /\ Nodes = Pcbs \cup Descs \cup Heads \cup ProcQs
    /\ pcbFree_h # readyQueue /\ pcbFree_h # semd_h /\ pcbFree_h # semdFree_h
    /\ readyQueue # semd_h /\ readyQueue # semdFree_h /\ semd_h # semdFree_h
    /\ \A d, e \in Descs : procq(d) = procq(e) => d = e
    /\ PcbHeads \cap {semd_h, semdFree_h} = {} /\ Heads \subseteq PcbHeads \cup {semd_h, semdFree_h}
<1>1. /\ pcbFree_h # readyQueue /\ pcbFree_h # semd_h /\ pcbFree_h # semdFree_h
      /\ readyQueue # semd_h /\ readyQueue # semdFree_h /\ semd_h # semdFree_h
  BY DEF pcbFree_h, readyQueue, semd_h, semdFree_h
<1>2. \A d, e \in Descs : procq(d) = procq(e) => d = e
  BY DEF procq
<1>3. \A d \in Descs : procq(d) \notin Heads
  BY DEF procq, Heads, pcbFree_h, readyQueue, semd_h, semdFree_h
<1>4. Heads \cap ProcQs = {}
  BY <1>3 DEF ProcQs
<1>5. /\ Pcbs \cap Descs = {} /\ (Pcbs \cup Descs) \cap (Heads \cup ProcQs) = {}
      /\ NULL \notin Nodes
  BY TablesAssumption DEF ProcQs
<1>6. Nodes = Pcbs \cup Descs \cup Heads \cup ProcQs
  BY DEF Nodes, ProcQs
<1>. QED BY <1>1, <1>2, <1>4, <1>5, <1>6 DEF PcbHeads, Heads

LEMMA ShapeFacts ==
    ASSUME NEW h, NEW hl, NEW Q, Shape(h, hl, Q)
    PROVE  /\ WellFormed(h, Q) /\ Heads \subseteq DOMAIN Q /\ DOMAIN Q \subseteq Heads \cup hl \cup ProcQs
           /\ hl \subseteq Pcbs /\ hl \subseteq DOMAIN Q
           /\ \A a \in DOMAIN Q \cap PcbHeads : Q[a] \in Seq(Pcbs)
           /\ \A a \in {semd_h, semdFree_h} : a \in DOMAIN Q /\ Q[a] \in Seq(Descs)
<1>1. WellFormed(h, Q) /\ Heads \subseteq DOMAIN Q /\ hl = DOMAIN Q \cap Pcbs
  BY DEF Shape
<1>2. DOMAIN Q \subseteq Nodes
  BY DEF Shape, WellFormed, Ring
<1>3. DOMAIN Q \subseteq Heads \cup hl \cup ProcQs
  BY <1>1, <1>2, Kinds DEF Shape
<1>4. \A a \in DOMAIN Q \cap PcbHeads : Q[a] \in Seq(Pcbs)
  BY DEF Shape, PcbHeads, ProcQs
<1>5. \A a \in {semd_h, semdFree_h} : a \in DOMAIN Q /\ Q[a] \in Seq(Descs)
  BY DEF Shape, Heads
<1>. QED BY <1>1, <1>3, <1>4, <1>5

(* A PCB in hand goes on a list of PCBs.                                   *)
Puts(h, hl, Q, a, k, x, g) ==
    /\ Shape(h, hl, Q) /\ a \in DOMAIN Q \cap PcbHeads /\ x \in hl /\ k \in 1..(Len(Q[a]) + 1)
    /\ g = __list_add(h, x, At(Q[a], a, k - 1), At(Q[a], a, k))

PutDone(hl, Q, a, k, x, g, R) ==
    /\ Shape(g, hl \ {x}, R) /\ x \in Pcbs
    /\ DOMAIN R = DOMAIN Q \ {x} /\ R[a] = InsertAt(Q[a], k, x)
    /\ \A b \in DOMAIN R : b # a => R[b] = Q[b]

LEMMA PutPcb ==
    ASSUME NEW h, NEW hl, NEW Q, NEW a, NEW x, NEW k, NEW g, Puts(h, hl, Q, a, k, x, g)
    PROVE  \E R : PutDone(hl, Q, a, k, x, g, R)
<1>. SUFFICES
       ASSUME Shape(h, hl, Q), a \in DOMAIN Q \cap PcbHeads,
              x \in hl, k \in 1..(Len(Q[a]) + 1),
              g = __list_add(h, x, At(Q[a], a, k - 1), At(Q[a], a, k)),
              NEW R, R = Put(Q, a, k, x)
       PROVE  PutDone(hl, Q, a, k, x, g, R)
  BY DEF Puts
<1>1. /\ WellFormed(h, Q) /\ Heads \subseteq DOMAIN Q /\ DOMAIN Q \subseteq Heads \cup hl \cup ProcQs
      /\ hl \subseteq Pcbs /\ hl \subseteq DOMAIN Q
      /\ \A b \in DOMAIN Q \cap PcbHeads : Q[b] \in Seq(Pcbs)
      /\ \A b \in {semd_h, semdFree_h} : b \in DOMAIN Q /\ Q[b] \in Seq(Descs)
  BY ShapeFacts
<1>2. a # x /\ Q[x] = <<>> /\ x \in Pcbs
  BY <1>1, Kinds DEF Shape, PcbHeads, Heads
<1>3. WellFormed(g, R) /\ \A n \in Nodes : h.next[n] # NULL => g.next[n] # NULL
  BY <1>1, <1>2, PutWellFormed
<1>4. /\ DOMAIN R = DOMAIN Q \ {x} /\ R[a] = InsertAt(Q[a], k, x)
      /\ \A b \in DOMAIN R : b # a => R[b] = Q[b]
  BY <1>2 DEF Put
<1>5. R[a] \in Seq(Pcbs)
  <2>1. Q[a] \in Seq(Pcbs)
    BY <1>1
  <2>. QED BY <1>2, <1>4, <2>1, InsertAtElements
<1>6. \A b \in DOMAIN R \cap PcbHeads : R[b] \in Seq(Pcbs)
  BY <1>1, <1>4, <1>5
<1>7. \A b \in {semd_h, semdFree_h} : b \in DOMAIN R /\ R[b] \in Seq(Descs)
  <2>1. \A b \in {semd_h, semdFree_h} : b # a /\ b # x
    BY <1>2, Kinds DEF Heads
  <2>. QED BY <1>1, <1>4, <2>1
<1>8. Heads \subseteq DOMAIN R /\ DOMAIN R \cap Descs = {} /\ DOMAIN R \cap Pcbs = hl \ {x}
  BY <1>1, <1>2, <1>4, Kinds DEF Shape
<1>9. \A p \in hl \ {x} : R[p] = <<>>
  <2>1. \A p \in hl : p # a
    BY <1>1, Kinds DEF PcbHeads, Heads
  <2>. QED BY <1>1, <1>4, <2>1 DEF Shape
<1>10. \A n \in Pcbs \cup Descs : g.next[n] # NULL
  BY <1>3, Kinds DEF Shape
<1>11. Shape(g, hl \ {x}, R)
  <2>1. /\ R[pcbFree_h] \in Seq(Pcbs) /\ R[readyQueue] \in Seq(Pcbs)
        /\ \A d \in Descs : procq(d) \in DOMAIN R => R[procq(d)] \in Seq(Pcbs)
    BY <1>6, <1>8 DEF PcbHeads, ProcQs, Heads
  <2>. QED BY <1>3, <1>7, <1>8, <1>9, <1>10, <2>1 DEF Shape
<1>. QED BY <1>2, <1>4, <1>11 DEF PutDone

(* A PCB is taken from a list into the hand.                               *)
Takes(h, hl, Q, a, k, x, g) ==
    /\ Shape(h, hl, Q) /\ a \in DOMAIN Q \cap PcbHeads /\ k \in 1..Len(Q[a]) /\ x = Q[a][k]
    /\ g = list_del(h, x)

TakeDone(hl, Q, a, k, x, g, R) ==
    /\ Shape(g, hl \cup {x}, R)
    /\ DOMAIN R = DOMAIN Q \cup {x} /\ R[a] = RemoveAt(Q[a], k)
    /\ R[x] = <<>> /\ x \in Pcbs /\ x \notin DOMAIN Q
    /\ \A b \in DOMAIN Q : b # a => R[b] = Q[b]

LEMMA TakePcb ==
    ASSUME NEW h, NEW hl, NEW Q, NEW a, NEW x, NEW k, NEW g, Takes(h, hl, Q, a, k, x, g)
    PROVE  \E R : TakeDone(hl, Q, a, k, x, g, R)
<1>. SUFFICES
       ASSUME Shape(h, hl, Q), a \in DOMAIN Q \cap PcbHeads, k \in 1..Len(Q[a]), x = Q[a][k],
              g = list_del(h, x), NEW R, R = Take(Q, a, k)
       PROVE  TakeDone(hl, Q, a, k, x, g, R)
  BY DEF Takes
<1>1. /\ WellFormed(h, Q) /\ Heads \subseteq DOMAIN Q /\ DOMAIN Q \subseteq Heads \cup hl \cup ProcQs
      /\ hl \subseteq Pcbs /\ hl \subseteq DOMAIN Q
      /\ \A b \in DOMAIN Q \cap PcbHeads : Q[b] \in Seq(Pcbs)
      /\ \A b \in {semd_h, semdFree_h} : b \in DOMAIN Q /\ Q[b] \in Seq(Descs)
  BY ShapeFacts
<1>2. x \in Pcbs /\ a # x
  <2>1. Q[a] \in Seq(Pcbs)
    BY <1>1
  <2>2. x \in Pcbs
    BY <2>1
  <2>. QED BY <2>2, Kinds DEF PcbHeads, Heads
<1>3. /\ WellFormed(g, R) /\ x \notin DOMAIN Q
      /\ \A n \in Nodes : h.next[n] # NULL => g.next[n] # NULL
  BY <1>1, TakeWellFormed
<1>4. /\ DOMAIN R = DOMAIN Q \cup {x} /\ R[a] = RemoveAt(Q[a], k) /\ R[x] = <<>>
      /\ \A b \in DOMAIN Q : b # a => R[b] = Q[b]
  BY <1>2, <1>3 DEF Take
<1>5. R[a] \in Seq(Pcbs)
  <2>1. Q[a] \in Seq(Pcbs)
    BY <1>1
  <2>. QED BY <1>4, <2>1, RemoveAtElements
<1>6. \A b \in DOMAIN R \cap PcbHeads : R[b] \in Seq(Pcbs)
  <2>1. x \notin PcbHeads
    BY <1>2, Kinds DEF PcbHeads, Heads
  <2>. QED BY <1>1, <1>4, <1>5, <2>1
<1>7. \A b \in {semd_h, semdFree_h} : b \in DOMAIN R /\ R[b] \in Seq(Descs)
  BY <1>1, <1>4, Kinds
<1>8. Heads \subseteq DOMAIN R /\ DOMAIN R \cap Descs = {} /\ DOMAIN R \cap Pcbs = hl \cup {x}
  BY <1>1, <1>2, <1>4, Kinds DEF Shape
<1>9. \A p \in hl \cup {x} : R[p] = <<>>
  <2>1. \A p \in hl : p # a
    BY <1>1, Kinds DEF PcbHeads, Heads
  <2>. QED BY <1>1, <1>4, <2>1 DEF Shape
<1>10. \A n \in Pcbs \cup Descs : g.next[n] # NULL
  BY <1>3, Kinds DEF Shape
<1>11. Shape(g, hl \cup {x}, R)
  <2>1. /\ R[pcbFree_h] \in Seq(Pcbs) /\ R[readyQueue] \in Seq(Pcbs)
        /\ \A d \in Descs : procq(d) \in DOMAIN R => R[procq(d)] \in Seq(Pcbs)
    BY <1>6, <1>8 DEF PcbHeads, ProcQs, Heads
  <2>. QED BY <1>3, <1>7, <1>8, <1>9, <1>10, <2>1 DEF Shape
<1>. QED BY <1>2, <1>3, <1>4, <1>11 DEF TakeDone

(* retire(): a descriptor leaves the ASL and is the first free one.        *)
Retires(h, hl, Q, k, d, g) ==
    /\ Shape(h, hl, Q) /\ k \in 1..Len(Q[semd_h]) /\ d = Q[semd_h][k]
    /\ g = list_add(list_del(h, d), d, semdFree_h)

RetireDone(hl, Q, k, d, g, R) ==
    /\ Shape(g, hl, R) /\ DOMAIN R = DOMAIN Q
    /\ R[semd_h] = RemoveAt(Q[semd_h], k)
    /\ R[semdFree_h] = InsertAt(Q[semdFree_h], 1, d)
    /\ \A b \in DOMAIN Q \ {semd_h, semdFree_h} : R[b] = Q[b]

LEMMA RetireDesc ==
    ASSUME NEW h, NEW hl, NEW Q, NEW k, NEW d, NEW g, Retires(h, hl, Q, k, d, g)
    PROVE  \E R : RetireDone(hl, Q, k, d, g, R)
<1>. SUFFICES
       ASSUME Shape(h, hl, Q), k \in 1..Len(Q[semd_h]), d = Q[semd_h][k],
              g = list_add(list_del(h, d), d, semdFree_h)
       PROVE  \E R : /\ Shape(g, hl, R) /\ DOMAIN R = DOMAIN Q
                     /\ R[semd_h] = RemoveAt(Q[semd_h], k)
                     /\ R[semdFree_h] = InsertAt(Q[semdFree_h], 1, d)
                     /\ \A b \in DOMAIN Q \ {semd_h, semdFree_h} : R[b] = Q[b]
  BY DEF Retires, RetireDone
<1>1. /\ WellFormed(h, Q) /\ Heads \subseteq DOMAIN Q /\ DOMAIN Q \subseteq Heads \cup hl \cup ProcQs
      /\ hl \subseteq Pcbs /\ hl \subseteq DOMAIN Q
      /\ \A b \in DOMAIN Q \cap PcbHeads : Q[b] \in Seq(Pcbs)
      /\ \A b \in {semd_h, semdFree_h} : b \in DOMAIN Q /\ Q[b] \in Seq(Descs)
  BY ShapeFacts
<1>2. d \in Descs /\ semd_h \in DOMAIN Q /\ Q[semd_h] \in Seq(Descs) /\ Q[semdFree_h] \in Seq(Descs)
  <2>1. Q[semd_h] \in Seq(Descs)
    BY <1>1
  <2>2. d \in Descs
    BY <2>1
  <2>. QED BY <1>1, <2>2
<1>. DEFINE f == list_del(h, d)
            P == Take(Q, semd_h, k)
            R == Put(P, semdFree_h, 1, d)
<1>3. /\ WellFormed(f, P) /\ d \notin DOMAIN Q
      /\ \A n \in Nodes : h.next[n] # NULL => f.next[n] # NULL
  BY <1>1, <1>2, TakeWellFormed
<1>4. /\ DOMAIN P = DOMAIN Q \cup {d} /\ P[semd_h] = RemoveAt(Q[semd_h], k) /\ P[d] = <<>>
      /\ \A b \in DOMAIN Q : b # semd_h => P[b] = Q[b]
  BY <1>2, <1>3 DEF Take
<1>. HIDE DEF P, f
<1>5. P[semdFree_h] = Q[semdFree_h] /\ semdFree_h \in DOMAIN P /\ d # semdFree_h /\ d # semd_h
  BY <1>1, <1>2, <1>3, <1>4, Kinds
<1>6. g = __list_add(f, d, At(P[semdFree_h], semdFree_h, 1 - 1), At(P[semdFree_h], semdFree_h, 1))
  <2>1. g = list_add(f, d, semdFree_h)
    BY DEF f
  <2>. QED BY <1>3, <1>5, <2>1, Neighbours
<1>7. 1 \in 1..(Len(P[semdFree_h]) + 1)
  <2>1. Len(P[semdFree_h]) \in Nat
    BY <1>2, <1>5
  <2>. QED BY <2>1
<1>8. WellFormed(g, R) /\ \A n \in Nodes : f.next[n] # NULL => g.next[n] # NULL
  <2>1. d \in DOMAIN P
    BY <1>4
  <2>. QED BY <1>3, <1>4, <1>5, <1>6, <1>7, <2>1, PutWellFormed
<1>9. /\ DOMAIN R = DOMAIN Q /\ R[semdFree_h] = InsertAt(Q[semdFree_h], 1, d)
      /\ R[semd_h] = RemoveAt(Q[semd_h], k)
      /\ \A b \in DOMAIN Q \ {semd_h, semdFree_h} : R[b] = Q[b]
  <2>1. /\ DOMAIN R = DOMAIN P \ {d} /\ R[semdFree_h] = InsertAt(P[semdFree_h], 1, d)
        /\ \A b \in DOMAIN R : b # semdFree_h => R[b] = P[b]
    BY <1>5 DEF Put
  <2>. HIDE DEF R
  <2>2. DOMAIN R = DOMAIN Q
    BY <1>3, <1>4, <2>1
  <2>3. \A b \in DOMAIN Q : b # semdFree_h /\ b # semd_h => R[b] = Q[b]
    BY <1>4, <2>1, <2>2
  <2>4. R[semd_h] = RemoveAt(Q[semd_h], k)
    BY <1>2, <1>4, <2>1, <2>2, Kinds
  <2>. QED BY <1>5, <2>1, <2>2, <2>3, <2>4
<1>. HIDE DEF R
<1>10. R[semd_h] \in Seq(Descs) /\ R[semdFree_h] \in Seq(Descs)
  <2>1. R[semd_h] \in Seq(Descs)
    BY <1>2, <1>9, RemoveAtElements
  <2>2. 1 \in 1..(Len(Q[semdFree_h]) + 1)
    BY <1>5, <1>7
  <2>3. R[semdFree_h] \in Seq(Descs)
    BY <1>2, <1>9, <2>2, InsertAtElements
  <2>. QED BY <2>1, <2>3
<1>11. \A b \in DOMAIN Q \cap PcbHeads : R[b] \in Seq(Pcbs)
  BY <1>1, <1>9, Kinds
<1>12. \A p \in hl : R[p] = <<>>
  <2>1. \A p \in hl : p \notin {semd_h, semdFree_h}
    BY <1>1, Kinds DEF Heads
  <2>. QED BY <1>1, <1>9, <2>1 DEF Shape
<1>13. \A n \in Pcbs \cup Descs : g.next[n] # NULL
  BY <1>3, <1>8, Kinds DEF Shape
<1>14. Shape(g, hl, R)
  <2>1. /\ R[pcbFree_h] \in Seq(Pcbs) /\ R[readyQueue] \in Seq(Pcbs)
        /\ \A e \in Descs : procq(e) \in DOMAIN R => R[procq(e)] \in Seq(Pcbs)
    BY <1>1, <1>9, <1>11 DEF PcbHeads, ProcQs, Heads
  <2>2. Heads \subseteq DOMAIN R /\ DOMAIN R \cap Descs = {} /\ DOMAIN R \cap Pcbs = hl
    BY <1>9 DEF Shape
  <2>. QED BY <1>8, <1>10, <1>12, <1>13, <2>1, <2>2 DEF Shape
<1>. QED BY <1>9, <1>14

(* insertBlocked: the first free descriptor gets an empty queue and is the *)
(* last one of the ASL.                                                    *)
Employs(h, hl, Q, d, g) ==
    /\ Shape(h, hl, Q) /\ Q[semdFree_h] # <<>> /\ d = Q[semdFree_h][1]
    /\ procq(d) \in DOMAIN Q => Q[procq(d)] = <<>>
    /\ g = list_add_tail(INIT_LIST_HEAD(list_del(h, d), procq(d)), d, semd_h)

EmployDone(hl, Q, d, g, R) ==
    /\ Shape(g, hl, R) /\ DOMAIN R = DOMAIN Q \cup {procq(d)}
    /\ R[semdFree_h] = RemoveAt(Q[semdFree_h], 1)
    /\ R[semd_h] = InsertAt(Q[semd_h], Len(Q[semd_h]) + 1, d)
    /\ R[procq(d)] = <<>>
    /\ \A b \in DOMAIN Q \ {semd_h, semdFree_h} : R[b] = Q[b]

LEMMA NewDesc ==
    ASSUME NEW h, NEW hl, NEW Q, NEW d, NEW g, Employs(h, hl, Q, d, g)
    PROVE  \E R : EmployDone(hl, Q, d, g, R)
<1>. SUFFICES
       ASSUME Shape(h, hl, Q), Q[semdFree_h] # <<>>, d = Q[semdFree_h][1],
              procq(d) \in DOMAIN Q => Q[procq(d)] = <<>>,
              g = list_add_tail(INIT_LIST_HEAD(list_del(h, d), procq(d)), d, semd_h)
       PROVE  \E R : /\ Shape(g, hl, R) /\ DOMAIN R = DOMAIN Q \cup {procq(d)}
                     /\ R[semdFree_h] = RemoveAt(Q[semdFree_h], 1)
                     /\ R[semd_h] = InsertAt(Q[semd_h], Len(Q[semd_h]) + 1, d)
                     /\ R[procq(d)] = <<>>
                     /\ \A b \in DOMAIN Q \ {semd_h, semdFree_h} : R[b] = Q[b]
  BY DEF Employs, EmployDone
<1>1. /\ WellFormed(h, Q) /\ Heads \subseteq DOMAIN Q /\ DOMAIN Q \subseteq Heads \cup hl \cup ProcQs
      /\ hl \subseteq Pcbs /\ hl \subseteq DOMAIN Q
      /\ \A b \in DOMAIN Q \cap PcbHeads : Q[b] \in Seq(Pcbs)
      /\ \A b \in {semd_h, semdFree_h} : b \in DOMAIN Q /\ Q[b] \in Seq(Descs)
  BY ShapeFacts
<1>2. /\ d \in Descs /\ semd_h \in DOMAIN Q /\ semdFree_h \in DOMAIN Q
      /\ Q[semd_h] \in Seq(Descs) /\ Q[semdFree_h] \in Seq(Descs)
      /\ 1 \in 1..Len(Q[semdFree_h])
  <2>1. Q[semdFree_h] \in Seq(Descs)
    BY <1>1
  <2>2. 1 \in 1..Len(Q[semdFree_h])
    BY <2>1
  <2>3. d \in Descs
    BY <2>1, <2>2
  <2>. QED BY <1>1, <2>2, <2>3
<1>. DEFINE f == list_del(h, d)
            P == Take(Q, semdFree_h, 1)
            f2 == INIT_LIST_HEAD(f, procq(d))
            P2 == Fresh(P, procq(d))
            k == Len(Q[semd_h]) + 1
            R == Put(P2, semd_h, k, d)
<1>3. /\ WellFormed(f, P) /\ d \notin DOMAIN Q
      /\ \A n \in Nodes : h.next[n] # NULL => f.next[n] # NULL
  BY <1>1, <1>2, TakeWellFormed
<1>4. /\ DOMAIN P = DOMAIN Q \cup {d} /\ P[semdFree_h] = RemoveAt(Q[semdFree_h], 1) /\ P[d] = <<>>
      /\ \A b \in DOMAIN Q : b # semdFree_h => P[b] = Q[b]
  BY <1>2, <1>3 DEF Take
<1>k. /\ procq(d) \in ProcQs /\ procq(d) \in Nodes /\ procq(d) \notin Heads /\ procq(d) # d
      /\ d \notin Heads /\ semd_h \in Heads /\ semdFree_h \in Heads
  BY <1>2, Kinds DEF ProcQs, Heads
<1>. HIDE DEF P, f, f2
<1>5. (procq(d) \in DOMAIN P /\ P[procq(d)] = <<>>) \/ f.next[procq(d)] = NULL
  <2>1. CASE procq(d) \in DOMAIN Q
    BY <1>4, <1>k, <2>1
  <2>2. CASE procq(d) \notin DOMAIN Q
    <3>1. \A b \in DOMAIN P : procq(d) \notin On(b, P[b])
      <4>. TAKE b \in DOMAIN P
      <4>1. b # procq(d)
        BY <1>4, <1>k, <2>2
      <4>2. P[b] \in Seq(Pcbs) \/ P[b] \in Seq(Descs) \/ P[b] = <<>>
        <5>1. CASE b = d
          BY <1>4, <5>1
        <5>2. CASE b = semdFree_h
          BY <1>2, <1>4, <5>2, RemoveAtElements
        <5>3. CASE b \in DOMAIN Q /\ b # semdFree_h
          <6>1. b \in PcbHeads \/ b \in {semd_h, semdFree_h} \/ b \in hl
            BY <1>1, <5>3, Kinds DEF PcbHeads
          <6>2. Q[b] \in Seq(Pcbs) \/ Q[b] \in Seq(Descs) \/ Q[b] = <<>>
            BY <1>1, <5>3, <6>1 DEF Shape
          <6>. QED BY <1>4, <5>3, <6>2
        <5>. QED BY <1>4, <5>1, <5>2, <5>3
      <4>3. \A i \in 1..Len(P[b]) : P[b][i] \in Pcbs \cup Descs
        <5>1. CASE P[b] \in Seq(Pcbs)
          BY <5>1
        <5>2. CASE P[b] \in Seq(Descs)
          BY <5>2
        <5>3. CASE P[b] = <<>>
          BY <5>3
        <5>. QED BY <4>2, <5>1, <5>2, <5>3
      <4>4. procq(d) \notin Pcbs \cup Descs
        BY <1>k, Kinds
      <4>. QED BY <4>1, <4>3, <4>4 DEF On
    <3>. QED BY <1>3, <1>k, <3>1 DEF WellFormed
  <2>. QED BY <2>1, <2>2
<1>6. WellFormed(f2, P2) /\ \A n \in Nodes : f.next[n] # NULL => f2.next[n] # NULL
  BY <1>3, <1>5, <1>k, FreshWellFormed DEF f2
<1>7. /\ DOMAIN P2 = DOMAIN P \cup {procq(d)} /\ P2[procq(d)] = <<>>
      /\ \A b \in DOMAIN P : b # procq(d) => P2[b] = P[b]
  BY DEF Fresh
<1>. HIDE DEF P2
<1>8. /\ semd_h \in DOMAIN P2 /\ P2[semd_h] = Q[semd_h] /\ d \in DOMAIN P2 /\ P2[d] = <<>>
      /\ semd_h # d
  BY <1>2, <1>4, <1>7, <1>k, Kinds
<1>9. k \in 1..(Len(P2[semd_h]) + 1)
  <2>1. Len(Q[semd_h]) \in Nat
    BY <1>2
  <2>. QED BY <1>8, <2>1
<1>10. g = __list_add(f2, d, At(P2[semd_h], semd_h, k - 1), At(P2[semd_h], semd_h, k))
  <2>1. g = list_add_tail(f2, d, semd_h)
    BY DEF f, f2
  <2>. QED BY <1>6, <1>8, <2>1, Neighbours
<1>. HIDE DEF k
<1>11. WellFormed(g, R) /\ \A n \in Nodes : f2.next[n] # NULL => g.next[n] # NULL
  BY <1>6, <1>8, <1>9, <1>10, PutWellFormed
<1>12. /\ DOMAIN R = DOMAIN P2 \ {d} /\ R[semd_h] = InsertAt(P2[semd_h], k, d)
       /\ \A b \in DOMAIN R : b # semd_h => R[b] = P2[b]
  BY <1>8 DEF Put
<1>. HIDE DEF R
<1>13. /\ DOMAIN R = DOMAIN Q \cup {procq(d)}
       /\ R[semdFree_h] = RemoveAt(Q[semdFree_h], 1)
       /\ R[semd_h] = InsertAt(Q[semd_h], k, d)
       /\ R[procq(d)] = <<>>
       /\ \A b \in DOMAIN Q \ {semd_h, semdFree_h} : R[b] = Q[b]
  <2>1. DOMAIN R = DOMAIN Q \cup {procq(d)}
    BY <1>3, <1>4, <1>7, <1>12, <1>k
  <2>2. R[semdFree_h] = RemoveAt(Q[semdFree_h], 1) /\ R[procq(d)] = <<>>
    BY <1>2, <1>4, <1>7, <1>12, <1>k, <2>1, Kinds
  <2>3. ASSUME NEW b \in DOMAIN Q \ {semd_h, semdFree_h} PROVE R[b] = Q[b]
    <3>1. b \in DOMAIN R /\ R[b] = P2[b]
      BY <1>12, <2>1
    <3>2. CASE b = procq(d)
      BY <1>7, <3>1, <3>2
    <3>3. CASE b # procq(d)
      BY <1>4, <1>7, <3>1, <3>3
    <3>. QED BY <3>2, <3>3
  <2>. QED BY <1>8, <1>12, <2>1, <2>2, <2>3
<1>14. R[semd_h] \in Seq(Descs) /\ R[semdFree_h] \in Seq(Descs)
  <2>1. R[semdFree_h] \in Seq(Descs)
    BY <1>2, <1>13, RemoveAtElements
  <2>2. k \in 1..(Len(Q[semd_h]) + 1)
    BY <1>8, <1>9
  <2>3. R[semd_h] \in Seq(Descs)
    BY <1>2, <1>13, <2>2, InsertAtElements
  <2>. QED BY <2>1, <2>3
<1>15. \A b \in DOMAIN R \cap PcbHeads : R[b] \in Seq(Pcbs)
  <2>1. <<>> \in Seq(Pcbs)
    OBVIOUS
  <2>. QED BY <1>1, <1>13, <2>1, Kinds
<1>16. \A p \in hl : R[p] = <<>>
  <2>1. \A p \in hl : p \notin {semd_h, semdFree_h}
    BY <1>1, Kinds DEF Heads
  <2>. QED BY <1>1, <1>13, <2>1 DEF Shape
<1>17. \A n \in Pcbs \cup Descs : g.next[n] # NULL
  <2>1. \A n \in Pcbs \cup Descs : n \in Nodes /\ h.next[n] # NULL
    BY Kinds DEF Shape
  <2>. QED BY <1>3, <1>6, <1>11, <2>1
<1>18. Shape(g, hl, R)
  <2>1. /\ R[pcbFree_h] \in Seq(Pcbs) /\ R[readyQueue] \in Seq(Pcbs)
        /\ \A e \in Descs : procq(e) \in DOMAIN R => R[procq(e)] \in Seq(Pcbs)
    BY <1>1, <1>13, <1>15 DEF PcbHeads, ProcQs, Heads
  <2>2. Heads \subseteq DOMAIN R /\ DOMAIN R \cap Descs = {} /\ DOMAIN R \cap Pcbs = hl
    BY <1>13, <1>k, Kinds DEF Shape
  <2>. QED BY <1>11, <1>14, <1>16, <1>17, <2>1, <2>2 DEF Shape
<1>. QED BY <1>13, <1>18 DEF k
-----------------------------------------------------------------------------
(***************************************************************************)
(* The descriptors: A are the active ones, F the free ones.                *)
(***************************************************************************)
LEMMA DescFacts ==
    ASSUME NEW h, NEW hl, NEW Q, Shape(h, hl, Q), NEW A, A = Q[semd_h], NEW F, F = Q[semdFree_h]
    PROVE  /\ A \in Seq(Descs) /\ F \in Seq(Descs)
           /\ \A i \in 1..Len(A), j \in 1..Len(A) : A[i] = A[j] => i = j
           /\ \A i \in 1..Len(F), j \in 1..Len(F) : F[i] = F[j] => i = j
           /\ \A i \in 1..Len(A), j \in 1..Len(F) : A[i] # F[j]
           /\ \A d \in Descs : \/ \E i \in 1..Len(A) : A[i] = d
                               \/ \E i \in 1..Len(F) : F[i] = d
<1>1. /\ WellFormed(h, Q) /\ Heads \subseteq DOMAIN Q /\ DOMAIN Q \subseteq Heads \cup hl \cup ProcQs
      /\ hl \subseteq Pcbs /\ hl \subseteq DOMAIN Q
      /\ \A b \in DOMAIN Q \cap PcbHeads : Q[b] \in Seq(Pcbs)
      /\ \A b \in {semd_h, semdFree_h} : b \in DOMAIN Q /\ Q[b] \in Seq(Descs)
  BY ShapeFacts
<1>2. A \in Seq(Descs) /\ F \in Seq(Descs) /\ semd_h \in DOMAIN Q /\ semdFree_h \in DOMAIN Q
  BY <1>1
<1>3. Ring(h, semd_h, A) /\ Ring(h, semdFree_h, F)
  BY <1>1, <1>2 DEF WellFormed
<1>4. /\ \A i \in 1..Len(A), j \in 1..Len(A) : A[i] = A[j] => i = j
      /\ \A i \in 1..Len(F), j \in 1..Len(F) : F[i] = F[j] => i = j
  BY <1>3 DEF Ring
<1>5. \A i \in 1..Len(A), j \in 1..Len(F) : A[i] # F[j]
  <2>1. On(semd_h, A) \cap On(semdFree_h, F) = {}
    BY <1>1, <1>2, Kinds DEF WellFormed
  <2>. QED BY <2>1 DEF On
<1>6. ASSUME NEW d \in Descs
      PROVE  (\E i \in 1..Len(A) : A[i] = d) \/ (\E i \in 1..Len(F) : F[i] = d)
  <2>1. PICK a \in DOMAIN Q : d \in On(a, Q[a])
    BY <1>1, Kinds DEF WellFormed, Shape
  <2>2. a # d
    BY DEF Shape
  <2>3. PICK i \in 1..Len(Q[a]) : d = Q[a][i]
    BY <2>1, <2>2 DEF On
  <2>4. a \notin hl
    <3>1. \A p \in hl : Q[p] = <<>> /\ Len(<<>>) = 0
      BY DEF Shape
    <3>2. Len(Q[a]) # 0
      BY <2>3
    <3>. QED BY <3>1, <3>2
  <2>5. a \notin PcbHeads
    <3>1. CASE a \in PcbHeads
      <4>1. Q[a] \in Seq(Pcbs)
        BY <1>1, <3>1
      <4>2. d \in Pcbs
        BY <2>3, <4>1
      <4>. QED BY <4>2, Kinds
    <3>. QED BY <3>1
  <2>6. a \in {semd_h, semdFree_h}
    BY <1>1, <2>4, <2>5, Kinds DEF PcbHeads
  <2>. QED BY <2>3, <2>6
<1>. QED BY <1>2, <1>4, <1>5, <1>6

(* What waits on a semaphore, read off the lists.                          *)
Waiting(key, Q, s) ==
    IF \E i \in 1..Len(Q[semd_h]) : key[Q[semd_h][i]] = s
    THEN Q[procq(Q[semd_h][CHOOSE i \in 1..Len(Q[semd_h]) : key[Q[semd_h][i]] = s])]
    ELSE <<>>

LEMMA WaitingAt ==
    ASSUME NEW key, NEW Q, Keyed(key, Q)
    PROVE  /\ \A i \in 1..Len(Q[semd_h]) :
                Waiting(key, Q, key[Q[semd_h][i]]) = Q[procq(Q[semd_h][i])]
           /\ \A s : (\A i \in 1..Len(Q[semd_h]) : key[Q[semd_h][i]] # s) => Waiting(key, Q, s) = <<>>
<1>. DEFINE A == Q[semd_h]
            c(s) == CHOOSE i \in 1..Len(A) : key[A[i]] = s
<1>1. \A i, j \in 1..Len(A) : key[A[i]] = key[A[j]] => i = j
  BY DEF Keyed
<1>2. ASSUME NEW i \in 1..Len(A)
      PROVE  Waiting(key, Q, key[A[i]]) = Q[procq(A[i])]
  <2>1. c(key[A[i]]) \in 1..Len(A) /\ key[A[c(key[A[i]])]] = key[A[i]]
    OBVIOUS
  <2>2. c(key[A[i]]) = i
    <3>. HIDE DEF c
    <3>. QED BY <1>1, <2>1
  <2>3. Waiting(key, Q, key[A[i]]) = Q[procq(A[c(key[A[i]])])]
    BY DEF Waiting
  <2>. HIDE DEF c
  <2>. QED BY <2>2, <2>3
<1>3. \A s : (\A i \in 1..Len(A) : key[A[i]] # s) => Waiting(key, Q, s) = <<>>
  BY DEF Waiting
<1>. QED BY <1>2, <1>3

(* Steps that leave descriptors and their queues alone.                    *)
LEMMA KeyedSame ==
    ASSUME NEW key, NEW Q, NEW R, Keyed(key, Q),
           R[semd_h] = Q[semd_h], R[semdFree_h] = Q[semdFree_h], Q[semd_h] \in Seq(Descs),
           Q[semdFree_h] \in Seq(Descs),
           \A d \in Descs : /\ procq(d) \in DOMAIN R <=> procq(d) \in DOMAIN Q
                            /\ procq(d) \in DOMAIN Q => R[procq(d)] = Q[procq(d)]
    PROVE  Keyed(key, R) /\ \A s : Waiting(key, R, s) = Waiting(key, Q, s)
<1>. DEFINE A == Q[semd_h]
            F == Q[semdFree_h]
<1>0. (\A i \in 1..Len(A) : A[i] \in Descs) /\ (\A i \in 1..Len(F) : F[i] \in Descs)
  OBVIOUS
<1>1. /\ \A i \in 1..Len(A) : /\ key[A[i]] \in Sems /\ procq(A[i]) \in DOMAIN Q
                              /\ Q[procq(A[i])] # <<>>
      /\ \A i, j \in 1..Len(A) : key[A[i]] = key[A[j]] => i = j
      /\ \A i \in 1..Len(F) : procq(F[i]) \in DOMAIN Q => Q[procq(F[i])] = <<>>
  BY DEF Keyed
<1>. HIDE DEF A, F
<1>2. Keyed(key, R)
  <2>1. R[semd_h] = A /\ R[semdFree_h] = F
    BY DEF A, F
  <2>2. \A i \in 1..Len(A) : /\ key[A[i]] \in Sems /\ procq(A[i]) \in DOMAIN R
                             /\ R[procq(A[i])] # <<>>
    BY <1>0, <1>1
  <2>3. \A i \in 1..Len(F) : procq(F[i]) \in DOMAIN R => R[procq(F[i])] = <<>>
    BY <1>0, <1>1
  <2>. QED BY <1>1, <2>1, <2>2, <2>3 DEF Keyed
<1>3. ASSUME NEW s PROVE Waiting(key, R, s) = Waiting(key, Q, s)
  <2>1. CASE \E i \in 1..Len(A) : key[A[i]] = s
    <3>1. PICK i \in 1..Len(A) : key[A[i]] = s
      BY <2>1
    <3>2. Waiting(key, Q, s) = Q[procq(A[i])] /\ Waiting(key, R, s) = R[procq(A[i])]
      BY <1>2, <3>1, WaitingAt DEF A
    <3>. QED BY <1>0, <1>1, <3>2
  <2>2. CASE \A i \in 1..Len(A) : key[A[i]] # s
    BY <1>2, <2>2, WaitingAt DEF A
  <2>. QED BY <2>1, <2>2
<1>. QED BY <1>2, <1>3

(* One queue, that of the key s, changes.                                  *)
Rekeyed(key, Q, new, R, s, q) ==
    /\ Keyed(new, R) /\ s \in Sems /\ Waiting(new, R, s) = q
    /\ \A t : t # s => Waiting(new, R, t) = Waiting(key, Q, t)

(* The queue of one active descriptor changes and does not become empty.   *)
QueueChanges(key, Q, R, k, d) ==
    /\ Keyed(key, Q) /\ R[semd_h] = Q[semd_h] /\ R[semdFree_h] = Q[semdFree_h]
    /\ Q[semd_h] \in Seq(Descs) /\ Q[semdFree_h] \in Seq(Descs)
    /\ k \in 1..Len(Q[semd_h]) /\ d = Q[semd_h][k] /\ R[procq(d)] # <<>>
    /\ \A i \in 1..Len(Q[semdFree_h]) : Q[semdFree_h][i] # d
    /\ \A i \in 1..Len(Q[semd_h]) : Q[semd_h][i] = d => i = k
    /\ \A e \in Descs : /\ procq(e) \in DOMAIN R <=> procq(e) \in DOMAIN Q
                        /\ procq(e) \in DOMAIN Q /\ e # d => R[procq(e)] = Q[procq(e)]

LEMMA KeyedQueue ==
    ASSUME NEW key, NEW Q, NEW R, NEW k, NEW d, QueueChanges(key, Q, R, k, d)
    PROVE  Rekeyed(key, Q, key, R, key[d], R[procq(d)])
<1>. SUFFICES
       ASSUME Keyed(key, Q), R[semd_h] = Q[semd_h], R[semdFree_h] = Q[semdFree_h],
              Q[semd_h] \in Seq(Descs), Q[semdFree_h] \in Seq(Descs),
              k \in 1..Len(Q[semd_h]), d = Q[semd_h][k], R[procq(d)] # <<>>,
              \A i \in 1..Len(Q[semdFree_h]) : Q[semdFree_h][i] # d,
              \A i \in 1..Len(Q[semd_h]) : Q[semd_h][i] = d => i = k,
              \A e \in Descs : /\ procq(e) \in DOMAIN R <=> procq(e) \in DOMAIN Q
                               /\ procq(e) \in DOMAIN Q /\ e # d => R[procq(e)] = Q[procq(e)]
       PROVE  /\ Keyed(key, R) /\ Waiting(key, R, key[d]) = R[procq(d)]
              /\ Waiting(key, Q, key[d]) = Q[procq(d)] /\ key[d] \in Sems /\ d \in Descs
              /\ \A s : s # key[d] => Waiting(key, R, s) = Waiting(key, Q, s)
  BY DEF QueueChanges, Rekeyed
<1>. DEFINE A == Q[semd_h]
            F == Q[semdFree_h]
<1>0. (\A i \in 1..Len(A) : A[i] \in Descs) /\ (\A i \in 1..Len(F) : F[i] \in Descs)
  OBVIOUS
<1>1. /\ \A i \in 1..Len(A) : /\ key[A[i]] \in Sems /\ procq(A[i]) \in DOMAIN Q
                              /\ Q[procq(A[i])] # <<>>
      /\ \A i, j \in 1..Len(A) : key[A[i]] = key[A[j]] => i = j
      /\ \A i \in 1..Len(F) : procq(F[i]) \in DOMAIN Q => Q[procq(F[i])] = <<>>
  BY DEF Keyed
<1>a. /\ k \in 1..Len(A) /\ A[k] = d /\ (\A i \in 1..Len(F) : F[i] # d)
      /\ \A i \in 1..Len(A) : A[i] = d => i = k
  OBVIOUS
<1>. HIDE DEF A, F
<1>2. Keyed(key, R)
  <2>1. R[semd_h] = A /\ R[semdFree_h] = F
    BY DEF A, F
  <2>2. \A i \in 1..Len(A) : /\ key[A[i]] \in Sems /\ procq(A[i]) \in DOMAIN R
                             /\ R[procq(A[i])] # <<>>
    BY <1>0, <1>1, <1>a
  <2>3. \A i \in 1..Len(F) : procq(F[i]) \in DOMAIN R => R[procq(F[i])] = <<>>
    BY <1>0, <1>1, <1>a
  <2>. QED BY <1>1, <2>1, <2>2, <2>3 DEF Keyed
<1>3. ASSUME NEW s, s # key[d] PROVE Waiting(key, R, s) = Waiting(key, Q, s)
  <2>1. CASE \E i \in 1..Len(A) : key[A[i]] = s
    <3>1. PICK i \in 1..Len(A) : key[A[i]] = s
      BY <2>1
    <3>2. Waiting(key, Q, s) = Q[procq(A[i])] /\ Waiting(key, R, s) = R[procq(A[i])]
      BY <1>2, <3>1, WaitingAt DEF A
    <3>. QED BY <1>0, <1>1, <1>3, <3>1, <3>2
  <2>2. CASE \A i \in 1..Len(A) : key[A[i]] # s
    BY <1>2, <2>2, WaitingAt DEF A
  <2>. QED BY <2>1, <2>2
<1>4. Waiting(key, R, key[d]) = R[procq(d)] /\ Waiting(key, Q, key[d]) = Q[procq(d)]
  BY <1>2, WaitingAt
<1>. QED BY <1>0, <1>1, <1>2, <1>3, <1>4, <1>a

(* The last waiter of an active descriptor left: the descriptor is free.   *)
QueueCloses(h, hl, key, Q, R, k, d) ==
    /\ Shape(h, hl, Q) /\ key \in [Descs -> Sems \cup {NULL}] /\ Keyed(key, Q)
    /\ k \in 1..Len(Q[semd_h]) /\ d = Q[semd_h][k]
    /\ R[semd_h] = RemoveAt(Q[semd_h], k) /\ R[semdFree_h] = InsertAt(Q[semdFree_h], 1, d)
    /\ R[procq(d)] = <<>>
    /\ \A e \in Descs : /\ procq(e) \in DOMAIN R <=> procq(e) \in DOMAIN Q
                        /\ procq(e) \in DOMAIN Q /\ e # d => R[procq(e)] = Q[procq(e)]

LEMMA KeyedRetire ==
    ASSUME NEW h, NEW hl, NEW key, NEW Q, NEW R, NEW k, NEW d, QueueCloses(h, hl, key, Q, R, k, d)
    PROVE  Rekeyed(key, Q, [key EXCEPT ![d] = NULL], R, key[d], <<>>)
<1>. SUFFICES
       ASSUME Shape(h, hl, Q), key \in [Descs -> Sems \cup {NULL}], Keyed(key, Q),
              k \in 1..Len(Q[semd_h]), d = Q[semd_h][k],
              R[semd_h] = RemoveAt(Q[semd_h], k), R[semdFree_h] = InsertAt(Q[semdFree_h], 1, d),
              R[procq(d)] = <<>>,
              \A e \in Descs : /\ procq(e) \in DOMAIN R <=> procq(e) \in DOMAIN Q
                               /\ procq(e) \in DOMAIN Q /\ e # d => R[procq(e)] = Q[procq(e)],
              NEW new, new = [key EXCEPT ![d] = NULL]
       PROVE  /\ Keyed(new, R) /\ new \in [Descs -> Sems \cup {NULL}]
              /\ Waiting(new, R, key[d]) = <<>> /\ Waiting(key, Q, key[d]) = Q[procq(d)]
              /\ key[d] \in Sems /\ d \in Descs
              /\ \A s : s # key[d] => Waiting(new, R, s) = Waiting(key, Q, s)
  BY DEF QueueCloses, Rekeyed
<1>. DEFINE A == Q[semd_h]
            F == Q[semdFree_h]
            B == R[semd_h]
            G == R[semdFree_h]
<1>1. /\ A \in Seq(Descs) /\ F \in Seq(Descs)
      /\ \A i \in 1..Len(A), j \in 1..Len(A) : A[i] = A[j] => i = j
      /\ \A i \in 1..Len(A), j \in 1..Len(F) : A[i] # F[j]
  BY DescFacts
<1>2. /\ \A i \in 1..Len(A) : /\ key[A[i]] \in Sems /\ procq(A[i]) \in DOMAIN Q
                              /\ Q[procq(A[i])] # <<>>
      /\ \A i, j \in 1..Len(A) : key[A[i]] = key[A[j]] => i = j
      /\ \A i \in 1..Len(F) : procq(F[i]) \in DOMAIN Q => Q[procq(F[i])] = <<>>
  BY DEF Keyed
<1>3. k \in 1..Len(A) /\ d = A[k] /\ B = RemoveAt(A, k) /\ G = InsertAt(F, 1, d)
  OBVIOUS
<1>w. /\ \A i \in 1..Len(A) : Waiting(key, Q, key[A[i]]) = Q[procq(A[i])]
      /\ \A s : (\A i \in 1..Len(A) : key[A[i]] # s) => Waiting(key, Q, s) = <<>>
  BY WaitingAt
<1>. HIDE DEF A, F
<1>0. Len(A) \in Nat /\ Len(F) \in Nat /\ d \in Descs
  BY <1>1, <1>3
<1>4. /\ B \in Seq(Descs) /\ Len(B) = Len(A) - 1
      /\ \A i \in 1..(Len(A) - 1) : B[i] = IF i < k THEN A[i] ELSE A[i + 1]
  BY <1>1, <1>3, RemoveAtElements
<1>5. /\ G \in Seq(Descs) /\ Len(G) = Len(F) + 1
      /\ \A i \in 1..(Len(F) + 1) : G[i] = IF i < 1 THEN F[i] ELSE IF i = 1 THEN d ELSE F[i - 1]
  <2>1. 1 \in 1..(Len(F) + 1)
    BY <1>0
  <2>. QED BY <1>0, <1>1, <1>3, <2>1, InsertAtElements, SMTT(60)
<1>. HIDE DEF B, G
<1>6. \A i \in 1..Len(B) : \/ i < k /\ i \in 1..Len(A) /\ B[i] = A[i]
                           \/ i >= k /\ i + 1 \in 1..Len(A) /\ B[i] = A[i + 1]
  BY <1>0, <1>3, <1>4
<1>7. \A i \in 1..Len(B) : B[i] # d /\ \E j \in 1..Len(A) : B[i] = A[j]
  <2>. TAKE i \in 1..Len(B)
  <2>1. CASE i < k /\ i \in 1..Len(A) /\ B[i] = A[i]
    BY <1>1, <1>3, <2>1
  <2>2. CASE i >= k /\ i + 1 \in 1..Len(A) /\ B[i] = A[i + 1]
    <3>1. i + 1 # k
      BY <1>3, <2>2
    <3>. QED BY <1>1, <1>3, <2>2, <3>1
  <2>. QED BY <1>6, <2>1, <2>2
<1>8. \A i \in 1..Len(A) : A[i] # d => \E j \in 1..Len(B) : B[j] = A[i]
  <2>. TAKE i \in 1..Len(A)
  <2>1. CASE i < k
    <3>1. i \in 1..Len(B) /\ i \in 1..(Len(A) - 1)
      BY <1>0, <1>3, <1>4, <2>1
    <3>. QED BY <1>4, <2>1, <3>1
  <2>2. CASE i > k
    <3>1. /\ i - 1 \in 1..Len(B) /\ i - 1 \in 1..(Len(A) - 1) /\ ~ (i - 1 < k)
          /\ (i - 1) + 1 = i
      BY <1>0, <1>3, <1>4, <2>2
    <3>2. B[i - 1] = A[i]
      BY <1>4, <3>1
    <3>. QED BY <3>1, <3>2
  <2>. QED BY <1>3, <2>1, <2>2
<1>9. /\ new \in [Descs -> Sems \cup {NULL}] /\ new[d] = NULL
      /\ \A e \in Descs : e # d => new[e] = key[e]
  BY <1>0
<1>10. \A i, j \in 1..Len(B) : B[i] = B[j] => i = j
  <2>. SUFFICES ASSUME NEW i \in 1..Len(B), NEW j \in 1..Len(B), B[i] = B[j] PROVE i = j
    OBVIOUS
  <2>i. \/ i < k /\ i \in 1..Len(A) /\ B[i] = A[i]
        \/ i >= k /\ i + 1 \in 1..Len(A) /\ B[i] = A[i + 1]
    BY <1>6
  <2>j. \/ j < k /\ j \in 1..Len(A) /\ B[j] = A[j]
        \/ j >= k /\ j + 1 \in 1..Len(A) /\ B[j] = A[j + 1]
    BY <1>6
  <2>k. i \in Int /\ j \in Int /\ k \in Int
    BY <1>3
  <2>. QED BY <1>1, <2>i, <2>j, <2>k
<1>11. \A i, j \in 1..Len(A) : key[A[i]] = key[A[j]] => A[i] = A[j]
  BY <1>2
<1>12. Keyed(new, R)
  <2>1. \A i \in 1..Len(B) : B[i] \in Descs /\ new[B[i]] = key[B[i]]
    BY <1>4, <1>7, <1>9
  <2>2. \A i \in 1..Len(B) : new[B[i]] \in Sems /\ procq(B[i]) \in DOMAIN R /\ R[procq(B[i])] # <<>>
    BY <1>2, <1>7, <2>1
  <2>3. \A i, j \in 1..Len(B) : new[B[i]] = new[B[j]] => i = j
    BY <1>7, <1>10, <1>11, <2>1
  <2>4. \A i \in 1..Len(G) : procq(G[i]) \in DOMAIN R => R[procq(G[i])] = <<>>
    <3>. TAKE i \in 1..Len(G)
    <3>1. G[i] = d \/ \E j \in 1..Len(F) : G[i] = F[j]
      <4>1. CASE i = 1
        BY <1>0, <1>5, <4>1
      <4>2. CASE i # 1
        <5>1. i - 1 \in 1..Len(F) /\ i \in 1..(Len(F) + 1) /\ ~ (i < 1)
          BY <1>0, <1>5, <4>2
        <5>. QED BY <1>5, <4>2, <5>1
      <4>. QED BY <4>1, <4>2
    <3>2. \A j \in 1..Len(F) : F[j] \in Descs
      BY <1>1
    <3>. QED BY <1>2, <3>1, <3>2
  <2>5. R[semd_h] = B /\ R[semdFree_h] = G
    BY DEF B, G
  <2>. QED BY <2>2, <2>3, <2>4, <2>5 DEF Keyed
<1>x. /\ \A i \in 1..Len(B) : Waiting(new, R, new[B[i]]) = R[procq(B[i])]
      /\ \A s : (\A i \in 1..Len(B) : new[B[i]] # s) => Waiting(new, R, s) = <<>>
  <2>1. /\ \A i \in 1..Len(R[semd_h]) :
             Waiting(new, R, new[R[semd_h][i]]) = R[procq(R[semd_h][i])]
        /\ \A s : (\A i \in 1..Len(R[semd_h]) : new[R[semd_h][i]] # s)
                   => Waiting(new, R, s) = <<>>
    BY ONLY <1>12, WaitingAt
  <2>. QED BY <2>1, Zenon DEF B
<1>13. Waiting(key, Q, key[d]) = Q[procq(d)] /\ key[d] \in Sems
  BY <1>2, <1>3, <1>w
<1>14. \A i \in 1..Len(B) : B[i] \in Descs /\ B[i] # d /\ new[B[i]] = key[B[i]]
  BY <1>4, <1>7, <1>9
<1>15. Waiting(new, R, key[d]) = <<>>
  <2>1. \A i \in 1..Len(B) : new[B[i]] # key[d]
    BY <1>3, <1>7, <1>11, <1>14
  <2>. QED BY <1>x, <2>1
<1>16. ASSUME NEW s, s # key[d] PROVE Waiting(new, R, s) = Waiting(key, Q, s)
  <2>1. CASE \E i \in 1..Len(A) : key[A[i]] = s
    <3>1. PICK i \in 1..Len(A) : key[A[i]] = s
      BY <2>1
    <3>2. A[i] # d
      BY <1>16, <3>1
    <3>3. PICK j \in 1..Len(B) : B[j] = A[i]
      BY <1>8, <3>2
    <3>4. Waiting(key, Q, s) = Q[procq(A[i])] /\ Waiting(new, R, s) = R[procq(A[i])]
      BY <1>14, <1>w, <1>x, <3>1, <3>3
    <3>5. A[i] \in Descs /\ procq(A[i]) \in DOMAIN Q
      BY <1>1, <1>2
    <3>. QED BY <3>2, <3>4, <3>5
  <2>2. CASE \A i \in 1..Len(A) : key[A[i]] # s
    <3>1. \A i \in 1..Len(B) : new[B[i]] # s
      BY <1>7, <1>14, <2>2
    <3>. QED BY <1>w, <1>x, <2>2, <3>1
  <2>. QED BY <2>1, <2>2
<1>. QED BY <1>0, <1>9, <1>12, <1>13, <1>15, <1>16

(* A free descriptor gets a key that no active one has, and a waiter.      *)
QueueOpens(h, hl, key, Q, R, sem, d) ==
    /\ Shape(h, hl, Q) /\ key \in [Descs -> Sems \cup {NULL}] /\ Keyed(key, Q) /\ sem \in Sems
    /\ \A i \in 1..Len(Q[semd_h]) : key[Q[semd_h][i]] # sem
    /\ Q[semdFree_h] # <<>> /\ d = Q[semdFree_h][1]
    /\ R[semdFree_h] = RemoveAt(Q[semdFree_h], 1)
    /\ R[semd_h] = InsertAt(Q[semd_h], Len(Q[semd_h]) + 1, d)
    /\ procq(d) \in DOMAIN R /\ R[procq(d)] # <<>>
    /\ \A e \in Descs : e # d => /\ procq(e) \in DOMAIN R <=> procq(e) \in DOMAIN Q
                                 /\ procq(e) \in DOMAIN Q => R[procq(e)] = Q[procq(e)]

LEMMA KeyedNew ==
    ASSUME NEW h, NEW hl, NEW key, NEW Q, NEW R, NEW sem, NEW d, QueueOpens(h, hl, key, Q, R, sem, d)
    PROVE  Rekeyed(key, Q, [key EXCEPT ![d] = sem], R, sem, R[procq(d)])
<1>. SUFFICES
       ASSUME Shape(h, hl, Q), key \in [Descs -> Sems \cup {NULL}], Keyed(key, Q), sem \in Sems,
              \A i \in 1..Len(Q[semd_h]) : key[Q[semd_h][i]] # sem,
              Q[semdFree_h] # <<>>, d = Q[semdFree_h][1],
              R[semdFree_h] = RemoveAt(Q[semdFree_h], 1),
              R[semd_h] = InsertAt(Q[semd_h], Len(Q[semd_h]) + 1, d),
              procq(d) \in DOMAIN R, R[procq(d)] # <<>>,
              \A e \in Descs : e # d => /\ procq(e) \in DOMAIN R <=> procq(e) \in DOMAIN Q
                                        /\ procq(e) \in DOMAIN Q => R[procq(e)] = Q[procq(e)],
              NEW new, new = [key EXCEPT ![d] = sem]
       PROVE  /\ Keyed(new, R) /\ new \in [Descs -> Sems \cup {NULL}]
              /\ Waiting(new, R, sem) = R[procq(d)] /\ Waiting(key, Q, sem) = <<>>
              /\ \A s : s # sem => Waiting(new, R, s) = Waiting(key, Q, s)
  BY DEF QueueOpens, Rekeyed
<1>. DEFINE A == Q[semd_h]
            F == Q[semdFree_h]
            B == R[semd_h]
            G == R[semdFree_h]
<1>1. /\ A \in Seq(Descs) /\ F \in Seq(Descs)
      /\ \A i \in 1..Len(F), j \in 1..Len(F) : F[i] = F[j] => i = j
      /\ \A i \in 1..Len(A), j \in 1..Len(F) : A[i] # F[j]
  BY DescFacts
<1>2. /\ \A i \in 1..Len(A) : /\ key[A[i]] \in Sems /\ procq(A[i]) \in DOMAIN Q
                              /\ Q[procq(A[i])] # <<>>
      /\ \A i, j \in 1..Len(A) : key[A[i]] = key[A[j]] => i = j
      /\ \A i \in 1..Len(F) : procq(F[i]) \in DOMAIN Q => Q[procq(F[i])] = <<>>
  BY DEF Keyed
<1>3. /\ d = F[1] /\ G = RemoveAt(F, 1) /\ B = InsertAt(A, Len(A) + 1, d) /\ F # <<>>
      /\ \A i \in 1..Len(A) : key[A[i]] # sem
  OBVIOUS
<1>w. /\ \A i \in 1..Len(A) : Waiting(key, Q, key[A[i]]) = Q[procq(A[i])]
      /\ \A s : (\A i \in 1..Len(A) : key[A[i]] # s) => Waiting(key, Q, s) = <<>>
  BY WaitingAt
<1>. HIDE DEF A, F
<1>0. Len(A) \in Nat /\ Len(F) \in Nat /\ 1 \in 1..Len(F)
  BY <1>1, <1>3
<1>d. d \in Descs /\ \A i \in 1..Len(A) : A[i] \in Descs /\ A[i] # d
  BY <1>0, <1>1, <1>3
<1>4. /\ G \in Seq(Descs) /\ Len(G) = Len(F) - 1
      /\ \A i \in 1..(Len(F) - 1) : G[i] = IF i < 1 THEN F[i] ELSE F[i + 1]
  BY <1>0, <1>1, <1>3, RemoveAtElements, SMTT(60)
<1>5. /\ B \in Seq(Descs) /\ Len(B) = Len(A) + 1
      /\ \A i \in 1..(Len(A) + 1) :
           B[i] = IF i < Len(A) + 1 THEN A[i] ELSE IF i = Len(A) + 1 THEN d ELSE A[i - 1]
  <2>. DEFINE k == Len(A) + 1
  <2>1. k \in 1..(Len(A) + 1) /\ B = InsertAt(A, k, d)
    BY <1>0, <1>3
  <2>. HIDE DEF k
  <2>2. /\ B \in Seq(Descs) /\ Len(B) = Len(A) + 1
        /\ \A i \in 1..(Len(A) + 1) :
             B[i] = IF i < k THEN A[i] ELSE IF i = k THEN d ELSE A[i - 1]
    <3>1. A \in Seq(Descs) /\ d \in Descs
      BY <1>1, <1>d
    <3>2. k \in 1..(Len(A) + 1)
      BY <2>1
    <3>3. /\ InsertAt(A, k, d) \in Seq(Descs) /\ Len(InsertAt(A, k, d)) = Len(A) + 1
          /\ \A i \in 1..(Len(A) + 1) :
               InsertAt(A, k, d)[i] = IF i < k THEN A[i] ELSE IF i = k THEN d ELSE A[i - 1]
      BY ONLY <3>1, <3>2, InsertAtElements
    <3>. QED BY <2>1, <3>3
  <2>. QED BY <2>2 DEF k
<1>. HIDE DEF B, G
<1>6. \A i \in 1..Len(B) : \/ i \in 1..Len(A) /\ B[i] = A[i]
                           \/ i = Len(A) + 1 /\ B[i] = d
  BY <1>0, <1>5
<1>7. (\A i \in 1..Len(A) : i \in 1..Len(B) /\ B[i] = A[i]) /\ B[Len(A) + 1] = d
  BY <1>0, <1>5
<1>8. Len(A) + 1 \in 1..Len(B)
  BY <1>0, <1>5
<1>9. /\ new \in [Descs -> Sems \cup {NULL}] /\ new[d] = sem
      /\ \A e \in Descs : e # d => new[e] = key[e]
  BY <1>d
<1>10. \A i \in 1..Len(G) : \E j \in 1..Len(F) : G[i] = F[j] /\ F[j] # d
  <2>. TAKE i \in 1..Len(G)
  <2>1. i + 1 \in 1..Len(F) /\ i + 1 # 1 /\ i \in 1..(Len(F) - 1) /\ ~ (i < 1)
    BY <1>0, <1>4
  <2>2. G[i] = F[i + 1]
    BY <1>4, <2>1
  <2>3. F[i + 1] # d
    BY <1>0, <1>1, <1>3, <2>1
  <2>. QED BY <2>1, <2>2, <2>3
<1>12. Keyed(new, R)
  <2>1. \A i \in 1..Len(A) : new[A[i]] = key[A[i]]
    BY <1>d, <1>9
  <2>2. \A i \in 1..Len(A) : procq(A[i]) \in DOMAIN R /\ R[procq(A[i])] # <<>>
    BY <1>2, <1>d
  <2>3. \A i \in 1..Len(B) : new[B[i]] \in Sems /\ procq(B[i]) \in DOMAIN R /\ R[procq(B[i])] # <<>>
    BY <1>2, <1>6, <1>9, <2>1, <2>2
  <2>4. ASSUME NEW i \in 1..Len(B), NEW j \in 1..Len(B), new[B[i]] = new[B[j]] PROVE i = j
    <3>i. \/ i \in 1..Len(A) /\ B[i] = A[i] /\ new[B[i]] = key[A[i]]
          \/ i = Len(A) + 1 /\ new[B[i]] = sem
      BY <1>6, <1>9, <2>1
    <3>j. \/ j \in 1..Len(A) /\ B[j] = A[j] /\ new[B[j]] = key[A[j]]
          \/ j = Len(A) + 1 /\ new[B[j]] = sem
      BY <1>6, <1>9, <2>1
    <3>. QED BY <1>2, <1>3, <2>4, <3>i, <3>j
  <2>5. \A i \in 1..Len(G) : procq(G[i]) \in DOMAIN R => R[procq(G[i])] = <<>>
    <3>1. \A j \in 1..Len(F) : F[j] \in Descs
      BY <1>1
    <3>. QED BY <1>2, <1>10, <3>1
  <2>6. R[semd_h] = B /\ R[semdFree_h] = G
    BY DEF B, G
  <2>. QED BY <2>3, <2>4, <2>5, <2>6 DEF Keyed
<1>x. /\ \A i \in 1..Len(B) : Waiting(new, R, new[B[i]]) = R[procq(B[i])]
      /\ \A s : (\A i \in 1..Len(B) : new[B[i]] # s) => Waiting(new, R, s) = <<>>
  <2>1. /\ \A i \in 1..Len(R[semd_h]) :
             Waiting(new, R, new[R[semd_h][i]]) = R[procq(R[semd_h][i])]
        /\ \A s : (\A i \in 1..Len(R[semd_h]) : new[R[semd_h][i]] # s)
                   => Waiting(new, R, s) = <<>>
    BY ONLY <1>12, WaitingAt
  <2>. QED BY <2>1, Zenon DEF B
<1>13. Waiting(new, R, sem) = R[procq(d)]
  BY <1>7, <1>8, <1>9, <1>x, ZenonT(60)
<1>14. Waiting(key, Q, sem) = <<>>
  BY <1>3, <1>w
<1>15. ASSUME NEW s, s # sem PROVE Waiting(new, R, s) = Waiting(key, Q, s)
  <2>1. CASE \E i \in 1..Len(A) : key[A[i]] = s
    <3>1. PICK i \in 1..Len(A) : key[A[i]] = s
      BY <2>1
    <3>2. B[i] = A[i] /\ i \in 1..Len(B) /\ new[B[i]] = s
      BY <1>7, <1>9, <1>d, <3>1
    <3>3. Waiting(key, Q, s) = Q[procq(A[i])] /\ Waiting(new, R, s) = R[procq(A[i])]
      BY <1>w, <1>x, <3>1, <3>2
    <3>. QED BY <1>2, <1>d, <3>3
  <2>2. CASE \A i \in 1..Len(A) : key[A[i]] # s
    <3>1. \A i \in 1..Len(B) : new[B[i]] # s
      BY <1>6, <1>9, <1>15, <1>d, <2>2
    <3>. QED BY <1>w, <1>x, <2>2, <3>1
  <2>. QED BY <2>1, <2>2
<1>. QED BY <1>9, <1>12, <1>13, <1>14, <1>15
-----------------------------------------------------------------------------
(***************************************************************************)
(* The heap h with the PCBs hl in hand and the keys of the descriptors     *)
(* represents the free PCBs, the ready queue and the queues of semaphores. *)
(***************************************************************************)
Shows(key, Q, free, ready, sems) ==
    /\ free = Q[pcbFree_h] /\ ready = Q[readyQueue]
    /\ sems = [s \in Sems |-> Waiting(key, Q, s)]

Represents(h, hl, key, free, ready, sems) ==
    \E Q : Shape(h, hl, Q) /\ Keyed(key, Q) /\ Shows(key, Q, free, ready, sems)

(* The inductive invariant.                                                *)
ListsInv == TypeOK /\ \E free, ready, sems : Represents(heap, held, s_key, free, ready, sems)

LEMMA HeadInDomain ==
    ASSUME NEW h, NEW hl, NEW Q, Shape(h, hl, Q)
    PROVE  /\ WellFormed(h, Q)
           /\ pcbFree_h \in DOMAIN Q \cap PcbHeads /\ readyQueue \in DOMAIN Q \cap PcbHeads
           /\ semd_h \in DOMAIN Q /\ semdFree_h \in DOMAIN Q
           /\ Q[pcbFree_h] \in Seq(Pcbs) /\ Q[readyQueue] \in Seq(Pcbs)
           /\ Q[semd_h] \in Seq(Descs) /\ Q[semdFree_h] \in Seq(Descs)
           /\ hl \subseteq Pcbs
  BY ShapeFacts DEF PcbHeads, Heads, Shape

(* The searches of asl.c and what list_for_each visits, in terms of Q.     *)
LEMMA Searches ==
    ASSUME NEW Q, Shape(heap, held, Q), Keyed(s_key, Q)
    PROVE  /\ asl = Q[semd_h] /\ list_for_each(heap, semdFree_h) = Q[semdFree_h]
           /\ list_for_each(heap, pcbFree_h) = Q[pcbFree_h]
           /\ list_for_each(heap, readyQueue) = Q[readyQueue]
           /\ \A i \in 1..Len(Q[semd_h]) :
                /\ Q[semd_h][i] \in Descs /\ procq(Q[semd_h][i]) \in DOMAIN Q \cap PcbHeads
                /\ list_for_each(heap, procq(Q[semd_h][i])) = Q[procq(Q[semd_h][i])]
           /\ \A s : /\ matches(s) = {i \in 1..Len(Q[semd_h]) : s_key[Q[semd_h][i]] = s}
                     /\ matches(s) # {} => Min(matches(s)) \in matches(s)
<1>1. /\ WellFormed(heap, Q)
      /\ pcbFree_h \in DOMAIN Q /\ readyQueue \in DOMAIN Q
      /\ semd_h \in DOMAIN Q /\ semdFree_h \in DOMAIN Q
      /\ Q[semd_h] \in Seq(Descs)
  BY HeadInDomain
<1>2. \A a \in DOMAIN Q : list_for_each(heap, a) = Q[a]
  BY <1>1, Neighbours
<1>3. asl = Q[semd_h]
  BY <1>1, <1>2 DEF asl
<1>. DEFINE A == Q[semd_h]
<1>4. \A i \in 1..Len(A) : A[i] \in Descs
  BY <1>1
<1>5. \A i \in 1..Len(A) : procq(A[i]) \in DOMAIN Q
  BY DEF Keyed
<1>6. \A i \in 1..Len(A) : procq(A[i]) \in PcbHeads
  BY <1>4 DEF PcbHeads, ProcQs
<1>7. \A s : matches(s) = {i \in 1..Len(A) : s_key[A[i]] = s}
  BY <1>3 DEF matches
<1>8. ASSUME NEW s, matches(s) # {} PROVE Min(matches(s)) \in matches(s)
  <2>1. matches(s) \subseteq Nat
    BY <1>7
  <2>. QED BY <1>8, <2>1, MinOfNaturals
<1>. QED BY <1>1, <1>2, <1>3, <1>4, <1>5, <1>6, <1>7, <1>8

(* What a state shows is what list_for_each visits: one reading only.      *)
LEMMA Reads ==
    \A free, ready, sems : Represents(heap, held, s_key, free, ready, sems) =>
        /\ free = list_for_each(heap, pcbFree_h) /\ ready = list_for_each(heap, readyQueue)
        /\ sems = [s \in Sems |-> waiters(s)]
<1>. SUFFICES ASSUME NEW free, NEW ready, NEW sems, NEW Q, Shape(heap, held, Q), Keyed(s_key, Q),
                     Shows(s_key, Q, free, ready, sems)
              PROVE  /\ free = list_for_each(heap, pcbFree_h)
                     /\ ready = list_for_each(heap, readyQueue)
                     /\ sems = [s \in Sems |-> waiters(s)]
  BY DEF Represents
<1>1. free = list_for_each(heap, pcbFree_h) /\ ready = list_for_each(heap, readyQueue)
  BY Searches DEF Shows
<1>. DEFINE A == Q[semd_h]
<1>2. ASSUME NEW s \in Sems PROVE waiters(s) = Waiting(s_key, Q, s)
  <2>0. /\ matches(s) = {i \in 1..Len(A) : s_key[A[i]] = s} /\ asl = A
        /\ matches(s) # {} => Min(matches(s)) \in matches(s)
    BY Searches
  <2>1. CASE matches(s) = {}
    <3>1. \A i \in 1..Len(A) : s_key[A[i]] # s
      BY <2>0, <2>1
    <3>2. Waiting(s_key, Q, s) = <<>>
      BY <3>1, WaitingAt
    <3>. QED BY <2>1, <3>2 DEF waiters
  <2>2. CASE matches(s) # {}
    <3>. DEFINE k == Min(matches(s))
    <3>1. k \in 1..Len(A) /\ s_key[A[k]] = s
      BY <2>0, <2>2
    <3>2. found(s) = A[k]
      BY <2>0 DEF found
    <3>. HIDE DEF k
    <3>3. A[k] \in Descs /\ list_for_each(heap, procq(A[k])) = Q[procq(A[k])]
      BY <3>1, Searches
    <3>4. Waiting(s_key, Q, s) = Q[procq(A[k])]
      BY <3>1, WaitingAt
    <3>. QED BY <2>2, <3>2, <3>3, <3>4 DEF waiters, s_procq
  <2>. QED BY <2>1, <2>2
<1>3. sems = [s \in Sems |-> waiters(s)]
  BY <1>2 DEF Shows
<1>. QED BY <1>1, <1>3

(* The ends of a queue.                                                    *)
LEMMA QueueEnds ==
    ASSUME NEW S, NEW q \in Seq(S), NEW x \in S
    PROVE  /\ q # <<>> => RemoveAt(q, 1) = Tail(q) /\ q[1] = Head(q) /\ 1 \in 1..Len(q)
           /\ InsertAt(q, 1, x) = Cons(x, q) /\ 1 \in 1..(Len(q) + 1)
           /\ InsertAt(q, Len(q) + 1, x) = Append(q, x) /\ Len(q) + 1 \in 1..(Len(q) + 1)
<1>0. Len(q) \in Nat /\ 1 \in 1..(Len(q) + 1) /\ Len(q) + 1 \in 1..(Len(q) + 1)
  OBVIOUS
<1>1. ASSUME q # <<>> PROVE RemoveAt(q, 1) = Tail(q) /\ q[1] = Head(q) /\ 1 \in 1..Len(q)
  <2>1. 1 \in 1..Len(q) /\ q[1] = Head(q)
    BY <1>1
  <2>. DEFINE r == RemoveAt(q, 1)
              t == Tail(q)
  <2>2. /\ t \in Seq(S) /\ Len(t) = Len(q) - 1
        /\ \A i \in 1..(Len(q) - 1) : t[i] = q[i + 1]
    BY <1>1
  <2>3. /\ r \in Seq(S) /\ Len(r) = Len(q) - 1
        /\ \A i \in 1..(Len(q) - 1) : r[i] = IF i < 1 THEN q[i] ELSE q[i + 1]
    BY <2>1, RemoveAtElements
  <2>. HIDE DEF r, t
  <2>4. \A i \in 1..(Len(q) - 1) : r[i] = t[i]
    BY <1>0, <2>2, <2>3
  <2>5. r = t
    BY <2>2, <2>3, <2>4
  <2>. QED BY <2>1, <2>5 DEF r, t
<1>2. InsertAt(q, 1, x) = Cons(x, q)
  <2>. DEFINE r == InsertAt(q, 1, x)
              t == Cons(x, q)
  <2>1. /\ r \in Seq(S) /\ Len(r) = Len(q) + 1
        /\ \A i \in 1..(Len(q) + 1) : r[i] = IF i < 1 THEN q[i] ELSE IF i = 1 THEN x ELSE q[i - 1]
    BY <1>0, InsertAtElements
  <2>2. /\ t \in Seq(S) /\ Len(t) = Len(q) + 1
        /\ \A i \in 1..(Len(q) + 1) : t[i] = IF i = 1 THEN x ELSE q[i - 1]
    BY DEF Cons
  <2>. HIDE DEF r, t
  <2>3. \A i \in 1..(Len(q) + 1) : r[i] = t[i]
    BY <1>0, <2>1, <2>2
  <2>4. r = t
    BY <2>1, <2>2, <2>3
  <2>. QED BY <2>4 DEF r, t
<1>3. InsertAt(q, Len(q) + 1, x) = Append(q, x)
  <2>. DEFINE k == Len(q) + 1
              r == InsertAt(q, k, x)
              t == Append(q, x)
  <2>0. k \in 1..(Len(q) + 1)
    BY <1>0
  <2>. HIDE DEF k
  <2>1. /\ r \in Seq(S) /\ Len(r) = Len(q) + 1
        /\ \A i \in 1..(Len(q) + 1) : r[i] = IF i < k THEN q[i] ELSE IF i = k THEN x ELSE q[i - 1]
    BY <2>0, InsertAtElements
  <2>2. /\ t \in Seq(S) /\ Len(t) = Len(q) + 1
        /\ \A i \in 1..(Len(q) + 1) : t[i] = IF i < Len(q) + 1 THEN q[i] ELSE x
    OBVIOUS
  <2>. HIDE DEF r, t
  <2>3. \A i \in 1..(Len(q) + 1) : r[i] = t[i]
    BY <1>0, <2>1, <2>2 DEF k
  <2>4. r = t
    BY <2>1, <2>2, <2>3
  <2>. QED BY <2>4 DEF r, t, k
<1>. QED BY <1>0, <1>1, <1>2, <1>3

(* The member at k of a circle leaves it as the first of its kind.         *)
LEMMA RemoveFirstIs ==
    ASSUME NEW S, NEW q \in Seq(S), NEW k \in 1..Len(q), \A i \in 1..Len(q) : q[i] = q[k] => i = k
    PROVE  RemoveFirst(q, q[k]) = RemoveAt(q, k)
<1>. DEFINE T == {i \in 1..Len(q) : q[i] = q[k]}
<1>1. T = {k}
  OBVIOUS
<1>2. SelectInSeq(q, LAMBDA v : v = q[k]) = Min(T)
  BY <1>1 DEF SelectInSeq
<1>3. Min(T) = k
  <2>1. {k} \subseteq Nat /\ {k} # {}
    OBVIOUS
  <2>2. Min({k}) \in {k}
    BY <2>1, MinOfNaturals
  <2>. QED BY <1>1, <2>2
<1>. HIDE DEF T
<1>. QED BY <1>2, <1>3 DEF RemoveFirst
-----------------------------------------------------------------------------
(***************************************************************************)
(* Every function of pcb.c and asl.c, as a step between represented        *)
(* queues.                                                                 *)
(***************************************************************************)
(* A second INIT_LIST_HEAD of what is alone changes nothing.               *)
LEMMA InitTwice ==
    ASSUME NEW h \in HeapType, NEW x \in Nodes, h.next[x] = x, h.prev[x] = x
    PROVE  INIT_LIST_HEAD(h, x) = h
  BY DEF INIT_LIST_HEAD, HeapType

(* A PCB in hand goes on one of the two lists of PCBs that are no          *)
(* semaphore's, or leaves such a list: nothing else that is shown changes. *)
ShownAfter(h, hl, key, Q, a, q) ==
    Represents(h, hl, key, IF a = pcbFree_h THEN q ELSE Q[pcbFree_h],
               IF a = readyQueue THEN q ELSE Q[readyQueue], [s \in Sems |-> Waiting(key, Q, s)])

LEMMA OtherLists ==
    ASSUME NEW h, NEW hl, NEW Q, Shape(h, hl, Q), NEW key, Keyed(key, Q),
           NEW a \in {pcbFree_h, readyQueue}, NEW R, NEW x \in Pcbs,
           \A b \in Heads \cup ProcQs : b \in DOMAIN R <=> b \in DOMAIN Q,
           \A b \in DOMAIN R \cap DOMAIN Q : b # a => R[b] = Q[b],
           NEW g, NEW hm, Shape(g, hm, R)
    PROVE  ShownAfter(g, hm, key, Q, a, R[a])
<1>1. /\ pcbFree_h \in DOMAIN Q /\ readyQueue \in DOMAIN Q
      /\ semd_h \in DOMAIN Q /\ semdFree_h \in DOMAIN Q
      /\ Q[semd_h] \in Seq(Descs) /\ Q[semdFree_h] \in Seq(Descs)
  BY HeadInDomain
<1>4. R[semd_h] = Q[semd_h] /\ R[semdFree_h] = Q[semdFree_h]
  BY <1>1, Kinds DEF Heads
<1>5. \A d \in Descs : /\ procq(d) \in DOMAIN R <=> procq(d) \in DOMAIN Q
                       /\ procq(d) \in DOMAIN Q => R[procq(d)] = Q[procq(d)]
  <2>1. \A d \in Descs : procq(d) \in ProcQs /\ procq(d) # a
    BY Kinds DEF ProcQs, Heads
  <2>. QED BY <2>1
<1>6. Keyed(key, R) /\ \A s : Waiting(key, R, s) = Waiting(key, Q, s)
  BY <1>1, <1>4, <1>5, KeyedSame
<1>7. \A b \in {pcbFree_h, readyQueue} : b # a => R[b] = Q[b]
  BY <1>1 DEF Heads
<1>8. pcbFree_h # readyQueue
  BY Kinds
<1>9. [s \in Sems |-> Waiting(key, Q, s)] = [s \in Sems |-> Waiting(key, R, s)]
  BY <1>6
<1>10. CASE a = pcbFree_h
  <2>1. R[readyQueue] = Q[readyQueue]
    BY <1>7, <1>8, <1>10
  <2>. QED BY <1>6, <1>8, <1>9, <1>10, <2>1 DEF ShownAfter, Represents, Shows
<1>11. CASE a = readyQueue
  <2>1. R[pcbFree_h] = Q[pcbFree_h]
    BY <1>7, <1>8, <1>11
  <2>. QED BY <1>6, <1>8, <1>9, <1>11, <2>1 DEF ShownAfter, Represents, Shows
<1>. QED BY <1>10, <1>11

LEMMA PutStep ==
    ASSUME NEW h, NEW hl, NEW Q, NEW a \in {pcbFree_h, readyQueue}, NEW k, NEW x, NEW g,
           Puts(h, hl, Q, a, k, x, g), NEW key, Keyed(key, Q)
    PROVE  x \in Pcbs /\ ShownAfter(g, hl \ {x}, key, Q, a, InsertAt(Q[a], k, x))
<1>1. PICK R : PutDone(hl, Q, a, k, x, g, R)
  BY PutPcb
<1>2. /\ Shape(g, hl \ {x}, R) /\ DOMAIN R = DOMAIN Q \ {x} /\ R[a] = InsertAt(Q[a], k, x)
      /\ x \in Pcbs /\ \A b \in DOMAIN R : b # a => R[b] = Q[b]
  BY <1>1 DEF PutDone
<1>3. \A b \in Heads \cup ProcQs : b \in DOMAIN R <=> b \in DOMAIN Q
  BY <1>2, Kinds
<1>4. Shape(h, hl, Q)
  BY DEF Puts
<1>5. ShownAfter(g, hl \ {x}, key, Q, a, R[a])
  BY <1>2, <1>3, <1>4, OtherLists
<1>. QED BY <1>2, <1>5

LEMMA TakeStep ==
    ASSUME NEW h, NEW hl, NEW Q, NEW a \in {pcbFree_h, readyQueue}, NEW k, NEW x, NEW g,
           Takes(h, hl, Q, a, k, x, g), NEW key, Keyed(key, Q)
    PROVE  x \in Pcbs /\ ShownAfter(g, hl \cup {x}, key, Q, a, RemoveAt(Q[a], k))
<1>1. PICK R : TakeDone(hl, Q, a, k, x, g, R)
  BY TakePcb
<1>2. /\ Shape(g, hl \cup {x}, R) /\ DOMAIN R = DOMAIN Q \cup {x} /\ R[a] = RemoveAt(Q[a], k)
      /\ x \in Pcbs /\ \A b \in DOMAIN Q : b # a => R[b] = Q[b]
  BY <1>1 DEF TakeDone
<1>3. \A b \in Heads \cup ProcQs : b \in DOMAIN R <=> b \in DOMAIN Q
  BY <1>2, Kinds
<1>4. Shape(h, hl, Q)
  BY DEF Takes
<1>5. ShownAfter(g, hl \cup {x}, key, Q, a, R[a])
  BY <1>2, <1>3, <1>4, OtherLists
<1>. QED BY <1>2, <1>5

(* A PCB in hand is alone.                                                 *)
LEMMA InitAlone ==
    ASSUME NEW h, NEW hl, NEW key, NEW free, NEW ready, NEW sems,
           Represents(h, hl, key, free, ready, sems), NEW x \in hl
    PROVE  INIT_LIST_HEAD(h, x) = h
<1>1. PICK Q : Shape(h, hl, Q)
  BY DEF Represents
<1>2. WellFormed(h, Q) /\ x \in DOMAIN Q /\ Q[x] = <<>> /\ x \in Nodes
  BY <1>1, Kinds DEF Shape
<1>3. Ring(h, x, <<>>) /\ h \in HeapType
  BY <1>2 DEF WellFormed
<1>4. h.next[x] = x /\ h.prev[x] = x
  BY <1>2, <1>3, EmptyRing
<1>. QED BY <1>2, <1>3, <1>4, InitTwice

(* allocPcb: the first free PCB.                                           *)
LEMMA AllocStep ==
    ASSUME NEW free, NEW ready, NEW sems, Represents(heap, held, s_key, free, ready, sems),
           NEW prio \in Prios, allocPcb(prio)
    PROVE  /\ Represents(heap', held', s_key', Tail(free), ready, sems)
           /\ free # <<>> /\ Head(free) \in Pcbs /\ held' = held \cup {Head(free)}
           /\ p_prio' = [p_prio EXCEPT ![Head(free)] = prio]
           /\ p_semAdd' = [p_semAdd EXCEPT ![Head(free)] = NULL]
           /\ s_key' = s_key
<1>1. PICK Q : Shape(heap, held, Q) /\ Keyed(s_key, Q) /\ Shows(s_key, Q, free, ready, sems)
  BY DEF Represents
<1>. DEFINE p == heap.next[pcbFree_h]
            g == list_del(heap, p)
<1>2. WellFormed(heap, Q) /\ pcbFree_h \in DOMAIN Q \cap PcbHeads /\ Q[pcbFree_h] \in Seq(Pcbs)
  BY <1>1, HeadInDomain
<1>3. /\ ~ list_empty(heap, pcbFree_h) /\ heap' = INIT_LIST_HEAD(g, p)
      /\ p_semAdd' = [p_semAdd EXCEPT ![p] = NULL] /\ p_prio' = [p_prio EXCEPT ![p] = prio]
      /\ held' = held \cup {p} /\ s_key' = s_key
  BY DEF allocPcb
<1>4. free = Q[pcbFree_h] /\ free # <<>> /\ p = free[1] /\ 1 \in 1..Len(free)
  BY <1>1, <1>2, <1>3, Neighbours DEF Shows
<1>5. Takes(heap, held, Q, pcbFree_h, 1, p, g)
  BY <1>1, <1>2, <1>4 DEF Takes
<1>. HIDE DEF p, g
<1>6. p \in Pcbs /\ ShownAfter(g, held \cup {p}, s_key, Q, pcbFree_h, RemoveAt(Q[pcbFree_h], 1))
  BY <1>1, <1>5, TakeStep
<1>7. Tail(free) = RemoveAt(free, 1) /\ Head(free) = p
  BY <1>2, <1>4, <1>6, QueueEnds
<1>8. Represents(g, held \cup {p}, s_key, Tail(free), ready, sems)
  BY <1>1, <1>4, <1>6, <1>7, Kinds DEF ShownAfter, Shows
<1>9. heap' = g
  BY <1>3, <1>8, InitAlone
<1>. QED BY <1>3, <1>4, <1>6, <1>7, <1>8, <1>9

(* freePcb: on top of the free ones.                                       *)
LEMMA FreeStep ==
    ASSUME NEW free, NEW ready, NEW sems, Represents(heap, held, s_key, free, ready, sems),
           NEW p, freePcb(p)
    PROVE  Represents(heap', held', s_key', Cons(p, free), ready, sems)
<1>1. PICK Q : Shape(heap, held, Q) /\ Keyed(s_key, Q) /\ Shows(s_key, Q, free, ready, sems)
  BY DEF Represents
<1>2. /\ WellFormed(heap, Q) /\ pcbFree_h \in DOMAIN Q \cap PcbHeads /\ Q[pcbFree_h] \in Seq(Pcbs)
      /\ held \subseteq Pcbs
  BY <1>1, HeadInDomain
<1>3. p \in held /\ heap' = list_add(heap, p, pcbFree_h) /\ held' = held \ {p} /\ s_key' = s_key
  BY DEF freePcb
<1>4. /\ heap' = __list_add(heap, p, At(Q[pcbFree_h], pcbFree_h, 1 - 1), At(Q[pcbFree_h], pcbFree_h, 1))
      /\ 1 \in 1..(Len(Q[pcbFree_h]) + 1)
  BY <1>2, <1>3, Neighbours
<1>5. Puts(heap, held, Q, pcbFree_h, 1, p, heap')
  BY <1>1, <1>2, <1>3, <1>4 DEF Puts
<1>6. ShownAfter(heap', held \ {p}, s_key, Q, pcbFree_h, InsertAt(Q[pcbFree_h], 1, p))
  BY <1>1, <1>5, PutStep
<1>7. InsertAt(Q[pcbFree_h], 1, p) = Cons(p, Q[pcbFree_h])
  BY <1>2, <1>3, QueueEnds
<1>. QED BY <1>1, <1>3, <1>6, <1>7, Kinds DEF ShownAfter, Shows

(* insertProcQ: before the first PCB of lower priority, or at the end.     *)
LEMMA EnqueueStep ==
    ASSUME NEW free, NEW ready, NEW sems, Represents(heap, held, s_key, free, ready, sems),
           NEW p, insertProcQ(p)
    PROVE  LET lower == {i \in 1..Len(ready) : p_prio[ready[i]] < p_prio[p]}
           IN Represents(heap', held', s_key', free,
                         InsertAt(ready, Min(lower \cup {Len(ready) + 1}), p), sems)
<1>1. PICK Q : Shape(heap, held, Q) /\ Keyed(s_key, Q) /\ Shows(s_key, Q, free, ready, sems)
  BY DEF Represents
<1>2. /\ WellFormed(heap, Q) /\ readyQueue \in DOMAIN Q \cap PcbHeads /\ Q[readyQueue] \in Seq(Pcbs)
      /\ ready = Q[readyQueue]
  BY <1>1, HeadInDomain DEF Shows
<1>. DEFINE lower == {i \in 1..Len(ready) : p_prio[ready[i]] < p_prio[p]}
            curr == IF lower = {} THEN readyQueue ELSE ready[Min(lower)]
            T == lower \cup {Len(ready) + 1}
            k == Min(T)
<1>3. list_for_each(heap, readyQueue) = ready
  BY <1>1, <1>2, Searches
<1>4. /\ p \in held /\ heap' = list_add(heap, p, heap.prev[curr])
      /\ held' = held \ {p} /\ s_key' = s_key
  BY <1>3 DEF insertProcQ
<1>5. Len(ready) \in Nat /\ lower \subseteq 1..Len(ready)
  BY <1>2
<1>. HIDE DEF lower
<1>6. k \in T /\ \A y \in T : k <= y
  <2>0. \A n \in 1..Len(ready) : n \in Nat
    OBVIOUS
  <2>a. Len(ready) + 1 \in Nat
    BY <1>5
  <2>1. T \subseteq Nat
    BY <1>5, <2>0, <2>a, Zenon
  <2>2. T # {}
    OBVIOUS
  <2>. HIDE DEF T
  <2>. QED BY <2>1, <2>2, MinOfNaturals
<1>7. k \in 1..(Len(ready) + 1) /\ curr = At(ready, readyQueue, k)
  <2>1. CASE lower = {}
    <3>1. k = Len(ready) + 1
      BY <1>6, <2>1
    <3>. HIDE DEF k
    <3>. QED BY <1>5, <2>1, <3>1 DEF At
  <2>2. CASE lower # {}
    <3>. DEFINE m == Min(lower)
    <3>1. m \in lower /\ \A y \in lower : m <= y
      <4>1. lower \subseteq Nat
        BY <1>5
      <4>. QED BY <2>2, <4>1, MinOfNaturals
    <3>. HIDE DEF m, k
    <3>2. k = m /\ m \in 1..Len(ready)
      BY <1>5, <1>6, <3>1
    <3>3. curr = ready[m]
      BY <2>2 DEF m
    <3>4. At(ready, readyQueue, k) = ready[m] /\ k \in 1..(Len(ready) + 1)
      BY <1>5, <3>2 DEF At
    <3>. QED BY <3>3, <3>4
  <2>. QED BY <2>1, <2>2
<1>. HIDE DEF curr, k
<1>8. /\ heap.next[At(ready, readyQueue, k - 1)] = At(ready, readyQueue, k)
      /\ heap.prev[At(ready, readyQueue, k)] = At(ready, readyQueue, k - 1)
  BY <1>2, <1>7, Neighbours
<1>9. heap' = __list_add(heap, p, At(ready, readyQueue, k - 1), At(ready, readyQueue, k))
  BY <1>4, <1>7, <1>8 DEF list_add
<1>10. Puts(heap, held, Q, readyQueue, k, p, heap')
  BY <1>1, <1>2, <1>4, <1>7, <1>9 DEF Puts
<1>11. ShownAfter(heap', held \ {p}, s_key, Q, readyQueue, InsertAt(Q[readyQueue], k, p))
  BY <1>1, <1>10, PutStep
<1>12. Represents(heap', held', s_key', free, InsertAt(ready, k, p), sems)
  BY <1>1, <1>2, <1>4, <1>11, Kinds DEF ShownAfter, Shows
<1>. QED BY <1>12 DEF k, lower

(* A PCB leaves the ready queue from any place.                            *)
LEMMA LeaveReady ==
    ASSUME NEW free, NEW ready, NEW sems, Represents(heap, held, s_key, free, ready, sems),
           NEW k \in 1..Len(ready), NEW p, p = ready[k],
           heap' = list_del(heap, p), held' = held \cup {p}, s_key' = s_key
    PROVE  Represents(heap', held', s_key', free, RemoveAt(ready, k), sems) /\ p \in Pcbs
<1>1. PICK Q : Shape(heap, held, Q) /\ Keyed(s_key, Q) /\ Shows(s_key, Q, free, ready, sems)
  BY DEF Represents
<1>2. readyQueue \in DOMAIN Q \cap PcbHeads /\ ready = Q[readyQueue]
  BY <1>1, HeadInDomain DEF Shows
<1>3. Takes(heap, held, Q, readyQueue, k, p, heap')
  BY <1>1, <1>2 DEF Takes
<1>4. p \in Pcbs /\ ShownAfter(heap', held \cup {p}, s_key, Q, readyQueue, RemoveAt(Q[readyQueue], k))
  BY <1>1, <1>3, TakeStep
<1>. QED BY <1>1, <1>2, <1>4, Kinds DEF ShownAfter, Shows

(* removeProcQ and outProcQ.                                               *)
LEMMA DequeueStep ==
    ASSUME NEW free, NEW ready, NEW sems, Represents(heap, held, s_key, free, ready, sems),
           removeProcQ
    PROVE  /\ Represents(heap', held', s_key', free, Tail(ready), sems)
           /\ ready # <<>> /\ Head(ready) \in Pcbs /\ held' = held \cup {Head(ready)}
<1>1. PICK Q : Shape(heap, held, Q) /\ Keyed(s_key, Q) /\ Shows(s_key, Q, free, ready, sems)
  BY DEF Represents
<1>2. /\ WellFormed(heap, Q) /\ readyQueue \in DOMAIN Q /\ ready \in Seq(Pcbs)
      /\ ready = Q[readyQueue]
  BY <1>1, HeadInDomain DEF Shows
<1>. DEFINE p == heap.next[readyQueue]
<1>3. /\ ~ list_empty(heap, readyQueue) /\ heap' = list_del(heap, p)
      /\ held' = held \cup {p} /\ s_key' = s_key
  BY DEF removeProcQ
<1>4. ready # <<>> /\ p = ready[1] /\ 1 \in 1..Len(ready)
  BY <1>2, <1>3, Neighbours
<1>. HIDE DEF p
<1>5. Represents(heap', held', s_key', free, RemoveAt(ready, 1), sems) /\ p \in Pcbs
  BY <1>3, <1>4, LeaveReady
<1>6. Tail(ready) = RemoveAt(ready, 1) /\ Head(ready) = p
  BY <1>2, <1>4, <1>5, QueueEnds
<1>. QED BY <1>3, <1>4, <1>5, <1>6

LEMMA ExtractStep ==
    ASSUME NEW free, NEW ready, NEW sems, Represents(heap, held, s_key, free, ready, sems),
           NEW p, outProcQ(p)
    PROVE  /\ Represents(heap', held', s_key', free, RemoveFirst(ready, p), sems)
           /\ p \in ToSet(ready) /\ p \in Pcbs
<1>1. PICK Q : Shape(heap, held, Q) /\ Keyed(s_key, Q) /\ Shows(s_key, Q, free, ready, sems)
  BY DEF Represents
<1>2. /\ WellFormed(heap, Q) /\ readyQueue \in DOMAIN Q /\ ready \in Seq(Pcbs)
      /\ ready = Q[readyQueue] /\ list_for_each(heap, readyQueue) = ready
  BY <1>1, HeadInDomain, Searches DEF Shows
<1>3. /\ p \in ToSet(ready) /\ heap' = list_del(heap, p)
      /\ held' = held \cup {p} /\ s_key' = s_key
  BY <1>2 DEF outProcQ
<1>4. PICK k \in 1..Len(ready) : p = ready[k]
  BY <1>2, <1>3 DEF ToSet
<1>5. Represents(heap', held', s_key', free, RemoveAt(ready, k), sems) /\ p \in Pcbs
  BY <1>3, <1>4, LeaveReady
<1>6. \A i \in 1..Len(ready) : ready[i] = ready[k] => i = k
  BY <1>2 DEF WellFormed, Ring
<1>7. RemoveFirst(ready, p) = RemoveAt(ready, k)
  BY <1>2, <1>4, <1>6, RemoveFirstIs
<1>. QED BY <1>3, <1>5, <1>7

(* One semaphore's queue becomes q, and nothing else that is shown changes.*)
QueueAfter(h, hl, new, key, Q, s, q) ==
    Represents(h, hl, new, Q[pcbFree_h], Q[readyQueue],
               [[t \in Sems |-> Waiting(key, Q, t)] EXCEPT ![s] = q])

LEMMA OtherQueues ==
    ASSUME NEW Q, NEW key, NEW R, NEW new, NEW g, NEW hm, Shape(g, hm, R), Keyed(new, R),
           R[pcbFree_h] = Q[pcbFree_h], R[readyQueue] = Q[readyQueue], NEW s \in Sems,
           \A t : t # s => Waiting(new, R, t) = Waiting(key, Q, t)
    PROVE  QueueAfter(g, hm, new, key, Q, s, Waiting(new, R, s))
<1>1. [[t \in Sems |-> Waiting(key, Q, t)] EXCEPT ![s] = Waiting(new, R, s)]
        = [t \in Sems |-> Waiting(new, R, t)]
  OBVIOUS
<1>. QED BY <1>1 DEF QueueAfter, Represents, Shows

(* The members of Q's lists other than the queue of d.                     *)
SameBut(Q, R, d) ==
    /\ \A b \in Heads \cup ProcQs : b \in DOMAIN R <=> b \in DOMAIN Q
    /\ \A b \in (Heads \cup ProcQs) \cap DOMAIN Q : b # procq(d) => R[b] = Q[b]

LEMMA ActiveQueue ==
    ASSUME NEW h, NEW hl, NEW Q, Shape(h, hl, Q), NEW key, Keyed(key, Q),
           NEW k \in 1..Len(Q[semd_h]), NEW d, d = Q[semd_h][k],
           NEW R, SameBut(Q, R, d), R[procq(d)] # <<>>,
           NEW g, NEW hm, Shape(g, hm, R)
    PROVE  QueueAfter(g, hm, key, key, Q, key[d], R[procq(d)])
<1>1. /\ pcbFree_h \in DOMAIN Q /\ readyQueue \in DOMAIN Q
      /\ semd_h \in DOMAIN Q /\ semdFree_h \in DOMAIN Q
      /\ Q[semd_h] \in Seq(Descs) /\ Q[semdFree_h] \in Seq(Descs)
  BY HeadInDomain
<1>2. \A b \in Heads : b # procq(d) /\ b \in DOMAIN Q /\ R[b] = Q[b]
  <2>1. d \in Descs
    BY <1>1
  <2>2. \A b \in Heads : b # procq(d)
    BY <2>1, Kinds DEF ProcQs
  <2>3. \A b \in Heads : b \in DOMAIN Q
    BY <1>1 DEF Heads
  <2>. QED BY <2>2, <2>3 DEF SameBut
<1>3. /\ R[semd_h] = Q[semd_h] /\ R[semdFree_h] = Q[semdFree_h]
      /\ R[pcbFree_h] = Q[pcbFree_h] /\ R[readyQueue] = Q[readyQueue]
  BY <1>2 DEF Heads
<1>4. \A e \in Descs : /\ procq(e) \in DOMAIN R <=> procq(e) \in DOMAIN Q
                       /\ procq(e) \in DOMAIN Q /\ e # d => R[procq(e)] = Q[procq(e)]
  <2>0. d \in Descs
    BY <1>1
  <2>1. \A e \in Descs : procq(e) \in ProcQs /\ (e # d => procq(e) # procq(d))
    BY <2>0, Kinds DEF ProcQs
  <2>. QED BY <2>1 DEF SameBut
<1>5. /\ \A i \in 1..Len(Q[semdFree_h]) : Q[semdFree_h][i] # d
      /\ \A i \in 1..Len(Q[semd_h]) : Q[semd_h][i] = d => i = k
  BY DescFacts
<1>6. QueueChanges(key, Q, R, k, d)
  BY <1>1, <1>3, <1>4, <1>5 DEF QueueChanges
<1>7. Rekeyed(key, Q, key, R, key[d], R[procq(d)])
  BY <1>6, KeyedQueue
<1>. QED BY <1>3, <1>7, OtherQueues DEF Rekeyed

(* A PCB leaves the queue of an active descriptor, which goes with its     *)
(* last one.                                                               *)
LEMMA LeaveQueue ==
    ASSUME NEW Q, Shape(heap, held, Q), Keyed(s_key, Q), s_key \in [Descs -> Sems \cup {NULL}],
           NEW k \in 1..Len(Q[semd_h]), NEW d, d = Q[semd_h][k],
           NEW j \in 1..Len(Q[procq(d)]), NEW p, p = Q[procq(d)][j],
           retire(list_del(heap, p), d)
    PROVE  /\ QueueAfter(heap', held \cup {p}, s_key', s_key, Q, s_key[d], RemoveAt(Q[procq(d)], j))
           /\ p \in Pcbs /\ s_key[d] \in Sems /\ s_key' \in [Descs -> Sems \cup {NULL}]
<1>. DEFINE g == list_del(heap, p)
            hm == held \cup {p}
<1>1. /\ pcbFree_h \in DOMAIN Q /\ readyQueue \in DOMAIN Q
      /\ semd_h \in DOMAIN Q /\ semdFree_h \in DOMAIN Q /\ Heads \subseteq DOMAIN Q
      /\ Q[semd_h] \in Seq(Descs) /\ Q[semdFree_h] \in Seq(Descs)
  BY HeadInDomain DEF Shape
<1>2. d \in Descs /\ procq(d) \in DOMAIN Q \cap PcbHeads /\ s_key[d] \in Sems
  BY Searches DEF Keyed
<1>3. Takes(heap, held, Q, procq(d), j, p, g)
  BY <1>2 DEF Takes
<1>r. \/ /\ list_empty(g, procq(d))
         /\ heap' = list_add(list_del(g, d), d, semdFree_h)
         /\ s_key' = [s_key EXCEPT ![d] = NULL]
      \/ ~ list_empty(g, procq(d)) /\ heap' = g /\ s_key' = s_key
  BY DEF retire
<1>. HIDE DEF g, hm
<1>4. PICK P : TakeDone(held, Q, procq(d), j, p, g, P)
  BY <1>3, TakePcb
<1>5. /\ Shape(g, hm, P) /\ DOMAIN P = DOMAIN Q \cup {p} /\ P[procq(d)] = RemoveAt(Q[procq(d)], j)
      /\ p \in Pcbs /\ \A b \in DOMAIN Q : b # procq(d) => P[b] = Q[b]
  BY <1>4 DEF TakeDone, hm
<1>6. SameBut(Q, P, d)
  <2>1. \A b \in Heads \cup ProcQs : b # p
    BY <1>5, Kinds
  <2>. QED BY <1>5, <2>1 DEF SameBut
<1>7. \A b \in Heads : b # procq(d) /\ P[b] = Q[b]
  <2>1. \A b \in Heads : b # procq(d)
    BY <1>2, Kinds DEF ProcQs
  <2>. QED BY <1>1, <1>5, <2>1
<1>8. P[semd_h] = Q[semd_h] /\ P[semdFree_h] = Q[semdFree_h]
  BY <1>7 DEF Heads
<1>9. list_empty(g, procq(d)) <=> P[procq(d)] = <<>>
  <2>1. WellFormed(g, P) /\ procq(d) \in DOMAIN P
    BY <1>2, <1>5, HeadInDomain
  <2>. QED BY <2>1, Neighbours
<1>10. CASE ~ list_empty(g, procq(d))
  <2>1. heap' = g /\ s_key' = s_key
    BY <1>r, <1>10
  <2>2. P[procq(d)] # <<>>
    BY <1>9, <1>10
  <2>3. QueueAfter(g, hm, s_key, s_key, Q, s_key[d], P[procq(d)])
    BY <1>5, <1>6, <2>2, ActiveQueue
  <2>. QED BY <1>2, <1>5, <2>1, <2>3 DEF hm
<1>11. CASE list_empty(g, procq(d))
  <2>1. heap' = list_add(list_del(g, d), d, semdFree_h) /\ s_key' = [s_key EXCEPT ![d] = NULL]
    BY <1>r, <1>11
  <2>2. P[procq(d)] = <<>>
    BY <1>9, <1>11
  <2>3. Retires(g, hm, P, k, d, heap')
    BY <1>5, <1>8, <2>1 DEF Retires
  <2>4. PICK R : RetireDone(hm, P, k, d, heap', R)
    BY <2>3, RetireDesc
  <2>5. /\ Shape(heap', hm, R) /\ DOMAIN R = DOMAIN P
        /\ R[semd_h] = RemoveAt(Q[semd_h], k) /\ R[semdFree_h] = InsertAt(Q[semdFree_h], 1, d)
        /\ \A b \in DOMAIN P \ {semd_h, semdFree_h} : R[b] = P[b]
    BY <1>8, <2>4 DEF RetireDone
  <2>6. R[procq(d)] = <<>>
    BY <1>2, <1>5, <1>7, <2>2, <2>5 DEF Heads
  <2>7. R[pcbFree_h] = Q[pcbFree_h] /\ R[readyQueue] = Q[readyQueue]
    BY <1>1, <1>5, <1>7, <2>5, Kinds DEF Heads
  <2>8. \A e \in Descs : /\ procq(e) \in DOMAIN R <=> procq(e) \in DOMAIN Q
                         /\ procq(e) \in DOMAIN Q /\ e # d => R[procq(e)] = Q[procq(e)]
    <3>1. \A e \in Descs : /\ procq(e) # p /\ procq(e) # semd_h /\ procq(e) # semdFree_h
                           /\ e # d => procq(e) # procq(d)
      BY <1>2, <1>5, Kinds DEF ProcQs, Heads
    <3>. QED BY <1>5, <2>5, <3>1
  <2>9. QueueCloses(heap, held, s_key, Q, R, k, d)
    BY <2>5, <2>6, <2>8 DEF QueueCloses
  <2>10. Rekeyed(s_key, Q, s_key', R, s_key[d], <<>>)
    BY <2>1, <2>9, KeyedRetire
  <2>11. QueueAfter(heap', hm, s_key', s_key, Q, s_key[d], Waiting(s_key', R, s_key[d]))
    BY <2>5, <2>7, <2>10, OtherQueues DEF Rekeyed
  <2>12. Waiting(s_key', R, s_key[d]) = RemoveAt(Q[procq(d)], j)
    BY <1>5, <2>2, <2>10 DEF Rekeyed
  <2>13. s_key' \in [Descs -> Sems \cup {NULL}]
    BY <2>1
  <2>. QED BY <1>2, <1>5, <2>11, <2>12, <2>13 DEF hm
<1>. QED BY <1>10, <1>11

(* A PCB joins the queue of an active descriptor.                          *)
LEMMA JoinQueue ==
    ASSUME NEW Q, Shape(heap, held, Q), Keyed(s_key, Q),
           NEW k \in 1..Len(Q[semd_h]), NEW d, d = Q[semd_h][k], NEW p \in held,
           NEW g, g = list_add_tail(heap, p, procq(d))
    PROVE  QueueAfter(g, held \ {p}, s_key, s_key, Q, s_key[d], Append(Q[procq(d)], p))
<1>2. d \in Descs /\ procq(d) \in DOMAIN Q \cap PcbHeads
  BY Searches
<1>3. WellFormed(heap, Q) /\ Q[procq(d)] \in Seq(Pcbs) /\ p \in Pcbs
  BY <1>2, ShapeFacts
<1>. DEFINE l == Len(Q[procq(d)]) + 1
<1>4. l \in 1..(Len(Q[procq(d)]) + 1)
  BY <1>3, QueueEnds
<1>5. g = __list_add(heap, p, At(Q[procq(d)], procq(d), l - 1), At(Q[procq(d)], procq(d), l))
  BY <1>2, <1>3, Neighbours
<1>6. InsertAt(Q[procq(d)], l, p) = Append(Q[procq(d)], p)
  BY <1>3, QueueEnds
<1>. HIDE DEF l
<1>7. Puts(heap, held, Q, procq(d), l, p, g)
  BY <1>2, <1>4, <1>5 DEF Puts
<1>8. PICK R : PutDone(held, Q, procq(d), l, p, g, R)
  BY <1>7, PutPcb
<1>9. /\ Shape(g, held \ {p}, R) /\ DOMAIN R = DOMAIN Q \ {p}
      /\ R[procq(d)] = Append(Q[procq(d)], p)
      /\ \A b \in DOMAIN R : b # procq(d) => R[b] = Q[b]
  BY <1>6, <1>8 DEF PutDone
<1>10. SameBut(Q, R, d)
  <2>1. \A b \in Heads \cup ProcQs : b # p
    BY <1>3, Kinds
  <2>. QED BY <1>9, <2>1 DEF SameBut
<1>11. R[procq(d)] # <<>>
  <2>1. Len(Append(Q[procq(d)], p)) = Len(Q[procq(d)]) + 1 /\ Len(Q[procq(d)]) \in Nat
    BY <1>3
  <2>2. Len(Append(Q[procq(d)], p)) # 0
    BY <2>1
  <2>3. Len(<<>>) = 0
    OBVIOUS
  <2>. QED BY <1>9, <2>2, <2>3, Zenon
<1>12. QueueAfter(g, held \ {p}, s_key, s_key, Q, s_key[d], R[procq(d)])
  BY <1>9, <1>10, <1>11, ActiveQueue
<1>. QED BY <1>9, <1>12

(* A PCB is the first waiter of a new descriptor.                          *)
LEMMA OpenQueue ==
    ASSUME NEW Q, Shape(heap, held, Q), Keyed(s_key, Q), s_key \in [Descs -> Sems \cup {NULL}],
           NEW sem \in Sems, \A i \in 1..Len(Q[semd_h]) : s_key[Q[semd_h][i]] # sem,
           Q[semdFree_h] # <<>>, NEW d, d = Q[semdFree_h][1], NEW p \in held,
           NEW f, f = list_add_tail(INIT_LIST_HEAD(list_del(heap, d), procq(d)), d, semd_h),
           NEW g, g = list_add_tail(f, p, procq(d)), NEW new, new = [s_key EXCEPT ![d] = sem]
    PROVE  QueueAfter(g, held \ {p}, new, s_key, Q, sem, Append(<<>>, p)) /\ d \in Descs
<1>1. /\ pcbFree_h \in DOMAIN Q /\ readyQueue \in DOMAIN Q
      /\ semd_h \in DOMAIN Q /\ semdFree_h \in DOMAIN Q /\ Heads \subseteq DOMAIN Q
      /\ Q[semd_h] \in Seq(Descs) /\ Q[semdFree_h] \in Seq(Descs) /\ p \in Pcbs
  BY HeadInDomain DEF Shape
<1>2. 1 \in 1..Len(Q[semdFree_h])
  BY <1>1
<1>3. d \in Descs
  BY <1>1, <1>2
<1>4. procq(d) \in ProcQs /\ procq(d) \in PcbHeads
  BY <1>3 DEF PcbHeads, ProcQs
<1>5. procq(d) \in DOMAIN Q => Q[procq(d)] = <<>>
  BY <1>2 DEF Keyed
<1>6. Employs(heap, held, Q, d, f)
  BY <1>5 DEF Employs
<1>7. PICK P : EmployDone(held, Q, d, f, P)
  BY <1>6, NewDesc
<1>8. /\ Shape(f, held, P) /\ DOMAIN P = DOMAIN Q \cup {procq(d)} /\ P[procq(d)] = <<>>
      /\ P[semdFree_h] = RemoveAt(Q[semdFree_h], 1)
      /\ P[semd_h] = InsertAt(Q[semd_h], Len(Q[semd_h]) + 1, d)
      /\ \A b \in DOMAIN Q \ {semd_h, semdFree_h} : P[b] = Q[b]
  BY <1>7 DEF EmployDone
<1>9. WellFormed(f, P) /\ procq(d) \in DOMAIN P
  BY <1>8, HeadInDomain
<1>e. Len(P[procq(d)]) = 0 /\ Len(P[procq(d)]) + 1 = 1 /\ P[procq(d)] \in Seq(Pcbs)
  <2>1. Len(<<>>) = 0 /\ 0 + 1 = 1 /\ <<>> \in Seq(Pcbs)
    OBVIOUS
  <2>. QED BY <1>8, <2>1
<1>10. /\ g = __list_add(f, p, At(P[procq(d)], procq(d), (Len(P[procq(d)]) + 1) - 1),
                         At(P[procq(d)], procq(d), Len(P[procq(d)]) + 1))
       /\ Len(P[procq(d)]) + 1 \in 1..(Len(P[procq(d)]) + 1)
       /\ InsertAt(P[procq(d)], Len(P[procq(d)]) + 1, p) = Append(<<>>, p)
  <2>1. g = __list_add(f, p, At(P[procq(d)], procq(d), (Len(P[procq(d)]) + 1) - 1),
                       At(P[procq(d)], procq(d), Len(P[procq(d)]) + 1))
    BY <1>9, Neighbours
  <2>2. /\ InsertAt(P[procq(d)], Len(P[procq(d)]) + 1, p) = Append(P[procq(d)], p)
        /\ Len(P[procq(d)]) + 1 \in 1..(Len(P[procq(d)]) + 1)
    BY <1>1, <1>e, QueueEnds, ZenonT(60)
  <2>. QED BY <1>8, <2>1, <2>2
<1>11. Puts(f, held, P, procq(d), Len(P[procq(d)]) + 1, p, g)
  BY <1>4, <1>8, <1>9, <1>10 DEF Puts
<1>12. PICK R : PutDone(held, P, procq(d), Len(P[procq(d)]) + 1, p, g, R)
  BY <1>11, PutPcb
<1>13. /\ Shape(g, held \ {p}, R) /\ DOMAIN R = DOMAIN P \ {p}
       /\ R[procq(d)] = Append(<<>>, p)
       /\ \A b \in DOMAIN R : b # procq(d) => R[b] = P[b]
  BY <1>10, <1>12 DEF PutDone
<1>14. \A b \in Heads : b \in DOMAIN R /\ R[b] = P[b]
  <2>1. \A b \in Heads : b # p /\ b # procq(d)
    BY <1>1, <1>4, Kinds
  <2>. QED BY <1>1, <1>8, <1>13, <2>1
<1>15. /\ R[semdFree_h] = RemoveAt(Q[semdFree_h], 1)
       /\ R[semd_h] = InsertAt(Q[semd_h], Len(Q[semd_h]) + 1, d)
  BY <1>8, <1>14 DEF Heads
<1>16. R[pcbFree_h] = Q[pcbFree_h] /\ R[readyQueue] = Q[readyQueue]
  BY <1>1, <1>8, <1>14, Kinds DEF Heads
<1>17. procq(d) \in DOMAIN R /\ R[procq(d)] # <<>>
  <2>1. procq(d) # p
    BY <1>1, <1>4, Kinds
  <2>2. Append(<<>>, p) # <<>>
    OBVIOUS
  <2>. QED BY <1>8, <1>13, <2>1, <2>2
<1>18. \A e \in Descs : e # d => /\ procq(e) \in DOMAIN R <=> procq(e) \in DOMAIN Q
                                 /\ procq(e) \in DOMAIN Q => R[procq(e)] = Q[procq(e)]
  <2>1. \A e \in Descs : /\ procq(e) # p /\ procq(e) # semd_h /\ procq(e) # semdFree_h
                         /\ e # d => procq(e) # procq(d)
    <3>1. \A e \in Descs : procq(e) \in ProcQs
      BY DEF ProcQs
    <3>2. \A b \in ProcQs : b # p /\ b # semd_h /\ b # semdFree_h
      BY <1>1, Kinds DEF Heads
    <3>3. \A e \in Descs : e # d => procq(e) # procq(d)
      BY <1>3, Kinds
    <3>. QED BY <3>1, <3>2, <3>3
  <2>. QED BY <1>8, <1>13, <2>1
<1>19. QueueOpens(heap, held, s_key, Q, R, sem, d)
  BY <1>15, <1>17, <1>18 DEF QueueOpens
<1>20. Rekeyed(s_key, Q, new, R, sem, R[procq(d)])
  BY <1>19, KeyedNew
<1>21. QueueAfter(g, held \ {p}, new, s_key, Q, sem, Waiting(new, R, sem))
  BY <1>13, <1>16, <1>20, OtherQueues DEF Rekeyed
<1>. QED BY <1>3, <1>13, <1>20, <1>21 DEF Rekeyed

(* With a descriptor free, fewer semaphores have waiters than there are    *)
(* descriptors.                                                            *)
LEMMA ActiveFits ==
    ASSUME NEW h, NEW hl, NEW Q, Shape(h, hl, Q), NEW key, Keyed(key, Q), Q[semdFree_h] # <<>>
    PROVE  Cardinality({s \in Sems : Waiting(key, Q, s) # <<>>}) < Cardinality(Descs)
<1>. DEFINE A == Q[semd_h]
            F == Q[semdFree_h]
            S == {s \in Sems : Waiting(key, Q, s) # <<>>}
            i(s) == CHOOSE n \in 1..Len(A) : key[A[n]] = s
            f == [s \in S |-> A[i(s)]]
            d == F[1]
            T == Descs \ {d}
<1>1. /\ A \in Seq(Descs) /\ F \in Seq(Descs)
      /\ \A m \in 1..Len(A), n \in 1..Len(F) : A[m] # F[n]
  BY DescFacts
<1>2. 1 \in 1..Len(F) /\ d \in Descs
  <2>1. 1 \in 1..Len(F)
    BY <1>1
  <2>. QED BY <1>1, <2>1
<1>3. \A s \in S : i(s) \in 1..Len(A) /\ key[A[i(s)]] = s
  BY WaitingAt
<1>4. \A s \in S : f[s] \in T /\ key[f[s]] = s
  <2>. TAKE s \in S
  <2>1. f[s] = A[i(s)] /\ i(s) \in 1..Len(A) /\ key[A[i(s)]] = s
    BY <1>3
  <2>. HIDE DEF i, f, S, A, F
  <2>. QED BY <1>1, <1>2, <2>1
<1>5. f \in Injection(S, T)
  <2>1. f \in [S -> T]
    <3>. HIDE DEF T, S
    <3>. QED BY <1>4
  <2>2. \A s, t \in S : f[s] = f[t] => s = t
    <3>. HIDE DEF f, S
    <3>. QED BY <1>4
  <2>. HIDE DEF f, S, T
  <2>. QED BY <2>1, <2>2 DEF Injection, IsInjective
<1>6. IsFiniteSet(T) /\ Cardinality(T) = Cardinality(Descs) - 1 /\ Cardinality(Descs) \in Nat
  BY <1>2, TablesAssumption, FS_RemoveElement, FS_CardinalityType
<1>7. IsFiniteSet(S) /\ Cardinality(S) <= Cardinality(T)
  <2>. HIDE DEF f, S, T
  <2>. QED BY <1>5, <1>6, FS_Injection
<1>8. Cardinality(S) \in Nat
  <2>. HIDE DEF S
  <2>. QED BY <1>7, FS_CardinalityType
<1>9. Cardinality(S) < Cardinality(Descs)
  <2>. HIDE DEF S, T
  <2>. QED BY <1>6, <1>7, <1>8
<1>. QED BY <1>9

(* What waits on a semaphore with a descriptor is on its queue.            *)
LEMMA SemQueue ==
    ASSUME NEW Q, Shape(heap, held, Q), Keyed(s_key, Q), NEW free, NEW ready, NEW sems,
           Shows(s_key, Q, free, ready, sems), NEW k \in 1..Len(Q[semd_h]),
           NEW d, d = Q[semd_h][k]
    PROVE  /\ s_key[d] \in Sems /\ sems[s_key[d]] = Q[procq(d)] /\ Q[procq(d)] # <<>>
           /\ Q[procq(d)] \in Seq(Pcbs) /\ procq(d) \in DOMAIN Q
           /\ WellFormed(heap, Q) /\ Ring(heap, procq(d), Q[procq(d)])
           /\ list_for_each(heap, procq(d)) = Q[procq(d)]
<1>1. s_key[d] \in Sems /\ procq(d) \in DOMAIN Q /\ Q[procq(d)] # <<>>
  BY DEF Keyed
<1>2. Waiting(s_key, Q, s_key[d]) = Q[procq(d)]
  BY WaitingAt
<1>3. sems[s_key[d]] = Q[procq(d)]
  BY <1>1, <1>2 DEF Shows
<1>4. procq(d) \in DOMAIN Q \cap PcbHeads /\ list_for_each(heap, procq(d)) = Q[procq(d)]
  BY Searches
<1>5. Q[procq(d)] \in Seq(Pcbs) /\ WellFormed(heap, Q)
  BY <1>4, ShapeFacts
<1>6. Ring(heap, procq(d), Q[procq(d)])
  BY <1>4, <1>5 DEF WellFormed
<1>. QED BY <1>1, <1>3, <1>4, <1>5, <1>6

LEMMA UnblockStep ==
    ASSUME NEW free, NEW ready, NEW sems, Represents(heap, held, s_key, free, ready, sems),
           s_key \in [Descs -> Sems \cup {NULL}], NEW sem \in Sems, removeBlocked(sem)
    PROVE  /\ Represents(heap', held', s_key', free, ready, [sems EXCEPT ![sem] = Tail(@)])
           /\ sems[sem] # <<>> /\ held' = held \cup {Head(sems[sem])} /\ Head(sems[sem]) \in Pcbs
           /\ s_key' \in [Descs -> Sems \cup {NULL}]
<1>1. PICK Q : Shape(heap, held, Q) /\ Keyed(s_key, Q) /\ Shows(s_key, Q, free, ready, sems)
  BY DEF Represents
<1>. DEFINE A == Q[semd_h]
            k == Min(matches(sem))
            d == A[k]
            q == Q[procq(d)]
            p == heap.next[procq(d)]
<1>2. asl = A /\ found(sem) = d /\ k \in 1..Len(A) /\ s_key[A[k]] = sem
  <2>1. /\ matches(sem) # {} /\ matches(sem) = {i \in 1..Len(A) : s_key[A[i]] = sem}
        /\ Min(matches(sem)) \in matches(sem) /\ asl = A
    BY <1>1, Searches DEF removeBlocked
  <2>. QED BY <2>1 DEF found
<1>3. retire(list_del(heap, p), d) /\ held' = held \cup {p}
  BY <1>2 DEF removeBlocked
<1>. HIDE DEF k
<1>4. sem \in Sems /\ sems[sem] = q /\ q # <<>> /\ q \in Seq(Pcbs)
      /\ procq(d) \in DOMAIN Q /\ WellFormed(heap, Q)
  BY <1>1, <1>2, SemQueue
<1>. HIDE DEF d
<1>5. p = q[1] /\ 1 \in 1..Len(q)
  BY <1>4, Neighbours
<1>6. p \in Pcbs
  BY <1>4, <1>5
<1>7. RemoveAt(q, 1) = Tail(q) /\ Head(q) = p
  BY <1>4, <1>5, <1>6, QueueEnds
<1>. HIDE DEF p
<1>8. /\ QueueAfter(heap', held \cup {p}, s_key', s_key, Q, s_key[d], RemoveAt(Q[procq(d)], 1))
      /\ s_key' \in [Descs -> Sems \cup {NULL}]
  BY <1>1, <1>2, <1>3, <1>5, LeaveQueue DEF d
<1>9. s_key[d] = sem
  BY <1>2 DEF d
<1>10. /\ free = Q[pcbFree_h] /\ ready = Q[readyQueue]
       /\ sems = [t \in Sems |-> Waiting(s_key, Q, t)]
  BY <1>1 DEF Shows
<1>11. Represents(heap', held', s_key', free, ready, [sems EXCEPT ![sem] = RemoveAt(q, 1)])
  BY <1>3, <1>8, <1>9, <1>10 DEF QueueAfter
<1>12. [sems EXCEPT ![sem] = Tail(@)] = [sems EXCEPT ![sem] = RemoveAt(q, 1)]
  BY <1>4, <1>7
<1>. QED BY <1>3, <1>4, <1>6, <1>7, <1>8, <1>11, <1>12

LEMMA WithdrawStep ==
    ASSUME NEW free, NEW ready, NEW sems, Represents(heap, held, s_key, free, ready, sems),
           s_key \in [Descs -> Sems \cup {NULL}], NEW p, outBlocked(p)
    PROVE  /\ p \in Pcbs /\ s_key' \in [Descs -> Sems \cup {NULL}]
           /\ \E s \in Sems : /\ p \in ToSet(sems[s])
                              /\ Represents(heap', held', s_key', free, ready,
                                            [sems EXCEPT ![s] = RemoveFirst(@, p)])
<1>1. PICK Q : Shape(heap, held, Q) /\ Keyed(s_key, Q) /\ Shows(s_key, Q, free, ready, sems)
  BY DEF Represents
<1>. DEFINE A == Q[semd_h]
<1>2. PICK k \in matches(p_semAdd[p]) : /\ p \in ToSet(list_for_each(heap, procq(asl[k])))
                                        /\ retire(list_del(heap, p), asl[k])
  BY DEF outBlocked
<1>3. asl = A /\ k \in 1..Len(A)
  <2>1. \A s : matches(s) = {i \in 1..Len(A) : s_key[A[i]] = s}
    BY <1>1, Searches
  <2>2. asl = A
    BY <1>1, Searches
  <2>. QED BY <1>2, <2>1, <2>2
<1>. DEFINE d == A[k]
            q == Q[procq(d)]
            s == s_key[d]
<1>4. /\ s \in Sems /\ sems[s] = q /\ q \in Seq(Pcbs) /\ list_for_each(heap, procq(d)) = q
      /\ Ring(heap, procq(d), q)
  BY <1>1, <1>3, SemQueue
<1>5. p \in ToSet(q) /\ retire(list_del(heap, p), d)
  BY <1>2, <1>3, <1>4
<1>6. PICK j \in 1..Len(q) : p = q[j]
  BY <1>4, <1>5 DEF ToSet
<1>7. RemoveFirst(q, p) = RemoveAt(q, j)
  <2>1. \A i \in 1..Len(q) : q[i] = q[j] => i = j
    BY <1>4 DEF Ring
  <2>. HIDE DEF q
  <2>. QED BY <1>4, <1>6, <2>1, RemoveFirstIs
<1>8. held' = held \cup {p}
  BY DEF outBlocked
<1>9. /\ QueueAfter(heap', held \cup {p}, s_key', s_key, Q, s_key[d], RemoveAt(Q[procq(d)], j))
      /\ p \in Pcbs /\ s_key' \in [Descs -> Sems \cup {NULL}]
  BY <1>1, <1>3, <1>5, <1>6, LeaveQueue
<1>10. /\ free = Q[pcbFree_h] /\ ready = Q[readyQueue]
       /\ sems = [t \in Sems |-> Waiting(s_key, Q, t)]
  BY <1>1 DEF Shows
<1>. HIDE DEF d
<1>11. Represents(heap', held', s_key', free, ready, [sems EXCEPT ![s] = RemoveAt(q, j)])
  BY <1>8, <1>9, <1>10 DEF QueueAfter
<1>12. [sems EXCEPT ![s] = RemoveFirst(@, p)] = [sems EXCEPT ![s] = RemoveAt(q, j)]
  BY <1>4, <1>7
<1>. HIDE DEF s, q
<1>. QED BY <1>4, <1>5, <1>9, <1>11, <1>12

BlockDone(free, ready, sems, sem, p) ==
    /\ Represents(heap', held', s_key', free, ready, [sems EXCEPT ![sem] = Append(@, p)])
    /\ s_key' \in [Descs -> Sems \cup {NULL}] /\ held' = held \ {p}
    /\ p_semAdd' = [p_semAdd EXCEPT ![p] = sem]
    /\ \/ sems[sem] # <<>>
       \/ Cardinality({s \in Sems : sems[s] # <<>>}) < Cardinality(Descs)

LEMMA BlockStep ==
    ASSUME NEW free, NEW ready, NEW sems, Represents(heap, held, s_key, free, ready, sems),
           s_key \in [Descs -> Sems \cup {NULL}], NEW sem \in Sems, NEW p, insertBlocked(sem, p)
    PROVE  BlockDone(free, ready, sems, sem, p) \/ UNCHANGED vars
<1>1. PICK Q : Shape(heap, held, Q) /\ Keyed(s_key, Q) /\ Shows(s_key, Q, free, ready, sems)
  BY DEF Represents
<1>. DEFINE A == Q[semd_h]
<1>2. /\ matches(sem) = {i \in 1..Len(A) : s_key[A[i]] = sem} /\ asl = A
      /\ matches(sem) # {} => Min(matches(sem)) \in matches(sem)
  BY <1>1, Searches
<1>3. p \in held /\ p_prio' = p_prio
  BY DEF insertBlocked
<1>4. /\ free = Q[pcbFree_h] /\ ready = Q[readyQueue]
      /\ sems = [t \in Sems |-> Waiting(s_key, Q, t)]
  BY <1>1 DEF Shows
<1>5. CASE matches(sem) # {}
  <2>. DEFINE k == Min(matches(sem))
              d == A[k]
  <2>1. k \in 1..Len(A) /\ s_key[A[k]] = sem /\ found(sem) = d
    BY <1>2, <1>5 DEF found
  <2>2. /\ heap' = list_add_tail(heap, p, procq(d)) /\ held' = held \ {p} /\ s_key' = s_key
        /\ p_semAdd' = [p_semAdd EXCEPT ![p] = sem]
    BY <1>5, <2>1 DEF insertBlocked
  <2>. HIDE DEF k
  <2>3. QueueAfter(heap', held \ {p}, s_key, s_key, Q, s_key[d], Append(Q[procq(d)], p))
    BY <1>1, <1>3, <2>1, <2>2, JoinQueue
  <2>4. s_key[d] = sem /\ sems[sem] = Q[procq(d)] /\ sems[sem] # <<>>
    BY <1>1, <2>1, SemQueue
  <2>. HIDE DEF d
  <2>5. Represents(heap', held', s_key', free, ready,
                   [sems EXCEPT ![sem] = Append(Q[procq(d)], p)])
    BY <1>4, <2>2, <2>3, <2>4 DEF QueueAfter
  <2>6. [sems EXCEPT ![sem] = Append(@, p)] = [sems EXCEPT ![sem] = Append(Q[procq(d)], p)]
    BY <2>4
  <2>. QED BY <2>2, <2>4, <2>5, <2>6 DEF BlockDone
<1>6. CASE matches(sem) = {} /\ ~ list_empty(heap, semdFree_h)
  <2>. DEFINE d == heap.next[semdFree_h]
              f == list_add_tail(INIT_LIST_HEAD(list_del(heap, d), procq(d)), d, semd_h)
  <2>1. /\ heap' = list_add_tail(f, p, procq(d)) /\ held' = held \ {p}
        /\ s_key' = [s_key EXCEPT ![d] = sem]
        /\ p_semAdd' = [p_semAdd EXCEPT ![p] = sem]
    BY <1>6 DEF insertBlocked
  <2>2. \A i \in 1..Len(A) : s_key[A[i]] # sem
    BY <1>2, <1>6
  <2>3. WellFormed(heap, Q) /\ semdFree_h \in DOMAIN Q
    BY <1>1, HeadInDomain
  <2>4. Q[semdFree_h] # <<>> /\ d = Q[semdFree_h][1]
    BY <1>6, <2>3, Neighbours
  <2>. HIDE DEF d
  <2>5. f = list_add_tail(INIT_LIST_HEAD(list_del(heap, d), procq(d)), d, semd_h)
    OBVIOUS
  <2>. HIDE DEF f
  <2>6. QueueAfter(heap', held \ {p}, s_key', s_key, Q, sem, Append(<<>>, p)) /\ d \in Descs
    BY <1>1, <1>3, <2>1, <2>2, <2>4, <2>5, OpenQueue
  <2>7. sems[sem] = <<>>
    BY <1>1, <1>4, <2>2, WaitingAt
  <2>8. Represents(heap', held', s_key', free, ready, [sems EXCEPT ![sem] = Append(<<>>, p)])
    BY <1>4, <2>1, <2>6 DEF QueueAfter
  <2>9. [sems EXCEPT ![sem] = Append(@, p)] = [sems EXCEPT ![sem] = Append(<<>>, p)]
    BY <2>7
  <2>10. Cardinality({s \in Sems : Waiting(s_key, Q, s) # <<>>}) < Cardinality(Descs)
    BY <1>1, <2>4, ActiveFits
  <2>11. {s \in Sems : Waiting(s_key, Q, s) # <<>>} = {s \in Sems : sems[s] # <<>>}
    BY <1>4
  <2>12. s_key' \in [Descs -> Sems \cup {NULL}]
    BY <2>1
  <2>. QED BY <2>1, <2>8, <2>9, <2>10, <2>11, <2>12 DEF BlockDone
<1>7. CASE matches(sem) = {} /\ list_empty(heap, semdFree_h)
  BY <1>3, <1>7 DEF insertBlocked, vars
<1>. QED BY <1>5, <1>6, <1>7
-----------------------------------------------------------------------------
(* What the loops of initPcbs and initASL leave is a circle.               *)
LEMMA Reversed ==
    ASSUME NEW S, IsFiniteSet(S), NEW q \in SetToSeqs(S)
    PROVE  /\ Reverse(q) \in Seq(S) /\ Len(Reverse(q)) = Cardinality(S) /\ Len(q) = Cardinality(S)
           /\ \A i, j \in 1..Cardinality(S) : Reverse(q)[i] = Reverse(q)[j] => i = j
           /\ \A x \in S : \E i \in 1..Cardinality(S) : Reverse(q)[i] = x
<1>. DEFINE N == Cardinality(S)
            r == Reverse(q)
<1>1. N \in Nat
  BY FS_CardinalityType
<1>2. q \in [1..N -> S] /\ \A i, j \in 1..N : i # j => q[i] # q[j]
  BY DEF SetToSeqs
<1>. HIDE DEF N
<1>3. Len(q) = N /\ q \in Seq(S)
  BY <1>1, <1>2
<1>4. r = [i \in 1..N |-> q[(N - i) + 1]]
  BY <1>3 DEF Reverse
<1>. HIDE DEF r
<1>5. \A i \in 1..N : (N - i) + 1 \in 1..N /\ (N - ((N - i) + 1)) + 1 = i
  BY <1>1
<1>6. r \in Seq(S) /\ Len(r) = N
  BY <1>1, <1>2, <1>4, <1>5
<1>7. \A i, j \in 1..N : r[i] = r[j] => i = j
  <2>. TAKE i, j \in 1..N
  <2>1. r[i] = q[(N - i) + 1] /\ r[j] = q[(N - j) + 1]
    BY <1>4
  <2>2. r[i] = r[j] => (N - i) + 1 = (N - j) + 1
    BY <1>2, <1>5, <2>1
  <2>. QED BY <1>1, <2>2
<1>8. \A x \in S : \E i \in 1..N : r[i] = x
  <2>1. q \in Injection(1..N, S)
    BY <1>2 DEF Injection, IsInjective
  <2>2. IsFiniteSet(1..N) /\ Cardinality(1..N) = N
    BY <1>1, FS_Interval
  <2>3. Cardinality(1..N) = Cardinality(S)
    BY <2>2 DEF N
  <2>4. q \in Surjection(1..N, S)
    BY <2>1, <2>2, <2>3, FS_Injection
  <2>5. \A x \in S : \E j \in 1..N : q[j] = x
    BY <2>4 DEF Surjection
  <2>. TAKE x \in S
  <2>6. PICK j \in 1..N : q[j] = x
    BY <2>5
  <2>7. r[(N - j) + 1] = q[j] /\ (N - j) + 1 \in 1..N
    BY <1>4, <1>5
  <2>. QED BY <2>6, <2>7
<1>. QED BY <1>3, <1>6, <1>7, <1>8 DEF r, N

LEMMA LinkedAt ==
    ASSUME NEW S, IsFiniteSet(S), NEW q \in SetToSeqs(S), NEW head, head \notin S,
           NEW i \in 0..Cardinality(S)
    PROVE  /\ linked(head, q, At(Reverse(q), head, i), 1) = At(Reverse(q), head, i + 1)
           /\ linked(head, q, At(Reverse(q), head, i + 1), -1) = At(Reverse(q), head, i)
<1>. DEFINE N == Cardinality(S)
            r == Reverse(q)
            C(x, step, k) == At(r, head, k) = x /\ k + step \in 0..(N + 1)
            c(x, step) == CHOOSE k \in 0..(N + 1) : C(x, step, k)
<1>1. /\ r \in Seq(S) /\ Len(r) = N /\ Len(q) = N
      /\ \A k, j \in 1..N : r[k] = r[j] => k = j
  BY Reversed
<1>2. N \in Nat
  BY FS_CardinalityType
<1>3. \A x, step : linked(head, q, x, step) = At(r, head, c(x, step) + step)
  BY <1>1 DEF linked
<1>. HIDE DEF N, r
<1>4. \A k \in 1..N : r[k] \in S /\ r[k] # head
  BY <1>1
<1>5. /\ \A k \in 1..N : At(r, head, k) = r[k]
      /\ At(r, head, 0) = head /\ At(r, head, N + 1) = head
  BY <1>1, <1>2 DEF At
<1>6. i \in 0..N /\ i + 1 \in 0..(N + 1) /\ i \in 0..(N + 1)
  BY <1>2 DEF N
<1>7. \A k, j \in 0..(N + 1) : At(r, head, k) = At(r, head, j) =>
         k = j \/ (k \in {0, N + 1} /\ j \in {0, N + 1})
  <2>. TAKE k, j \in 0..(N + 1)
  <2>1. (k \in 1..N \/ k \in {0, N + 1}) /\ (j \in 1..N \/ j \in {0, N + 1})
    BY <1>2
  <2>. QED BY <1>1, <1>4, <1>5, <2>1
<1>8. c(At(r, head, i), 1) = i
  <2>. DEFINE x == At(r, head, i)
  <2>1. C(x, 1, i)
    BY <1>6
  <2>2. c(x, 1) \in 0..(N + 1) /\ C(x, 1, c(x, 1))
    BY <1>6, <2>1
  <2>. HIDE DEF c
  <2>3. c(x, 1) # N + 1 /\ i # N + 1
    BY <1>2, <1>6, <2>2
  <2>. QED BY <1>2, <1>6, <1>7, <2>2, <2>3
<1>9. c(At(r, head, i + 1), -1) = i + 1
  <2>. DEFINE x == At(r, head, i + 1)
  <2>1. C(x, -1, i + 1)
    BY <1>6
  <2>2. c(x, -1) \in 0..(N + 1) /\ C(x, -1, c(x, -1))
    BY <1>6, <2>1
  <2>. HIDE DEF c
  <2>3. c(x, -1) # 0 /\ i + 1 # 0
    BY <1>2, <1>6, <2>2
  <2>. QED BY <1>2, <1>6, <1>7, <2>2, <2>3
<1>. HIDE DEF c
<1>10. linked(head, q, At(r, head, i), 1) = At(r, head, i + 1)
  BY <1>3, <1>8
<1>11. linked(head, q, At(r, head, i + 1), -1) = At(r, head, i)
  <2>1. (i + 1) + -1 = i
    BY <1>6
  <2>. QED BY <1>3, <1>9, <2>1
<1>. QED BY <1>10, <1>11 DEF r

LEMMA LinkedRing ==
    ASSUME NEW S, IsFiniteSet(S), S \subseteq Nodes, NEW q \in SetToSeqs(S),
           NEW head \in Nodes, head \notin S, NEW h,
           \A x \in S \cup {head} : /\ h.next[x] = linked(head, q, x, 1)
                                    /\ h.prev[x] = linked(head, q, x, -1)
    PROVE  /\ Ring(h, head, Reverse(q)) /\ On(head, Reverse(q)) = S \cup {head}
           /\ \A x \in S \cup {head} : h.next[x] \in Nodes /\ h.prev[x] \in Nodes
<1>. DEFINE N == Cardinality(S)
            r == Reverse(q)
<1>1. /\ r \in Seq(S) /\ Len(r) = N
      /\ \A k, j \in 1..N : r[k] = r[j] => k = j
      /\ \A x \in S : \E k \in 1..N : r[k] = x
  BY Reversed
<1>2. N \in Nat
  BY FS_CardinalityType
<1>3. \A i \in 0..N : /\ linked(head, q, At(r, head, i), 1) = At(r, head, i + 1)
                      /\ linked(head, q, At(r, head, i + 1), -1) = At(r, head, i)
  BY LinkedAt
<1>. HIDE DEF N, r
<1>4. \A k \in 1..N : r[k] \in S /\ r[k] # head
  BY <1>1
<1>5. \A k \in 0..(N + 1) : At(r, head, k) \in S \cup {head}
  BY <1>1, <1>4 DEF At
<1>6. \A i \in 0..N : i \in 0..(N + 1) /\ i + 1 \in 0..(N + 1)
  BY <1>2
<1>7. \A i \in 0..N : /\ h.next[At(r, head, i)] = At(r, head, i + 1)
                      /\ h.prev[At(r, head, i + 1)] = At(r, head, i)
  BY <1>3, <1>5, <1>6
<1>8. Ring(h, head, r)
  <2>1. r \in Seq(Nodes)
    BY <1>1
  <2>. QED BY <1>1, <1>4, <1>7, <2>1 DEF Ring
<1>9. On(head, r) = S \cup {head}
  <2>1. \A n \in On(head, r) : n \in S \cup {head}
    BY <1>1, <1>4 DEF On
  <2>2. \A n \in S \cup {head} : n \in On(head, r)
    BY <1>1 DEF On
  <2>. QED BY <2>1, <2>2
<1>10. \A x \in S \cup {head} : \E i \in 0..N : x = At(r, head, i)
  <2>1. \A x \in S : \E i \in 0..N : x = At(r, head, i)
    <3>. TAKE x \in S
    <3>1. PICK k \in 1..N : r[k] = x
      BY <1>1
    <3>2. k \in 0..N /\ At(r, head, k) = x
      BY <1>1, <1>2, <3>1 DEF At
    <3>. QED BY <3>2
  <2>2. 0 \in 0..N /\ At(r, head, 0) = head
    BY <1>2 DEF At
  <2>. QED BY <2>1, <2>2
<1>11. \A x \in S \cup {head} : \E i \in 0..N : x = At(r, head, i + 1)
  <2>1. \A x \in S : \E i \in 0..N : x = At(r, head, i + 1)
    <3>. TAKE x \in S
    <3>1. PICK k \in 1..N : r[k] = x
      BY <1>1
    <3>2. k - 1 \in 0..N /\ At(r, head, (k - 1) + 1) = x
      BY <1>1, <1>2, <3>1 DEF At
    <3>. QED BY <3>2
  <2>2. N \in 0..N /\ At(r, head, N + 1) = head
    BY <1>1, <1>2 DEF At
  <2>. QED BY <2>1, <2>2
<1>12. \A x \in S \cup {head} : h.next[x] \in Nodes /\ h.prev[x] \in Nodes
  <2>1. \A x \in S \cup {head} : x \in Nodes
    OBVIOUS
  <2>. QED BY <1>5, <1>6, <1>7, <1>10, <1>11, <2>1
<1>. QED BY <1>8, <1>9, <1>12 DEF r

LEMMA InitStep ==
    ASSUME Init
    PROVE  \E ps \in SetToSeqs(Pcbs) :
             Represents(heap, held, s_key, Reverse(ps), <<>>, [s \in Sems |-> <<>>])
<1>1. PICK ps \in SetToSeqs(Pcbs), ds \in SetToSeqs(Descs) :
        LET link(step) ==
              [x \in Nodes |->
                  CASE x \in Pcbs \cup {pcbFree_h} -> linked(pcbFree_h, ps, x, step)
                    [] x \in Descs \cup {semdFree_h} -> linked(semdFree_h, ds, x, step)
                    [] x \in {readyQueue, semd_h} -> x
                    [] OTHER -> NULL]
        IN heap = [next |-> link(1), prev |-> link(-1)]
  BY DEF Init
<1>. DEFINE link(step) ==
              [x \in Nodes |->
                  CASE x \in Pcbs \cup {pcbFree_h} -> linked(pcbFree_h, ps, x, step)
                    [] x \in Descs \cup {semdFree_h} -> linked(semdFree_h, ds, x, step)
                    [] x \in {readyQueue, semd_h} -> x
                    [] OTHER -> NULL]
            F == Reverse(ps)
            D == Reverse(ds)
<1>2. heap = [next |-> link(1), prev |-> link(-1)]
  BY <1>1
<1>3. /\ Pcbs \subseteq Nodes /\ Descs \subseteq Nodes /\ Heads \subseteq Nodes
      /\ pcbFree_h \in Nodes /\ semdFree_h \in Nodes /\ readyQueue \in Nodes /\ semd_h \in Nodes
      /\ pcbFree_h \notin Pcbs /\ semdFree_h \notin Descs
  BY Kinds DEF Heads
<1>4. /\ (Pcbs \cup {pcbFree_h}) \cap (Descs \cup {semdFree_h}) = {}
      /\ (Pcbs \cup {pcbFree_h}) \cap {readyQueue, semd_h} = {}
      /\ (Descs \cup {semdFree_h}) \cap {readyQueue, semd_h} = {}
      /\ (Pcbs \cup {pcbFree_h}) \cap ProcQs = {}
      /\ (Descs \cup {semdFree_h}) \cap ProcQs = {}
      /\ {readyQueue, semd_h} \cap ProcQs = {}
      /\ Nodes = (Pcbs \cup {pcbFree_h}) \cup (Descs \cup {semdFree_h})
                    \cup {readyQueue, semd_h} \cup ProcQs
  BY Kinds, Zenon DEF Heads
<1>5. ASSUME NEW step
      PROVE  /\ \A x \in Pcbs \cup {pcbFree_h} : link(step)[x] = linked(pcbFree_h, ps, x, step)
             /\ \A x \in Descs \cup {semdFree_h} : link(step)[x] = linked(semdFree_h, ds, x, step)
             /\ \A x \in {readyQueue, semd_h} : link(step)[x] = x
             /\ \A x \in ProcQs : link(step)[x] = NULL
             /\ link(step) = [x \in Nodes |-> link(step)[x]]
  <2>1. \A x \in Pcbs \cup {pcbFree_h} : link(step)[x] = linked(pcbFree_h, ps, x, step)
    BY <1>4
  <2>2. \A x \in Descs \cup {semdFree_h} : link(step)[x] = linked(semdFree_h, ds, x, step)
    BY <1>4
  <2>3. \A x \in {readyQueue, semd_h} : link(step)[x] = x
    BY <1>4
  <2>4. \A x \in ProcQs : link(step)[x] = NULL
    BY <1>4
  <2>. QED BY <2>1, <2>2, <2>3, <2>4
<1>. HIDE DEF link
<1>6. heap.next = link(1) /\ heap.prev = link(-1)
  BY <1>2
<1>7. /\ Ring(heap, pcbFree_h, F) /\ On(pcbFree_h, F) = Pcbs \cup {pcbFree_h}
      /\ \A x \in Pcbs \cup {pcbFree_h} : heap.next[x] \in Nodes /\ heap.prev[x] \in Nodes
  <2>1. \A x \in Pcbs \cup {pcbFree_h} : /\ heap.next[x] = linked(pcbFree_h, ps, x, 1)
                                         /\ heap.prev[x] = linked(pcbFree_h, ps, x, -1)
    BY <1>5, <1>6
  <2>. QED BY <1>3, <2>1, TablesAssumption, LinkedRing
<1>8. /\ Ring(heap, semdFree_h, D) /\ On(semdFree_h, D) = Descs \cup {semdFree_h}
      /\ \A x \in Descs \cup {semdFree_h} : heap.next[x] \in Nodes /\ heap.prev[x] \in Nodes
  <2>1. \A x \in Descs \cup {semdFree_h} : /\ heap.next[x] = linked(semdFree_h, ds, x, 1)
                                           /\ heap.prev[x] = linked(semdFree_h, ds, x, -1)
    BY <1>5, <1>6
  <2>. QED BY <1>3, <2>1, TablesAssumption, LinkedRing
<1>9. \A x \in {readyQueue, semd_h} : /\ heap.next[x] = x /\ heap.prev[x] = x
                                      /\ Ring(heap, x, <<>>) /\ On(x, <<>>) = {x}
  <2>1. \A x \in {readyQueue, semd_h} : heap.next[x] = x /\ heap.prev[x] = x /\ x \in Nodes
    BY <1>3, <1>5, <1>6
  <2>. QED BY <2>1, EmptyRing
<1>10. \A x \in ProcQs : heap.next[x] = NULL /\ heap.prev[x] = NULL
  BY <1>5, <1>6
<1>11. heap \in HeapType
  <2>1. \A x \in Nodes : heap.next[x] \in Nodes \cup {NULL} /\ heap.prev[x] \in Nodes \cup {NULL}
    <3>. TAKE x \in Nodes
    <3>1. CASE x \in Pcbs \cup {pcbFree_h}
      BY <1>7, <3>1
    <3>2. CASE x \in Descs \cup {semdFree_h}
      BY <1>8, <3>2
    <3>3. CASE x \in {readyQueue, semd_h}
      BY <1>9, <3>3
    <3>4. CASE x \in ProcQs
      BY <1>10, <3>4
    <3>. QED BY <1>4, <3>1, <3>2, <3>3, <3>4
  <2>2. heap.next \in [Nodes -> Nodes \cup {NULL}]
    <3>1. heap.next = [x \in Nodes |-> heap.next[x]]
      BY <1>5, <1>6
    <3>. QED BY <2>1, <3>1
  <2>3. heap.prev \in [Nodes -> Nodes \cup {NULL}]
    <3>1. heap.prev = [x \in Nodes |-> heap.prev[x]]
      BY <1>5, <1>6
    <3>. QED BY <2>1, <3>1
  <2>. QED BY <1>2, <1>6, <2>2, <2>3 DEF HeapType
<1>. DEFINE Q == [a \in Heads |-> IF a = pcbFree_h THEN F ELSE IF a = semdFree_h THEN D ELSE <<>>]
<1>12. /\ DOMAIN Q = {pcbFree_h, semdFree_h, readyQueue, semd_h}
       /\ Q[pcbFree_h] = F /\ Q[semdFree_h] = D /\ Q[readyQueue] = <<>> /\ Q[semd_h] = <<>>
  BY Kinds DEF Heads
<1>. HIDE DEF Q, F, D
<1>13. WellFormed(heap, Q)
  <2>1. \A a \in DOMAIN Q : Ring(heap, a, Q[a])
    BY <1>7, <1>8, <1>9, <1>12
  <2>2. /\ On(pcbFree_h, Q[pcbFree_h]) = Pcbs \cup {pcbFree_h}
        /\ On(semdFree_h, Q[semdFree_h]) = Descs \cup {semdFree_h}
        /\ On(readyQueue, Q[readyQueue]) = {readyQueue} /\ On(semd_h, Q[semd_h]) = {semd_h}
    BY <1>7, <1>8, <1>9, <1>12
  <2>3. \A a, b \in DOMAIN Q : a # b => On(a, Q[a]) \cap On(b, Q[b]) = {}
    <3>1. readyQueue # semd_h
      BY Kinds
    <3>. QED BY <1>4, <1>12, <2>2, <3>1
  <2>4. ASSUME NEW n \in Nodes, heap.next[n] # NULL
        PROVE  \E a \in DOMAIN Q : n \in On(a, Q[a])
    <3>1. n \notin ProcQs
      BY <1>10, <2>4
    <3>. QED BY <1>4, <1>12, <2>2, <3>1
  <2>. QED BY <1>11, <2>1, <2>3, <2>4 DEF WellFormed
<1>14. held = {} /\ s_key = [d \in Descs |-> NULL]
  BY DEF Init
<1>15. F \in Seq(Pcbs) /\ D \in Seq(Descs)
  BY TablesAssumption, Reversed DEF F, D
<1>e. <<>> \in Seq(Pcbs) /\ <<>> \in Seq(Descs) /\ Len(<<>>) = 0
  OBVIOUS
<1>p. \A d \in Descs : procq(d) \notin DOMAIN Q
  <2>1. \A d \in Descs : procq(d) \in ProcQs
    BY DEF ProcQs
  <2>2. DOMAIN Q = Heads
    BY <1>12 DEF Heads
  <2>. QED BY <2>1, <2>2, Kinds
<1>16. Shape(heap, held, Q)
  <2>1. Heads \subseteq DOMAIN Q /\ DOMAIN Q \cap Descs = {} /\ DOMAIN Q \cap Pcbs = {}
    BY <1>12, Kinds DEF Heads
  <2>2. \A d \in Descs : procq(d) \notin DOMAIN Q
    BY <1>p
  <2>3. \A n \in Pcbs \cup Descs : heap.next[n] # NULL
    <3>1. NULL \notin Nodes
      BY Kinds
    <3>. QED BY <1>7, <1>8, <3>1
  <2>. QED BY <1>12, <1>13, <1>14, <1>15, <1>e, <2>1, <2>2, <2>3 DEF Shape
<1>17. Keyed(s_key, Q)
  <2>1. \A d \in Descs : procq(d) \notin DOMAIN Q
    BY <1>p
  <2>2. \A i \in 1..Len(D) : D[i] \in Descs
    BY <1>15
  <2>3. 1..Len(Q[semd_h]) = {}
    BY <1>12, <1>e
  <2>. QED BY <1>12, <2>1, <2>2, <2>3 DEF Keyed
<1>18. \A s : Waiting(s_key, Q, s) = <<>>
  <2>1. 1..Len(Q[semd_h]) = {}
    BY <1>12, <1>e
  <2>. QED BY <2>1 DEF Waiting
<1>19. Shows(s_key, Q, F, <<>>, [s \in Sems |-> <<>>])
  BY <1>12, <1>18 DEF Shows
<1>20. Represents(heap, held, s_key, F, <<>>, [s \in Sems |-> <<>>])
  BY <1>16, <1>17, <1>19 DEF Represents
<1>. QED BY <1>20 DEF F
-----------------------------------------------------------------------------
LEMMA RepresentsTypes ==
    ASSUME NEW h, NEW hl, NEW key, NEW free, NEW ready, NEW sems,
           Represents(h, hl, key, free, ready, sems)
    PROVE  h \in HeapType /\ hl \subseteq Pcbs
  BY HeadInDomain DEF Represents, WellFormed

LEMMA InitInv == Init => ListsInv
<1>. SUFFICES ASSUME Init PROVE ListsInv
  OBVIOUS
<1>1. PICK free, ready, sems : Represents(heap, held, s_key, free, ready, sems)
  BY InitStep
<1>2. heap \in HeapType /\ held \subseteq Pcbs
  BY <1>1, RepresentsTypes
<1>3. /\ s_key \in [Descs -> Sems \cup {NULL}] /\ p_semAdd \in [Pcbs -> Sems \cup {NULL}]
      /\ p_prio \in [Pcbs -> Prios]
  BY PriosAssumption DEF Init
<1>. QED BY <1>1, <1>2, <1>3 DEF ListsInv, TypeOK, HeapType

(* Every step, from what a state shows to what the next one does.          *)
LEMMA NextInv == ListsInv /\ [Next]_vars => ListsInv'
<1>. SUFFICES ASSUME ListsInv, [Next]_vars PROVE ListsInv'
  OBVIOUS
<1>1. PICK free, ready, sems : Represents(heap, held, s_key, free, ready, sems)
  BY DEF ListsInv
<1>2. /\ s_key \in [Descs -> Sems \cup {NULL}] /\ p_semAdd \in [Pcbs -> Sems \cup {NULL}]
      /\ p_prio \in [Pcbs -> Prios] /\ TypeOK /\ held \subseteq Pcbs
  BY DEF ListsInv, TypeOK
<1>. DEFINE Shown == \E f, r, s : Represents(heap', held', s_key', f, r, s)
            Typed == /\ s_key' \in [Descs -> Sems \cup {NULL}]
                     /\ p_semAdd' \in [Pcbs -> Sems \cup {NULL}] /\ p_prio' \in [Pcbs -> Prios]
<1>3. ASSUME Shown, Typed PROVE ListsInv'
  <2>1. heap' \in HeapType /\ held' \subseteq Pcbs
    BY <1>3, RepresentsTypes
  <2>. QED BY <1>3, <2>1 DEF ListsInv, TypeOK, HeapType
<1>. SUFFICES Shown /\ Typed
  BY <1>3
<1>4. ASSUME NEW prio \in Prios, allocPcb(prio) PROVE Shown /\ Typed
  <2>1. /\ Represents(heap', held', s_key', Tail(free), ready, sems) /\ Head(free) \in Pcbs
        /\ p_prio' = [p_prio EXCEPT ![Head(free)] = prio]
        /\ p_semAdd' = [p_semAdd EXCEPT ![Head(free)] = NULL] /\ s_key' = s_key
    BY <1>1, <1>4, AllocStep
  <2>2. Typed
    BY <1>2, <2>1
  <2>. QED BY <2>1, <2>2
<1>5. ASSUME NEW p \in Pcbs, freePcb(p) PROVE Shown /\ Typed
  <2>1. Represents(heap', held', s_key', Cons(p, free), ready, sems)
    BY <1>1, <1>5, FreeStep
  <2>2. Typed
    BY <1>2, <1>5 DEF freePcb
  <2>. QED BY <2>1, <2>2
<1>6. ASSUME NEW p \in Pcbs, insertProcQ(p) PROVE Shown /\ Typed
  <2>1. Shown
    BY <1>1, <1>6, EnqueueStep
  <2>2. Typed
    BY <1>2, <1>6 DEF insertProcQ
  <2>. QED BY <2>1, <2>2
<1>7. ASSUME NEW p \in Pcbs, outProcQ(p) PROVE Shown /\ Typed
  <2>1. Represents(heap', held', s_key', free, RemoveFirst(ready, p), sems)
    BY <1>1, <1>7, ExtractStep
  <2>2. Typed
    BY <1>2, <1>7 DEF outProcQ
  <2>. QED BY <2>1, <2>2
<1>8. ASSUME NEW p \in Pcbs, outBlocked(p) PROVE Shown /\ Typed
  <2>1. /\ s_key' \in [Descs -> Sems \cup {NULL}]
        /\ \E s \in Sems : Represents(heap', held', s_key', free, ready,
                                      [sems EXCEPT ![s] = RemoveFirst(@, p)])
    BY <1>1, <1>2, <1>8, WithdrawStep
  <2>2. Typed
    BY <1>2, <1>8, <2>1 DEF outBlocked
  <2>. QED BY <2>1, <2>2
<1>9. ASSUME removeProcQ PROVE Shown /\ Typed
  <2>1. Represents(heap', held', s_key', free, Tail(ready), sems)
    BY <1>1, <1>9, DequeueStep
  <2>2. Typed
    BY <1>2, <1>9 DEF removeProcQ
  <2>. QED BY <2>1, <2>2
<1>10. ASSUME NEW s \in Sems, removeBlocked(s) PROVE Shown /\ Typed
  <2>1. /\ Represents(heap', held', s_key', free, ready, [sems EXCEPT ![s] = Tail(@)])
        /\ s_key' \in [Descs -> Sems \cup {NULL}]
    BY <1>1, <1>2, <1>10, UnblockStep
  <2>2. Typed
    BY <1>2, <1>10, <2>1 DEF removeBlocked
  <2>. QED BY <2>1, <2>2
<1>11. ASSUME UNCHANGED vars PROVE Shown /\ Typed
  BY <1>1, <1>2, <1>11 DEF vars
<1>12. ASSUME NEW s \in Sems, NEW p \in Pcbs, insertBlocked(s, p) PROVE Shown /\ Typed
  <2>1. \/ /\ Represents(heap', held', s_key', free, ready, [sems EXCEPT ![s] = Append(@, p)])
           /\ s_key' \in [Descs -> Sems \cup {NULL}]
           /\ p_semAdd' = [p_semAdd EXCEPT ![p] = s]
        \/ UNCHANGED vars
    BY <1>1, <1>2, <1>12, BlockStep DEF BlockDone
  <2>2. p_prio' = p_prio
    BY <1>12 DEF insertBlocked
  <2>3. CASE /\ Represents(heap', held', s_key', free, ready, [sems EXCEPT ![s] = Append(@, p)])
             /\ s_key' \in [Descs -> Sems \cup {NULL}]
             /\ p_semAdd' = [p_semAdd EXCEPT ![p] = s]
    <3>1. Typed
      BY <1>2, <2>2, <2>3
    <3>. QED BY <2>3, <3>1
  <2>. QED BY <1>11, <2>1, <2>3
<1>. HIDE DEF Shown, Typed
<1>. QED BY <1>4, <1>5, <1>6, <1>7, <1>8, <1>9, <1>10, <1>11, <1>12 DEF Next

LEMMA Invariant == Spec => []ListsInv
  BY InitInv, NextInv, PTL DEF Spec

(* The pointers of every list_head, the keys of the descriptors and the    *)
(* fields of PCBs keep their types through every call of pcb.c and asl.c.  *)
THEOREM TypeSafe == Spec => []TypeOK
<1>1. ListsInv => TypeOK
  BY DEF ListsInv
<1>. QED BY <1>1, Invariant, PTL

(* Every list_head that was ever initialised stays on a circle: what its   *)
(* next and prev lead to leads back to it, for tables of any size and any  *)
(* sequence of list_add, list_add_tail and list_del that pcb.c and asl.c   *)
(* make.                                                                   *)
THEOREM CircularSafe == Spec => []Circular
<1>1. ASSUME ListsInv PROVE Circular
  <2>1. PICK Q : Shape(heap, held, Q)
    BY <1>1 DEF ListsInv, Represents
  <2>2. WellFormed(heap, Q) /\ NULL \notin Nodes
    BY <2>1, HeadInDomain, Kinds
  <2>. SUFFICES ASSUME NEW n \in Nodes, heap.next[n] # NULL
                PROVE  /\ heap.prev[n] # NULL
                       /\ heap.next[heap.prev[n]] = n /\ heap.prev[heap.next[n]] = n
    BY DEF Circular
  <2>3. PICK a \in DOMAIN Q : n \in On(a, Q[a])
    BY <2>2 DEF WellFormed
  <2>. DEFINE q == Q[a]
              L == Len(q)
  <2>4. Ring(heap, a, q)
    BY <2>2 DEF WellFormed
  <2>. HIDE DEF q
  <2>5. /\ L \in Nat /\ At(q, a, 0) = a /\ At(q, a, L + 1) = a
        /\ \A i \in 0..(L + 1) : At(q, a, i) \in Nodes
        /\ On(a, q) = {At(q, a, i) : i \in 0..L}
    BY <2>4, RingAt
  <2>6. \A i \in 0..L : /\ heap.next[At(q, a, i)] = At(q, a, i + 1)
                        /\ heap.prev[At(q, a, i + 1)] = At(q, a, i)
    BY <2>4 DEF Ring
  <2>7. PICK i \in 0..L : n = At(q, a, i)
    BY <2>3, <2>5 DEF q
  <2>8. \E j \in 0..L : n = At(q, a, j + 1)
    <3>1. CASE i = 0
      BY <2>5, <2>7, <3>1
    <3>2. CASE i # 0
      <4>1. i - 1 \in 0..L /\ (i - 1) + 1 = i
        BY <2>5, <3>2
      <4>. QED BY <2>7, <4>1
    <3>. QED BY <3>1, <3>2
  <2>9. PICK j \in 0..L : n = At(q, a, j + 1)
    BY <2>8
  <2>10. /\ heap.prev[n] = At(q, a, j) /\ heap.next[At(q, a, j)] = n
         /\ heap.next[n] = At(q, a, i + 1) /\ heap.prev[At(q, a, i + 1)] = n
    BY <2>6, <2>7, <2>9
  <2>11. At(q, a, j) \in Nodes
    BY <2>5
  <2>. QED BY <2>2, <2>10, <2>11
<1>. QED BY <1>1, Invariant, PTL

(* The descriptors of asl.c: active with a key of its own and a waiter, or *)
(* free; none is both, and none is lost.                                   *)
THEOREM DescriptorsSafe == Spec => []DescriptorsExact
<1>1. ASSUME ListsInv PROVE DescriptorsExact
  <2>1. PICK Q : Shape(heap, held, Q) /\ Keyed(s_key, Q)
    BY <1>1 DEF ListsInv, Represents
  <2>. DEFINE A == Q[semd_h]
              F == Q[semdFree_h]
  <2>2. /\ asl = A /\ list_for_each(heap, semdFree_h) = F
        /\ WellFormed(heap, Q)
    BY <2>1, Searches, HeadInDomain
  <2>3. /\ A \in Seq(Descs) /\ F \in Seq(Descs)
        /\ \A i \in 1..Len(A), j \in 1..Len(F) : A[i] # F[j]
        /\ \A d \in Descs : \/ \E i \in 1..Len(A) : A[i] = d
                            \/ \E i \in 1..Len(F) : F[i] = d
    BY <2>1, DescFacts
  <2>4. /\ \A i \in 1..Len(A) : /\ s_key[A[i]] \in Sems
                                /\ procq(A[i]) \in DOMAIN Q /\ Q[procq(A[i])] # <<>>
        /\ \A i, j \in 1..Len(A) : s_key[A[i]] = s_key[A[j]] => i = j
    BY <2>1 DEF Keyed
  <2>5. \A i \in 1..Len(A) : ~ list_empty(heap, procq(A[i]))
    BY <2>2, <2>4, Neighbours
  <2>. HIDE DEF A, F
  <2>6. ToSet(A) = {A[i] : i \in 1..Len(A)} /\ ToSet(F) = {F[i] : i \in 1..Len(F)}
    BY <2>3 DEF ToSet
  <2>7. ToSet(A) \cap ToSet(F) = {}
    BY <2>3, <2>6
  <2>8. ToSet(A) \cup ToSet(F) = Descs
    <3>1. \A i \in 1..Len(A) : A[i] \in Descs
      BY <2>3
    <3>2. \A i \in 1..Len(F) : F[i] \in Descs
      BY <2>3
    <3>. QED BY <2>3, <2>6, <3>1, <3>2
  <2>9. \A d \in ToSet(A) : /\ s_key[d] \in Sems /\ ~ list_empty(heap, procq(d))
                            /\ \A e \in ToSet(A) : s_key[d] = s_key[e] => d = e
    BY <2>4, <2>5, <2>6
  <2>. QED BY <2>2, <2>7, <2>8, <2>9 DEF DescriptorsExact
<1>. QED BY <1>1, Invariant, PTL
-----------------------------------------------------------------------------
(* The operators of QueueSpec are those of this module.                    *)
LEMMA SameOperators ==
    /\ \A q, x : Queues!Cons(x, q) = Cons(x, q)
    /\ \A q, x : Queues!outProcQ(q, x) = RemoveFirst(q, x)
    /\ \A q : Queues!ToSet(q) = ToSet(q)
    /\ \A q, prio, x : Queues!insertProcQ(q, prio, x) =
         InsertAt(q, Min({i \in 1..Len(q) : prio[q[i]] < prio[x]} \cup {Len(q) + 1}), x)
    /\ \A S : Queues!Cardinality(S) = Cardinality(S)
<1>1. \A q, x : Queues!Cons(x, q) = Cons(x, q)
  BY DEF Queues!Cons, Cons
<1>2. \A q, x : Queues!outProcQ(q, x) = RemoveFirst(q, x)
  BY DEF Queues!outProcQ, Queues!RemoveFirst, RemoveFirst, Queues!SelectInSeq, SelectInSeq,
         Queues!RemoveAt, RemoveAt, Queues!Min, Min
<1>3. \A q : Queues!ToSet(q) = ToSet(q)
  BY DEF Queues!ToSet, ToSet
<1>4. \A q, prio, x : Queues!insertProcQ(q, prio, x) =
         InsertAt(q, Min({i \in 1..Len(q) : prio[q[i]] < prio[x]} \cup {Len(q) + 1}), x)
  BY DEF Queues!insertProcQ, Queues!insertPoint, Queues!InsertAt, InsertAt, Queues!Min, Min
<1>5. \A S : Queues!Cardinality(S) = Cardinality(S)
  BY DEF Queues!Cardinality, Cardinality
<1>. QED BY <1>1, <1>2, <1>3, <1>4, <1>5

(* In the next state, too, what is shown is what list_for_each visits.     *)
OneReading ==
    \A f, r, s : Represents(heap, held, s_key, f, r, s) =>
        /\ list_for_each(heap, pcbFree_h) = f /\ list_for_each(heap, readyQueue) = r
        /\ [t \in Sems |-> waiters(t)] = s

LEMMA ReadsNext == OneReading'
<1>1. OneReading
  BY Reads DEF OneReading
<1>. QED BY <1>1, PTL

LEMMA InitQueues == Init => Queues!Init
<1>. SUFFICES ASSUME Init PROVE Queues!Init
  OBVIOUS
<1>1. PICK ps \in SetToSeqs(Pcbs) :
        Represents(heap, held, s_key, Reverse(ps), <<>>, [s \in Sems |-> <<>>])
  BY InitStep
<1>. DEFINE free == Reverse(ps)
<1>2. /\ free = list_for_each(heap, pcbFree_h) /\ <<>> = list_for_each(heap, readyQueue)
      /\ [s \in Sems |-> <<>>] = [s \in Sems |-> waiters(s)]
  BY <1>1, Reads
<1>3. /\ free \in Seq(Pcbs) /\ Len(free) = Cardinality(Pcbs)
      /\ \A i, j \in 1..Cardinality(Pcbs) : free[i] = free[j] => i = j
  BY TablesAssumption, Reversed
<1>. HIDE DEF free
<1>4. free \in [1..Cardinality(Pcbs) -> Pcbs] /\ DOMAIN free = 1..Cardinality(Pcbs)
  BY <1>3
<1>5. Queues!IsInjective(free)
  BY <1>3, <1>4 DEF Queues!IsInjective
<1>6. /\ p_semAdd = [p \in Pcbs |-> NULL] /\ p_prio \in [Pcbs -> Prios] /\ held = {}
  BY PriosAssumption DEF Init
<1>7. /\ list_for_each(heap, pcbFree_h) \in
            {q \in [1..Cardinality(Pcbs) -> Pcbs] : Queues!IsInjective(q)}
      /\ list_for_each(heap, readyQueue) = <<>>
  BY <1>2, <1>4, <1>5
<1>8. [s \in Sems |-> waiters(s)] = [s \in Sems |-> <<>>]
  BY <1>2
<1>. QED BY <1>6, <1>7, <1>8, SameOperators DEF Queues!Init

LEMMA NextQueues == ListsInv /\ [Next]_vars => [Queues!Next]_(Queues!qvars)
<1>. SUFFICES ASSUME ListsInv, [Next]_vars PROVE [Queues!Next]_(Queues!qvars)
  OBVIOUS
<1>1. PICK free, ready, sems : Represents(heap, held, s_key, free, ready, sems)
  BY DEF ListsInv
<1>2. /\ s_key \in [Descs -> Sems \cup {NULL}] /\ held \subseteq Pcbs
  BY DEF ListsInv, TypeOK
<1>. DEFINE F == list_for_each(heap, pcbFree_h)
            G == list_for_each(heap, readyQueue)
            W == [s \in Sems |-> waiters(s)]
<1>3. F = free /\ G = ready /\ W = sems
  BY <1>1, Reads
<1>5. \A f, r, s : Represents(heap', held', s_key', f, r, s) => F' = f /\ G' = r /\ W' = s
  BY ReadsNext DEF OneReading
<1>6. ASSUME NEW prio \in Prios, allocPcb(prio) PROVE Queues!Next
  <2>1. /\ Represents(heap', held', s_key', Tail(free), ready, sems)
        /\ free # <<>> /\ held' = held \cup {Head(free)}
        /\ p_prio' = [p_prio EXCEPT ![Head(free)] = prio]
        /\ p_semAdd' = [p_semAdd EXCEPT ![Head(free)] = NULL]
    BY <1>1, <1>6, AllocStep
  <2>2. F' = Tail(free) /\ G' = ready /\ W' = sems
    BY <1>5, <2>1
  <2>3. Queues!Alloc(prio)
    BY <1>3, <2>1, <2>2 DEF Queues!Alloc
  <2>. QED BY <2>3 DEF Queues!Next
<1>7. ASSUME NEW p \in Pcbs, freePcb(p) PROVE Queues!Next
  <2>1. Represents(heap', held', s_key', Cons(p, free), ready, sems)
    BY <1>1, <1>7, FreeStep
  <2>2. F' = Queues!Cons(p, free) /\ G' = ready /\ W' = sems
    BY <1>5, <2>1, SameOperators
  <2>3. p \in held /\ held' = held \ {p} /\ p_semAdd' = p_semAdd /\ p_prio' = p_prio
    BY <1>7 DEF freePcb
  <2>4. Queues!Free(p)
    BY <1>3, <2>2, <2>3 DEF Queues!Free
  <2>. QED BY <2>4 DEF Queues!Next
<1>8. ASSUME NEW p \in Pcbs, insertProcQ(p) PROVE Queues!Next
  <2>1. LET lower == {i \in 1..Len(ready) : p_prio[ready[i]] < p_prio[p]}
        IN Represents(heap', held', s_key', free,
                      InsertAt(ready, Min(lower \cup {Len(ready) + 1}), p), sems)
    BY <1>1, <1>8, EnqueueStep
  <2>2. F' = free /\ G' = Queues!insertProcQ(ready, p_prio, p) /\ W' = sems
    BY <1>5, <2>1, SameOperators
  <2>3. p \in held /\ held' = held \ {p} /\ p_semAdd' = p_semAdd /\ p_prio' = p_prio
    BY <1>8 DEF insertProcQ
  <2>4. Queues!Enqueue(p)
    BY <1>3, <2>2, <2>3 DEF Queues!Enqueue
  <2>. QED BY <2>4 DEF Queues!Next
<1>9. ASSUME removeProcQ PROVE Queues!Next
  <2>1. /\ Represents(heap', held', s_key', free, Tail(ready), sems)
        /\ ready # <<>> /\ held' = held \cup {Head(ready)}
    BY <1>1, <1>9, DequeueStep
  <2>2. F' = free /\ G' = Tail(ready) /\ W' = sems
    BY <1>5, <2>1
  <2>3. p_semAdd' = p_semAdd /\ p_prio' = p_prio
    BY <1>9 DEF removeProcQ
  <2>4. Queues!Dequeue
    BY <1>3, <2>1, <2>2, <2>3 DEF Queues!Dequeue
  <2>. QED BY <2>4 DEF Queues!Next
<1>10. ASSUME NEW p \in Pcbs, outProcQ(p) PROVE Queues!Next
  <2>1. Represents(heap', held', s_key', free, RemoveFirst(ready, p), sems) /\ p \in ToSet(ready)
    BY <1>1, <1>10, ExtractStep
  <2>2. F' = free /\ G' = Queues!outProcQ(ready, p) /\ W' = sems /\ p \in Queues!ToSet(ready)
    BY <1>5, <2>1, SameOperators
  <2>3. held' = held \cup {p} /\ p_semAdd' = p_semAdd /\ p_prio' = p_prio
    BY <1>10 DEF outProcQ
  <2>4. Queues!Extract(p)
    BY <1>3, <2>2, <2>3 DEF Queues!Extract
  <2>. QED BY <2>4 DEF Queues!Next
<1>11. ASSUME NEW p \in Pcbs, outBlocked(p) PROVE Queues!Next
  <2>1. PICK s \in Sems : /\ p \in ToSet(sems[s])
                          /\ Represents(heap', held', s_key', free, ready,
                                        [sems EXCEPT ![s] = RemoveFirst(@, p)])
    BY <1>1, <1>2, <1>11, WithdrawStep
  <2>2. F' = free /\ G' = ready /\ W' = [sems EXCEPT ![s] = RemoveFirst(@, p)]
    BY <1>5, <2>1
  <2>3. [sems EXCEPT ![s] = RemoveFirst(@, p)] = [sems EXCEPT ![s] = Queues!outProcQ(@, p)]
    BY SameOperators
  <2>4. held' = held \cup {p} /\ p_semAdd' = p_semAdd /\ p_prio' = p_prio
    BY <1>11 DEF outBlocked
  <2>5. p \in Queues!ToSet(W[s]) /\ W' = [W EXCEPT ![s] = Queues!outProcQ(@, p)]
    BY <1>3, <2>1, <2>2, <2>3, SameOperators
  <2>. HIDE DEF W
  <2>6. Queues!Withdraw(p)
    BY <1>3, <2>2, <2>4, <2>5 DEF Queues!Withdraw, W
  <2>. QED BY <2>6 DEF Queues!Next
<1>12. ASSUME NEW s \in Sems, removeBlocked(s) PROVE Queues!Next
  <2>1. /\ Represents(heap', held', s_key', free, ready, [sems EXCEPT ![s] = Tail(@)])
        /\ sems[s] # <<>> /\ held' = held \cup {Head(sems[s])}
    BY <1>1, <1>2, <1>12, UnblockStep
  <2>2. F' = free /\ G' = ready /\ W' = [sems EXCEPT ![s] = Tail(@)]
    BY <1>5, <2>1
  <2>3. p_semAdd' = p_semAdd /\ p_prio' = p_prio
    BY <1>12 DEF removeBlocked
  <2>4. W[s] # <<>> /\ W' = [W EXCEPT ![s] = Tail(@)] /\ held' = held \cup {Head(W[s])}
    BY <1>3, <2>1, <2>2
  <2>. HIDE DEF W
  <2>5. Queues!Unblock(s)
    BY <1>3, <2>2, <2>3, <2>4 DEF Queues!Unblock, W
  <2>. QED BY <2>5 DEF Queues!Next
<1>13. ASSUME UNCHANGED vars PROVE UNCHANGED Queues!qvars
  <2>1. Represents(heap', held', s_key', free, ready, sems)
    BY <1>1, <1>13 DEF vars
  <2>2. F' = free /\ G' = ready /\ W' = sems
    BY <1>5, <2>1
  <2>3. held' = held /\ p_semAdd' = p_semAdd /\ p_prio' = p_prio
    BY <1>13 DEF vars
  <2>. QED BY <1>3, <2>2, <2>3 DEF Queues!qvars
<1>14. ASSUME NEW s \in Sems, NEW p \in Pcbs, insertBlocked(s, p)
       PROVE  Queues!Next \/ UNCHANGED Queues!qvars
  <2>1. BlockDone(free, ready, sems, s, p) \/ UNCHANGED vars
    BY <1>1, <1>2, <1>14, BlockStep
  <2>2. p \in held /\ p_prio' = p_prio
    BY <1>14 DEF insertBlocked
  <2>3. ASSUME BlockDone(free, ready, sems, s, p) PROVE Queues!Next
    <3>0. /\ Represents(heap', held', s_key', free, ready, [sems EXCEPT ![s] = Append(@, p)])
          /\ held' = held \ {p} /\ p_semAdd' = [p_semAdd EXCEPT ![p] = s]
          /\ \/ sems[s] # <<>>
             \/ Cardinality({t \in Sems : sems[t] # <<>>}) < Cardinality(Descs)
      BY <2>3 DEF BlockDone
    <3>1. F' = free /\ G' = ready /\ W' = [sems EXCEPT ![s] = Append(@, p)]
      BY <1>5, <3>0
    <3>2. W' = [W EXCEPT ![s] = Append(@, p)]
      BY <1>3, <3>1
    <3>3. Queues!Active = {t \in Sems : sems[t] # <<>>}
      BY <1>3 DEF Queues!Active
    <3>4. s \in Queues!Active \/ Cardinality(Queues!Active) < Cardinality(Descs)
      BY <3>0, <3>3
    <3>. HIDE DEF W
    <3>5. Queues!Block(s, p)
      BY <1>3, <2>2, <3>0, <3>1, <3>2, <3>4, SameOperators DEF Queues!Block, W
    <3>. QED BY <3>5 DEF Queues!Next
  <2>. QED BY <1>13, <2>1, <2>3
<1>. QED BY <1>6, <1>7, <1>8, <1>9, <1>10, <1>11, <1>12, <1>13, <1>14 DEF Next

(* The pointer manipulations of pcb.c and asl.c implement QueueSpec, for   *)
(* tables of any size: what list_for_each visits changes only as the call  *)
(* promises, on its own queue, and all other queues keep their order.      *)
THEOREM QueuesSafe == Spec => ImplementsQueues
<1>1. Spec => Queues!Init /\ [][Queues!Next]_(Queues!qvars)
  BY Invariant, InitQueues, NextQueues, PTL DEF Spec
<1>. QED BY <1>1 DEF ImplementsQueues, Queues!Spec
=============================================================================
