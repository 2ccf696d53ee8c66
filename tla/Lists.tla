------------------------------- MODULE Lists -------------------------------
(***************************************************************************)
(* The circular lists of headers/listx.h and what phase1/pcb.c and asl.c   *)
(* do with them, pointer by pointer: the free PCBs, the ready queue, the   *)
(* Active Semaphore List with its descriptors and their process queues.    *)
(* One caller at a time (the kernel runs with interrupts disabled) calls   *)
(* one function after the other; held are the PCBs it has in hand.         *)
(***************************************************************************)
EXTENDS Integers, Sequences, SequencesExt, FiniteSets

CONSTANTS
    Pcbs,      \* pcbFree_table; a PCB stands for its p_list
    Descs,     \* semd_table; a descriptor stands for its s_link
    Sems,      \* semaphore addresses
    Prios,
    NULL

(* list_heads that are not links of a table entry.                         *)
procq(d) == <<"s_procq", d>>
pcbFree_h == <<"pcbFree_h", NULL>>
readyQueue == <<"readyQueue", NULL>>
semdFree_h == <<"semdFree_h", NULL>>
semd_h == <<"semd_h", NULL>>
Heads == {pcbFree_h, readyQueue, semdFree_h, semd_h}
Nodes == Pcbs \cup Descs \cup Heads \cup {procq(d) : d \in Descs}

(* Table entries, heads and addresses are different objects in memory.     *)
ASSUME TablesAssumption ==
    /\ IsFiniteSet(Pcbs) /\ IsFiniteSet(Descs)
    /\ Pcbs \cap Descs = {} /\ NULL \notin Nodes \cup Sems
    /\ \A n \in Heads \cup {procq(d) : d \in Descs} : n \notin Pcbs \cup Descs
ASSUME PriosAssumption == Prios \subseteq Int /\ 0 \in Prios

VARIABLES
    heap,               \* next and prev of every list_head
    s_key, p_semAdd, p_prio,
    held

vars == <<heap, s_key, p_semAdd, p_prio, held>>
-----------------------------------------------------------------------------
(***************************************************************************)
(* listx.h.  h is the heap before the call, the value the one after it.    *)
(***************************************************************************)
INIT_LIST_HEAD(h, list) == [next |-> [h.next EXCEPT ![list] = list],
                            prev |-> [h.prev EXCEPT ![list] = list]]

__list_add(h, new, prev, next) ==
    [prev |-> [h.prev EXCEPT ![next] = new, ![new] = prev],
     next |-> [h.next EXCEPT ![new] = next, ![prev] = new]]

list_add(h, new, head) == __list_add(h, new, head, h.next[head])

(* Mutant: the neighbour behind keeps its back pointer.                    *)
__list_delForward(h, prev, next) == [h EXCEPT !.next[prev] = next]

list_add_tail(h, new, head) == __list_add(h, new, h.prev[head], head)

__list_del(h, prev, next) == [prev |-> [h.prev EXCEPT ![next] = prev],
                              next |-> [h.next EXCEPT ![prev] = next]]

list_del(h, entry) == INIT_LIST_HEAD(__list_del(h, h.prev[entry], h.next[entry]), entry)

list_empty(h, head) == h.next[head] = head

(* The nodes that list_for_each and list_for_each_entry visit, in order.   *)
(* A list that never comes back to head, on which they would not end, is   *)
(* cut off after as many steps as there are nodes.                         *)
list_for_each(h, head) ==
    LET N == Cardinality(Nodes)
        pos[i \in 0..N] == IF i = 0 THEN head ELSE h.next[pos[i - 1]]
        ends == {i \in 1..N : pos[i] = head}
    IN [i \in 1..(Min(ends \cup {N + 1}) - 1) |-> pos[i]]
-----------------------------------------------------------------------------
(***************************************************************************)
(* pcb.c.  An operation that returns NULL leaves everything unchanged.     *)
(***************************************************************************)
(* initPcb, then the priority its caller sets.                             *)
allocPcb(prio) ==
    /\ ~list_empty(heap, pcbFree_h)
    /\ LET p == heap.next[pcbFree_h]
       IN /\ heap' = INIT_LIST_HEAD(list_del(heap, p), p)
          /\ p_semAdd' = [p_semAdd EXCEPT ![p] = NULL]
          /\ p_prio' = [p_prio EXCEPT ![p] = prio]
          /\ held' = held \cup {p}
    /\ UNCHANGED s_key

freePcb(p) ==
    /\ p \in held
    /\ heap' = list_add(heap, p, pcbFree_h)
    /\ held' = held \ {p}
    /\ UNCHANGED <<s_key, p_semAdd, p_prio>>

(* Mutant: the PCB goes behind the node the loop stopped at.               *)
insertProcQBehind(p) ==
    /\ p \in held
    /\ LET q == list_for_each(heap, readyQueue)
           lower == {i \in 1..Len(q) : p_prio[q[i]] < p_prio[p]}
           curr == IF lower = {} THEN readyQueue ELSE q[Min(lower)]
       IN heap' = list_add(heap, p, curr)
    /\ held' = held \ {p}
    /\ UNCHANGED <<s_key, p_semAdd, p_prio>>

(* On the ready queue, the only list it is used for.                       *)
insertProcQ(p) ==
    /\ p \in held
    /\ LET q == list_for_each(heap, readyQueue)
           lower == {i \in 1..Len(q) : p_prio[q[i]] < p_prio[p]}
           curr == IF lower = {} THEN readyQueue ELSE q[Min(lower)]
       IN heap' = list_add(heap, p, heap.prev[curr])
    /\ held' = held \ {p}
    /\ UNCHANGED <<s_key, p_semAdd, p_prio>>

removeProcQ ==
    /\ ~list_empty(heap, readyQueue)
    /\ heap' = list_del(heap, heap.next[readyQueue])
    /\ held' = held \cup {heap.next[readyQueue]}
    /\ UNCHANGED <<s_key, p_semAdd, p_prio>>

outProcQ(p) ==
    /\ p \in ToSet(list_for_each(heap, readyQueue))
    /\ heap' = list_del(heap, p)
    /\ held' = held \cup {p}
    /\ UNCHANGED <<s_key, p_semAdd, p_prio>>
-----------------------------------------------------------------------------
(***************************************************************************)
(* asl.c.                                                                  *)
(***************************************************************************)
(* The places in the ASL that a search for semAdd matches, and the         *)
(* descriptor in the first one.                                            *)
asl == list_for_each(heap, semd_h)
matches(semAdd) == {i \in 1..Len(asl) : s_key[asl[i]] = semAdd}
found(semAdd) == asl[Min(matches(semAdd))]

(* With a descriptor, or with a new one; TRUE is returned without either.  *)
insertBlocked(semAdd, p) ==
    /\ p \in held
    /\ \/ /\ matches(semAdd) # {}
          /\ heap' = list_add_tail(heap, p, procq(found(semAdd)))
          /\ p_semAdd' = [p_semAdd EXCEPT ![p] = semAdd]
          /\ held' = held \ {p}
          /\ UNCHANGED s_key
       \/ /\ matches(semAdd) = {} /\ ~list_empty(heap, semdFree_h)
          /\ LET new_sem == heap.next[semdFree_h]
                 h == INIT_LIST_HEAD(list_del(heap, new_sem), procq(new_sem))
             IN /\ heap' = list_add_tail(list_add_tail(h, new_sem, semd_h),
                                         p, procq(new_sem))
                /\ s_key' = [s_key EXCEPT ![new_sem] = semAdd]
          /\ p_semAdd' = [p_semAdd EXCEPT ![p] = semAdd]
          /\ held' = held \ {p}
       \/ /\ matches(semAdd) = {} /\ list_empty(heap, semdFree_h)
          /\ UNCHANGED <<heap, s_key, p_semAdd, held>>
    /\ UNCHANGED p_prio

(* Mutant: the descriptor stays in the ASL.                                *)
retireKeeps(h, d) == heap' = h /\ UNCHANGED s_key

(* A descriptor whose queue in h is empty goes back to the free ones.      *)
retire(h, d) ==
    \/ /\ list_empty(h, procq(d))
       /\ heap' = list_add(list_del(h, d), d, semdFree_h)
       /\ s_key' = [s_key EXCEPT ![d] = NULL]
    \/ /\ ~list_empty(h, procq(d))
       /\ heap' = h
       /\ UNCHANGED s_key

removeBlocked(semAdd) ==
    /\ matches(semAdd) # {}
    /\ LET curr == found(semAdd)
           first == heap.next[procq(curr)]
       IN /\ retire(list_del(heap, first), curr)
          /\ held' = held \cup {first}
    /\ UNCHANGED <<p_semAdd, p_prio>>

(* p_semAdd may be out of date: then p is on none of the queues searched.  *)
outBlocked(p) ==
    /\ \E i \in matches(p_semAdd[p]) :
         /\ p \in ToSet(list_for_each(heap, procq(asl[i])))
         /\ retire(list_del(heap, p), asl[i])
    /\ held' = held \cup {p}
    /\ UNCHANGED <<p_semAdd, p_prio>>
-----------------------------------------------------------------------------
(* Who is at place i of the circle of head and the members of q.           *)
At(q, head, i) == IF i \in 1..Len(q) THEN q[i] ELSE head

(* The neighbour of x on the circle of head and the members of q, each     *)
(* added at the front in turn: what the loops of initPcbs and initASL make.*)
linked(head, q, x, step) ==
    LET ring == Reverse(q)
        i == CHOOSE k \in 0..(Len(q) + 1) : /\ At(ring, head, k) = x
                                            /\ k + step \in 0..(Len(q) + 1)
    IN At(ring, head, i + step)

(* initPcbs, initASL and mkEmptyProcQ(&readyQueue).  The s_procq of a      *)
(* descriptor never used is still the zeros of its table.                  *)
Init ==
    /\ \E ps \in SetToSeqs(Pcbs), ds \in SetToSeqs(Descs) :
         LET link(step) ==
               [x \in Nodes |->
                   CASE x \in Pcbs \cup {pcbFree_h} -> linked(pcbFree_h, ps, x, step)
                     [] x \in Descs \cup {semdFree_h} -> linked(semdFree_h, ds, x, step)
                     [] x \in {readyQueue, semd_h} -> x
                     [] OTHER -> NULL]
         IN heap = [next |-> link(1), prev |-> link(-1)]
    /\ s_key = [d \in Descs |-> NULL]
    /\ p_semAdd = [p \in Pcbs |-> NULL]
    /\ p_prio = [p \in Pcbs |-> 0]
    /\ held = {}

Next ==
    \/ \E prio \in Prios : allocPcb(prio)
    \/ \E p \in Pcbs : freePcb(p) \/ insertProcQ(p) \/ outProcQ(p) \/ outBlocked(p)
    \/ removeProcQ
    \/ \E s \in Sems : removeBlocked(s) \/ \E p \in Pcbs : insertBlocked(s, p)

Spec == Init /\ [][Next]_vars
-----------------------------------------------------------------------------
(* Every variable holds a value of its type; pointers lead to list_heads.  *)
TypeOK ==
    /\ heap \in [next : [Nodes -> Nodes \cup {NULL}], prev : [Nodes -> Nodes \cup {NULL}]]
    /\ s_key \in [Descs -> Sems \cup {NULL}]
    /\ p_semAdd \in [Pcbs -> Sems \cup {NULL}]
    /\ p_prio \in [Pcbs -> Prios]
    /\ held \subseteq Pcbs

(* All lists stay circular in both directions: next and prev are inverses  *)
(* of each other, whatever is linked and unlinked (list_del relies on the  *)
(* prev pointers, which no loop ever follows).                             *)
Circular ==
    \A n \in Nodes : heap.next[n] # NULL =>
        /\ heap.prev[n] # NULL
        /\ heap.next[heap.prev[n]] = n
        /\ heap.prev[heap.next[n]] = n

(* A descriptor is in the ASL, with the key of a semaphore no other one    *)
(* has and at least one waiter, or it is free: the container_of in         *)
(* removeBlocked never takes the head of an empty queue for a PCB, and no  *)
(* descriptor leaks.                                                       *)
DescriptorsExact ==
    LET active == ToSet(asl)
    IN /\ active \cap ToSet(list_for_each(heap, semdFree_h)) = {}
       /\ active \cup ToSet(list_for_each(heap, semdFree_h)) = Descs
       /\ \A d \in active : /\ s_key[d] \in Sems
                            /\ ~list_empty(heap, procq(d))
                            /\ \A e \in active : s_key[d] = s_key[e] => d = e

(* What is queued on each descriptor, and on a semaphore.                  *)
s_procq == [d \in Descs |-> list_for_each(heap, procq(d))]
waiters(s) == IF matches(s) = {} THEN <<>> ELSE s_procq[found(s)]

Queues == INSTANCE QueueSpec WITH
    MaxActive <- Cardinality(Descs),
    pcbFree <- list_for_each(heap, pcbFree_h),
    readyQueue <- list_for_each(heap, readyQueue),
    semd <- [s \in Sems |-> waiters(s)]

(* The pointer manipulations of pcb.c and asl.c implement the sequences    *)
(* that Nucleus works with: read as what list_for_each visits, every call  *)
(* is the operation of QueueSpec and touches no other queue.               *)
ImplementsQueues == Queues!Spec
=============================================================================
