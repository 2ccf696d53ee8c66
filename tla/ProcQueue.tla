----------------------------- MODULE ProcQueue -----------------------------
(***************************************************************************)
(* The process queues of phase1/pcb.c as sequences of PCBs: a circular     *)
(* list_head with its sentinel is the sequence of the PCBs linked on it,   *)
(* in the order list_for_each visits them.  prio is the p_prio field.      *)
(***************************************************************************)
EXTENDS Integers, Sequences, SequencesExt

(***************************************************************************)
(* Where the list_for_each of insertProcQ stops: at the first PCB of lower *)
(* priority, or back at the sentinel when there is none.                   *)
(***************************************************************************)
insertPoint(q, prio, p) ==
    Min({i \in 1..Len(q) : prio[q[i]] < prio[p]} \cup {Len(q) + 1})

(* Mutants of insertProcQ: insertion behind curr instead of before it, and *)
(* a queue that ignores priorities and puts the newcomer first.            *)
insertProcQAfterPoint(q, prio, p) ==
    IF q = <<>> THEN <<p>>
    ELSE InsertAt(q, Min({insertPoint(q, prio, p) + 1, Len(q) + 1}), p)
insertProcQFirst(q, prio, p) == Cons(p, q)

(* insertProcQ: list_add(p, curr->prev) links p just before that point.    *)
insertProcQ(q, prio, p) == InsertAt(q, insertPoint(q, prio, p), p)

(* outProcQ: p leaves the queue from any position; nothing if it is absent *)
outProcQ(q, p) == RemoveFirst(q, p)

(* The place of i among the positions K.                                   *)
Rank(K, i) == Cardinality({j \in K : j <= i})

(* A queue that all members of D have left, by outProcQ or outBlocked of   *)
(* one after the other: the rest stay in their order.  This is SelectSeq,  *)
(* about which TLAPS knows nothing, without recursion.                     *)
Without(q, D) ==
    LET kept == {i \in 1..Len(q) : q[i] \notin D}
    IN [k \in 1..Cardinality(kept) |-> q[CHOOSE i \in kept : Rank(kept, i) = k]]
=============================================================================
