----------------------------- MODULE QueueSpec -----------------------------
(***************************************************************************)
(* What phase 1 promises about PCBs and queues: sequences, as Nucleus uses *)
(* them.  held are the PCBs the caller has in hand, on no queue.           *)
(***************************************************************************)
EXTENDS ProcQueue, FiniteSets

CONSTANTS Pcbs, NULL, Sems, Prios,
          MaxActive  \* how many semaphores may have waiters at a time

VARIABLES pcbFree, readyQueue, semd, p_semAdd, p_prio, held

qvars == <<pcbFree, readyQueue, semd, p_semAdd, p_prio, held>>

Active == {s \in Sems : semd[s] # <<>>}

(* A PCB is taken from the free ones and gets a priority; its semaphore is *)
(* forgotten.                                                              *)
Alloc(prio) ==
    /\ pcbFree # <<>>
    /\ pcbFree' = Tail(pcbFree)
    /\ held' = held \cup {Head(pcbFree)}
    /\ p_prio' = [p_prio EXCEPT ![Head(pcbFree)] = prio]
    /\ p_semAdd' = [p_semAdd EXCEPT ![Head(pcbFree)] = NULL]
    /\ UNCHANGED <<readyQueue, semd>>

Free(p) ==
    /\ p \in held
    /\ pcbFree' = Cons(p, pcbFree)
    /\ held' = held \ {p}
    /\ UNCHANGED <<readyQueue, semd, p_semAdd, p_prio>>

(* The ready queue is ordered by priority and first come, first served.    *)
Enqueue(p) ==
    /\ p \in held
    /\ readyQueue' = insertProcQ(readyQueue, p_prio, p)
    /\ held' = held \ {p}
    /\ UNCHANGED <<pcbFree, semd, p_semAdd, p_prio>>

Dequeue ==
    /\ readyQueue # <<>>
    /\ readyQueue' = Tail(readyQueue)
    /\ held' = held \cup {Head(readyQueue)}
    /\ UNCHANGED <<pcbFree, semd, p_semAdd, p_prio>>

Extract(p) ==
    /\ p \in ToSet(readyQueue)
    /\ readyQueue' = outProcQ(readyQueue, p)
    /\ held' = held \cup {p}
    /\ UNCHANGED <<pcbFree, semd, p_semAdd, p_prio>>

(* The queues of semaphores are first come, first served.                  *)
Block(s, p) ==
    /\ p \in held
    /\ s \in Active \/ Cardinality(Active) < MaxActive
    /\ semd' = [semd EXCEPT ![s] = Append(@, p)]
    /\ p_semAdd' = [p_semAdd EXCEPT ![p] = s]
    /\ held' = held \ {p}
    /\ UNCHANGED <<pcbFree, readyQueue, p_prio>>

Unblock(s) ==
    /\ semd[s] # <<>>
    /\ semd' = [semd EXCEPT ![s] = Tail(@)]
    /\ held' = held \cup {Head(semd[s])}
    /\ UNCHANGED <<pcbFree, readyQueue, p_semAdd, p_prio>>

Withdraw(p) ==
    /\ \E s \in Sems :
         /\ p \in ToSet(semd[s])
         /\ semd' = [semd EXCEPT ![s] = outProcQ(@, p)]
    /\ held' = held \cup {p}
    /\ UNCHANGED <<pcbFree, readyQueue, p_semAdd, p_prio>>

Init ==
    /\ pcbFree \in {q \in [1..Cardinality(Pcbs) -> Pcbs] : IsInjective(q)}
    /\ readyQueue = <<>>
    /\ semd = [s \in Sems |-> <<>>]
    /\ p_semAdd = [p \in Pcbs |-> NULL]
    /\ p_prio \in [Pcbs -> Prios]
    /\ held = {}

Next ==
    \/ \E prio \in Prios : Alloc(prio)
    \/ \E p \in Pcbs : Free(p) \/ Enqueue(p) \/ Extract(p) \/ Withdraw(p)
    \/ Dequeue
    \/ \E s \in Sems : Unblock(s) \/ \E p \in Pcbs : Block(s, p)

Spec == Init /\ [][Next]_qvars
=============================================================================
