--------------------------- MODULE SemaphoreSpec ---------------------------
(***************************************************************************)
(* What the Nucleus promises about semaphores, whatever implements them: a *)
(* value and a first-come-first-served queue each.  A V wakes the process  *)
(* that has waited longest, or is counted; nobody is woken by anything     *)
(* else, nobody overtakes and a process waits for one semaphore at a time. *)
(* Processes may leave all queues without being woken (Leave): it is how a *)
(* termination looks from here, where nothing tells who is alive, so when  *)
(* they may is up to the specification that implements this one.           *)
(***************************************************************************)
EXTENDS ProcQueue

CONSTANTS
    Proc,
    Sem,
    Sync    \* synchronising semaphores (devices, clock): a request always
            \* waits for the next V, whatever the value

VARIABLES value, queue

svars == <<value, queue>>

Waits(p, s) == p \in ToSet(queue[s])

(* P on a semaphore that is open.                                          *)
Pass(s) ==
    /\ s \notin Sync
    /\ value[s] > 0
    /\ value' = [value EXCEPT ![s] = @ - 1]
    /\ UNCHANGED queue

(* P on one that is closed, or a request to a synchronising one.           *)
Wait(p, s) ==
    /\ s \in Sync \/ value[s] = 0
    /\ \A t \in Sem : ~Waits(p, t)
    /\ queue' = [queue EXCEPT ![s] = Append(@, p)]
    /\ UNCHANGED value

(* V.                                                                      *)
Wake(s) ==
    /\ queue[s] # <<>>
    /\ queue' = [queue EXCEPT ![s] = Tail(@)]
    /\ UNCHANGED value

Count(s) ==
    /\ queue[s] = <<>>
    /\ value' = [value EXCEPT ![s] = @ + 1]
    /\ UNCHANGED queue

(* Once a tick has woken everybody, what was counted is forgotten.         *)
Forget(s) ==
    /\ s \in Sync
    /\ queue[s] = <<>>
    /\ value' = [value EXCEPT ![s] = 0]
    /\ UNCHANGED queue

(* The processes D are terminated, which is always possible.               *)
Leave(D) ==
    /\ queue' = [s \in Sem |-> Without(queue[s], D)]
    /\ UNCHANGED value

Init ==
    /\ value \in [Sem -> {0, 1}]
    /\ queue = [s \in Sem |-> <<>>]

Next ==
    \/ \E s \in Sem : Pass(s) \/ Wake(s) \/ Count(s) \/ Forget(s)
    \/ \E s \in Sem, p \in Proc : Wait(p, s)
    \/ \E D \in SUBSET Proc : Leave(D)

Spec == Init /\ [][Next]_svars
=============================================================================
