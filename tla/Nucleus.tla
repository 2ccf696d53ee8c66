------------------------------ MODULE Nucleus ------------------------------
(***************************************************************************)
(* The PandOSsh Nucleus: process table, Active Semaphore List, scheduler,  *)
(* Nucleus system calls and interrupt handlers (phase1/, phase2/).         *)
(*                                                                         *)
(* The kernel runs on one CPU with interrupts disabled, so a handler is    *)
(* one action that ends with the dispatch() or LDST the code ends with.    *)
(* The two handlers that contain an unbounded loop, terminateProcess and   *)
(* itInterruptHandler, take one step per iteration; cpu names the handler  *)
(* in progress and no other action is enabled until it has finished.       *)
(***************************************************************************)
EXTENDS ProcQueue, FiniteSets

CONSTANTS
    Pcbs,       \* the entries of pcbFree_table (MAXPROC of them)
    NULL,
    UserSems,   \* addresses of semaphores outside the Nucleus
    DevSems,    \* addresses of the device entries of device_semaphores
    ClockSem,   \* &device_semaphores[NSUPPSEM], the pseudo-clock
    Prios,      \* values a process may pass as its priority
    Supports,   \* values of (supportp != NULL) in CREATEPROCESS
    KillAny,    \* TRUE: TERMPROCESS names any pid; FALSE: only the caller or
                \* one of its ancestors, as every program of the repository does
    SharedDev,  \* TRUE: several processes may wait for one device; FALSE: one
                \* at a time, as the mutexes of p2test and phase 3 ensure
    MaxPid,     \* bound on the processes ever created
    MaxSemVal   \* bound on the value of a user semaphore

DeviceSemaphores == DevSems \cup {ClockSem}
Sems == UserSems \cup DeviceSemaphores

ASSUME PcbsAssumption == /\ Pcbs # {} /\ IsFiniteSet(Pcbs)
                         /\ NULL \notin Pcbs /\ NULL \notin Sems
ASSUME SemsAssumption == /\ IsFiniteSet(Sems)
                         /\ UserSems \cap DeviceSemaphores = {}
                         /\ ClockSem \notin DevSems
ASSUME PriosAssumption == /\ Prios \subseteq Int /\ 0 \in Prios
ASSUME FlagsAssumption == /\ Supports \subseteq BOOLEAN /\ Supports # {}
                          /\ KillAny \in BOOLEAN /\ SharedDev \in BOOLEAN
ASSUME BoundsAssumption == /\ MaxPid \in Nat \ {0} /\ MaxSemVal \in Nat

VARIABLES
    pcbFree,          \* the free PCBs (pcbFree_h; its order is abstracted)
    readyQueue,
    semd,             \* s_procq of every semaphore; <<>> when not in the ASL
    semVal,           \* the integer at every semaphore address
    p_semAdd, p_parent, p_child, p_prio, p_pid, p_supportStruct,
    next_pid,
    currProc, processCount, softBlock_count,
    cpu,              \* what the processor is doing, see CpuModes
    term,             \* activations of terminateProcess, innermost first
    doomed,           \* history: the progeny the TERMPROCESS in progress names
    dev               \* external: state of every device

pcbVars == <<p_parent, p_child, p_prio, p_pid, p_supportStruct, next_pid>>
termVars == <<term, doomed>>
vars == <<pcbFree, readyQueue, semd, semVal, p_semAdd, pcbVars, currProc,
          processCount, softBlock_count, cpu, termVars, dev>>

(***************************************************************************)
(* "run" a process executes; "wait" dispatch() sits in WAIT; "halt" and    *)
(* "panic" the machine has stopped; "tick" and "term" the loops of         *)
(* itInterruptHandler and terminateProcess; "corrupt" freePcb has relinked *)
(* a PCB that was still on readyQueue: the two circular lists are spliced  *)
(* and nothing the kernel does from there on is defined by these modules.  *)
(***************************************************************************)
CpuModes == {"run", "wait", "halt", "panic", "tick", "term", "corrupt"}
Interruptible == cpu \in {"run", "wait"}

MAXPROC == Cardinality(Pcbs)
Live == Pcbs \ pcbFree
isDeviceSemaphore(s) == s \in DeviceSemaphores
ActiveSems == {s \in Sems : semd[s] # <<>>}
BlockedOn(s) == ToSet(semd[s])
Blocked == {p \in Pcbs : \E s \in Sems : p \in BlockedOn(s)}
SoftBlocked == {p \in Pcbs : \E s \in DeviceSemaphores : p \in BlockedOn(s)}

(* root and everything below it: the least set closed under p_child.       *)
searchInTree(root) ==
    {p \in Pcbs : \A S \in SUBSET Pcbs :
        (root \in S /\ \A q \in S : p_child[q] \subseteq S) => p \in S}

(* The PCBs findPcbByPid looks at, in its order: the tree of currProc, the *)
(* trees of the ready processes, the queues of the ASL.                    *)
findPcbByPid(pid) ==
    {p \in searchInTree(currProc)
           \cup (UNION {searchInTree(r) : r \in ToSet(readyQueue)})
           \cup Blocked : p_pid[p] = pid}
-----------------------------------------------------------------------------
(***************************************************************************)
(* scheduler.c.  The arguments are the values the callers have assigned to *)
(* readyQueue, processCount, softBlock_count and currProc.                 *)
(***************************************************************************)
(* Mutants: deadlock is assumed before I/O in progress is considered, and  *)
(* softBlock_count is tested with >= .                                     *)
idleModePanicFirst(count, soft) == IF count = 0 THEN "halt" ELSE "panic"
idleModeNonNegative(count, soft) ==
    CASE count = 0 -> "halt"
      [] count # 0 /\ soft >= 0 -> "wait"
      [] OTHER -> "panic"

(* The loop of dispatch() when the ready queue is empty.                   *)
idleMode(count, soft) ==
    CASE count = 0 -> "halt"
      [] count # 0 /\ soft > 0 -> "wait"
      [] OTHER -> "panic"

dispatch(rq, count, soft, cur) ==
    \/ /\ rq # <<>>
       /\ currProc' = Head(rq)
       /\ readyQueue' = Tail(rq)
       /\ cpu' = "run"
    \/ /\ rq = <<>>
       /\ currProc' = cur
       /\ readyQueue' = rq
       /\ cpu' = idleMode(count, soft)

(***************************************************************************)
(* asl.c.  A semaphore is in the ASL while its queue is not empty; the     *)
(* MAXPROC descriptors bound how many can be.  insertBlocked returns TRUE  *)
(* and does nothing when none is left, and its callers ignore the result.  *)
(***************************************************************************)
(* Mutant: a table with one descriptor less than there are PCBs.           *)
semdAvailableShort(s) ==
    s \in ActiveSems \/ Cardinality(ActiveSems) < MAXPROC - 1

semdAvailable(s) == s \in ActiveSems \/ Cardinality(ActiveSems) < MAXPROC

(* Mutant: the newcomer is linked at the head of the queue.                *)
insertBlockedFirst(s, p) ==
    /\ semd' = IF semdAvailable(s) THEN [semd EXCEPT ![s] = Cons(p, @)]
                                   ELSE semd
    /\ p_semAdd' = IF semdAvailable(s) THEN [p_semAdd EXCEPT ![p] = s]
                                       ELSE p_semAdd

insertBlocked(s, p) ==
    /\ semd' = IF semdAvailable(s) THEN [semd EXCEPT ![s] = Append(@, p)]
                                   ELSE semd
    /\ p_semAdd' = IF semdAvailable(s) THEN [p_semAdd EXCEPT ![p] = s]
                                       ELSE p_semAdd

(* removeBlocked takes the first waiter off s and leaves its p_semAdd.     *)
removeBlocked(s) == /\ semd[s] # <<>>
                    /\ semd' = [semd EXCEPT ![s] = Tail(@)]
                    /\ UNCHANGED p_semAdd

(* The ASL when outBlocked has taken p off the queue of its p_semAdd; if p *)
(* is not on it, as when p_semAdd is stale, nothing changes.               *)
outBlocked(p) == [semd EXCEPT ![p_semAdd[p]] = RemoveFirst(@, p)]

(* insertBlocked(s, currProc); currProc = NULL; dispatch().                *)
block(s, soft) ==
    /\ insertBlocked(s, currProc)
    /\ softBlock_count' = soft
    /\ dispatch(readyQueue, processCount, soft, NULL)
-----------------------------------------------------------------------------
(***************************************************************************)
(* syscall.c.  A process in execution issues one Nucleus system call.      *)
(***************************************************************************)
(* Mutant: the pid counter is not advanced.                                *)
initPcbSamePid(n, prio, support) ==
    /\ p_pid' = [p_pid EXCEPT ![n] = next_pid]
    /\ p_prio' = [p_prio EXCEPT ![n] = prio]
    /\ p_supportStruct' = [p_supportStruct EXCEPT ![n] = support]
    /\ p_semAdd' = [p_semAdd EXCEPT ![n] = NULL]
    /\ UNCHANGED next_pid

(* initPcb, and the fields nsys1 sets right after it.                      *)
initPcb(n, prio, support) ==
    /\ p_pid' = [p_pid EXCEPT ![n] = next_pid]
    /\ next_pid' = next_pid + 1
    /\ p_prio' = [p_prio EXCEPT ![n] = prio]
    /\ p_supportStruct' = [p_supportStruct EXCEPT ![n] = support]
    /\ p_semAdd' = [p_semAdd EXCEPT ![n] = NULL]

(* insertChild(currProc, n); initPcb has emptied n's own list.             *)
insertChild(n) ==
    /\ p_parent' = [p_parent EXCEPT ![n] = currProc]
    /\ p_child' = [p_child EXCEPT ![n] = {}, ![currProc] = @ \cup {n}]

(* NSYS1 CreateProcess.  NOPROC (no free PCB) changes only the caller's a0 *)
nsys1(prio, support) ==
    /\ cpu = "run" /\ next_pid <= MaxPid
    /\ \/ \E n \in pcbFree :
            /\ pcbFree' = pcbFree \ {n}
            /\ initPcb(n, prio, support)
            /\ insertChild(n)
            /\ readyQueue' = insertProcQ(readyQueue, [p_prio EXCEPT ![n] = prio], n)
            /\ processCount' = processCount + 1
       \/ /\ pcbFree = {}
          /\ UNCHANGED <<pcbFree, pcbVars, p_semAdd, readyQueue, processCount>>
    /\ UNCHANGED <<semd, semVal, currProc, softBlock_count, cpu, termVars, dev>>

(* terminateProcess(p) is called.                                          *)
callTerminate(p) ==
    /\ cpu' = "term"
    /\ term' = <<p>>
    /\ doomed' = searchInTree(p)
    /\ UNCHANGED <<pcbFree, readyQueue, semd, semVal, p_semAdd, pcbVars,
                   currProc, processCount, softBlock_count, dev>>

(* NSYS2 TerminateProcess: pid 0 is the caller; an unknown pid returns     *)
(* NOPROC.  dispatch() follows when terminateProcess returns.              *)
nsys2(pid) ==
    /\ cpu = "run"
    /\ \/ pid = 0 /\ callTerminate(currProc)
       \/ /\ pid # 0
          /\ \E p \in findPcbByPid(pid) :
               /\ KillAny \/ currProc \in searchInTree(p)
               /\ callTerminate(p)
       \/ /\ pid # 0 /\ findPcbByPid(pid) = {}
          /\ UNCHANGED vars

(* One iteration of the loop of terminateProcess: removeChild and the      *)
(* recursive call on the child.                                            *)
terminateChild ==
    /\ cpu = "term"
    /\ \E c \in p_child[Head(term)] :
         /\ p_child' = [p_child EXCEPT ![Head(term)] = @ \ {c}]
         /\ p_parent' = [p_parent EXCEPT ![c] = NULL]
         /\ term' = Cons(c, term)
    /\ UNCHANGED <<pcbFree, readyQueue, semd, semVal, p_semAdd, p_prio, p_pid,
                   p_supportStruct, next_pid, currProc, processCount,
                   softBlock_count, cpu, doomed, dev>>

(* Mutants: the loop over the children is skipped; the test for a blocked  *)
(* process is made before the test for the running one; the child list of  *)
(* the parent keeps the freed PCB.                                         *)
emptyChildAlways(p) == TRUE
onSemaphoreFirst(p) == p_semAdd[p] # NULL
outChildKeepsLink(p) ==
    /\ p_parent' = [p_parent EXCEPT ![p] = NULL]
    /\ UNCHANGED p_child

emptyChild(p) == p_child[p] = {}

(* The second branch of terminateProcess: p counts as blocked.             *)
onSemaphore(p) == p # currProc /\ p_semAdd[p] # NULL

(* outChild.                                                               *)
outChild(p) ==
    /\ p_parent' = [p_parent EXCEPT ![p] = NULL]
    /\ p_child' = IF p_parent[p] = NULL THEN p_child
                  ELSE [p_child EXCEPT ![p_parent[p]] = @ \ {p}]

(* The rest of terminateProcess, for a PCB without children: leave the     *)
(* CPU, the semaphore queue or the ready queue, leave the parent, free.    *)
terminateSelf ==
    /\ cpu = "term"
    /\ LET p == Head(term)
           cur == IF p = currProc THEN NULL ELSE currProc
           rq == IF p = currProc \/ onSemaphore(p) THEN readyQueue
                 ELSE outProcQ(readyQueue, p)
           soft == IF onSemaphore(p) /\ isDeviceSemaphore(p_semAdd[p])
                   THEN softBlock_count - 1 ELSE softBlock_count
       IN /\ emptyChild(p)
          /\ semd' = IF onSemaphore(p) THEN outBlocked(p) ELSE semd
          /\ softBlock_count' = soft
          /\ outChild(p)
          /\ processCount' = processCount - 1
          /\ pcbFree' = pcbFree \cup {p}
          /\ term' = Tail(term)
          /\ IF p \in ToSet(rq)
             THEN /\ cpu' = "corrupt"
                  /\ currProc' = cur
                  /\ readyQueue' = rq
                  /\ UNCHANGED doomed
             ELSE \/ /\ Tail(term) # <<>>
                     /\ currProc' = cur
                     /\ readyQueue' = rq
                     /\ UNCHANGED <<cpu, doomed>>
                  \/ /\ Tail(term) = <<>>
                     /\ doomed' = {}
                     /\ dispatch(rq, processCount - 1, soft, cur)
    /\ UNCHANGED <<semVal, p_semAdd, p_prio, p_pid, p_supportStruct, next_pid,
                   dev>>

(* Mutants: comparisons one off in either direction.                       *)
availableAtZero(s) == semVal[s] >= 0
availableAboveOne(s) == semVal[s] > 1

available(s) == semVal[s] > 0

(* NSYS3 Passeren.                                                         *)
nsys3(s) ==
    /\ cpu = "run"
    /\ \/ /\ available(s)
          /\ semVal' = [semVal EXCEPT ![s] = @ - 1]
          /\ UNCHANGED <<semd, p_semAdd, currProc, readyQueue, cpu,
                         softBlock_count>>
       \/ /\ ~available(s)
          /\ block(s, softBlock_count)
          /\ UNCHANGED semVal
    /\ UNCHANGED <<pcbFree, pcbVars, processCount, termVars, dev>>

(* NSYS4 Verhogen.                                                         *)
nsys4(s) ==
    /\ cpu = "run"
    /\ \/ /\ removeBlocked(s)
          /\ readyQueue' = insertProcQ(readyQueue, p_prio, Head(semd[s]))
          /\ UNCHANGED semVal
       \/ /\ semd[s] = <<>>
          /\ semVal[s] < MaxSemVal
          /\ semVal' = [semVal EXCEPT ![s] = @ + 1]
          /\ UNCHANGED <<semd, p_semAdd, readyQueue>>
    /\ UNCHANGED <<pcbFree, pcbVars, currProc, processCount, softBlock_count,
                   cpu, termVars, dev>>

(* NSYS5 DoIO: the command write starts the device.                        *)
nsys5(d) ==
    /\ cpu = "run"
    /\ SharedDev \/ semd[d] = <<>>
    /\ block(d, softBlock_count + 1)
    /\ dev' = [dev EXCEPT ![d] = "busy"]
    /\ UNCHANGED <<pcbFree, semVal, pcbVars, processCount, termVars>>

(* Mutant: softBlock_count is not incremented.                             *)
nsys7NotCounted ==
    /\ cpu = "run"
    /\ block(ClockSem, softBlock_count)
    /\ UNCHANGED <<pcbFree, semVal, pcbVars, processCount, termVars, dev>>

(* NSYS7 WaitForClock.                                                     *)
nsys7 ==
    /\ cpu = "run"
    /\ block(ClockSem, softBlock_count + 1)
    /\ UNCHANGED <<pcbFree, semVal, pcbVars, processCount, termVars, dev>>

(* Mutant: the old head is removed and not put back.                       *)
yieldQueueDropsHead(q, p) ==
    insertProcQ(IF q = <<>> THEN q ELSE Tail(q), p_prio, p)

(* The ready queue Yield leaves: the old head is put back in front of the  *)
(* caller, whatever their priorities.                                      *)
yieldQueue(q, p) ==
    IF q = <<>> THEN insertProcQ(q, p_prio, p)
    ELSE Cons(Head(q), insertProcQ(Tail(q), p_prio, p))

(* NSYS10 Yield.                                                           *)
nsys10 ==
    /\ cpu = "run"
    /\ dispatch(yieldQueue(readyQueue, currProc), processCount,
                softBlock_count, NULL)
    /\ UNCHANGED <<pcbFree, semd, semVal, p_semAdd, pcbVars, processCount,
                   softBlock_count, termVars, dev>>

(* exceptions.c: a TLB exception, a trap or a call the Nucleus does not    *)
(* serve kills a process without a support structure; otherwise control    *)
(* passes to the support level and no Nucleus state changes.               *)
passUpOrDie ==
    /\ cpu = "run"
    /\ \/ ~p_supportStruct[currProc] /\ callTerminate(currProc)
       \/ p_supportStruct[currProc] /\ UNCHANGED vars
-----------------------------------------------------------------------------
(***************************************************************************)
(* interrupts.c.  Interrupts are taken while a process runs or in WAIT;    *)
(* dispatch() masks the processor local timer before it waits.             *)
(***************************************************************************)
pltInterruptHandler ==
    /\ cpu = "run"
    /\ dispatch(insertProcQ(readyQueue, p_prio, currProc), processCount,
                softBlock_count, currProc)
    /\ UNCHANGED <<pcbFree, semd, semVal, p_semAdd, pcbVars, processCount,
                   softBlock_count, termVars, dev>>

(* One step per waiter of the pseudo-clock; the last step resets the       *)
(* semaphore, re-queues the interrupted process and dispatches.            *)
itInterruptHandler ==
    /\ Interruptible \/ cpu = "tick"
    /\ \/ /\ removeBlocked(ClockSem)
          /\ readyQueue' = insertProcQ(readyQueue, p_prio, Head(semd[ClockSem]))
          /\ softBlock_count' = softBlock_count - 1
          /\ cpu' = "tick"
          /\ UNCHANGED <<semVal, currProc>>
       \/ /\ semd[ClockSem] = <<>>
          /\ semVal' = [semVal EXCEPT ![ClockSem] = 0]
          /\ dispatch(IF currProc = NULL THEN readyQueue
                      ELSE insertProcQ(readyQueue, p_prio, currProc),
                      processCount, softBlock_count, currProc)
          /\ UNCHANGED <<semd, p_semAdd, softBlock_count>>
    /\ UNCHANGED <<pcbFree, pcbVars, processCount, termVars, dev>>

(* External: the device finishes its command, whatever the CPU is doing,   *)
(* and raises its interrupt.                                               *)
deviceDone(d) ==
    /\ dev[d] = "busy"
    /\ dev' = [dev EXCEPT ![d] = "done"]
    /\ UNCHANGED <<pcbFree, readyQueue, semd, semVal, p_semAdd, pcbVars,
                   currProc, processCount, softBlock_count, cpu, termVars>>

(* ACK, wake the first waiter or count the V, then LDST(currProc) or       *)
(* dispatch().  An LDST that returns into WAIT re-enters dispatch()'s loop.*)
deviceInterruptHandler(d) ==
    /\ Interruptible
    /\ dev[d] = "done"
    /\ dev' = [dev EXCEPT ![d] = "ready"]
    /\ LET woken == semd[d] # <<>>
           rq == IF woken THEN insertProcQ(readyQueue, p_prio, Head(semd[d]))
                 ELSE readyQueue
           soft == IF woken THEN softBlock_count - 1 ELSE softBlock_count
       IN /\ \/ removeBlocked(d) /\ UNCHANGED semVal
             \/ /\ ~woken
                /\ semVal' = [semVal EXCEPT ![d] = @ + 1]
                /\ UNCHANGED <<semd, p_semAdd>>
          /\ softBlock_count' = soft
          /\ \/ /\ cpu = "run"
                /\ readyQueue' = rq
                /\ UNCHANGED <<currProc, cpu>>
             \/ /\ cpu = "wait"
                /\ dispatch(rq, processCount, soft, currProc)
    /\ UNCHANGED <<pcbFree, pcbVars, processCount, termVars>>
-----------------------------------------------------------------------------
(* initPcbs, then allocFirstPcb: pid 1, no parent, the priority 0 and the  *)
(* NULL support structure that initPcb leaves.                             *)
allocFirstPcb(first) ==
    /\ pcbFree = Pcbs \ {first}
    /\ p_semAdd = [p \in Pcbs |-> NULL]
    /\ p_parent = [p \in Pcbs |-> NULL]
    /\ p_child = [p \in Pcbs |-> {}]
    /\ p_prio = [p \in Pcbs |-> 0]
    /\ p_pid = [p \in Pcbs |-> IF p = first THEN 1 ELSE 0]
    /\ p_supportStruct = [p \in Pcbs |-> FALSE]
    /\ next_pid = 2

initASL == semd = [s \in Sems |-> <<>>]

(* main() up to its dispatch(), which runs test() in the first PCB.  User  *)
(* semaphores hold what their owners initialise them to.                   *)
Init ==
    \E first \in Pcbs :
        /\ allocFirstPcb(first)
        /\ initASL
        /\ readyQueue = <<>>
        /\ semVal \in {v \in [Sems -> {0, 1}] :
                         /\ \A s \in DeviceSemaphores : v[s] = 0
                         /\ \A s \in UserSems : v[s] <= MaxSemVal}
        /\ currProc = first
        /\ processCount = 1
        /\ softBlock_count = 0
        /\ cpu = "run"
        /\ term = <<>>
        /\ doomed = {}
        /\ dev = [d \in DevSems |-> "ready"]

(* syscallHandler and exceptionHandler: what a running process may ask for *)
syscallHandler ==
    \/ \E prio \in Prios, support \in Supports : nsys1(prio, support)
    \/ \E pid \in 0..MaxPid : nsys2(pid)
    \/ \E s \in UserSems : nsys3(s) \/ nsys4(s)
    \/ \E d \in DevSems : nsys5(d)
    \/ nsys7
    \/ nsys10

terminateProcess == terminateChild \/ terminateSelf

interruptHandler ==
    \/ pltInterruptHandler
    \/ itInterruptHandler
    \/ \E d \in DevSems : deviceInterruptHandler(d)

Next ==
    \/ syscallHandler
    \/ passUpOrDie
    \/ terminateProcess
    \/ interruptHandler
    \/ \E d \in DevSems : deviceDone(d)

Spec == Init /\ [][Next]_vars

(***************************************************************************)
(* A process that keeps the CPU exhausts its time slice (the timer is      *)
(* reloaded by every dispatch, so nothing is asked of a CPU that changes   *)
(* hands); a pending interrupt stays pending until it is acknowledged, so  *)
(* it is taken if it could be infinitely often; the interval timer is      *)
(* periodic; handlers in progress and devices go on.                       *)
(***************************************************************************)
Fairness ==
    /\ \A p \in Pcbs : WF_vars(currProc = p /\ pltInterruptHandler)
    /\ SF_vars(itInterruptHandler)
    /\ WF_vars(terminateProcess)
    /\ \A d \in DevSems : WF_vars(deviceDone(d)) /\ SF_vars(deviceInterruptHandler(d))

FairSpec == Spec /\ Fairness
-----------------------------------------------------------------------------
(* Every variable holds a value of its C type; pids and counters are       *)
(* natural numbers.                                                        *)
TypeOK ==
    /\ pcbFree \subseteq Pcbs
    /\ readyQueue \in Seq(Pcbs)
    /\ semd \in [Sems -> Seq(Pcbs)]
    /\ semVal \in [Sems -> Nat]
    /\ p_semAdd \in [Pcbs -> Sems \cup {NULL}]
    /\ p_parent \in [Pcbs -> Pcbs \cup {NULL}]
    /\ p_child \in [Pcbs -> SUBSET Pcbs]
    /\ p_prio \in [Pcbs -> Prios]
    /\ p_pid \in [Pcbs -> Nat]
    /\ p_supportStruct \in [Pcbs -> BOOLEAN]
    /\ next_pid \in Nat
    /\ currProc \in Pcbs \cup {NULL}
    /\ processCount \in Int
    /\ softBlock_count \in Int
    /\ cpu \in CpuModes
    /\ term \in Seq(Pcbs) /\ (cpu = "term" => term # <<>>)
    /\ doomed \subseteq Pcbs
    /\ dev \in [DevSems -> {"ready", "busy", "done"}]

Intact == cpu # "corrupt"

(***************************************************************************)
(* Every PCB is in exactly one place: free, running, once on the ready     *)
(* queue or once on the queue of one semaphore.  A process in no place is  *)
(* never scheduled again; one in two places corrupts the lists, since it   *)
(* has a single p_list link (pcb.c, asl.c, every handler that queues).     *)
(***************************************************************************)
OnePlace ==
    Intact =>
    /\ Live = ToSet(readyQueue) \cup Blocked \cup ({currProc} \ {NULL})
    /\ ToSet(readyQueue) \cap Blocked = {}
    /\ currProc \notin ToSet(readyQueue) \cup Blocked
    /\ \A s, t \in Sems : s # t => BlockedOn(s) \cap BlockedOn(t) = {}
    /\ IsInjective(readyQueue)
    /\ \A s \in Sems : IsInjective(semd[s])

(* processCount counts the processes that exist and softBlock_count those  *)
(* that wait for a device or the clock, through blocking, wake-up and the  *)
(* termination of a process in any state: dispatch() decides between HALT, *)
(* WAIT and PANIC by them.                                                 *)
CountsExact ==
    Intact => /\ processCount = Cardinality(Live)
              /\ softBlock_count = Cardinality(SoftBlocked)

(* dispatch() halts only when no process is left, waits only when a device *)
(* or the clock will wake somebody, and panics only on a true deadlock:    *)
(* every process waits for a V that only one of them could issue.          *)
StopsRightly ==
    /\ cpu = "halt" => pcbFree = Pcbs
    /\ cpu = "wait" => SoftBlocked # {}
    /\ cpu = "panic" => /\ Live # {}
                        /\ Live \subseteq Blocked \ SoftBlocked

(* A user semaphore never has both a positive value and a waiter (nsys3,   *)
(* nsys4, and the removal of waiters by terminateProcess).                 *)
NoWaiterOnOpenSemaphore ==
    \A s \in UserSems : semVal[s] > 0 => semd[s] = <<>>

(* The ASL has a descriptor for whoever blocks next: insertBlocked, whose  *)
(* failure nsys3, nsys5 and nsys7 ignore, never fails.                     *)
AslNeverFull == cpu = "run" => \A s \in Sems : semdAvailable(s)

(* readyQueue is in decreasing priority order whenever dispatch() may read *)
(* it, also after Yield put an old head in front of its betters.           *)
ReadySorted ==
    \A i, j \in 1..Len(readyQueue) :
        i < j => p_prio[readyQueue[i]] >= p_prio[readyQueue[j]]

(* The p_parent and p_child links of the living describe one tree whose    *)
(* only root is the first process: nobody outlives its parent.  Children   *)
(* taken off by a termination in progress are on its stack.                *)
TreeConsistent ==
    Intact =>
    /\ \A p \in Live :
         /\ p_parent[p] = NULL => p_pid[p] = 1 \/ p \in ToSet(term)
         /\ p_parent[p] # NULL => /\ p_parent[p] \in Live
                                  /\ p \in p_child[p_parent[p]]
                                  /\ p_pid[p_parent[p]] < p_pid[p]
         /\ \A c \in p_child[p] : c \in Live /\ p_parent[c] = p
    /\ \A p \in pcbFree : p_child[p] = {}

(* Two living processes never share a pid, so TERMPROCESS(pid) reaches at  *)
(* most one process (initPcb, findPcbByPid).                               *)
PidsDistinct ==
    \A p, q \in Live : p_pid[p] = p_pid[q] => p = q

(* TERMPROCESS frees the named process and its whole progeny and nobody    *)
(* else before it dispatches, in whatever order terminateProcess recurses. *)
TerminateExact ==
    [][cpu = "term" =>
         /\ pcbFree' \ pcbFree \subseteq doomed
         /\ cpu' \notin {"term", "corrupt"} => doomed \subseteq pcbFree']_vars
-----------------------------------------------------------------------------
(* A process that waits for the clock does not wait for ever: the tick     *)
(* wakes it (or somebody terminates it).                                   *)
ClockWakes ==
    \A p \in Pcbs : p \in BlockedOn(ClockSem) ~>
                       p \notin BlockedOn(ClockSem) \/ ~Intact

(* A process that issued DoIO is woken by the device interrupt.            *)
DoioWakes ==
    \A p \in Pcbs, d \in DevSems :
        p \in BlockedOn(d) ~> p \notin BlockedOn(d) \/ ~Intact

HighestPrio(p) == \A prio \in Prios : p_prio[p] >= prio

(* Round robin: a ready process of the highest priority gets the CPU (or   *)
(* is terminated), whatever the other processes do.                        *)
TopPriorityRuns ==
    \A p \in Pcbs : p \in ToSet(readyQueue) /\ HighestPrio(p) ~>
                       p \notin ToSet(readyQueue) \/ ~Intact

(* Every living process can still run: it is on the CPU, on the ready      *)
(* queue or on the queue of a semaphore (nsys2 followed by dispatch).      *)
NobodyLost ==
    Intact => Live \subseteq
        ToSet(readyQueue) \cup Blocked
        \cup (IF cpu \in {"run", "tick", "term"} THEN {currProc} ELSE {})

(* A PCB that terminateProcess frees has left the ready queue.             *)
FreedLeavesReadyQueue == pcbFree \cap ToSet(readyQueue) = {}
-----------------------------------------------------------------------------
Semaphores == INSTANCE SemaphoreSpec WITH
    Proc <- Pcbs, Sem <- Sems, Sync <- DeviceSemaphores,
    value <- semVal, queue <- semd

(* The Nucleus implements the semaphores its callers rely on: every step   *)
(* of every handler (nsys2 to nsys7, the interrupt handlers) is one P, V,  *)
(* wake-up or termination of SemaphoreSpec, or does not touch them.        *)
ImplementsSemaphores == Semaphores!Spec
=============================================================================
