--------------------------- MODULE NucleusProofs ---------------------------
(***************************************************************************)
(* Theorems about the Nucleus for every number of PCBs, every set of       *)
(* semaphores, priorities and support values and every bound: types; the   *)
(* place of every process; the order of the ready queue, the values of     *)
(* semaphores and their refinement of SemaphoreSpec.                       *)
(***************************************************************************)
EXTENDS Nucleus, ProcQueueProofs, FiniteSetTheorems

Stopped == {"wait", "halt", "panic"}

(* Whoever runs is a process: pltInterruptHandler dereferences currProc    *)
(* before it tests it.                                                     *)
SomebodyRuns == cpu = "run" => currProc \in Pcbs

TypeInv == TypeOK /\ SomebodyRuns

(* What block() and dispatch() assign, typed.                              *)
SchedType ==
    /\ semd \in [Sems -> Seq(Pcbs)]
    /\ p_semAdd \in [Pcbs -> Sems \cup {NULL}]
    /\ softBlock_count \in Int
    /\ readyQueue \in Seq(Pcbs)
    /\ currProc \in Pcbs \cup {NULL}
    /\ cpu \in Stopped \cup {"run"}
    /\ SomebodyRuns

(* dispatch() leaves a typed state and runs only a member of the queue.    *)
LEMMA DispatchType ==
    ASSUME NEW rq \in Seq(Pcbs), NEW count \in Int, NEW soft \in Int,
           NEW cur \in Pcbs \cup {NULL}, dispatch(rq, count, soft, cur)
    PROVE  /\ readyQueue' \in Seq(Pcbs)
           /\ currProc' \in Pcbs \cup {NULL}
           /\ cpu' \in Stopped \cup {"run"}
           /\ cpu' = "run" => currProc' \in Pcbs
<1>1. CASE rq # <<>>
  <2>1. Head(rq) \in Pcbs /\ Tail(rq) \in Seq(Pcbs)
    BY <1>1, TailOfQueue
  <2>. QED BY <1>1, <2>1 DEF dispatch
<1>2. CASE rq = <<>>
  <2>1. idleMode(count, soft) \in Stopped
    BY DEF idleMode, Stopped
  <2>. QED BY <1>2, <2>1 DEF dispatch, Stopped
<1>. QED BY <1>1, <1>2

(* The new value of a queue that gains a PCB is a queue.                   *)
LEMMA InsertType ==
    ASSUME TypeOK, NEW q \in Seq(Pcbs), NEW p \in Pcbs
    PROVE  insertProcQ(q, p_prio, p) \in Seq(Pcbs)
<1>1. p_prio \in [Pcbs -> Int]
  BY PriosAssumption DEF TypeOK
<1>. QED BY <1>1, InsertProcQ

(* block(): the state of a Nucleus whose running process went to sleep.    *)
LEMMA BlockType ==
    ASSUME TypeInv, cpu = "run", NEW s \in Sems, NEW soft \in Int, block(s, soft)
    PROVE  SchedType'
<1>1. /\ currProc \in Pcbs /\ semd \in [Sems -> Seq(Pcbs)] /\ readyQueue \in Seq(Pcbs)
      /\ p_semAdd \in [Pcbs -> Sems \cup {NULL}] /\ processCount \in Int
  BY DEF TypeInv, TypeOK, SomebodyRuns
<1>2. Append(semd[s], currProc) \in Seq(Pcbs)
  BY <1>1, AppendToQueue
<1>3. semd' \in [Sems -> Seq(Pcbs)] /\ p_semAdd' \in [Pcbs -> Sems \cup {NULL}]
  BY <1>1, <1>2 DEF block, insertBlocked
<1>4. dispatch(readyQueue, processCount, soft, NULL) /\ softBlock_count' = soft
  BY DEF block
<1>. QED BY <1>1, <1>3, <1>4, DispatchType DEF SchedType, SomebodyRuns

LEMMA TypeInit == Init => TypeInv
  BY PcbsAssumption, PriosAssumption
  DEF Init, allocFirstPcb, initASL, TypeInv, TypeOK, SomebodyRuns, CpuModes, DeviceSemaphores, Sems

(* Every action keeps the types.                                           *)
LEMMA TypeStep == TypeInv /\ [Next]_vars => TypeInv'
<1>. SUFFICES ASSUME TypeInv, [Next]_vars PROVE TypeInv'
  OBVIOUS
<1>. USE DEF TypeInv, TypeOK, SomebodyRuns, CpuModes, Stopped
<1>1. ASSUME NEW prio \in Prios, NEW support \in Supports, nsys1(prio, support)
      PROVE  TypeInv'
  <2>1. CASE pcbFree = {} /\ UNCHANGED <<pcbFree, pcbVars, p_semAdd, readyQueue, processCount>>
    BY <1>1, <2>1 DEF nsys1, pcbVars, termVars
  <2>2. ASSUME NEW n \in pcbFree,
               pcbFree' = pcbFree \ {n}, initPcb(n, prio, support),
               insertChild(n),
               readyQueue' = insertProcQ(readyQueue, [p_prio EXCEPT ![n] = prio], n),
               processCount' = processCount + 1
        PROVE  TypeInv'
    <3>1. [p_prio EXCEPT ![n] = prio] \in [Pcbs -> Int]
      BY PriosAssumption
    <3>2. readyQueue' \in Seq(Pcbs)
      BY <2>2, <3>1, InsertProcQ
    <3>3. p_supportStruct' \in [Pcbs -> BOOLEAN]
      BY <2>2, FlagsAssumption DEF initPcb
    <3>4. p_parent' \in [Pcbs -> Pcbs \cup {NULL}]
      BY <2>2 DEF insertChild
    <3>5. p_child' \in [Pcbs -> SUBSET Pcbs]
      BY <2>2 DEF insertChild
    <3>6. /\ p_pid' \in [Pcbs -> Nat] /\ next_pid' \in Nat
          /\ p_prio' \in [Pcbs -> Prios]
          /\ p_semAdd' \in [Pcbs -> Sems \cup {NULL}]
      BY <2>2 DEF initPcb
    <3>. QED
      BY <1>1, <2>2, <3>2, <3>3, <3>4, <3>5, <3>6 DEF nsys1, termVars
  <2>. QED BY <1>1, <2>1, <2>2 DEF nsys1
<1>2. ASSUME NEW p \in Pcbs, callTerminate(p), cpu = "run"
      PROVE  TypeInv'
  BY <1>2 DEF callTerminate, searchInTree, pcbVars
<1>3. ASSUME NEW pid \in 0..MaxPid, nsys2(pid)
      PROVE  TypeInv'
  <2>1. CASE UNCHANGED vars
    BY <2>1 DEF vars, pcbVars, termVars
  <2>2. CASE callTerminate(currProc)
    BY <1>2, <1>3, <2>2 DEF nsys2
  <2>3. ASSUME NEW p \in findPcbByPid(pid), callTerminate(p) PROVE TypeInv'
    <3>1. p \in Pcbs
      BY ToSetSeq DEF findPcbByPid, searchInTree, Blocked
    <3>. QED BY <1>2, <1>3, <2>3, <3>1 DEF nsys2
  <2>. QED BY <1>3, <2>1, <2>2, <2>3 DEF nsys2
<1>4. ASSUME NEW s \in UserSems, nsys3(s)
      PROVE  TypeInv'
  <2>1. s \in Sems
    BY DEF Sems
  <2>2. CASE available(s)
    <3>1. semVal' \in [Sems -> Nat]
      <4>1. semVal[s] \in Nat /\ semVal[s] > 0 /\ semVal[s] - 1 \in Nat
        BY <2>1, <2>2 DEF available
      <4>. QED BY <1>4, <2>2, <4>1 DEF nsys3
    <3>. QED BY <1>4, <2>2, <3>1 DEF nsys3, pcbVars, termVars
  <2>3. CASE ~available(s)
    <3>1. block(s, softBlock_count) /\ cpu = "run"
      BY <1>4, <2>3 DEF nsys3
    <3>2. SchedType'
      BY <2>1, <3>1, BlockType
    <3>. QED BY <1>4, <2>3, <3>2 DEF nsys3, SchedType, pcbVars, termVars
  <2>. QED BY <2>2, <2>3
<1>5. ASSUME NEW s \in UserSems, nsys4(s)
      PROVE  TypeInv'
  <2>1. s \in Sems
    BY DEF Sems
  <2>2. CASE semd[s] = <<>>
    <3>1. semVal' \in [Sems -> Nat]
      <4>1. semVal[s] + 1 \in Nat
        BY <2>1
      <4>. QED BY <1>5, <2>2, <4>1 DEF nsys4, removeBlocked
    <3>. QED BY <1>5, <2>2, <3>1 DEF nsys4, removeBlocked, pcbVars, termVars
  <2>3. CASE semd[s] # <<>>
    <3>1. Head(semd[s]) \in Pcbs /\ Tail(semd[s]) \in Seq(Pcbs)
      BY <2>1, <2>3, TailOfQueue
    <3>2. insertProcQ(readyQueue, p_prio, Head(semd[s])) \in Seq(Pcbs)
      BY <3>1, InsertType
    <3>. QED BY <1>5, <2>1, <2>3, <3>1, <3>2 DEF nsys4, removeBlocked, pcbVars, termVars
  <2>. QED BY <2>2, <2>3
<1>6. ASSUME NEW d \in DevSems, nsys5(d)
      PROVE  TypeInv'
  <2>1. d \in Sems
    BY DEF Sems, DeviceSemaphores
  <2>2. softBlock_count + 1 \in Int
    OBVIOUS
  <2>3. block(d, softBlock_count + 1) /\ cpu = "run"
    BY <1>6 DEF nsys5
  <2>4. SchedType'
    BY <2>1, <2>2, <2>3, BlockType
  <2>. QED BY <1>6, <2>4 DEF nsys5, SchedType, pcbVars, termVars
<1>7. ASSUME nsys7
      PROVE  TypeInv'
  <2>1. ClockSem \in Sems
    BY DEF Sems, DeviceSemaphores
  <2>2. softBlock_count + 1 \in Int
    OBVIOUS
  <2>3. block(ClockSem, softBlock_count + 1) /\ cpu = "run"
    BY <1>7 DEF nsys7
  <2>4. SchedType'
    BY <2>1, <2>2, <2>3, BlockType
  <2>. QED BY <1>7, <2>4 DEF nsys7, SchedType, pcbVars, termVars
<1>8. ASSUME nsys10
      PROVE  TypeInv'
  <2>1. yieldQueue(readyQueue, currProc) \in Seq(Pcbs)
    <3>1. CASE readyQueue = <<>>
      BY <1>8, <3>1, InsertType DEF nsys10, yieldQueue
    <3>2. CASE readyQueue # <<>>
      <4>1. Head(readyQueue) \in Pcbs /\ Tail(readyQueue) \in Seq(Pcbs)
        BY <3>2, TailOfQueue
      <4>2. insertProcQ(Tail(readyQueue), p_prio, currProc) \in Seq(Pcbs)
        BY <1>8, <4>1, InsertType DEF nsys10
      <4>. QED BY <3>2, <4>1, <4>2 DEF yieldQueue, Cons
    <3>. QED BY <3>1, <3>2
  <2>2. dispatch(yieldQueue(readyQueue, currProc), processCount, softBlock_count, NULL)
    BY <1>8 DEF nsys10
  <2>. QED BY <1>8, <2>1, <2>2, DispatchType DEF nsys10, pcbVars, termVars
<1>9. ASSUME passUpOrDie
      PROVE  TypeInv'
  <2>1. CASE UNCHANGED vars
    BY <2>1 DEF vars, pcbVars, termVars
  <2>2. CASE callTerminate(currProc)
    BY <1>2, <1>9, <2>2 DEF passUpOrDie
  <2>. QED BY <1>9, <2>1, <2>2 DEF passUpOrDie
<1>10. ASSUME terminateChild
       PROVE  TypeInv'
  <2>1. PICK c \in p_child[Head(term)] :
          /\ p_child' = [p_child EXCEPT ![Head(term)] = @ \ {c}]
          /\ p_parent' = [p_parent EXCEPT ![c] = NULL]
          /\ term' = Cons(c, term)
    BY <1>10 DEF terminateChild
  <2>2. Head(term) \in Pcbs
    BY <1>10, TailOfQueue DEF terminateChild
  <2>3. c \in Pcbs /\ Cons(c, term) \in Seq(Pcbs) /\ Cons(c, term) # <<>>
    BY <2>2 DEF Cons
  <2>. QED BY <1>10, <2>1, <2>2, <2>3 DEF terminateChild
<1>11. ASSUME terminateSelf
       PROVE  TypeInv'
  <2>. DEFINE p == Head(term)
              cur == IF p = currProc THEN NULL ELSE currProc
              rq == IF p = currProc \/ onSemaphore(p) THEN readyQueue
                    ELSE outProcQ(readyQueue, p)
              soft == IF onSemaphore(p) /\ isDeviceSemaphore(p_semAdd[p])
                      THEN softBlock_count - 1 ELSE softBlock_count
  <2>1. p \in Pcbs /\ Tail(term) \in Seq(Pcbs)
    BY <1>11, TailOfQueue DEF terminateSelf
  <2>2. cur \in Pcbs \cup {NULL} /\ soft \in Int /\ processCount - 1 \in Int
    OBVIOUS
  <2>3. rq \in Seq(Pcbs)
    BY RemoveFromQueue DEF outProcQ
  <2>4. semd' \in [Sems -> Seq(Pcbs)]
    <3>1. CASE ~onSemaphore(p)
      BY <1>11, <3>1 DEF terminateSelf
    <3>2. CASE onSemaphore(p)
      <4>1. p_semAdd[p] \in Sems
        BY <2>1, <3>2 DEF onSemaphore
      <4>2. RemoveFirst(semd[p_semAdd[p]], p) \in Seq(Pcbs)
        BY <4>1, RemoveFromQueue
      <4>. QED BY <1>11, <3>2, <4>2 DEF terminateSelf, outBlocked
    <3>. QED BY <3>1, <3>2
  <2>5. p_parent' \in [Pcbs -> Pcbs \cup {NULL}] /\ p_child' \in [Pcbs -> SUBSET Pcbs]
    BY <1>11, <2>1 DEF terminateSelf, outChild
  <2>6. /\ readyQueue' \in Seq(Pcbs)
        /\ currProc' \in Pcbs \cup {NULL}
        /\ cpu' \in CpuModes /\ (cpu' = "term" => Tail(term) # <<>>)
        /\ cpu' = "run" => currProc' \in Pcbs
        /\ doomed' \subseteq Pcbs
    <3>1. \/ /\ cpu' = "corrupt" /\ currProc' = cur /\ readyQueue' = rq
             /\ UNCHANGED doomed
          \/ /\ Tail(term) # <<>> /\ currProc' = cur /\ readyQueue' = rq
             /\ UNCHANGED <<cpu, doomed>>
          \/ /\ doomed' = {}
             /\ dispatch(rq, processCount - 1, soft, cur)
      BY <1>11 DEF terminateSelf
    <3>2. cpu = "term"
      BY <1>11 DEF terminateSelf
    <3>. HIDE DEF p, cur, rq, soft
    <3>. QED BY <2>2, <2>3, <3>1, <3>2, DispatchType
  <2>. QED
    BY <1>11, <2>1, <2>2, <2>4, <2>5, <2>6 DEF terminateSelf
<1>12. ASSUME pltInterruptHandler
       PROVE  TypeInv'
  <2>1. insertProcQ(readyQueue, p_prio, currProc) \in Seq(Pcbs)
    BY <1>12, InsertType DEF pltInterruptHandler
  <2>2. dispatch(insertProcQ(readyQueue, p_prio, currProc), processCount,
                 softBlock_count, currProc)
    BY <1>12 DEF pltInterruptHandler
  <2>. QED BY <1>12, <2>1, <2>2, DispatchType DEF pltInterruptHandler, pcbVars, termVars
<1>13. ASSUME itInterruptHandler
       PROVE  TypeInv'
  <2>1. ClockSem \in Sems
    BY DEF Sems, DeviceSemaphores
  <2>2. CASE semd[ClockSem] # <<>>
    <3>1. Head(semd[ClockSem]) \in Pcbs /\ Tail(semd[ClockSem]) \in Seq(Pcbs)
      BY <2>1, <2>2, TailOfQueue
    <3>2. insertProcQ(readyQueue, p_prio, Head(semd[ClockSem])) \in Seq(Pcbs)
      BY <3>1, InsertType
    <3>3. /\ semd' = [semd EXCEPT ![ClockSem] = Tail(@)] /\ cpu' = "tick"
          /\ readyQueue' = insertProcQ(readyQueue, p_prio, Head(semd[ClockSem]))
          /\ softBlock_count' = softBlock_count - 1
          /\ UNCHANGED <<p_semAdd, semVal, currProc>>
      BY <1>13, <2>2 DEF itInterruptHandler, removeBlocked
    <3>4. UNCHANGED <<pcbFree, pcbVars, processCount, termVars, dev>>
      BY <1>13 DEF itInterruptHandler
    <3>5. semd' \in [Sems -> Seq(Pcbs)] /\ softBlock_count' \in Int
      BY <2>1, <3>1, <3>3
    <3>. QED BY <3>2, <3>3, <3>4, <3>5 DEF pcbVars, termVars
  <2>3. CASE semd[ClockSem] = <<>>
    <3>. DEFINE rq == IF currProc = NULL THEN readyQueue
                      ELSE insertProcQ(readyQueue, p_prio, currProc)
    <3>1. rq \in Seq(Pcbs)
      BY InsertType
    <3>2. dispatch(rq, processCount, softBlock_count, currProc)
      BY <1>13, <2>3 DEF itInterruptHandler, removeBlocked
    <3>. HIDE DEF rq
    <3>3. semVal' \in [Sems -> Nat]
      <4>1. semVal' = [semVal EXCEPT ![ClockSem] = 0]
        BY <1>13, <2>3 DEF itInterruptHandler, removeBlocked
      <4>. QED BY <4>1
    <3>. QED BY <1>13, <2>3, <3>1, <3>2, <3>3, DispatchType
             DEF itInterruptHandler, removeBlocked, pcbVars, termVars
  <2>. QED BY <2>2, <2>3
<1>14. ASSUME NEW d \in DevSems, deviceInterruptHandler(d)
       PROVE  TypeInv'
  <2>1. d \in Sems
    BY DEF Sems, DeviceSemaphores
  <2>. DEFINE woken == semd[d] # <<>>
              rq == IF woken THEN insertProcQ(readyQueue, p_prio, Head(semd[d]))
                    ELSE readyQueue
              soft == IF woken THEN softBlock_count - 1 ELSE softBlock_count
  <2>2. woken => Head(semd[d]) \in Pcbs /\ Tail(semd[d]) \in Seq(Pcbs)
    BY <2>1, TailOfQueue
  <2>3. rq \in Seq(Pcbs) /\ soft \in Int
    <3>1. CASE woken
      <4>1. insertProcQ(readyQueue, p_prio, Head(semd[d])) \in Seq(Pcbs)
        BY <2>2, <3>1, InsertType
      <4>. QED BY <3>1, <4>1
    <3>2. CASE ~woken
      BY <3>2
    <3>. QED BY <3>1, <3>2
  <2>4. semd' \in [Sems -> Seq(Pcbs)] /\ semVal' \in [Sems -> Nat] /\ p_semAdd' = p_semAdd
    <3>1. semVal[d] + 1 \in Nat
      BY <2>1
    <3>. QED BY <1>14, <2>1, <2>2, <3>1 DEF deviceInterruptHandler, removeBlocked
  <2>5. /\ softBlock_count' = soft
        /\ \/ /\ cpu = "run" /\ readyQueue' = rq /\ UNCHANGED <<currProc, cpu>>
           \/ dispatch(rq, processCount, soft, currProc)
    BY <1>14 DEF deviceInterruptHandler
  <2>. HIDE DEF woken, rq, soft
  <2>6. /\ readyQueue' \in Seq(Pcbs) /\ softBlock_count' \in Int
        /\ currProc' \in Pcbs \cup {NULL}
        /\ cpu' \in Stopped \cup {"run"}
        /\ cpu' = "run" => currProc' \in Pcbs
    BY <2>3, <2>5, DispatchType
  <2>. QED BY <1>14, <2>4, <2>6 DEF deviceInterruptHandler, pcbVars, termVars
<1>15. ASSUME NEW d \in DevSems, deviceDone(d)
       PROVE  TypeInv'
  BY <1>15 DEF deviceDone, pcbVars, termVars
<1>16. CASE UNCHANGED vars
  BY <1>16 DEF vars, pcbVars, termVars
<1>. QED
  BY <1>1, <1>3, <1>4, <1>5, <1>6, <1>7, <1>8, <1>9, <1>10, <1>11, <1>12,
     <1>13, <1>14, <1>15, <1>16
  DEF Next, syscallHandler, terminateProcess, interruptHandler

(* The Nucleus never leaves its types, and whenever it runs somebody, that *)
(* is a PCB of the table.                                                  *)
THEOREM TypeCorrect == Spec => []TypeInv
  BY TypeInit, TypeStep, PTL DEF Spec

(* In particular TypeOK, which the runs check, holds for all constants.    *)
THEOREM TypeSafe == Spec => []TypeOK
<1>1. TypeInv => TypeOK
  BY DEF TypeInv
<1>. QED BY <1>1, TypeCorrect, PTL
-----------------------------------------------------------------------------
(***************************************************************************)
(* Every process is in exactly one place, as long as processes terminate   *)
(* only themselves or their ancestors.                                     *)
(***************************************************************************)
(* OnePlace for given queues, running process and free PCBs.               *)
WaitsIn(sd) == UNION {ToSet(sd[s]) : s \in Sems}

With(sd, s, q) == [sd EXCEPT ![s] = q]

Apart(sd) ==
    /\ \A s, t \in Sems : s # t => ToSet(sd[s]) \cap ToSet(sd[t]) = {}
    /\ \A s \in Sems : IsInjective(sd[s])

Place(rq, sd, cur, free) ==
    /\ Pcbs \ free = ToSet(rq) \cup WaitsIn(sd) \cup ({cur} \ {NULL})
    /\ ToSet(rq) \cap WaitsIn(sd) = {}
    /\ cur \notin ToSet(rq) \cup WaitsIn(sd)
    /\ IsInjective(rq)
    /\ Apart(sd)

(* Who is on the queue of a semaphore names it in p_semAdd.                *)
Names(sd, semAdd) == \A s \in Sems : \A p \in ToSet(sd[s]) : semAdd[p] = s
SemAddRight == Intact => Names(semd, p_semAdd)

(* A stopped processor has no current process.                             *)
IdleCpu == cpu \in Stopped => currProc = NULL

(* A termination in progress will reach the process that asked for it.     *)
TermCovers ==
    cpu = "term" /\ currProc # NULL =>
        \E i \in 1..Len(term) : currProc \in searchInTree(term[i])

PlaceInv == TypeInv /\ OnePlace /\ SemAddRight /\ IdleCpu /\ TermCovers

(* Its parts without the types, with OnePlace in the form of Place.        *)
Placed ==
    /\ Intact => Place(readyQueue, semd, currProc, pcbFree) /\ Names(semd, p_semAdd)
    /\ IdleCpu
    /\ TermCovers
-----------------------------------------------------------------------------
LEMMA PlaceMeaning == TypeOK => (OnePlace /\ SemAddRight /\ IdleCpu /\ TermCovers <=> Placed)
<1>. SUFFICES ASSUME TypeOK
              PROVE  OnePlace /\ SemAddRight /\ IdleCpu /\ TermCovers <=> Placed
  OBVIOUS
<1>1. \A s \in Sems : ToSet(semd[s]) \subseteq Pcbs
  BY ToSetSeq DEF TypeOK
<1>2. Blocked = WaitsIn(semd)
  BY <1>1 DEF Blocked, BlockedOn, WaitsIn
<1>. QED BY <1>2 DEF OnePlace, SemAddRight, Placed, Place, Apart, Live, BlockedOn

LEMMA PlaceMeaningNext ==
    TypeOK' => (OnePlace' /\ SemAddRight' /\ IdleCpu' /\ TermCovers' <=> Placed')
<1>. SUFFICES ASSUME TypeOK'
              PROVE  OnePlace' /\ SemAddRight' /\ IdleCpu' /\ TermCovers' <=> Placed'
  OBVIOUS
<1>1. \A s \in Sems : ToSet(semd'[s]) \subseteq Pcbs
  BY ToSetSeq DEF TypeOK
<1>2. Blocked' = WaitsIn(semd')
  BY <1>1 DEF Blocked, BlockedOn, WaitsIn
<1>. QED BY <1>2 DEF OnePlace, SemAddRight, Placed, Place, Apart, Live, BlockedOn

(* A queue that is replaced changes who waits in the obvious way.          *)
LEMMA WaitsExcept ==
    ASSUME NEW sd \in [Sems -> Seq(Pcbs)], NEW s \in Sems, NEW q \in Seq(Pcbs)
    PROVE  /\ With(sd, s, q) \in [Sems -> Seq(Pcbs)]
           /\ With(sd, s, q)[s] = q
           /\ \A t \in Sems \ {s} : With(sd, s, q)[t] = sd[t]
           /\ WaitsIn(With(sd, s, q)) =
                ToSet(q) \cup (UNION {ToSet(sd[t]) : t \in Sems \ {s}})
           /\ WaitsIn(sd) =
                ToSet(sd[s]) \cup (UNION {ToSet(sd[t]) : t \in Sems \ {s}})
  BY DEF WaitsIn, With

(* insertBlocked of the running process.                                   *)
LEMMA PlaceBlock ==
    ASSUME NEW rq \in Seq(Pcbs), NEW sd \in [Sems -> Seq(Pcbs)],
           NEW cur \in Pcbs, NEW free \in SUBSET Pcbs, NEW s \in Sems,
           Place(rq, sd, cur, free)
    PROVE  Place(rq, With(sd, s, Append(sd[s], cur)), NULL, free)
<1>. DEFINE q == Append(sd[s], cur)
            sn == With(sd, s, q)
            rest == UNION {ToSet(sd[t]) : t \in Sems \ {s}}
<1>1. sd[s] \in Seq(Pcbs)
  OBVIOUS
<1>2. q \in Seq(Pcbs) /\ ToSet(q) = ToSet(sd[s]) \cup {cur}
  BY <1>1, AppendToQueue
<1>3. IsInjective(q)
  BY <1>1, AppendToQueue, WaitsExcept DEF Place, Apart
<1>. HIDE DEF q
<1>4. /\ sn[s] = q /\ \A t \in Sems \ {s} : sn[t] = sd[t]
      /\ WaitsIn(sn) = ToSet(q) \cup rest
      /\ WaitsIn(sd) = ToSet(sd[s]) \cup rest
  BY <1>2, WaitsExcept
<1>. HIDE DEF sn
<1>5. WaitsIn(sn) = WaitsIn(sd) \cup {cur}
  BY <1>2, <1>4
<1>6. \A t \in Sems \ {s} : cur \notin ToSet(sd[t])
  BY <1>4 DEF Place
<1>7. ToSet(rq) \subseteq Pcbs /\ ToSet(sd[s]) \subseteq Pcbs
  BY ToSetSeq
<1>8. NULL \notin ToSet(rq) \cup WaitsIn(sn)
  <2>1. \A t \in Sems : ToSet(sd[t]) \subseteq Pcbs
    BY ToSetSeq
  <2>. QED BY <1>5, <1>7, <2>1, PcbsAssumption DEF WaitsIn
<1>9. \A t, u \in Sems : t # u => ToSet(sn[t]) \cap ToSet(sn[u]) = {}
  <2>1. \A t \in Sems \ {s} : ToSet(q) \cap ToSet(sd[t]) = {}
    BY <1>2, <1>6 DEF Place, Apart
  <2>2. \A t, u \in Sems \ {s} : t # u => ToSet(sn[t]) \cap ToSet(sn[u]) = {}
    BY <1>4 DEF Place, Apart
  <2>3. \A t \in Sems \ {s} : ToSet(sn[s]) \cap ToSet(sn[t]) = {}
    BY <1>4, <2>1
  <2>. QED BY <2>2, <2>3
<1>10. \A t \in Sems : IsInjective(sn[t])
  BY <1>3, <1>4 DEF Place, Apart
<1>11. Place(rq, sn, NULL, free)
  BY <1>5, <1>8, <1>9, <1>10, PcbsAssumption DEF Place, Apart
<1>. QED BY <1>11 DEF sn, q

(* A queue of the ASL that loses one process.                              *)
LEMMA DropWaiter ==
    ASSUME NEW sd \in [Sems -> Seq(Pcbs)], NEW s \in Sems, Apart(sd),
           NEW p \in ToSet(sd[s]), NEW q \in Seq(Pcbs),
           ToSet(q) = ToSet(sd[s]) \ {p}, IsInjective(q)
    PROVE  /\ WaitsIn(With(sd, s, q)) = WaitsIn(sd) \ {p} /\ p \in WaitsIn(sd)
           /\ Apart(With(sd, s, q))
<1>. DEFINE sn == With(sd, s, q)
            rest == UNION {ToSet(sd[t]) : t \in Sems \ {s}}
<1>1. /\ sn[s] = q /\ \A t \in Sems \ {s} : sn[t] = sd[t]
      /\ WaitsIn(sn) = ToSet(q) \cup rest
      /\ WaitsIn(sd) = ToSet(sd[s]) \cup rest
  BY WaitsExcept
<1>. HIDE DEF sn
<1>2. \A t \in Sems \ {s} : p \notin ToSet(sd[t])
  BY DEF Apart
<1>3. p \notin rest
  BY <1>2
<1>4. WaitsIn(sn) = WaitsIn(sd) \ {p} /\ p \in WaitsIn(sd)
  BY <1>1, <1>3
<1>5. \A t, u \in Sems : t # u => ToSet(sn[t]) \cap ToSet(sn[u]) = {}
  <2>1. \A t \in Sems \ {s} : ToSet(q) \cap ToSet(sd[t]) = {}
    BY DEF Apart
  <2>2. \A t, u \in Sems \ {s} : t # u => ToSet(sn[t]) \cap ToSet(sn[u]) = {}
    BY <1>1 DEF Apart
  <2>3. \A t \in Sems \ {s} : ToSet(sn[s]) \cap ToSet(sn[t]) = {}
    BY <1>1, <2>1
  <2>. QED BY <2>2, <2>3
<1>6. \A t \in Sems : IsInjective(sn[t])
  BY <1>1 DEF Apart
<1>. QED BY <1>4, <1>5, <1>6 DEF Apart, sn

(* removeBlocked, and insertProcQ of the process it returns.               *)
LEMMA PlaceWake ==
    ASSUME NEW rq \in Seq(Pcbs), NEW sd \in [Sems -> Seq(Pcbs)],
           NEW cur, NEW free \in SUBSET Pcbs, NEW s \in Sems,
           Place(rq, sd, cur, free), sd[s] # <<>>,
           NEW prio \in [Pcbs -> Int]
    PROVE  Place(insertProcQ(rq, prio, Head(sd[s])),
                 With(sd, s, Tail(sd[s])), cur, free)
<1>. DEFINE p == Head(sd[s])
            q == Tail(sd[s])
            sn == With(sd, s, q)
            rn == insertProcQ(rq, prio, p)
<1>1. sd[s] \in Seq(Pcbs) /\ IsInjective(sd[s]) /\ Apart(sd)
  BY DEF Place, Apart
<1>2. /\ p \in Pcbs /\ p \in ToSet(sd[s]) /\ q \in Seq(Pcbs)
      /\ ToSet(sd[s]) = ToSet(q) \cup {p}
      /\ IsInjective(q) /\ p \notin ToSet(q)
  BY <1>1, TailOfQueue
<1>3. ToSet(q) = ToSet(sd[s]) \ {p}
  BY <1>2
<1>. HIDE DEF p, q
<1>4. /\ WaitsIn(sn) = WaitsIn(sd) \ {p} /\ p \in WaitsIn(sd)
      /\ Apart(sn)
  BY ONLY sd \in [Sems -> Seq(Pcbs)], s \in Sems, <1>1, <1>2, <1>3, DropWaiter
<1>. HIDE DEF sn
<1>5. p \notin ToSet(rq) /\ p # cur
  BY <1>4 DEF Place
<1>6. ToSet(rn) = ToSet(rq) \cup {p} /\ IsInjective(rn)
  BY <1>2, <1>5, InsertProcQ DEF Place
<1>. HIDE DEF rn
<1>7. Place(rn, sn, cur, free)
  BY <1>4, <1>5, <1>6 DEF Place
<1>. QED BY <1>7 DEF rn, sn, p, q

(* insertProcQ of the running process.                                     *)
LEMMA PlaceRequeue ==
    ASSUME NEW rq \in Seq(Pcbs), NEW sd \in [Sems -> Seq(Pcbs)],
           NEW cur \in Pcbs, NEW free \in SUBSET Pcbs,
           Place(rq, sd, cur, free), NEW prio \in [Pcbs -> Int]
    PROVE  Place(insertProcQ(rq, prio, cur), sd, NULL, free)
<1>. DEFINE rn == insertProcQ(rq, prio, cur)
<1>1. ToSet(rn) = ToSet(rq) \cup {cur} /\ IsInjective(rn)
  BY InsertProcQ DEF Place
<1>2. ToSet(rq) \subseteq Pcbs /\ WaitsIn(sd) \subseteq Pcbs
  BY DEF Place
<1>. HIDE DEF rn
<1>3. Place(rn, sd, NULL, free)
  BY <1>1, <1>2, PcbsAssumption DEF Place
<1>. QED BY <1>3 DEF rn

(* nsys1 puts a free PCB on the ready queue.                               *)
LEMMA PlaceCreate ==
    ASSUME NEW rq \in Seq(Pcbs), NEW sd \in [Sems -> Seq(Pcbs)],
           NEW cur, NEW free \in SUBSET Pcbs, NEW n \in free,
           Place(rq, sd, cur, free), NEW prio \in [Pcbs -> Int]
    PROVE  Place(insertProcQ(rq, prio, n), sd, cur, free \ {n})
<1>. DEFINE rn == insertProcQ(rq, prio, n)
<1>1. n \in Pcbs /\ n # NULL /\ n \notin ToSet(rq) \cup WaitsIn(sd) /\ n # cur
  BY PcbsAssumption DEF Place
<1>2. ToSet(rn) = ToSet(rq) \cup {n} /\ IsInjective(rn)
  BY <1>1, InsertProcQ DEF Place
<1>. HIDE DEF rn
<1>3. Pcbs \ (free \ {n}) = (Pcbs \ free) \cup {n}
  BY <1>1
<1>4. Place(rn, sd, cur, free \ {n})
  BY <1>1, <1>2, <1>3 DEF Place
<1>. QED BY <1>4 DEF rn

(* terminateProcess frees the running process.                             *)
LEMMA PlaceFreeRunning ==
    ASSUME NEW rq \in Seq(Pcbs), NEW sd \in [Sems -> Seq(Pcbs)],
           NEW p \in Pcbs, NEW free \in SUBSET Pcbs, Place(rq, sd, p, free)
    PROVE  Place(rq, sd, NULL, free \cup {p})
<1>1. ToSet(rq) \subseteq Pcbs /\ WaitsIn(sd) \subseteq Pcbs
  BY DEF Place
<1>. QED BY <1>1, PcbsAssumption DEF Place

(* ... a process on the queue of a semaphore ...                           *)
LEMMA PlaceFreeBlocked ==
    ASSUME NEW rq \in Seq(Pcbs), NEW sd \in [Sems -> Seq(Pcbs)],
           NEW cur, NEW free \in SUBSET Pcbs, NEW s \in Sems,
           NEW p \in ToSet(sd[s]), Place(rq, sd, cur, free)
    PROVE  Place(rq, With(sd, s, RemoveFirst(sd[s], p)), cur, free \cup {p})
<1>. DEFINE q == RemoveFirst(sd[s], p)
            sn == With(sd, s, q)
<1>1. sd[s] \in Seq(Pcbs) /\ IsInjective(sd[s]) /\ Apart(sd)
  BY DEF Place, Apart
<1>2. q \in Seq(Pcbs) /\ ToSet(q) = ToSet(sd[s]) \ {p} /\ IsInjective(q)
  BY <1>1, RemoveFromQueue
<1>. HIDE DEF q
<1>3. /\ WaitsIn(sn) = WaitsIn(sd) \ {p} /\ p \in WaitsIn(sd)
      /\ Apart(sn)
  BY ONLY sd \in [Sems -> Seq(Pcbs)], s \in Sems, p \in ToSet(sd[s]), <1>1,
          <1>2, DropWaiter
<1>. HIDE DEF sn
<1>4. p \in Pcbs /\ p \notin ToSet(rq) /\ p # cur
  BY <1>3 DEF Place
<1>5. Place(rq, sn, cur, free \cup {p})
  BY <1>3, <1>4 DEF Place
<1>. QED BY <1>5 DEF sn, q

(* ... and a process that outProcQ has removed from the ready queue.       *)
LEMMA PlaceFreeReady ==
    ASSUME NEW rq \in Seq(Pcbs), NEW sd \in [Sems -> Seq(Pcbs)],
           NEW cur, NEW free \in SUBSET Pcbs, NEW p \in Pcbs,
           p # cur, p \notin WaitsIn(sd), Place(rq, sd, cur, free)
    PROVE  Place(outProcQ(rq, p), sd, cur, free \cup {p})
<1>. DEFINE rn == outProcQ(rq, p)
<1>1. ToSet(rn) = ToSet(rq) \ {p} /\ IsInjective(rn)
  BY RemoveFromQueue DEF outProcQ, Place
<1>. HIDE DEF rn
<1>2. Place(rn, sd, cur, free \cup {p})
  BY <1>1 DEF Place
<1>. QED BY <1>2 DEF rn

(* dispatch() after the running process has gone to its place.             *)
LEMMA PlaceDispatch ==
    ASSUME NEW rq \in Seq(Pcbs), NEW sd \in [Sems -> Seq(Pcbs)],
           NEW free \in SUBSET Pcbs, NEW count, NEW soft, NEW cur,
           Place(rq, sd, NULL, free), rq # <<>> \/ cur = NULL,
           dispatch(rq, count, soft, cur)
    PROVE  /\ Place(readyQueue', sd, currProc', free)
           /\ cpu' \in Stopped \cup {"run"}
           /\ IdleCpu'
<1>1. CASE rq # <<>>
  <2>1. currProc' = Head(rq) /\ readyQueue' = Tail(rq) /\ cpu' = "run"
    BY <1>1 DEF dispatch
  <2>2. /\ Head(rq) \in Pcbs /\ ToSet(rq) = ToSet(Tail(rq)) \cup {Head(rq)}
        /\ IsInjective(Tail(rq)) /\ Head(rq) \notin ToSet(Tail(rq))
    BY <1>1, TailOfQueue DEF Place
  <2>3. Place(Tail(rq), sd, Head(rq), free)
    BY <2>2, PcbsAssumption DEF Place
  <2>. QED BY <2>1, <2>3 DEF IdleCpu, Stopped
<1>2. CASE rq = <<>>
  <2>1. currProc' = NULL /\ readyQueue' = rq /\ cpu' = idleMode(count, soft)
    BY <1>2 DEF dispatch
  <2>2. idleMode(count, soft) \in Stopped
    BY DEF idleMode, Stopped
  <2>. QED BY <2>1, <2>2 DEF IdleCpu
<1>. QED BY <1>1, <1>2

(* Yield: the caller is queued behind the old head.                        *)
LEMMA PlaceYield ==
    ASSUME NEW rq \in Seq(Pcbs), NEW sd \in [Sems -> Seq(Pcbs)],
           NEW cur \in Pcbs, NEW free \in SUBSET Pcbs,
           Place(rq, sd, cur, free), NEW prio \in [Pcbs -> Int], rq # <<>>
    PROVE  /\ Cons(Head(rq), insertProcQ(Tail(rq), prio, cur)) \in Seq(Pcbs)
           /\ Cons(Head(rq), insertProcQ(Tail(rq), prio, cur)) # <<>>
           /\ Place(Cons(Head(rq), insertProcQ(Tail(rq), prio, cur)), sd, NULL, free)
<1>. DEFINE h == Head(rq)
            t == Tail(rq)
            ins == insertProcQ(t, prio, cur)
            y == Cons(h, ins)
<1>1. /\ h \in Pcbs /\ t \in Seq(Pcbs) /\ ToSet(rq) = ToSet(t) \cup {h}
      /\ IsInjective(t) /\ h \notin ToSet(t)
  BY TailOfQueue DEF Place
<1>. HIDE DEF h, t
<1>2. cur \notin ToSet(t) /\ cur # h
  BY <1>1 DEF Place
<1>3. ins \in Seq(Pcbs) /\ ToSet(ins) = ToSet(t) \cup {cur} /\ IsInjective(ins)
  BY <1>1, <1>2, InsertProcQ
<1>. HIDE DEF ins
<1>8. h \notin ToSet(ins)
  BY <1>1, <1>2, <1>3
<1>4. /\ y \in Seq(Pcbs) /\ y # <<>> /\ ToSet(y) = ToSet(ins) \cup {h}
      /\ IsInjective(y)
  <2>1. h \in Pcbs /\ ins \in Seq(Pcbs) /\ IsInjective(ins) /\ h \notin ToSet(ins)
    BY <1>1, <1>3, <1>8
  <2>. QED BY ONLY <2>1, ConsToQueue, Zenon
<1>. HIDE DEF y
<1>5. ToSet(y) = ToSet(rq) \cup {cur}
  BY <1>1, <1>3, <1>4
<1>6. ToSet(rq) \subseteq Pcbs /\ WaitsIn(sd) \subseteq Pcbs
  BY DEF Place
<1>7. Place(y, sd, NULL, free)
  BY <1>4, <1>5, <1>6, PcbsAssumption DEF Place
<1>. QED BY <1>4, <1>7 DEF y, ins, h, t
-----------------------------------------------------------------------------
(* searchInTree for a given child relation.                                *)
TreeOf(child, root) ==
    {p \in Pcbs : \A S \in SUBSET Pcbs :
        (root \in S /\ \A q \in S : child[q] \subseteq S) => p \in S}

(* The tree of a PCB contains it and all children of its members.          *)
LEMMA TreeClosed ==
    ASSUME NEW child \in [Pcbs -> SUBSET Pcbs], NEW r \in Pcbs
    PROVE  /\ TreeOf(child, r) \subseteq Pcbs
           /\ r \in TreeOf(child, r)
           /\ \A q \in TreeOf(child, r) : child[q] \subseteq TreeOf(child, r)
  BY DEF TreeOf

(* It is contained in every set with these properties.                     *)
LEMMA TreeLeast ==
    ASSUME NEW child \in [Pcbs -> SUBSET Pcbs], NEW r, NEW S \in SUBSET Pcbs,
           r \in S, \A q \in S : child[q] \subseteq S
    PROVE  TreeOf(child, r) \subseteq S
  BY DEF TreeOf

LEMMA TreeOfLeaf ==
    ASSUME NEW child \in [Pcbs -> SUBSET Pcbs], NEW r \in Pcbs, child[r] = {}
    PROVE  TreeOf(child, r) = {r}
<1>1. {r} \in SUBSET Pcbs /\ \A q \in {r} : child[q] \subseteq {r}
  OBVIOUS
<1>2. TreeOf(child, r) \subseteq {r}
  BY <1>1, TreeLeast
<1>. QED BY <1>2, TreeClosed

(* When links to c are cut, a tree loses at most the tree of c.            *)
LEMMA TreeCut ==
    ASSUME NEW old \in [Pcbs -> SUBSET Pcbs], NEW new \in [Pcbs -> SUBSET Pcbs],
           NEW c \in Pcbs, NEW r \in Pcbs,
           \A q \in Pcbs : old[q] \subseteq new[q] \cup {c}
    PROVE  TreeOf(old, r) \subseteq TreeOf(new, r) \cup TreeOf(new, c)
<1>. DEFINE R == TreeOf(new, r)
            C == TreeOf(new, c)
<1>1. /\ R \subseteq Pcbs /\ r \in R /\ \A q \in R : new[q] \subseteq R
      /\ C \subseteq Pcbs /\ c \in C /\ \A q \in C : new[q] \subseteq C
  BY TreeClosed
<1>. HIDE DEF R, C
<1>2. R \cup C \in SUBSET Pcbs /\ r \in R \cup C
  BY <1>1
<1>3. \A q \in R \cup C : old[q] \subseteq R \cup C
  BY <1>1
<1>4. TreeOf(old, r) \subseteq R \cup C
  BY <1>2, <1>3, TreeLeast
<1>. QED BY <1>4 DEF R, C

(* The ASL never runs out of descriptors while a process runs: the active  *)
(* semaphores have different first waiters, and the caller is not one.     *)
LEMMA RoomInAsl ==
    ASSUME TypeInv, Placed, cpu = "run", NEW s \in Sems
    PROVE  semdAvailable(s)
<1>1. /\ currProc \in Pcbs /\ semd \in [Sems -> Seq(Pcbs)] /\ Intact
      /\ Place(readyQueue, semd, currProc, pcbFree)
  BY DEF Placed, TypeInv, TypeOK, SomebodyRuns, Intact
<1>. DEFINE T == Pcbs \ {currProc}
            f == [t \in ActiveSems |-> Head(semd[t])]
<1>2. \A t \in ActiveSems : /\ t \in Sems
                            /\ Head(semd[t]) \in Pcbs
                            /\ Head(semd[t]) \in ToSet(semd[t])
  BY <1>1, TailOfQueue DEF ActiveSems
<1>3. f \in [ActiveSems -> T]
  BY <1>1, <1>2 DEF Place, WaitsIn
<1>4. \A x, y \in ActiveSems : x # y => f[x] # f[y]
  BY <1>1, <1>2 DEF Place, Apart
<1>5. IsFiniteSet(ActiveSems)
  BY SemsAssumption, FS_Subset DEF ActiveSems
<1>6. /\ IsFiniteSet(Pcbs) /\ IsFiniteSet(T) /\ Cardinality(T) = Cardinality(Pcbs) - 1
      /\ Cardinality(Pcbs) \in Nat /\ Cardinality(ActiveSems) \in Nat
  BY <1>1, <1>5, PcbsAssumption, FS_RemoveElement, FS_CardinalityType
<1>. HIDE DEF f, T
<1>7. ~ (Cardinality(T) < Cardinality(ActiveSems))
  BY <1>3, <1>4, <1>5, <1>6, FS_PigeonHole
<1>. QED BY <1>6, <1>7 DEF semdAvailable, MAXPROC

(* p_semAdd stays right when a queue loses members ...                     *)
LEMMA NamesDrop ==
    ASSUME NEW sd \in [Sems -> Seq(Pcbs)], NEW s \in Sems, NEW q \in Seq(Pcbs),
           ToSet(q) \subseteq ToSet(sd[s]), NEW semAdd, Names(sd, semAdd)
    PROVE  Names(With(sd, s, q), semAdd)
<1>1. With(sd, s, q)[s] = q /\ \A t \in Sems \ {s} : With(sd, s, q)[t] = sd[t]
  BY DEF With
<1>. QED BY <1>1 DEF Names

(* ... and when insertBlocked adds one.                                    *)
LEMMA NamesBlock ==
    ASSUME NEW sd \in [Sems -> Seq(Pcbs)], NEW s \in Sems, NEW cur \in Pcbs,
           cur \notin WaitsIn(sd), NEW semAdd \in [Pcbs -> Sems \cup {NULL}],
           Names(sd, semAdd)
    PROVE  Names(With(sd, s, Append(sd[s], cur)), [semAdd EXCEPT ![cur] = s])
<1>. DEFINE sn == With(sd, s, Append(sd[s], cur))
            an == [semAdd EXCEPT ![cur] = s]
<1>1. sn[s] = Append(sd[s], cur) /\ \A t \in Sems \ {s} : sn[t] = sd[t]
  BY DEF With
<1>2. ToSet(sn[s]) = ToSet(sd[s]) \cup {cur}
  BY <1>1, AppendToQueue
<1>3. an[cur] = s /\ \A p \in Pcbs \ {cur} : an[p] = semAdd[p]
  OBVIOUS
<1>4. \A t \in Sems : ToSet(sd[t]) \subseteq Pcbs \ {cur}
  BY ToSetSeq DEF WaitsIn
<1>. HIDE DEF sn, an
<1>5. \A t \in Sems : \A p \in ToSet(sn[t]) : an[p] = t
  <2>1. \A p \in ToSet(sd[s]) : p \in Pcbs \ {cur} /\ semAdd[p] = s
    BY <1>4 DEF Names
  <2>2. \A p \in ToSet(sn[s]) : an[p] = s
    BY <1>2, <1>3, <2>1
  <2>3. \A t \in Sems \ {s} : \A p \in ToSet(sd[t]) : p \in Pcbs \ {cur} /\ semAdd[p] = t
    BY <1>4 DEF Names
  <2>4. \A t \in Sems \ {s} : \A p \in ToSet(sn[t]) : an[p] = t
    BY <1>1, <1>3, <2>3
  <2>. QED BY <2>2, <2>4
<1>. QED BY <1>5 DEF Names, sn, an

(* block(): the caller goes to a semaphore and somebody else is dispatched *)
LEMMA BlockPlaced ==
    ASSUME TypeInv, Placed, cpu = "run", NEW s \in Sems, NEW soft, block(s, soft),
           pcbFree' = pcbFree
    PROVE  Placed'
<1>1. /\ currProc \in Pcbs /\ semd \in [Sems -> Seq(Pcbs)] /\ readyQueue \in Seq(Pcbs)
      /\ p_semAdd \in [Pcbs -> Sems \cup {NULL}] /\ pcbFree \in SUBSET Pcbs
      /\ Place(readyQueue, semd, currProc, pcbFree) /\ Names(semd, p_semAdd)
  BY DEF TypeInv, TypeOK, SomebodyRuns, Placed, Intact
<1>2. semdAvailable(s)
  BY RoomInAsl
<1>3. /\ semd' = With(semd, s, Append(semd[s], currProc))
      /\ p_semAdd' = [p_semAdd EXCEPT ![currProc] = s]
      /\ dispatch(readyQueue, processCount, soft, NULL)
  BY <1>2 DEF block, insertBlocked, With
<1>4. Place(readyQueue, semd', NULL, pcbFree)
  BY <1>1, <1>3, PlaceBlock
<1>5. semd' \in [Sems -> Seq(Pcbs)]
  BY <1>1, <1>3, AppendToQueue DEF With
<1>6. /\ Place(readyQueue', semd', currProc', pcbFree)
      /\ cpu' \in Stopped \cup {"run"} /\ IdleCpu'
  BY <1>1, <1>3, <1>4, <1>5, PlaceDispatch
<1>7. Names(semd', p_semAdd')
  BY <1>1, <1>3, NamesBlock DEF Place
<1>. QED BY <1>6, <1>7 DEF Placed, TermCovers, Stopped

(* callTerminate with the tree of the caller above it.                     *)
LEMMA CallPlaced ==
    ASSUME TypeInv, Placed, cpu = "run", NEW p \in Pcbs, callTerminate(p),
           currProc \in searchInTree(p)
    PROVE  Placed'
<1>1. /\ cpu' = "term" /\ term' = <<p>>
      /\ UNCHANGED <<pcbFree, readyQueue, semd, p_semAdd, p_child, currProc>>
  BY DEF callTerminate, pcbVars
<1>2. Place(readyQueue, semd, currProc, pcbFree) /\ Names(semd, p_semAdd)
  BY DEF Placed, Intact
<1>3. IdleCpu'
  BY <1>1 DEF IdleCpu, Stopped
<1>4. currProc' \in searchInTree(term[1])'
  BY <1>1 DEF searchInTree
<1>5. TermCovers'
  BY <1>1, <1>4 DEF TermCovers
<1>. QED BY <1>1, <1>2, <1>3, <1>5 DEF Placed

(* A waiter of s becomes ready while the rest of the state stays.          *)
LEMMA WakePlaced ==
    ASSUME TypeInv, Placed, Intact, NEW s \in Sems, removeBlocked(s), NEW rq,
           rq = insertProcQ(readyQueue, p_prio, Head(semd[s]))
    PROVE  /\ rq \in Seq(Pcbs) /\ rq # <<>>
           /\ semd' \in [Sems -> Seq(Pcbs)]
           /\ Place(rq, semd', currProc, pcbFree)
           /\ Names(semd', p_semAdd')
<1>1. /\ semd \in [Sems -> Seq(Pcbs)] /\ readyQueue \in Seq(Pcbs)
      /\ p_prio \in [Pcbs -> Int] /\ pcbFree \in SUBSET Pcbs
      /\ Place(readyQueue, semd, currProc, pcbFree) /\ Names(semd, p_semAdd)
  BY PriosAssumption DEF TypeInv, TypeOK, Placed
<1>2. semd[s] # <<>> /\ semd' = With(semd, s, Tail(semd[s])) /\ p_semAdd' = p_semAdd
  BY DEF removeBlocked, With
<1>3. /\ Head(semd[s]) \in Pcbs /\ Tail(semd[s]) \in Seq(Pcbs)
      /\ ToSet(Tail(semd[s])) \subseteq ToSet(semd[s])
  BY <1>1, <1>2, TailOfQueue
<1>4. rq \in Seq(Pcbs) /\ rq # <<>>
  BY <1>1, <1>3, InsertProcQ
<1>5. semd' \in [Sems -> Seq(Pcbs)]
  BY <1>1, <1>2, <1>3 DEF With
<1>6. Place(rq, semd', currProc, pcbFree)
  BY <1>1, <1>2, PlaceWake
<1>7. Names(semd', p_semAdd')
  BY <1>1, <1>2, <1>3, NamesDrop
<1>. QED BY <1>4, <1>5, <1>6, <1>7

(* One iteration of terminateProcess detaches a child: the caller is still *)
(* in the tree of somebody on the stack.                                   *)
LEMMA ChildPlaced ==
    ASSUME TypeInv, Placed, terminateChild
    PROVE  Placed'
<1>. DEFINE h == Head(term)
<1>1. PICK c \in p_child[h] :
        /\ p_child' = [p_child EXCEPT ![h] = @ \ {c}]
        /\ term' = Cons(c, term)
  BY DEF terminateChild
<1>2. /\ cpu = "term" /\ cpu' = "term"
      /\ UNCHANGED <<pcbFree, readyQueue, semd, p_semAdd, currProc>>
  BY DEF terminateChild
<1>3. /\ term \in Seq(Pcbs) /\ term # <<>> /\ h \in Pcbs
      /\ p_child \in [Pcbs -> SUBSET Pcbs] /\ c \in Pcbs
  BY <1>2, TailOfQueue DEF TypeInv, TypeOK
<1>4. p_child' \in [Pcbs -> SUBSET Pcbs] /\ \A q \in Pcbs : p_child[q] \subseteq p_child'[q] \cup {c}
  BY <1>1, <1>3
<1>5. \A r : searchInTree(r) = TreeOf(p_child, r) /\ searchInTree(r)' = TreeOf(p_child', r)
  BY DEF searchInTree, TreeOf
<1>6. /\ Len(term) \in Nat /\ Len(term') = Len(term) + 1 /\ term'[1] = c
      /\ \A i \in 1..Len(term) : term[i] \in Pcbs /\ term'[i + 1] = term[i]
  BY <1>1, <1>3 DEF Cons
<1>7. ASSUME currProc # NULL
      PROVE  \E i \in 1..Len(term') : currProc \in TreeOf(p_child', term'[i])
  <2>1. PICK i \in 1..Len(term) : currProc \in TreeOf(p_child, term[i])
    BY <1>2, <1>5, <1>7 DEF Placed, TermCovers
  <2>2. currProc \in TreeOf(p_child', term[i]) \/ currProc \in TreeOf(p_child', c)
    BY <1>3, <1>4, <1>6, <2>1, TreeCut
  <2>3. 1 \in 1..Len(term') /\ i + 1 \in 1..Len(term')
    BY <1>6
  <2>. QED BY <1>6, <2>2, <2>3
<1>8. TermCovers'
  BY <1>2, <1>5, <1>7 DEF TermCovers
<1>9. Place(readyQueue, semd, currProc, pcbFree) /\ Names(semd, p_semAdd)
  BY <1>2 DEF Placed, Intact
<1>. QED BY <1>2, <1>8, <1>9 DEF Placed, IdleCpu, Stopped

(* The rest of terminateProcess takes p from its one place to the free     *)
(* list; when it is the last activation, the caller is gone too.           *)
LEMMA SelfPlaced ==
    ASSUME TypeInv, Placed, terminateSelf
    PROVE  Placed'
<1>. DEFINE p == Head(term)
            cur == IF p = currProc THEN NULL ELSE currProc
            rq == IF p = currProc \/ onSemaphore(p) THEN readyQueue
                  ELSE outProcQ(readyQueue, p)
            soft == IF onSemaphore(p) /\ isDeviceSemaphore(p_semAdd[p])
                    THEN softBlock_count - 1 ELSE softBlock_count
<1>1. /\ cpu = "term" /\ p_child[p] = {}
      /\ semd' = IF onSemaphore(p) THEN outBlocked(p) ELSE semd
      /\ outChild(p) /\ pcbFree' = pcbFree \cup {p} /\ term' = Tail(term)
      /\ p_semAdd' = p_semAdd
  BY DEF terminateSelf, emptyChild
<1>2. IF p \in ToSet(rq)
      THEN cpu' = "corrupt"
      ELSE \/ /\ Tail(term) # <<>> /\ currProc' = cur /\ readyQueue' = rq
              /\ cpu' = cpu
           \/ Tail(term) = <<>> /\ dispatch(rq, processCount - 1, soft, cur)
  BY DEF terminateSelf
<1>3. /\ semd \in [Sems -> Seq(Pcbs)] /\ readyQueue \in Seq(Pcbs)
      /\ p_semAdd \in [Pcbs -> Sems \cup {NULL}] /\ pcbFree \in SUBSET Pcbs
      /\ p_child \in [Pcbs -> SUBSET Pcbs]
      /\ term \in Seq(Pcbs) /\ term # <<>>
      /\ Place(readyQueue, semd, currProc, pcbFree) /\ Names(semd, p_semAdd)
  BY <1>1 DEF TypeInv, TypeOK, Placed, Intact
<1>4. p \in Pcbs /\ p # NULL
  BY <1>3, TailOfQueue, PcbsAssumption
<1>5. CASE p \in ToSet(rq)
  BY <1>2, <1>5 DEF Placed, Intact, IdleCpu, TermCovers, Stopped
<1>6. CASE p \notin ToSet(rq)
  <2>1. /\ rq \in Seq(Pcbs) /\ semd' \in [Sems -> Seq(Pcbs)]
        /\ Place(rq, semd', cur, pcbFree') /\ Names(semd', p_semAdd')
    <3>1. CASE p = currProc
      <4>1. rq = readyQueue /\ cur = NULL /\ semd' = semd
        BY <1>1, <3>1 DEF onSemaphore
      <4>. QED BY <1>1, <1>3, <1>4, <3>1, <4>1, PlaceFreeRunning
    <3>2. CASE onSemaphore(p)
      <4>. DEFINE s == p_semAdd[p]
      <4>1. /\ p # currProc /\ s \in Sems /\ rq = readyQueue /\ cur = currProc
            /\ semd' = With(semd, s, RemoveFirst(semd[s], p))
        BY <1>1, <1>3, <1>4, <3>2 DEF onSemaphore, outBlocked, With
      <4>. HIDE DEF s
      <4>2. semd[s] \in Seq(Pcbs) /\ IsInjective(semd[s])
        BY <1>3, <4>1 DEF Place, Apart
      <4>3. CASE p \in ToSet(semd[s])
        <5>1. Place(readyQueue, semd', currProc, pcbFree \cup {p})
          BY <1>3, <4>1, <4>3, PlaceFreeBlocked
        <5>2. /\ RemoveFirst(semd[s], p) \in Seq(Pcbs)
              /\ ToSet(RemoveFirst(semd[s], p)) \subseteq ToSet(semd[s])
          BY <4>2, RemoveFromQueue
        <5>3. Names(semd', p_semAdd)
          BY <1>3, <4>1, <5>2, NamesDrop
        <5>4. semd' \in [Sems -> Seq(Pcbs)]
          BY <1>3, <4>1, <5>2 DEF With
        <5>. QED BY <1>1, <1>3, <4>1, <5>1, <5>3, <5>4
      <4>4. CASE p \notin ToSet(semd[s])
        <5>1. semd' = semd
          <6>1. RemoveFirst(semd[s], p) = semd[s]
            BY <4>2, <4>4, RemoveAbsent
          <6>. QED BY <1>3, <4>1, <6>1 DEF With
        <5>2. p \notin WaitsIn(semd)
          BY <1>3, <4>4 DEF Names, WaitsIn, s
        <5>3. p \in pcbFree
          BY <1>3, <1>4, <1>6, <4>1, <5>2 DEF Place
        <5>4. pcbFree' = pcbFree
          BY <1>1, <5>3
        <5>. QED BY <1>1, <1>3, <4>1, <5>1, <5>4
      <4>. QED BY <4>3, <4>4
    <3>3. CASE p # currProc /\ ~onSemaphore(p)
      <4>1. rq = outProcQ(readyQueue, p) /\ cur = currProc /\ semd' = semd
        BY <1>1, <3>3
      <4>2. p_semAdd[p] = NULL
        BY <3>3 DEF onSemaphore
      <4>3. p \notin WaitsIn(semd)
        BY <1>3, <4>2, PcbsAssumption DEF Names, WaitsIn
      <4>4. Place(outProcQ(readyQueue, p), semd, currProc, pcbFree \cup {p})
        BY <1>3, <1>4, <3>3, <4>3, PlaceFreeReady
      <4>5. outProcQ(readyQueue, p) \in Seq(Pcbs)
        BY <1>3, RemoveFromQueue DEF outProcQ
      <4>. QED BY <1>1, <1>3, <4>1, <4>4, <4>5
    <3>. QED BY <3>1, <3>2, <3>3
  <2>2. \A r : searchInTree(r) = TreeOf(p_child, r) /\ searchInTree(r)' = TreeOf(p_child', r)
    BY DEF searchInTree, TreeOf
  <2>3. cur # NULL => \E i \in 2..Len(term) : currProc \in TreeOf(p_child, term[i])
    <3>1. TreeOf(p_child, p) = {p} /\ p = term[1]
      <4>1. p = term[1]
        BY <1>3
      <4>. HIDE DEF p
      <4>2. TreeOf(p_child, p) = {p}
        BY <1>1, <1>3, <1>4, TreeOfLeaf
      <4>. QED BY <4>1, <4>2
    <3>2. cur # NULL => currProc # NULL /\ currProc # p
      OBVIOUS
    <3>3. currProc # NULL => \E i \in 1..Len(term) : currProc \in TreeOf(p_child, term[i])
      BY <1>1, <2>2 DEF Placed, TermCovers
    <3>4. Len(term) \in Nat
      BY <1>3
    <3>. HIDE DEF p, cur
    <3>. QED BY <3>1, <3>2, <3>3, <3>4
  <2>4. CASE Tail(term) # <<>> /\ currProc' = cur /\ readyQueue' = rq /\ cpu' = cpu
    <3>1. p_child' \in [Pcbs -> SUBSET Pcbs] /\ p_child'[p] = {}
      BY <1>1, <1>3, <1>4 DEF outChild
    <3>2. \A q \in Pcbs : p_child[q] \subseteq p_child'[q] \cup {p}
      BY <1>1, <1>3, <1>4 DEF outChild
    <3>3. TreeOf(p_child', p) = {p}
      BY <1>4, <3>1, TreeOfLeaf
    <3>4. /\ Len(term) \in Nat /\ Len(term') = Len(term) - 1
          /\ \A i \in 2..Len(term) : /\ term[i] \in Pcbs /\ i - 1 \in 1..Len(term')
                                     /\ term'[i - 1] = term[i]
      BY <1>1, <1>3
    <3>5. ASSUME cur # NULL
          PROVE  \E i \in 1..Len(term') : currProc \in TreeOf(p_child', term'[i])
      <4>1. PICK i \in 2..Len(term) : currProc \in TreeOf(p_child, term[i])
        BY <2>3, <3>5
      <4>2. currProc # p
        BY <3>5
      <4>. HIDE DEF p, cur
      <4>3. currProc \in TreeOf(p_child', term[i]) \cup TreeOf(p_child', p)
        BY <1>3, <1>4, <3>1, <3>2, <3>4, <4>1, TreeCut
      <4>. QED BY <3>3, <3>4, <4>2, <4>3
    <3>6. cur # NULL => cur = currProc
      OBVIOUS
    <3>. HIDE DEF p, cur, rq
    <3>7. TermCovers'
      BY <2>2, <2>4, <3>5, <3>6 DEF TermCovers
    <3>. QED BY <1>1, <2>1, <2>4, <3>7 DEF Placed, IdleCpu, Stopped
  <2>5. CASE Tail(term) = <<>> /\ dispatch(rq, processCount - 1, soft, cur)
    <3>1. Len(term) = 1
      <4>1. Len(Tail(term)) = Len(term) - 1 /\ Len(term) \in Nat
        BY <1>3
      <4>0. Tail(term) = <<>>
        BY <2>5
      <4>2. Len(Tail(term)) = Len(<<>>)
        BY ONLY <4>0, Zenon
      <4>3. Len(<<>>) = 0
        OBVIOUS
      <4>. QED BY <4>1, <4>2, <4>3
    <3>2. cur = NULL
      BY <2>3, <3>1
    <3>3. pcbFree' \in SUBSET Pcbs
      BY <1>1, <1>3, <1>4
    <3>. HIDE DEF p, cur, rq, soft
    <3>4. /\ Place(readyQueue', semd', currProc', pcbFree')
          /\ cpu' \in Stopped \cup {"run"} /\ IdleCpu'
      BY <2>1, <2>5, <3>2, <3>3, PlaceDispatch
    <3>. QED BY <2>1, <3>4 DEF Placed, TermCovers, Stopped
  <2>. QED BY <1>2, <1>6, <2>4, <2>5
<1>. QED BY <1>5, <1>6

(* Every action keeps every process in one place.                          *)
LEMMA PlaceStep ==
    ASSUME ~KillAny, TypeInv, Placed, [Next]_vars
    PROVE  Placed'
<1>0. /\ semd \in [Sems -> Seq(Pcbs)] /\ readyQueue \in Seq(Pcbs)
      /\ p_prio \in [Pcbs -> Int] /\ pcbFree \in SUBSET Pcbs
      /\ p_child \in [Pcbs -> SUBSET Pcbs]
  BY PriosAssumption DEF TypeInv, TypeOK
<1>. DEFINE Run == /\ currProc \in Pcbs /\ Intact
                   /\ Place(readyQueue, semd, currProc, pcbFree)
                   /\ Names(semd, p_semAdd)
<1>r. cpu = "run" => Run
  BY DEF TypeInv, SomebodyRuns, Placed, Intact
<1>s. ASSUME cpu' \in Stopped \cup {"run", "tick"}, IdleCpu',
             Place(readyQueue', semd', currProc', pcbFree'), Names(semd', p_semAdd')
      PROVE  Placed'
  BY <1>s DEF Placed, TermCovers, Stopped
<1>t. ASSUME cpu' \in {"run", "tick"} PROVE IdleCpu'
  BY <1>t DEF IdleCpu, Stopped
<1>1. ASSUME NEW prio \in Prios, NEW support \in Supports, nsys1(prio, support)
      PROVE  Placed'
  <2>0. cpu = "run" /\ cpu' = "run" /\ semd' = semd /\ currProc' = currProc
    BY <1>1 DEF nsys1
  <2>1. CASE UNCHANGED <<pcbFree, pcbVars, p_semAdd, readyQueue, processCount>>
    BY <1>r, <1>s, <1>t, <2>0, <2>1
  <2>2. ASSUME NEW n \in pcbFree,
               pcbFree' = pcbFree \ {n}, initPcb(n, prio, support),
               readyQueue' = insertProcQ(readyQueue, [p_prio EXCEPT ![n] = prio], n)
        PROVE  Placed'
    <3>1. [p_prio EXCEPT ![n] = prio] \in [Pcbs -> Int]
      BY <1>0, PriosAssumption
    <3>2. Place(readyQueue', semd, currProc, pcbFree')
      BY <1>0, <1>r, <2>0, <2>2, <3>1, PlaceCreate
    <3>3. p_semAdd \in [Pcbs -> Sems \cup {NULL}] /\ p_semAdd' = [p_semAdd EXCEPT ![n] = NULL]
      BY <2>2 DEF initPcb, TypeInv, TypeOK
    <3>4. \A s \in Sems : n \notin ToSet(semd[s]) /\ ToSet(semd[s]) \subseteq Pcbs
      BY <1>0, <1>r, <2>0 DEF Place, WaitsIn
    <3>5. Names(semd, p_semAdd')
      BY <1>r, <2>0, <3>3, <3>4 DEF Names
    <3>. QED BY <1>s, <1>t, <2>0, <3>2, <3>5
  <2>. QED BY <1>1, <2>1, <2>2 DEF nsys1
<1>2. ASSUME NEW pid \in 0..MaxPid, nsys2(pid)
      PROVE  Placed'
  <2>0. cpu = "run" /\ currProc \in Pcbs
    BY <1>2, <1>r DEF nsys2
  <2>1. CASE UNCHANGED vars
    BY <2>1 DEF vars, pcbVars, termVars, Placed, Intact, IdleCpu, TermCovers, searchInTree
  <2>2. CASE callTerminate(currProc)
    <3>1. currProc \in searchInTree(currProc)
      BY <2>0 DEF searchInTree
    <3>. QED BY <2>0, <2>2, <3>1, CallPlaced
  <2>3. ASSUME NEW p \in findPcbByPid(pid), currProc \in searchInTree(p), callTerminate(p)
        PROVE  Placed'
    <3>1. p \in Pcbs
      BY DEF findPcbByPid, searchInTree, Blocked
    <3>. QED BY <2>0, <2>3, <3>1, CallPlaced
  <2>. QED BY <1>2, <2>1, <2>2, <2>3 DEF nsys2
<1>3. ASSUME NEW s \in UserSems, nsys3(s)
      PROVE  Placed'
  <2>1. s \in Sems /\ cpu = "run" /\ pcbFree' = pcbFree
    BY <1>3 DEF Sems, nsys3
  <2>2. CASE UNCHANGED <<semd, p_semAdd, currProc, readyQueue, cpu, softBlock_count>>
    BY <1>r, <1>s, <1>t, <2>1, <2>2
  <2>3. CASE block(s, softBlock_count)
    BY <2>1, <2>3, BlockPlaced
  <2>. QED BY <1>3, <2>2, <2>3 DEF nsys3
<1>4. ASSUME NEW s \in UserSems, nsys4(s)
      PROVE  Placed'
  <2>1. s \in Sems /\ cpu = "run" /\ UNCHANGED <<pcbFree, currProc, cpu>>
    BY <1>4 DEF Sems, nsys4
  <2>2. CASE removeBlocked(s) /\ readyQueue' = insertProcQ(readyQueue, p_prio, Head(semd[s]))
    BY <1>r, <1>s, <1>t, <2>1, <2>2, WakePlaced
  <2>3. CASE UNCHANGED <<semd, p_semAdd, readyQueue>>
    BY <1>r, <1>s, <1>t, <2>1, <2>3
  <2>. QED BY <1>4, <2>2, <2>3 DEF nsys4
<1>5. ASSUME NEW d \in DevSems, nsys5(d)
      PROVE  Placed'
  <2>1. d \in Sems /\ cpu = "run" /\ pcbFree' = pcbFree /\ block(d, softBlock_count + 1)
    BY <1>5 DEF Sems, DeviceSemaphores, nsys5
  <2>. QED BY <2>1, BlockPlaced
<1>6. ASSUME nsys7
      PROVE  Placed'
  <2>1. /\ ClockSem \in Sems /\ cpu = "run" /\ pcbFree' = pcbFree
        /\ block(ClockSem, softBlock_count + 1)
    BY <1>6 DEF Sems, DeviceSemaphores, nsys7
  <2>. QED BY <2>1, BlockPlaced
<1>7. ASSUME nsys10
      PROVE  Placed'
  <2>. DEFINE y == yieldQueue(readyQueue, currProc)
  <2>1. /\ cpu = "run" /\ UNCHANGED <<pcbFree, semd, p_semAdd>>
        /\ dispatch(y, processCount, softBlock_count, NULL)
    BY <1>7 DEF nsys10
  <2>2. y \in Seq(Pcbs) /\ Place(y, semd, NULL, pcbFree)
    <3>1. CASE readyQueue = <<>>
      <4>1. y = insertProcQ(readyQueue, p_prio, currProc)
        BY <3>1 DEF yieldQueue
      <4>. HIDE DEF y
      <4>2. insertProcQ(readyQueue, p_prio, currProc) \in Seq(Pcbs)
        BY <1>0, <1>r, <2>1, InsertProcQ
      <4>3. Place(insertProcQ(readyQueue, p_prio, currProc), semd, NULL, pcbFree)
        BY <1>0, <1>r, <2>1, PlaceRequeue
      <4>. QED BY <4>1, <4>2, <4>3
    <3>2. CASE readyQueue # <<>>
      <4>1. y = Cons(Head(readyQueue), insertProcQ(Tail(readyQueue), p_prio, currProc))
        BY <3>2 DEF yieldQueue
      <4>. QED BY <1>0, <1>r, <2>1, <3>2, <4>1, PlaceYield
    <3>. QED BY <3>1, <3>2
  <2>. HIDE DEF y
  <2>3. /\ Place(readyQueue', semd, currProc', pcbFree)
        /\ cpu' \in Stopped \cup {"run"} /\ IdleCpu'
    BY <1>0, <2>1, <2>2, PlaceDispatch
  <2>. QED BY <1>r, <1>s, <2>1, <2>3
<1>8. ASSUME passUpOrDie
      PROVE  Placed'
  <2>0. cpu = "run" /\ currProc \in Pcbs
    BY <1>8, <1>r DEF passUpOrDie
  <2>1. CASE UNCHANGED vars
    BY <2>1 DEF vars, pcbVars, termVars, Placed, Intact, IdleCpu, TermCovers, searchInTree
  <2>2. CASE callTerminate(currProc)
    <3>1. currProc \in searchInTree(currProc)
      BY <2>0 DEF searchInTree
    <3>. QED BY <2>0, <2>2, <3>1, CallPlaced
  <2>. QED BY <1>8, <2>1, <2>2 DEF passUpOrDie
<1>9. ASSUME terminateProcess
      PROVE  Placed'
  BY <1>9, ChildPlaced, SelfPlaced DEF terminateProcess
<1>10. ASSUME pltInterruptHandler
       PROVE  Placed'
  <2>. DEFINE r == insertProcQ(readyQueue, p_prio, currProc)
  <2>1. /\ cpu = "run" /\ UNCHANGED <<pcbFree, semd, p_semAdd>>
        /\ dispatch(r, processCount, softBlock_count, currProc)
    BY <1>10 DEF pltInterruptHandler
  <2>2. r \in Seq(Pcbs) /\ r # <<>> /\ Place(r, semd, NULL, pcbFree)
    BY <1>0, <1>r, <2>1, PlaceRequeue, InsertProcQ
  <2>. HIDE DEF r
  <2>3. /\ Place(readyQueue', semd, currProc', pcbFree)
        /\ cpu' \in Stopped \cup {"run"} /\ IdleCpu'
    BY <1>0, <2>1, <2>2, PlaceDispatch
  <2>. QED BY <1>r, <1>s, <2>1, <2>3
<1>11. ASSUME itInterruptHandler
       PROVE  Placed'
  <2>1. /\ cpu \in {"run", "wait", "tick"} /\ pcbFree' = pcbFree /\ ClockSem \in Sems
        /\ currProc \in Pcbs \cup {NULL}
    BY <1>11 DEF itInterruptHandler, Interruptible, Sems, DeviceSemaphores, TypeInv, TypeOK
  <2>2. Intact /\ Place(readyQueue, semd, currProc, pcbFree) /\ Names(semd, p_semAdd)
    BY <2>1 DEF Placed, Intact
  <2>3. CASE /\ removeBlocked(ClockSem) /\ cpu' = "tick" /\ currProc' = currProc
             /\ readyQueue' = insertProcQ(readyQueue, p_prio, Head(semd[ClockSem]))
    BY <1>s, <1>t, <2>1, <2>2, <2>3, WakePlaced
  <2>4. CASE /\ UNCHANGED <<semd, p_semAdd>>
             /\ dispatch(IF currProc = NULL THEN readyQueue
                         ELSE insertProcQ(readyQueue, p_prio, currProc),
                         processCount, softBlock_count, currProc)
    <3>. DEFINE r == IF currProc = NULL THEN readyQueue
                     ELSE insertProcQ(readyQueue, p_prio, currProc)
    <3>1. /\ r \in Seq(Pcbs) /\ (r # <<>> \/ currProc = NULL)
          /\ Place(r, semd, NULL, pcbFree)
      <4>1. CASE currProc = NULL
        BY <1>0, <2>2, <4>1
      <4>2. CASE currProc # NULL
        <5>1. r = insertProcQ(readyQueue, p_prio, currProc) /\ currProc \in Pcbs
          BY <2>1, <4>2
        <5>. QED BY <1>0, <2>2, <5>1, PlaceRequeue, InsertProcQ
      <4>. QED BY <4>1, <4>2
    <3>2. dispatch(r, processCount, softBlock_count, currProc)
      BY <2>4
    <3>. HIDE DEF r
    <3>3. /\ Place(readyQueue', semd, currProc', pcbFree)
          /\ cpu' \in Stopped \cup {"run"} /\ IdleCpu'
      BY <1>0, <3>1, <3>2, PlaceDispatch
    <3>. QED BY <1>s, <2>1, <2>2, <2>4, <3>3
  <2>. QED BY <1>11, <2>3, <2>4 DEF itInterruptHandler
<1>12. ASSUME NEW d \in DevSems, deviceInterruptHandler(d)
       PROVE  Placed'
  <2>. DEFINE woken == semd[d] # <<>>
              r == IF woken THEN insertProcQ(readyQueue, p_prio, Head(semd[d]))
                   ELSE readyQueue
              soft == IF woken THEN softBlock_count - 1 ELSE softBlock_count
  <2>1. /\ cpu \in {"run", "wait"} /\ pcbFree' = pcbFree /\ d \in Sems
        /\ \/ removeBlocked(d)
           \/ ~woken /\ UNCHANGED <<semd, p_semAdd>>
        /\ \/ cpu = "run" /\ readyQueue' = r /\ UNCHANGED <<currProc, cpu>>
           \/ cpu = "wait" /\ dispatch(r, processCount, soft, currProc)
    BY <1>12 DEF deviceInterruptHandler, Interruptible, Sems, DeviceSemaphores
  <2>2. Intact /\ Place(readyQueue, semd, currProc, pcbFree) /\ Names(semd, p_semAdd)
    BY <2>1 DEF Placed, Intact
  <2>3. /\ r \in Seq(Pcbs) /\ semd' \in [Sems -> Seq(Pcbs)]
        /\ Place(r, semd', currProc, pcbFree) /\ Names(semd', p_semAdd')
    <3>1. CASE removeBlocked(d)
      <4>1. r = insertProcQ(readyQueue, p_prio, Head(semd[d]))
        BY <3>1 DEF removeBlocked
      <4>. HIDE DEF r
      <4>. QED BY <2>1, <2>2, <3>1, <4>1, WakePlaced
    <3>2. CASE ~woken /\ UNCHANGED <<semd, p_semAdd>>
      BY <1>0, <2>2, <3>2
    <3>. QED BY <2>1, <3>1, <3>2
  <2>4. cpu = "wait" => currProc = NULL
    BY DEF Placed, IdleCpu, Stopped
  <2>. HIDE DEF r, soft, woken
  <2>5. CASE cpu = "run" /\ readyQueue' = r /\ UNCHANGED <<currProc, cpu>>
    BY <1>s, <1>t, <2>1, <2>3, <2>5
  <2>6. CASE cpu = "wait" /\ dispatch(r, processCount, soft, currProc)
    <3>1. /\ Place(readyQueue', semd', currProc', pcbFree)
          /\ cpu' \in Stopped \cup {"run"} /\ IdleCpu'
      BY <1>0, <2>3, <2>4, <2>6, PlaceDispatch
    <3>. QED BY <1>s, <2>1, <2>3, <3>1
  <2>. QED BY <2>1, <2>5, <2>6
<1>13. ASSUME NEW d \in DevSems, deviceDone(d)
       PROVE  Placed'
  BY <1>13 DEF deviceDone, pcbVars, termVars, Placed, Intact, IdleCpu, TermCovers, searchInTree
<1>14. CASE UNCHANGED vars
  BY <1>14 DEF vars, pcbVars, termVars, Placed, Intact, IdleCpu, TermCovers, searchInTree
<1>. QED
  BY <1>1, <1>2, <1>3, <1>4, <1>5, <1>6, <1>7, <1>8, <1>9, <1>10, <1>11,
     <1>12, <1>13, <1>14
  DEF Next, syscallHandler, interruptHandler

(* test() runs, the other PCBs are free and nobody waits.                  *)
LEMMA PlaceInit == Init => Placed
<1>. SUFFICES ASSUME Init PROVE Placed
  OBVIOUS
<1>1. PICK first \in Pcbs : /\ allocFirstPcb(first) /\ initASL /\ readyQueue = <<>>
                            /\ currProc = first /\ cpu = "run"
  BY DEF Init
<1>2. /\ pcbFree = Pcbs \ {first} /\ \A s \in Sems : semd[s] = <<>>
  BY <1>1 DEF allocFirstPcb, initASL
<1>3. ToSet(<<>>) = {} /\ IsInjective(<<>>)
  BY DEF ToSet, IsInjective
<1>4. WaitsIn(semd) = {}
  BY <1>2, <1>3 DEF WaitsIn
<1>5. Apart(semd) /\ Names(semd, p_semAdd)
  BY <1>2, <1>3 DEF Apart, Names
<1>6. Place(readyQueue, semd, currProc, pcbFree)
  BY <1>1, <1>2, <1>3, <1>4, <1>5, PcbsAssumption DEF Place
<1>. QED BY <1>1, <1>5, <1>6 DEF Placed, IdleCpu, TermCovers, Stopped

(* The inductive invariant behind OnePlace: types, queues, the p_semAdd of *)
(* the waiters, the idle CPU and the caller of a termination in progress,  *)
(* in every state, when TERMPROCESS names the caller or an ancestor.       *)
THEOREM PlaceCorrect == ASSUME ~KillAny PROVE Spec => []PlaceInv
<1>1. Init => PlaceInv
  BY TypeInit, PlaceInit, PlaceMeaning DEF PlaceInv, TypeInv
<1>2. PlaceInv /\ [Next]_vars => PlaceInv'
  <2>. SUFFICES ASSUME PlaceInv, [Next]_vars PROVE PlaceInv'
    OBVIOUS
  <2>1. TypeInv /\ Placed
    BY PlaceMeaning DEF PlaceInv, TypeInv
  <2>2. TypeInv' /\ Placed'
    BY <2>1, TypeStep, PlaceStep
  <2>. QED BY <2>2, PlaceMeaningNext DEF PlaceInv, TypeInv
<1>. QED BY <1>1, <1>2, PTL DEF Spec

(* Every PCB is free, running, once on the ready queue or once on the      *)
(* queue of one semaphore: no handler of the Nucleus loses a process or    *)
(* links it twice, for any number of PCBs, semaphores and priorities.      *)
THEOREM OnePlaceSafe == ASSUME ~KillAny PROVE Spec => []OnePlace
<1>1. PlaceInv => OnePlace
  BY DEF PlaceInv
<1>. QED BY <1>1, PlaceCorrect, PTL

(* insertBlocked finds a descriptor whenever a process may block: at most  *)
(* MAXPROC - 1 semaphores have waiters while a process runs, so the result *)
(* that nsys3, nsys5 and nsys7 ignore is never TRUE.                       *)
THEOREM AslSafe == ASSUME ~KillAny PROVE Spec => []AslNeverFull
<1>1. PlaceInv => AslNeverFull
  <2>1. ASSUME PlaceInv PROVE TypeInv /\ Placed
    BY <2>1, PlaceMeaning DEF PlaceInv, TypeInv
  <2>. QED BY <2>1, RoomInAsl DEF AslNeverFull
<1>. QED BY <1>1, PlaceCorrect, PTL

(* No living process is dropped by dispatch(): a stopped or waiting CPU    *)
(* holds no process that is on no queue.                                   *)
THEOREM NobodyLostSafe == ASSUME ~KillAny PROVE Spec => []NobodyLost
<1>1. PlaceInv => NobodyLost
  <2>. SUFFICES ASSUME PlaceInv, Intact
                PROVE  Live \subseteq ToSet(readyQueue) \cup Blocked
                         \cup (IF cpu \in {"run", "tick", "term"} THEN {currProc} ELSE {})
    BY DEF NobodyLost
  <2>1. Live = ToSet(readyQueue) \cup Blocked \cup ({currProc} \ {NULL})
    BY DEF PlaceInv, OnePlace
  <2>2. cpu \in {"run", "tick", "term"} \/ currProc = NULL
    BY DEF PlaceInv, IdleCpu, Stopped, TypeInv, TypeOK, CpuModes, Intact
  <2>. QED BY <2>1, <2>2
<1>. QED BY <1>1, PlaceCorrect, PTL
-----------------------------------------------------------------------------
(***************************************************************************)
(* The ready queue is always in priority order, a user semaphore never has *)
(* both a positive value and a waiter, and the Nucleus' semaphores are     *)
(* those of SemaphoreSpec.                                                 *)
(***************************************************************************)
(* dispatch() takes the head of a sorted queue, or leaves the empty one.   *)
LEMMA SortedDispatch ==
    ASSUME NEW rq \in Seq(Pcbs), NEW count, NEW soft, NEW cur,
           dispatch(rq, count, soft, cur), Sorted(rq, p_prio), p_prio' = p_prio
    PROVE  Sorted(readyQueue', p_prio')
<1>1. CASE rq # <<>> /\ readyQueue' = Tail(rq)
  BY <1>1, TailOfQueue
<1>2. CASE readyQueue' = rq
  BY <1>2
<1>. QED BY <1>1, <1>2 DEF dispatch

(* Every action leaves the ready queue in priority order.                  *)
LEMMA SortedStep ==
    ASSUME TypeInv, Placed, Sorted(readyQueue, p_prio), [Next]_vars
    PROVE  Sorted(readyQueue', p_prio')
<1>0. /\ semd \in [Sems -> Seq(Pcbs)] /\ readyQueue \in Seq(Pcbs)
      /\ p_prio \in [Pcbs -> Int] /\ pcbFree \in SUBSET Pcbs
      /\ currProc \in Pcbs \cup {NULL}
  BY PriosAssumption DEF TypeInv, TypeOK
<1>c. cpu = "run" => currProc \in Pcbs
  BY DEF TypeInv, SomebodyRuns
<1>w. \A s \in Sems : semd[s] # <<>> => Head(semd[s]) \in Pcbs
  BY <1>0, TailOfQueue
<1>i. \A p \in Pcbs : /\ insertProcQ(readyQueue, p_prio, p) \in Seq(Pcbs)
                      /\ Sorted(insertProcQ(readyQueue, p_prio, p), p_prio)
  BY <1>0, InsertProcQ
<1>1. ASSUME NEW prio \in Prios, NEW support \in Supports, nsys1(prio, support)
      PROVE  Sorted(readyQueue', p_prio')
  <2>1. ASSUME NEW n \in pcbFree, initPcb(n, prio, support),
               readyQueue' = insertProcQ(readyQueue, [p_prio EXCEPT ![n] = prio], n)
        PROVE  Sorted(readyQueue', p_prio')
    <3>1. p_prio' = [p_prio EXCEPT ![n] = prio] /\ p_prio' \in [Pcbs -> Int] /\ n \in Pcbs
      BY <1>0, <2>1, PriosAssumption DEF initPcb
    <3>2. n \notin ToSet(readyQueue)
      BY <1>1 DEF nsys1, Placed, Place, Intact
    <3>3. \A i \in 1..Len(readyQueue) : p_prio'[readyQueue[i]] = p_prio[readyQueue[i]]
      BY <1>0, <3>1, <3>2, ToSetSeq
    <3>4. Sorted(readyQueue, p_prio')
      BY <3>3 DEF Sorted
    <3>5. readyQueue' = insertProcQ(readyQueue, p_prio', n)
      BY <2>1, <3>1
    <3>. QED BY <1>0, <3>1, <3>4, <3>5, InsertProcQ
  <2>2. CASE UNCHANGED <<pcbVars, readyQueue>>
    BY <2>2 DEF pcbVars
  <2>. QED BY <1>1, <2>1, <2>2 DEF nsys1
<1>2. ASSUME NEW pid \in 0..MaxPid, nsys2(pid)
      PROVE  Sorted(readyQueue', p_prio')
  BY <1>2 DEF nsys2, callTerminate, pcbVars, vars
<1>3. ASSUME NEW s \in UserSems, nsys3(s)
      PROVE  Sorted(readyQueue', p_prio')
  <2>1. p_prio' = p_prio
    BY <1>3 DEF nsys3, pcbVars
  <2>2. CASE readyQueue' = readyQueue
    BY <2>1, <2>2
  <2>3. CASE dispatch(readyQueue, processCount, softBlock_count, NULL)
    BY <1>0, <2>1, <2>3, SortedDispatch
  <2>. QED BY <1>3, <2>2, <2>3 DEF nsys3, block
<1>4. ASSUME NEW s \in UserSems, nsys4(s)
      PROVE  Sorted(readyQueue', p_prio')
  <2>1. s \in Sems /\ p_prio' = p_prio
    BY <1>4 DEF nsys4, pcbVars, Sems
  <2>. QED BY <1>4, <1>i, <1>w, <2>1 DEF nsys4, removeBlocked
<1>5. ASSUME NEW d \in DevSems, nsys5(d)
      PROVE  Sorted(readyQueue', p_prio')
  <2>1. p_prio' = p_prio /\ dispatch(readyQueue, processCount, softBlock_count + 1, NULL)
    BY <1>5 DEF nsys5, pcbVars, block
  <2>. QED BY <1>0, <2>1, SortedDispatch
<1>6. ASSUME nsys7
      PROVE  Sorted(readyQueue', p_prio')
  <2>1. p_prio' = p_prio /\ dispatch(readyQueue, processCount, softBlock_count + 1, NULL)
    BY <1>6 DEF nsys7, pcbVars, block
  <2>. QED BY <1>0, <2>1, SortedDispatch
<1>7. ASSUME nsys10
      PROVE  Sorted(readyQueue', p_prio')
  <2>1. /\ cpu = "run" /\ p_prio' = p_prio
        /\ dispatch(yieldQueue(readyQueue, currProc), processCount, softBlock_count, NULL)
    BY <1>7 DEF nsys10, pcbVars
  <2>2. CASE readyQueue = <<>>
    <3>1. yieldQueue(readyQueue, currProc) = insertProcQ(readyQueue, p_prio, currProc)
      BY <2>2 DEF yieldQueue
    <3>. QED BY <1>c, <1>i, <2>1, <3>1, SortedDispatch
  <2>3. CASE readyQueue # <<>>
    <3>. DEFINE r == insertProcQ(Tail(readyQueue), p_prio, currProc)
    <3>1. /\ Head(readyQueue) \in Pcbs /\ Tail(readyQueue) \in Seq(Pcbs)
          /\ Sorted(Tail(readyQueue), p_prio)
      BY <1>0, <2>3, TailOfQueue
    <3>2. r \in Seq(Pcbs) /\ Sorted(r, p_prio)
      BY <1>0, <1>c, <2>1, <3>1, InsertProcQ
    <3>3. yieldQueue(readyQueue, currProc) = Cons(Head(readyQueue), r)
      BY <2>3 DEF yieldQueue
    <3>. HIDE DEF r
    <3>4. Cons(Head(readyQueue), r) # <<>> /\ Tail(Cons(Head(readyQueue), r)) = r
      BY <3>1, <3>2, ConsToQueue
    <3>5. readyQueue' = r
      BY <2>1, <3>3, <3>4 DEF dispatch
    <3>. QED BY <2>1, <3>2, <3>5
  <2>. QED BY <2>2, <2>3
<1>8. ASSUME passUpOrDie
      PROVE  Sorted(readyQueue', p_prio')
  BY <1>8 DEF passUpOrDie, callTerminate, pcbVars, vars
<1>9. ASSUME terminateProcess
      PROVE  Sorted(readyQueue', p_prio')
  <2>1. CASE terminateChild
    BY <2>1 DEF terminateChild
  <2>2. CASE terminateSelf
    <3>. DEFINE p == Head(term)
                cur == IF p = currProc THEN NULL ELSE currProc
                rq == IF p = currProc \/ onSemaphore(p) THEN readyQueue
                      ELSE outProcQ(readyQueue, p)
                soft == IF onSemaphore(p) /\ isDeviceSemaphore(p_semAdd[p])
                        THEN softBlock_count - 1 ELSE softBlock_count
    <3>1. /\ p_prio' = p_prio
          /\ \/ readyQueue' = rq
             \/ dispatch(rq, processCount - 1, soft, cur)
      BY <2>2 DEF terminateSelf
    <3>2. rq \in Seq(Pcbs) /\ Sorted(rq, p_prio)
      BY <1>0, RemoveFromQueue DEF outProcQ
    <3>. HIDE DEF rq, soft, cur, p
    <3>3. CASE readyQueue' = rq
      BY <3>1, <3>2, <3>3
    <3>4. CASE dispatch(rq, processCount - 1, soft, cur)
      BY <3>1, <3>2, <3>4, SortedDispatch
    <3>. QED BY <3>1, <3>3, <3>4
  <2>. QED BY <1>9, <2>1, <2>2 DEF terminateProcess
<1>10. ASSUME pltInterruptHandler
       PROVE  Sorted(readyQueue', p_prio')
  <2>1. /\ cpu = "run" /\ p_prio' = p_prio
        /\ dispatch(insertProcQ(readyQueue, p_prio, currProc), processCount,
                    softBlock_count, currProc)
    BY <1>10 DEF pltInterruptHandler, pcbVars
  <2>. QED BY <1>c, <1>i, <2>1, SortedDispatch
<1>11. ASSUME itInterruptHandler
       PROVE  Sorted(readyQueue', p_prio')
  <2>. DEFINE r == IF currProc = NULL THEN readyQueue
                   ELSE insertProcQ(readyQueue, p_prio, currProc)
  <2>1. p_prio' = p_prio /\ ClockSem \in Sems
    BY <1>11 DEF itInterruptHandler, pcbVars, Sems, DeviceSemaphores
  <2>2. r \in Seq(Pcbs) /\ Sorted(r, p_prio)
    BY <1>0, <1>i
  <2>. HIDE DEF r
  <2>3. CASE dispatch(r, processCount, softBlock_count, currProc)
    BY <2>1, <2>2, <2>3, SortedDispatch
  <2>4. CASE removeBlocked(ClockSem)
             /\ readyQueue' = insertProcQ(readyQueue, p_prio, Head(semd[ClockSem]))
    BY <1>i, <1>w, <2>1, <2>4 DEF removeBlocked
  <2>. QED BY <1>11, <2>3, <2>4 DEF itInterruptHandler, r
<1>12. ASSUME NEW d \in DevSems, deviceInterruptHandler(d)
       PROVE  Sorted(readyQueue', p_prio')
  <2>. DEFINE woken == semd[d] # <<>>
              r == IF woken THEN insertProcQ(readyQueue, p_prio, Head(semd[d]))
                   ELSE readyQueue
              soft == IF woken THEN softBlock_count - 1 ELSE softBlock_count
  <2>1. p_prio' = p_prio /\ d \in Sems
        /\ (readyQueue' = r \/ dispatch(r, processCount, soft, currProc))
    BY <1>12 DEF deviceInterruptHandler, pcbVars, Sems, DeviceSemaphores
  <2>2. r \in Seq(Pcbs) /\ Sorted(r, p_prio)
    BY <1>0, <1>i, <1>w, <2>1
  <2>. HIDE DEF r, soft
  <2>3. CASE readyQueue' = r
    BY <2>1, <2>2, <2>3
  <2>4. CASE dispatch(r, processCount, soft, currProc)
    BY <2>1, <2>2, <2>4, SortedDispatch
  <2>. QED BY <2>1, <2>3, <2>4
<1>13. ASSUME NEW d \in DevSems, deviceDone(d)
       PROVE  Sorted(readyQueue', p_prio')
  BY <1>13 DEF deviceDone, pcbVars
<1>14. CASE UNCHANGED vars
  BY <1>14 DEF vars, pcbVars
<1>. QED
  BY <1>1, <1>2, <1>3, <1>4, <1>5, <1>6, <1>7, <1>8, <1>9, <1>10, <1>11,
     <1>12, <1>13, <1>14
  DEF Next, syscallHandler, interruptHandler

(* The scheduler always dispatches a process of the highest priority on    *)
(* the ready queue: insertProcQ, outProcQ and Yield keep it sorted, and    *)
(* CREATEPROCESS changes the priority of no PCB that is on it.             *)
THEOREM ReadySortedSafe == ASSUME ~KillAny PROVE Spec => []ReadySorted
<1>1. Init => ReadySorted
  BY DEF Init, ReadySorted
<1>2. PlaceInv /\ ReadySorted /\ [Next]_vars => ReadySorted'
  <2>. SUFFICES ASSUME PlaceInv, ReadySorted, [Next]_vars PROVE ReadySorted'
    OBVIOUS
  <2>1. TypeInv /\ Placed
    BY PlaceMeaning DEF PlaceInv, TypeInv
  <2>2. Sorted(readyQueue, p_prio)
    BY DEF ReadySorted, Sorted
  <2>3. Sorted(readyQueue', p_prio')
    BY <2>1, <2>2, SortedStep
  <2>. QED BY <2>3 DEF ReadySorted, Sorted
<1>. QED BY <1>1, <1>2, PlaceCorrect, PTL DEF Spec
-----------------------------------------------------------------------------
(* A queue that loses elements does not become non-empty; one that gains   *)
(* an element belongs to a semaphore whose value is 0.                     *)
LEMMA NoWaiterStep ==
    ASSUME TypeInv, NoWaiterOnOpenSemaphore, [Next]_vars
    PROVE  NoWaiterOnOpenSemaphore'
<1>0. /\ semd \in [Sems -> Seq(Pcbs)] /\ semVal \in [Sems -> Nat]
      /\ p_semAdd \in [Pcbs -> Sems \cup {NULL}]
      /\ term \in Seq(Pcbs) /\ (cpu = "term" => term # <<>>)
  BY DEF TypeInv, TypeOK
<1>d. /\ UserSems \subseteq Sems /\ DevSems \subseteq Sems /\ ClockSem \in Sems
      /\ \A u \in UserSems : u # ClockSem /\ u \notin DevSems
  BY SemsAssumption DEF Sems, DeviceSemaphores
<1>s. ASSUME \A u \in UserSems : /\ semVal'[u] = semVal[u]
                                 /\ semd[u] = <<>> => semd'[u] = <<>>
      PROVE  NoWaiterOnOpenSemaphore'
  BY <1>s DEF NoWaiterOnOpenSemaphore
<1>u. ASSUME UNCHANGED <<semVal, semd>> PROVE NoWaiterOnOpenSemaphore'
  BY <1>u DEF NoWaiterOnOpenSemaphore
<1>1. ASSUME NEW prio \in Prios, NEW support \in Supports, nsys1(prio, support)
      PROVE  NoWaiterOnOpenSemaphore'
  BY <1>1, <1>u DEF nsys1
<1>2. ASSUME NEW pid \in 0..MaxPid, nsys2(pid)
      PROVE  NoWaiterOnOpenSemaphore'
  BY <1>2, <1>u DEF nsys2, callTerminate, vars
<1>3. ASSUME NEW s \in UserSems, nsys3(s)
      PROVE  NoWaiterOnOpenSemaphore'
  <2>1. CASE /\ semVal[s] > 0 /\ semVal' = [semVal EXCEPT ![s] = @ - 1] /\ semd' = semd
    BY <1>0, <1>d, <2>1 DEF NoWaiterOnOpenSemaphore
  <2>2. CASE ~(semVal[s] > 0) /\ semVal' = semVal /\ insertBlocked(s, currProc)
    <3>1. \A u \in UserSems \ {s} : semd'[u] = semd[u]
      BY <1>0, <1>d, <2>2 DEF insertBlocked
    <3>. QED BY <1>0, <1>d, <2>2, <3>1 DEF NoWaiterOnOpenSemaphore
  <2>. QED BY <1>3, <2>1, <2>2 DEF nsys3, available, block
<1>4. ASSUME NEW s \in UserSems, nsys4(s)
      PROVE  NoWaiterOnOpenSemaphore'
  <2>1. CASE removeBlocked(s) /\ semVal' = semVal
    <3>1. \A u \in UserSems : semd[u] = <<>> => semd'[u] = <<>>
      BY <1>0, <1>d, <2>1 DEF removeBlocked
    <3>. QED BY <1>s, <2>1, <3>1
  <2>2. CASE semd[s] = <<>> /\ semVal' = [semVal EXCEPT ![s] = @ + 1] /\ semd' = semd
    BY <1>0, <1>d, <2>2 DEF NoWaiterOnOpenSemaphore
  <2>. QED BY <1>4, <2>1, <2>2 DEF nsys4
<1>5. ASSUME NEW d \in DevSems, nsys5(d)
      PROVE  NoWaiterOnOpenSemaphore'
  <2>1. semVal' = semVal /\ insertBlocked(d, currProc)
    BY <1>5 DEF nsys5, block
  <2>2. \A u \in UserSems : semd'[u] = semd[u]
    BY <1>0, <1>d, <2>1 DEF insertBlocked
  <2>. QED BY <1>s, <2>1, <2>2
<1>6. ASSUME nsys7
      PROVE  NoWaiterOnOpenSemaphore'
  <2>1. semVal' = semVal /\ insertBlocked(ClockSem, currProc)
    BY <1>6 DEF nsys7, block
  <2>2. \A u \in UserSems : semd'[u] = semd[u]
    BY <1>0, <1>d, <2>1 DEF insertBlocked
  <2>. QED BY <1>s, <2>1, <2>2
<1>7. CASE nsys10 \/ passUpOrDie \/ terminateChild \/ pltInterruptHandler
  BY <1>7, <1>u DEF nsys10, passUpOrDie, callTerminate, vars, terminateChild, pltInterruptHandler
<1>8. ASSUME terminateSelf
      PROVE  NoWaiterOnOpenSemaphore'
  <2>. DEFINE p == Head(term)
  <2>1. /\ p \in Pcbs /\ semVal' = semVal
        /\ semd' = IF onSemaphore(p) THEN outBlocked(p) ELSE semd
    BY <1>0, <1>8 DEF terminateSelf
  <2>2. \A q : RemoveFirst(<<>>, q) = <<>>
    <3>1. <<>> \in Seq(Pcbs) /\ ToSet(<<>>) = {}
      BY DEF ToSet
    <3>. QED BY <3>1, RemoveAbsent
  <2>. HIDE DEF p
  <2>3. CASE onSemaphore(p)
    <3>1. p_semAdd[p] \in Sems
      BY <1>0, <2>1, <2>3 DEF onSemaphore
    <3>2. semd' = [semd EXCEPT ![p_semAdd[p]] = RemoveFirst(@, p)]
      BY <2>1, <2>3 DEF outBlocked
    <3>3. \A u \in UserSems : semd[u] = <<>> => semd'[u] = <<>>
      BY <1>0, <1>d, <2>2, <3>1, <3>2
    <3>. QED BY <1>s, <2>1, <3>3
  <2>4. CASE ~onSemaphore(p)
    BY <1>u, <2>1, <2>4
  <2>. QED BY <2>3, <2>4
<1>9. ASSUME itInterruptHandler
      PROVE  NoWaiterOnOpenSemaphore'
  <2>1. CASE removeBlocked(ClockSem) /\ semVal' = semVal
    <3>1. \A u \in UserSems : semd'[u] = semd[u]
      BY <1>0, <1>d, <2>1 DEF removeBlocked
    <3>. QED BY <1>s, <2>1, <3>1
  <2>2. CASE semVal' = [semVal EXCEPT ![ClockSem] = 0] /\ semd' = semd
    BY <1>0, <1>d, <1>s, <2>2
  <2>. QED BY <1>9, <2>1, <2>2 DEF itInterruptHandler
<1>10. ASSUME NEW d \in DevSems, deviceInterruptHandler(d)
       PROVE  NoWaiterOnOpenSemaphore'
  <2>1. CASE removeBlocked(d) /\ semVal' = semVal
    <3>1. \A u \in UserSems : semd'[u] = semd[u]
      BY <1>0, <1>d, <2>1 DEF removeBlocked
    <3>. QED BY <1>s, <2>1, <3>1
  <2>2. CASE semVal' = [semVal EXCEPT ![d] = @ + 1] /\ semd' = semd
    BY <1>0, <1>d, <1>s, <2>2
  <2>. QED BY <1>10, <2>1, <2>2 DEF deviceInterruptHandler
<1>11. ASSUME NEW d \in DevSems, deviceDone(d)
       PROVE  NoWaiterOnOpenSemaphore'
  BY <1>11, <1>u DEF deviceDone
<1>12. CASE UNCHANGED vars
  BY <1>12, <1>u DEF vars
<1>. QED
  BY <1>1, <1>2, <1>3, <1>4, <1>5, <1>6, <1>7, <1>8, <1>9, <1>10, <1>11, <1>12
  DEF Next, syscallHandler, interruptHandler, terminateProcess

(* No wake-up is lost on a user semaphore: while its value is positive     *)
(* nobody sleeps on it, whoever is terminated while waiting.  It needs no  *)
(* assumption on who terminates whom.                                      *)
THEOREM NoWaiterSafe == Spec => []NoWaiterOnOpenSemaphore
<1>1. Init => NoWaiterOnOpenSemaphore
  BY DEF Init, initASL, NoWaiterOnOpenSemaphore, Sems
<1>2. TypeInv /\ NoWaiterOnOpenSemaphore /\ [Next]_vars => NoWaiterOnOpenSemaphore'
  BY NoWaiterStep
<1>. QED BY <1>1, <1>2, TypeCorrect, PTL DEF Spec
-----------------------------------------------------------------------------
(* The helpers of SemaphoreSpec, which the instance brings under names of  *)
(* its own, are those of ProcQueue.                                        *)
LEMMA SameHelpers ==
    /\ \A q : Semaphores!ToSet(q) = ToSet(q)
    /\ \A q, D : Semaphores!Without(q, D) = Without(q, D)
<1>1. \A q : Semaphores!ToSet(q) = ToSet(q)
  BY DEF Semaphores!ToSet, ToSet
<1>2. \A q, D : Semaphores!Without(q, D) = Without(q, D)
  BY DEF Semaphores!Without, Without, Semaphores!Rank, Rank,
         Semaphores!Cardinality, Cardinality
<1>. QED BY <1>1, <1>2

(* block() is a Wait: there is a descriptor, and the caller waits nowhere. *)
LEMMA BlockIsWait ==
    ASSUME TypeInv, Placed, cpu = "run", NEW s \in Sems, NEW soft, block(s, soft),
           semVal' = semVal, s \in DeviceSemaphores \/ ~available(s)
    PROVE  Semaphores!Next
<1>1. /\ currProc \in Pcbs /\ semd \in [Sems -> Seq(Pcbs)] /\ semVal \in [Sems -> Nat]
      /\ Place(readyQueue, semd, currProc, pcbFree)
  BY DEF TypeInv, TypeOK, SomebodyRuns, Placed, Intact
<1>2. semd' = [semd EXCEPT ![s] = Append(@, currProc)]
  BY RoomInAsl DEF block, insertBlocked
<1>3. \A t \in Sems : ~Semaphores!Waits(currProc, t)
  BY <1>1, SameHelpers DEF Semaphores!Waits, Place, WaitsIn
<1>4. s \in DeviceSemaphores \/ semVal[s] = 0
  BY <1>1 DEF available
<1>5. Semaphores!Wait(currProc, s)
  BY <1>2, <1>3, <1>4 DEF Semaphores!Wait
<1>. QED BY <1>1, <1>5 DEF Semaphores!Next

(* removeBlocked is a Wake.                                                *)
LEMMA RemoveIsWake ==
    ASSUME NEW s \in Sems, removeBlocked(s), semVal' = semVal
    PROVE  Semaphores!Next
<1>1. Semaphores!Wake(s)
  BY DEF removeBlocked, Semaphores!Wake
<1>. QED BY <1>1 DEF Semaphores!Next

(* outBlocked of the process that is terminated is a Leave: p_semAdd names *)
(* the only queue it can be on.                                            *)
LEMMA SelfIsLeave ==
    ASSUME TypeInv, Placed, terminateSelf
    PROVE  [Semaphores!Next]_(Semaphores!svars)
<1>. DEFINE p == Head(term)
            s == p_semAdd[p]
<1>1. /\ cpu = "term" /\ semVal' = semVal
      /\ semd' = IF onSemaphore(p) THEN outBlocked(p) ELSE semd
  BY DEF terminateSelf
<1>2. /\ semd \in [Sems -> Seq(Pcbs)] /\ p_semAdd \in [Pcbs -> Sems \cup {NULL}]
      /\ term \in Seq(Pcbs) /\ term # <<>>
      /\ Place(readyQueue, semd, currProc, pcbFree) /\ Names(semd, p_semAdd)
  BY <1>1 DEF TypeInv, TypeOK, Placed, Intact
<1>3. p \in Pcbs
  BY <1>2, TailOfQueue
<1>. HIDE DEF p
<1>4. CASE onSemaphore(p)
  <2>1. s \in Sems /\ semd' = [semd EXCEPT ![s] = RemoveFirst(@, p)]
    BY <1>1, <1>2, <1>3, <1>4 DEF onSemaphore, outBlocked
  <2>2. \A t \in Sems : semd[t] \in Seq(Pcbs) /\ IsInjective(semd[t])
    BY <1>2 DEF Place, Apart
  <2>3. \A t \in Sems : Without(semd[t], {p}) = RemoveFirst(semd[t], p)
    BY <2>2, WithoutOne
  <2>4. \A t \in Sems \ {s} : p \notin ToSet(semd[t])
    BY <1>2 DEF Names
  <2>. HIDE DEF s
  <2>5. \A t \in Sems \ {s} : RemoveFirst(semd[t], p) = semd[t]
    BY <2>2, <2>4, RemoveAbsent
  <2>6. \A t \in Sems : semd'[t] = Without(semd[t], {p})
    BY <1>2, <2>1, <2>3, <2>5
  <2>7. semd' = [t \in Sems |-> Without(semd[t], {p})]
    BY <1>2, <2>1, <2>6
  <2>8. Semaphores!Leave({p})
    BY <1>1, <2>7, SameHelpers DEF Semaphores!Leave
  <2>9. {p} \in SUBSET Pcbs
    BY <1>3
  <2>. QED BY <2>8, <2>9 DEF Semaphores!Next
<1>5. CASE ~onSemaphore(p)
  BY <1>1, <1>5 DEF Semaphores!svars
<1>. QED BY <1>4, <1>5

(* Every step of every handler is one step of SemaphoreSpec or none.       *)
LEMMA SemaphoreStep ==
    ASSUME TypeInv, Placed, [Next]_vars
    PROVE  [Semaphores!Next]_(Semaphores!svars)
<1>. DEFINE Step == [Semaphores!Next]_(Semaphores!svars)
<1>d. /\ UserSems \subseteq Sems /\ DevSems \subseteq Sems /\ ClockSem \in Sems
      /\ DevSems \subseteq DeviceSemaphores /\ ClockSem \in DeviceSemaphores
      /\ \A u \in UserSems : u \notin DeviceSemaphores
  BY SemsAssumption DEF Sems, DeviceSemaphores
<1>u. ASSUME UNCHANGED <<semVal, semd>> PROVE Step
  BY <1>u DEF Semaphores!svars
<1>n. ASSUME Semaphores!Next PROVE Step
  BY <1>n
<1>. HIDE DEF Step
<1>1. ASSUME NEW prio \in Prios, NEW support \in Supports, nsys1(prio, support)
      PROVE  Step
  BY <1>1, <1>u DEF nsys1
<1>2. ASSUME NEW pid \in 0..MaxPid, nsys2(pid)
      PROVE  Step
  BY <1>2, <1>u DEF nsys2, callTerminate, vars
<1>3. ASSUME NEW s \in UserSems, nsys3(s)
      PROVE  Step
  <2>1. CASE available(s) /\ semVal' = [semVal EXCEPT ![s] = @ - 1] /\ semd' = semd
    <3>1. Semaphores!Pass(s)
      BY <1>d, <2>1 DEF available, Semaphores!Pass
    <3>. QED BY <1>d, <1>n, <3>1 DEF Semaphores!Next
  <2>2. CASE ~available(s) /\ semVal' = semVal /\ block(s, softBlock_count)
    BY <1>3, <1>d, <1>n, <2>2, BlockIsWait DEF nsys3
  <2>. QED BY <1>3, <2>1, <2>2 DEF nsys3
<1>4. ASSUME NEW s \in UserSems, nsys4(s)
      PROVE  Step
  <2>1. CASE removeBlocked(s) /\ semVal' = semVal
    BY <1>d, <1>n, <2>1, RemoveIsWake
  <2>2. CASE semd[s] = <<>> /\ semVal' = [semVal EXCEPT ![s] = @ + 1] /\ semd' = semd
    <3>1. Semaphores!Count(s)
      BY <2>2 DEF Semaphores!Count
    <3>. QED BY <1>d, <1>n, <3>1 DEF Semaphores!Next
  <2>. QED BY <1>4, <2>1, <2>2 DEF nsys4
<1>5. ASSUME NEW d \in DevSems, nsys5(d)
      PROVE  Step
  <2>1. cpu = "run" /\ semVal' = semVal /\ block(d, softBlock_count + 1)
    BY <1>5 DEF nsys5
  <2>. QED BY <1>d, <1>n, <2>1, BlockIsWait
<1>6. ASSUME nsys7
      PROVE  Step
  <2>1. cpu = "run" /\ semVal' = semVal /\ block(ClockSem, softBlock_count + 1)
    BY <1>6 DEF nsys7
  <2>. QED BY <1>d, <1>n, <2>1, BlockIsWait
<1>7. ASSUME nsys10 \/ passUpOrDie \/ terminateChild \/ pltInterruptHandler
      PROVE  Step
  BY <1>7, <1>u DEF nsys10, passUpOrDie, callTerminate, vars, terminateChild, pltInterruptHandler
<1>8. ASSUME terminateSelf
      PROVE  Step
  BY <1>8, SelfIsLeave DEF Step
<1>9. ASSUME itInterruptHandler
      PROVE  Step
  <2>1. CASE removeBlocked(ClockSem) /\ semVal' = semVal
    BY <1>d, <1>n, <2>1, RemoveIsWake
  <2>2. CASE /\ semd[ClockSem] = <<>> /\ semVal' = [semVal EXCEPT ![ClockSem] = 0]
             /\ semd' = semd
    <3>1. Semaphores!Forget(ClockSem)
      BY <1>d, <2>2 DEF Semaphores!Forget
    <3>. QED BY <1>d, <1>n, <3>1 DEF Semaphores!Next
  <2>. QED BY <1>9, <2>1, <2>2 DEF itInterruptHandler
<1>10. ASSUME NEW d \in DevSems, deviceInterruptHandler(d)
       PROVE  Step
  <2>1. CASE removeBlocked(d) /\ semVal' = semVal
    BY <1>d, <1>n, <2>1, RemoveIsWake
  <2>2. CASE semd[d] = <<>> /\ semVal' = [semVal EXCEPT ![d] = @ + 1] /\ semd' = semd
    <3>1. Semaphores!Count(d)
      BY <2>2 DEF Semaphores!Count
    <3>. QED BY <1>d, <1>n, <3>1 DEF Semaphores!Next
  <2>. QED BY <1>10, <2>1, <2>2 DEF deviceInterruptHandler
<1>11. ASSUME NEW d \in DevSems, deviceDone(d)
       PROVE  Step
  BY <1>11, <1>u DEF deviceDone
<1>12. ASSUME UNCHANGED vars
       PROVE  Step
  BY <1>12, <1>u DEF vars
<1>13. Step
  BY <1>1, <1>2, <1>3, <1>4, <1>5, <1>6, <1>7, <1>8, <1>9, <1>10, <1>11, <1>12
  DEF Next, syscallHandler, interruptHandler, terminateProcess
<1>. QED BY <1>13 DEF Step

(* The Nucleus implements SemaphoreSpec for every number of PCBs,          *)
(* semaphores and priorities: each step of its handlers is one P, V,       *)
(* wake-up or termination of the abstract semaphores, or leaves them as    *)
(* they are, so waiters are served first come, first served and a P that   *)
(* must wait always finds a descriptor (insertBlocked, removeBlocked and   *)
(* outBlocked under nsys2 to nsys7 and the interrupt handlers).            *)
THEOREM SemaphoresSafe == ASSUME ~KillAny PROVE Spec => ImplementsSemaphores
<1>1. Init => Semaphores!Init
  BY DEF Init, initASL, Semaphores!Init
<1>2. PlaceInv /\ [Next]_vars => [Semaphores!Next]_(Semaphores!svars)
  <2>. SUFFICES ASSUME PlaceInv, [Next]_vars
                PROVE  [Semaphores!Next]_(Semaphores!svars)
    OBVIOUS
  <2>1. TypeInv /\ Placed
    BY PlaceMeaning DEF PlaceInv, TypeInv
  <2>. QED BY <2>1, SemaphoreStep
<1>. QED BY <1>1, <1>2, PlaceCorrect, PTL DEF Spec, ImplementsSemaphores, Semaphores!Spec
=============================================================================
