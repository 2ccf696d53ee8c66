------------------------- MODULE NucleusTreeProofs -------------------------
(***************************************************************************)
(* The process tree, the pids, what TERMPROCESS frees and the counters of  *)
(* the scheduler, for every number of PCBs.                                *)
(***************************************************************************)
EXTENDS NucleusProofs

(***************************************************************************)
(* The five kinds of step the process tree can see: nothing of it changes, *)
(* nsys1 links a new process, terminateProcess is called, and its two      *)
(* steps.                                                                  *)
(***************************************************************************)
Terminating == {"term", "corrupt"}

Quiet ==
    /\ UNCHANGED <<pcbFree, pcbVars, termVars, processCount>>
    /\ cpu' = cpu \/ (cpu \notin Terminating /\ cpu' \notin Terminating)

Creates(n) ==
    /\ cpu = "run" /\ cpu' = "run"
    /\ pcbFree' = pcbFree \ {n}
    /\ insertChild(n)
    /\ p_pid' = [p_pid EXCEPT ![n] = next_pid]
    /\ next_pid' = next_pid + 1
    /\ UNCHANGED termVars

Calls(p) ==
    /\ cpu = "run"
    /\ callTerminate(p)
    /\ p = currProc \/ \E pid \in Nat : p \in findPcbByPid(pid)

LEMMA DispatchMode ==
    ASSUME NEW rq, NEW count, NEW soft, NEW cur, dispatch(rq, count, soft, cur)
    PROVE  /\ cpu' \in Stopped \cup {"run"} /\ cpu' \notin Terminating
           /\ cpu' \in Stopped => readyQueue' = <<>> /\ cpu' = idleMode(count, soft)
  BY DEF dispatch, idleMode, Stopped, Terminating

LEMMA StepKinds ==
    ASSUME TypeInv, [Next]_vars
    PROVE  \/ Quiet
           \/ \E n \in pcbFree : Creates(n)
           \/ \E p \in Pcbs : Calls(p)
           \/ terminateChild
           \/ terminateSelf
<1>0. cpu = "run" => currProc \in Pcbs
  BY DEF TypeInv, SomebodyRuns
<1>1. ASSUME NEW prio \in Prios, NEW support \in Supports, nsys1(prio, support)
      PROVE  Quiet \/ \E n \in pcbFree : Creates(n)
  BY <1>1 DEF nsys1, initPcb, Quiet, Creates, termVars
<1>2. ASSUME NEW pid \in 0..MaxPid, nsys2(pid)
      PROVE  Quiet \/ \E p \in Pcbs : Calls(p)
  <2>1. findPcbByPid(pid) \subseteq Pcbs /\ pid \in Nat
    BY BoundsAssumption DEF findPcbByPid, searchInTree, Blocked
  <2>2. CASE UNCHANGED vars
    BY <2>2 DEF Quiet, vars
  <2>3. CASE callTerminate(currProc)
    BY <1>0, <1>2, <2>3 DEF nsys2, Calls
  <2>4. ASSUME NEW p \in findPcbByPid(pid), callTerminate(p) PROVE \E q \in Pcbs : Calls(q)
    BY <1>2, <2>1, <2>4 DEF nsys2, Calls
  <2>. QED BY <1>2, <2>2, <2>3, <2>4 DEF nsys2
<1>3. ASSUME NEW s \in UserSems, nsys3(s) PROVE Quiet
  <2>1. cpu = "run" /\ UNCHANGED <<pcbFree, pcbVars, processCount, termVars>>
    BY <1>3 DEF nsys3
  <2>2. cpu' = cpu \/ cpu' \notin Terminating
    BY <1>3, DispatchMode DEF nsys3, block
  <2>. QED BY <2>1, <2>2 DEF Quiet, Terminating
<1>4. ASSUME NEW s \in UserSems, nsys4(s) PROVE Quiet
  BY <1>4 DEF nsys4, Quiet
<1>5. ASSUME NEW d \in DevSems, nsys5(d) PROVE Quiet
  <2>1. cpu = "run" /\ UNCHANGED <<pcbFree, pcbVars, processCount, termVars>>
    BY <1>5 DEF nsys5
  <2>2. cpu' \notin Terminating
    BY <1>5, DispatchMode DEF nsys5, block
  <2>. QED BY <2>1, <2>2 DEF Quiet, Terminating
<1>6. ASSUME nsys7 PROVE Quiet
  <2>1. cpu = "run" /\ UNCHANGED <<pcbFree, pcbVars, processCount, termVars>>
    BY <1>6 DEF nsys7
  <2>2. cpu' \notin Terminating
    BY <1>6, DispatchMode DEF nsys7, block
  <2>. QED BY <2>1, <2>2 DEF Quiet, Terminating
<1>7. ASSUME nsys10 PROVE Quiet
  <2>1. cpu = "run" /\ UNCHANGED <<pcbFree, pcbVars, processCount, termVars>>
    BY <1>7 DEF nsys10
  <2>2. cpu' \notin Terminating
    BY <1>7, DispatchMode DEF nsys10
  <2>. QED BY <2>1, <2>2 DEF Quiet, Terminating
<1>8. ASSUME passUpOrDie PROVE Quiet \/ \E p \in Pcbs : Calls(p)
  BY <1>0, <1>8 DEF passUpOrDie, Calls, Quiet, vars
<1>9. ASSUME pltInterruptHandler PROVE Quiet
  <2>1. cpu = "run" /\ UNCHANGED <<pcbFree, pcbVars, processCount, termVars>>
    BY <1>9 DEF pltInterruptHandler
  <2>2. cpu' \notin Terminating
    BY <1>9, DispatchMode DEF pltInterruptHandler
  <2>. QED BY <2>1, <2>2 DEF Quiet, Terminating
<1>10. ASSUME itInterruptHandler PROVE Quiet
  <2>1. /\ cpu \in {"run", "wait", "tick"}
        /\ UNCHANGED <<pcbFree, pcbVars, processCount, termVars>>
    BY <1>10 DEF itInterruptHandler, Interruptible
  <2>2. cpu' \notin Terminating
    BY <1>10, DispatchMode DEF itInterruptHandler, Terminating
  <2>. QED BY <2>1, <2>2 DEF Quiet, Terminating
<1>11. ASSUME NEW d \in DevSems, deviceInterruptHandler(d) PROVE Quiet
  <2>1. /\ cpu \in {"run", "wait"}
        /\ UNCHANGED <<pcbFree, pcbVars, processCount, termVars>>
    BY <1>11 DEF deviceInterruptHandler, Interruptible
  <2>2. cpu' = cpu \/ cpu' \notin Terminating
    BY <1>11, DispatchMode DEF deviceInterruptHandler
  <2>. QED BY <2>1, <2>2 DEF Quiet, Terminating
<1>12. ASSUME NEW d \in DevSems, deviceDone(d) PROVE Quiet
  BY <1>12 DEF deviceDone, Quiet
<1>13. CASE UNCHANGED vars
  BY <1>13 DEF Quiet, vars
<1>. QED
  BY <1>1, <1>2, <1>3, <1>4, <1>5, <1>6, <1>7, <1>8, <1>9, <1>10, <1>11,
     <1>12, <1>13
  DEF Next, syscallHandler, interruptHandler, terminateProcess
-----------------------------------------------------------------------------
(* Every pid in the table has been issued.                                 *)
PidsIssued == \A p \in Pcbs : p_pid[p] < next_pid

PidInv == PidsIssued /\ PidsDistinct

LEMMA PidStep ==
    ASSUME TypeInv, PidInv, [Next]_vars
    PROVE  PidInv'
<1>. USE DEF PidInv, PidsIssued, PidsDistinct, Live
<1>1. p_pid \in [Pcbs -> Nat] /\ next_pid \in Nat /\ pcbFree \subseteq Pcbs
  BY DEF TypeInv, TypeOK
<1>2. CASE Quiet
  BY <1>2 DEF Quiet, pcbVars
<1>3. ASSUME NEW n \in pcbFree, Creates(n) PROVE PidInv'
  BY <1>1, <1>3 DEF Creates
<1>4. ASSUME NEW p \in Pcbs, Calls(p) PROVE PidInv'
  BY <1>4 DEF Calls, callTerminate, pcbVars
<1>5. CASE terminateChild
  BY <1>5 DEF terminateChild
<1>6. CASE terminateSelf
  <2>1. UNCHANGED <<p_pid, next_pid>> /\ pcbFree \subseteq pcbFree'
    BY <1>6 DEF terminateSelf
  <2>. QED BY <2>1
<1>. QED BY <1>2, <1>3, <1>4, <1>5, <1>6, StepKinds

(* Two living processes never share a pid, whatever is terminated and in   *)
(* whatever order PCBs are reused: initPcb takes every pid from next_pid,  *)
(* above all that were given out.                                          *)
THEOREM PidsSafe == Spec => []PidsDistinct
<1>1. Init => PidInv
  <2>. SUFFICES ASSUME Init PROVE PidInv
    OBVIOUS
  <2>1. PICK first \in Pcbs : allocFirstPcb(first)
    BY DEF Init
  <2>. QED BY <2>1 DEF allocFirstPcb, PidInv, PidsIssued, PidsDistinct, Live
<1>2. TypeInv /\ PidInv /\ [Next]_vars => PidInv'
  BY PidStep
<1>3. PidInv => PidsDistinct
  BY DEF PidInv
<1>. QED BY <1>1, <1>2, <1>3, TypeCorrect, PTL DEF Spec
-----------------------------------------------------------------------------
(***************************************************************************)
(* While terminateProcess runs, its stack and the children it still has to *)
(* visit are doomed, and who is doomed is free already or below somebody   *)
(* on the stack.                                                           *)
(***************************************************************************)
StackTree(child, t) == UNION {TreeOf(child, t[i]) : i \in 1..Len(t)}

DoomedRight ==
    cpu = "term" =>
        /\ ToSet(term) \subseteq doomed
        /\ \A q \in doomed : p_child[q] \subseteq doomed
        /\ doomed \subseteq pcbFree \cup StackTree(p_child, term)

(* What is pushed on the stack and what is popped off it.                  *)
LEMMA StackPush ==
    ASSUME NEW t \in Seq(Pcbs), NEW c \in Pcbs, NEW child \in [Pcbs -> SUBSET Pcbs]
    PROVE  /\ ToSet(Cons(c, t)) = ToSet(t) \cup {c}
           /\ StackTree(child, Cons(c, t)) = TreeOf(child, c) \cup StackTree(child, t)
<1>. DEFINE u == Cons(c, t)
<1>1. /\ Len(t) \in Nat /\ Len(u) = Len(t) + 1 /\ u[1] = c
      /\ \A i \in 1..Len(t) : u[i + 1] = t[i]
  BY DEF Cons
<1>2. ToSet(u) = ToSet(t) \cup {c}
  BY ConsToQueue
<1>. HIDE DEF u
<1>3. \A i \in 1..Len(u) : i = 1 \/ (i - 1 \in 1..Len(t) /\ u[i] = t[i - 1])
  <2>. SUFFICES ASSUME NEW i \in 1..Len(u), i # 1
                PROVE  i - 1 \in 1..Len(t) /\ u[i] = t[i - 1]
    OBVIOUS
  <2>1. i - 1 \in 1..Len(t) /\ (i - 1) + 1 = i
    BY <1>1
  <2>. QED BY <1>1, <2>1
<1>4. \A x : (\E i \in 1..Len(u) : x \in TreeOf(child, u[i])) <=>
             x \in TreeOf(child, c) \/ \E i \in 1..Len(t) : x \in TreeOf(child, t[i])
  <2>1. 1 \in 1..Len(u) /\ \A i \in 1..Len(t) : i + 1 \in 1..Len(u)
    BY <1>1
  <2>. QED BY <1>1, <1>3, <2>1
<1>5. StackTree(child, u) = TreeOf(child, c) \cup StackTree(child, t)
  BY <1>4 DEF StackTree
<1>. QED BY <1>2, <1>5 DEF u

LEMMA StackPop ==
    ASSUME NEW t \in Seq(Pcbs), t # <<>>, NEW child \in [Pcbs -> SUBSET Pcbs]
    PROVE  /\ Head(t) \in Pcbs /\ Tail(t) \in Seq(Pcbs)
           /\ ToSet(t) = ToSet(Tail(t)) \cup {Head(t)}
           /\ StackTree(child, t) = TreeOf(child, Head(t)) \cup StackTree(child, Tail(t))
<1>1. Head(t) \in Pcbs /\ Tail(t) \in Seq(Pcbs)
  BY TailOfQueue
<1>2. t = Cons(Head(t), Tail(t))
  <2>1. /\ Len(t) \in Nat /\ Len(t) >= 1 /\ Len(Tail(t)) = Len(t) - 1
        /\ Head(t) = t[1] /\ \A i \in 1..(Len(t) - 1) : Tail(t)[i] = t[i + 1]
    OBVIOUS
  <2>. DEFINE u == Cons(Head(t), Tail(t))
  <2>2. u \in Seq(Pcbs) /\ Len(u) = Len(t) /\ u[1] = t[1]
    BY <1>1, <2>1 DEF Cons
  <2>3. \A i \in 2..Len(t) : u[i] = t[i]
    <3>. TAKE i \in 2..Len(t)
    <3>1. i - 1 \in 1..(Len(t) - 1) /\ (i - 1) + 1 = i
      BY <2>1
    <3>2. u[i] = Tail(t)[i - 1]
      BY <1>1, <2>1, <3>1 DEF Cons
    <3>. QED BY <2>1, <3>1, <3>2
  <2>. HIDE DEF u
  <2>4. \A i \in 1..Len(t) : u[i] = t[i]
    BY <2>1, <2>2, <2>3
  <2>5. u = t
    BY <2>2, <2>4
  <2>. QED BY <2>5 DEF u
<1>. DEFINE h == Head(t)
            u == Tail(t)
<1>. HIDE DEF h, u
<1>3. h \in Pcbs /\ u \in Seq(Pcbs) /\ t = Cons(h, u)
  BY <1>1, <1>2 DEF h, u
<1>4. /\ ToSet(Cons(h, u)) = ToSet(u) \cup {h}
      /\ StackTree(child, Cons(h, u)) = TreeOf(child, h) \cup StackTree(child, u)
  BY ONLY <1>3, child \in [Pcbs -> SUBSET Pcbs], StackPush, ZenonT(60)
<1>. QED BY ONLY <1>3, <1>4, Zenon DEF h, u

(* A tree that is still to be visited loses at most the tree of c when the *)
(* links to c are cut.                                                     *)
LEMMA StackCut ==
    ASSUME NEW old \in [Pcbs -> SUBSET Pcbs], NEW new \in [Pcbs -> SUBSET Pcbs],
           NEW c \in Pcbs, NEW t \in Seq(Pcbs),
           \A q \in Pcbs : old[q] \subseteq new[q] \cup {c}
    PROVE  StackTree(old, t) \subseteq StackTree(new, t) \cup TreeOf(new, c)
<1>1. \A i \in 1..Len(t) : t[i] \in Pcbs
  OBVIOUS
<1>2. \A r \in Pcbs : TreeOf(old, r) \subseteq TreeOf(new, r) \cup TreeOf(new, c)
  BY TreeCut
<1>. QED BY <1>1, <1>2 DEF StackTree

LEMMA DoomedStep ==
    ASSUME TypeInv, DoomedRight, [Next]_vars
    PROVE  DoomedRight'
<1>0. /\ p_child \in [Pcbs -> SUBSET Pcbs] /\ term \in Seq(Pcbs)
      /\ doomed \subseteq Pcbs /\ (cpu = "term" => term # <<>>)
  BY DEF TypeInv, TypeOK
<1>1. CASE Quiet
  BY <1>1 DEF Quiet, DoomedRight, pcbVars, termVars, Terminating
<1>2. ASSUME NEW n \in pcbFree, Creates(n) PROVE DoomedRight'
  BY <1>2 DEF Creates, DoomedRight
<1>3. ASSUME NEW p \in Pcbs, Calls(p) PROVE DoomedRight'
  <2>1. /\ term' = <<p>> /\ doomed' = TreeOf(p_child, p)
        /\ UNCHANGED <<pcbFree, p_child>>
    BY <1>3 DEF Calls, callTerminate, searchInTree, TreeOf, pcbVars
  <2>2. ToSet(<<p>>) = {p} /\ StackTree(p_child, <<p>>) = TreeOf(p_child, p)
    <3>1. Len(<<p>>) = 1 /\ <<p>>[1] = p /\ 1..1 = {1}
      OBVIOUS
    <3>. QED BY <3>1 DEF ToSet, StackTree
  <2>3. /\ p \in TreeOf(p_child, p)
        /\ \A q \in TreeOf(p_child, p) : p_child[q] \subseteq TreeOf(p_child, p)
    BY <1>0, TreeClosed
  <2>. QED BY <2>1, <2>2, <2>3 DEF DoomedRight
<1>4. CASE terminateChild
  <2>. DEFINE h == Head(term)
  <2>1. PICK c \in p_child[h] :
          p_child' = [p_child EXCEPT ![h] = @ \ {c}] /\ term' = Cons(c, term)
    BY <1>4 DEF terminateChild
  <2>2. cpu = "term" /\ UNCHANGED <<pcbFree, doomed>>
    BY <1>4 DEF terminateChild
  <2>3. h \in Pcbs /\ h \in ToSet(term) /\ c \in Pcbs
    BY <1>0, <2>2, TailOfQueue
  <2>. HIDE DEF h
  <2>4. /\ p_child' \in [Pcbs -> SUBSET Pcbs]
        /\ \A q \in Pcbs : /\ p_child[q] \subseteq p_child'[q] \cup {c}
                           /\ p_child'[q] \subseteq p_child[q]
    BY <1>0, <2>1, <2>3
  <2>5. c \in doomed
    BY <2>1, <2>2, <2>3 DEF DoomedRight
  <2>6. /\ ToSet(term') = ToSet(term) \cup {c}
        /\ StackTree(p_child', term') = TreeOf(p_child', c) \cup StackTree(p_child', term)
    <3>1. /\ ToSet(Cons(c, term)) = ToSet(term) \cup {c}
          /\ StackTree(p_child', Cons(c, term)) =
               TreeOf(p_child', c) \cup StackTree(p_child', term)
      BY ONLY <1>0, <2>3, <2>4, StackPush, Zenon
    <3>. QED BY <2>1, <3>1
  <2>7. StackTree(p_child, term) \subseteq StackTree(p_child', term')
    BY <1>0, <2>3, <2>4, <2>6, StackCut
  <2>8. \A q \in doomed : p_child'[q] \subseteq doomed
    BY <1>0, <2>2, <2>4 DEF DoomedRight
  <2>. QED BY <2>2, <2>5, <2>6, <2>7, <2>8 DEF DoomedRight
<1>5. CASE terminateSelf
  <2>. DEFINE p == Head(term)
  <2>1. /\ cpu = "term" /\ p_child[p] = {} /\ outChild(p)
        /\ pcbFree' = pcbFree \cup {p} /\ term' = Tail(term)
    BY <1>5 DEF terminateSelf, emptyChild
  <2>2. p \in Pcbs /\ p_parent \in [Pcbs -> Pcbs \cup {NULL}]
    BY <1>0, <2>1, TailOfQueue DEF TypeInv, TypeOK
  <2>3. /\ ToSet(term) = ToSet(Tail(term)) \cup {p}
        /\ Tail(term) \in Seq(Pcbs)
        /\ StackTree(p_child, term) = TreeOf(p_child, p) \cup StackTree(p_child, Tail(term))
    BY <1>0, <2>1, StackPop
  <2>4. cpu' = "term" => doomed' = doomed
    BY <1>5, DispatchMode DEF terminateSelf, Terminating
  <2>. HIDE DEF p
  <2>5. /\ p_child' \in [Pcbs -> SUBSET Pcbs] /\ p_child'[p] = {}
        /\ \A q \in Pcbs : /\ p_child[q] \subseteq p_child'[q] \cup {p}
                           /\ p_child'[q] \subseteq p_child[q]
    BY <1>0, <2>1, <2>2 DEF outChild
  <2>6. TreeOf(p_child, p) = {p} /\ TreeOf(p_child', p) = {p}
    BY <1>0, <2>1, <2>2, <2>5, TreeOfLeaf
  <2>7. StackTree(p_child, Tail(term)) \subseteq StackTree(p_child', term') \cup {p}
    BY <1>0, <2>1, <2>2, <2>3, <2>5, <2>6, StackCut
  <2>8. doomed \subseteq pcbFree' \cup StackTree(p_child', term')
    BY <2>1, <2>3, <2>6, <2>7 DEF DoomedRight
  <2>9. \A q \in doomed : p_child'[q] \subseteq doomed
    BY <1>0, <2>1, <2>5 DEF DoomedRight
  <2>. QED BY <2>1, <2>3, <2>4, <2>8, <2>9 DEF DoomedRight
<1>. QED BY <1>1, <1>2, <1>3, <1>4, <1>5, StepKinds

(* What TerminateExact says of one step.                                   *)
LEMMA TerminateStep ==
    ASSUME TypeInv, DoomedRight, [Next]_vars, cpu = "term"
    PROVE  /\ pcbFree' \ pcbFree \subseteq doomed
           /\ cpu' \notin Terminating => doomed \subseteq pcbFree'
<1>0. /\ p_child \in [Pcbs -> SUBSET Pcbs] /\ term \in Seq(Pcbs) /\ term # <<>>
  BY DEF TypeInv, TypeOK
<1>1. CASE Quiet
  BY <1>1 DEF Quiet, Terminating
<1>2. ASSUME NEW n \in pcbFree, Creates(n) PROVE FALSE
  BY <1>2 DEF Creates
<1>3. ASSUME NEW p \in Pcbs, Calls(p) PROVE FALSE
  BY <1>3 DEF Calls
<1>4. CASE terminateChild
  BY <1>4 DEF terminateChild, Terminating
<1>5. CASE terminateSelf
  <2>. DEFINE p == Head(term)
  <2>1. p_child[p] = {} /\ pcbFree' = pcbFree \cup {p}
    BY <1>5 DEF terminateSelf, emptyChild
  <2>2. cpu' \notin Terminating => Tail(term) = <<>>
    BY <1>5 DEF terminateSelf, Terminating
  <2>3. /\ p \in Pcbs /\ p \in ToSet(term)
        /\ StackTree(p_child, term) = TreeOf(p_child, p) \cup StackTree(p_child, Tail(term))
    BY <1>0, StackPop, TailOfQueue
  <2>4. StackTree(p_child, <<>>) = {}
    BY DEF StackTree
  <2>. HIDE DEF p
  <2>5. TreeOf(p_child, p) = {p}
    BY <1>0, <2>1, <2>3, TreeOfLeaf
  <2>. QED BY <2>1, <2>2, <2>3, <2>4, <2>5 DEF DoomedRight
<1>. QED BY <1>1, <1>2, <1>3, <1>4, <1>5, StepKinds

(* TERMPROCESS frees the process it names and its whole progeny, and       *)
(* nobody else, before the Nucleus dispatches: whatever tree it is called  *)
(* on, in whatever order terminateProcess visits it and whoever calls.     *)
THEOREM TerminateSafe == Spec => TerminateExact
<1>1. Init => DoomedRight
  BY DEF Init, DoomedRight
<1>2. TypeInv /\ DoomedRight /\ [Next]_vars => DoomedRight'
  BY DoomedStep
<1>3. TypeInv /\ DoomedRight /\ [Next]_vars =>
        [cpu = "term" =>
           /\ pcbFree' \ pcbFree \subseteq doomed
           /\ cpu' \notin {"term", "corrupt"} => doomed \subseteq pcbFree']_vars
  BY TerminateStep DEF Terminating
<1>. QED BY <1>1, <1>2, <1>3, TypeCorrect, PTL DEF Spec, TerminateExact
-----------------------------------------------------------------------------
(***************************************************************************)
(* The stack of terminateProcess: empty unless it runs, and then living    *)
(* processes, each younger than those that wait for it to return.          *)
(***************************************************************************)
StackRight ==
    Intact =>
    /\ cpu # "term" => term = <<>>
    /\ ToSet(term) \subseteq Live
    /\ \A i, j \in 1..Len(term) : i < j => p_pid[term[i]] > p_pid[term[j]]

TreeInv == PidsIssued /\ TreeConsistent /\ StackRight

(* A process that is running, ready or blocked is alive, and so are those  *)
(* below it: terminateProcess is called on a living process.               *)
LEMMA CalledIsLive ==
    ASSUME TypeInv, Placed, TreeInv, NEW p \in Pcbs, Calls(p)
    PROVE  p \in Live
<1>1. /\ currProc \in Pcbs /\ Intact /\ Place(readyQueue, semd, currProc, pcbFree)
      /\ p_child \in [Pcbs -> SUBSET Pcbs] /\ semd \in [Sems -> Seq(Pcbs)]
      /\ readyQueue \in Seq(Pcbs)
  BY DEF Calls, TypeInv, TypeOK, SomebodyRuns, Placed, Intact
<1>2. /\ currProc \in Live /\ ToSet(readyQueue) \subseteq Live /\ Blocked \subseteq Live
      /\ Live \in SUBSET Pcbs
  BY <1>1, PcbsAssumption DEF Place, WaitsIn, Live, Blocked, BlockedOn
<1>3. \A q \in Live : p_child[q] \subseteq Live
  BY <1>1 DEF TreeInv, TreeConsistent
<1>4. \A r \in Live : searchInTree(r) \subseteq Live
  <2>. TAKE r \in Live
  <2>1. searchInTree(r) = TreeOf(p_child, r)
    BY DEF searchInTree, TreeOf
  <2>. QED BY <1>1, <1>2, <1>3, <2>1, TreeLeast, SMTT(60)
<1>5. ASSUME NEW pid \in Nat, p \in findPcbByPid(pid) PROVE p \in Live
  BY <1>2, <1>4, <1>5 DEF findPcbByPid
<1>. QED BY <1>2, <1>5 DEF Calls

LEMMA TreeStep ==
    ASSUME TypeInv, Placed, TreeInv, [Next]_vars
    PROVE  TreeInv'
<1>0. /\ p_child \in [Pcbs -> SUBSET Pcbs] /\ term \in Seq(Pcbs) /\ pcbFree \subseteq Pcbs
      /\ p_parent \in [Pcbs -> Pcbs \cup {NULL}] /\ p_pid \in [Pcbs -> Nat]
      /\ next_pid \in Nat /\ (cpu = "term" => term # <<>>)
  BY DEF TypeInv, TypeOK
<1>n. NULL \notin Pcbs
  BY PcbsAssumption
<1>1. CASE Quiet
  <2>1. UNCHANGED <<pcbFree, p_child, p_parent, p_pid, next_pid, term>>
    BY <1>1 DEF Quiet, pcbVars, termVars
  <2>2. Intact' = Intact /\ (cpu' # "term" <=> cpu # "term")
    BY <1>1 DEF Quiet, Terminating, Intact
  <2>. QED BY <2>1, <2>2 DEF TreeInv, PidsIssued, TreeConsistent, StackRight, Live
<1>2. ASSUME NEW n \in pcbFree, Creates(n) PROVE TreeInv'
  <2>1. /\ cpu = "run" /\ cpu' = "run" /\ Intact /\ Intact'
        /\ pcbFree' = pcbFree \ {n} /\ term' = term
        /\ p_parent' = [p_parent EXCEPT ![n] = currProc]
        /\ p_child' = [p_child EXCEPT ![n] = {}, ![currProc] = @ \cup {n}]
        /\ p_pid' = [p_pid EXCEPT ![n] = next_pid] /\ next_pid' = next_pid + 1
    BY <1>2 DEF Creates, insertChild, termVars, Intact
  <2>2. /\ currProc \in Live /\ n \in Pcbs /\ currProc # n /\ n \notin Live
    BY <1>0, <1>n, <2>1 DEF Placed, Place, TypeInv, SomebodyRuns, Live
  <2>3. /\ p_parent'[n] = currProc /\ p_pid'[n] = next_pid
        /\ p_child'[n] = {} /\ p_child'[currProc] = p_child[currProc] \cup {n}
        /\ \A q \in Pcbs \ {n} : p_parent'[q] = p_parent[q] /\ p_pid'[q] = p_pid[q]
        /\ \A q \in Pcbs \ {n, currProc} : p_child'[q] = p_child[q]
    BY <1>0, <2>1, <2>2 DEF Live
  <2>4. Live' = Live \cup {n}
    BY <2>1, <2>2 DEF Live
  <2>5. term = <<>> /\ ToSet(term) = {}
    BY <2>1 DEF TreeInv, StackRight, ToSet
  <2>6. PidsIssued'
    BY <1>0, <2>1, <2>3 DEF TreeInv, PidsIssued
  <2>7. StackRight'
    BY <2>1, <2>5 DEF StackRight, ToSet
  <2>8. ASSUME NEW p \in Live'
        PROVE  /\ p_parent'[p] = NULL => p_pid'[p] = 1 \/ p \in ToSet(term)
               /\ p_parent'[p] # NULL => /\ p_parent'[p] \in Live'
                                         /\ p \in p_child'[p_parent'[p]]
                                         /\ p_pid'[p_parent'[p]] < p_pid'[p]
               /\ \A c \in p_child'[p] : c \in Live' /\ p_parent'[c] = p
    <3>0. Live \subseteq Pcbs \ {n}
      BY <2>2 DEF Live
    <3>1. CASE p = n
      BY <1>0, <1>n, <2>2, <2>3, <2>4, <3>0, <3>1 DEF TreeInv, PidsIssued
    <3>2. CASE p # n
      <4>1. /\ p \in Live
            /\ p_parent[p] = NULL => p_pid[p] = 1 \/ p \in ToSet(term)
            /\ p_parent[p] # NULL => /\ p_parent[p] \in Live
                                     /\ p \in p_child[p_parent[p]]
                                     /\ p_pid[p_parent[p]] < p_pid[p]
            /\ \A c \in p_child[p] : c \in Live /\ p_parent[c] = p
        BY <2>1, <2>4, <3>2 DEF TreeInv, TreeConsistent
      <4>2. \A c \in p_child'[p] : c \in Live' /\ p_parent'[c] = p
        BY <2>3, <2>4, <3>0, <3>2, <4>1
      <4>3. p_parent'[p] = p_parent[p] /\ p_pid'[p] = p_pid[p]
        BY <2>3, <3>0, <4>1
      <4>4. p_parent[p] # NULL => /\ p \in p_child'[p_parent[p]]
                                 /\ p_pid'[p_parent[p]] = p_pid[p_parent[p]]
        BY <2>3, <3>0, <4>1
      <4>. QED BY <2>4, <4>1, <4>2, <4>3, <4>4
    <3>. QED BY <3>1, <3>2
  <2>9. \A p \in pcbFree' : p_child'[p] = {}
    BY <1>0, <2>1, <2>2, <2>3 DEF TreeInv, TreeConsistent, Live
  <2>10. TreeConsistent'
    BY <2>1, <2>8, <2>9 DEF TreeConsistent
  <2>. QED BY <2>6, <2>7, <2>10 DEF TreeInv
<1>3. ASSUME NEW p \in Pcbs, Calls(p) PROVE TreeInv'
  <2>1. /\ cpu = "run" /\ cpu' = "term" /\ Intact /\ Intact' /\ term' = <<p>>
        /\ UNCHANGED <<pcbFree, p_child, p_parent, p_pid, next_pid>>
    BY <1>3 DEF Calls, callTerminate, pcbVars, Intact
  <2>2. p \in Live
    BY <1>3, CalledIsLive
  <2>3. ToSet(<<p>>) = {p} /\ Len(<<p>>) = 1
    <3>1. Len(<<p>>) = 1 /\ <<p>>[1] = p /\ 1..1 = {1}
      OBVIOUS
    <3>. QED BY <3>1 DEF ToSet
  <2>4. ToSet(term) = {}
    BY <2>1 DEF TreeInv, StackRight, ToSet
  <2>5. TreeConsistent'
    BY <2>1, <2>4 DEF TreeInv, TreeConsistent, Live
  <2>6. StackRight'
    BY <2>1, <2>2, <2>3 DEF StackRight, Live
  <2>. QED BY <2>1, <2>5, <2>6 DEF TreeInv, PidsIssued
<1>4. CASE terminateChild
  <2>. DEFINE h == Head(term)
  <2>1. PICK c \in p_child[h] :
          /\ p_child' = [p_child EXCEPT ![h] = @ \ {c}]
          /\ p_parent' = [p_parent EXCEPT ![c] = NULL]
          /\ term' = Cons(c, term)
    BY <1>4 DEF terminateChild
  <2>2. /\ cpu = "term" /\ cpu' = "term" /\ Intact /\ Intact'
        /\ UNCHANGED <<pcbFree, p_pid, next_pid>> /\ Live' = Live
    BY <1>4 DEF terminateChild, Intact, Live
  <2>3. h \in Pcbs /\ h \in ToSet(term) /\ c \in Pcbs /\ h = term[1]
    BY <1>0, <2>2, TailOfQueue
  <2>. HIDE DEF h
  <2>4. h \in Live /\ c \in Live /\ p_parent[c] = h /\ p_pid[h] < p_pid[c]
    BY <1>n, <2>1, <2>2, <2>3 DEF TreeInv, TreeConsistent, StackRight
  <2>5. /\ p_parent'[c] = NULL /\ p_child'[h] = p_child[h] \ {c}
        /\ \A q \in Pcbs \ {c} : p_parent'[q] = p_parent[q]
        /\ \A q \in Pcbs \ {h} : p_child'[q] = p_child[q]
    BY <1>0, <2>1, <2>3
  <2>6. ToSet(term') = ToSet(term) \cup {c}
    BY ONLY <1>0, <2>1, <2>3, ConsToQueue, Zenon
  <2>7. ASSUME NEW p \in Live
        PROVE  /\ p_parent'[p] = NULL => p_pid[p] = 1 \/ p \in ToSet(term')
               /\ p_parent'[p] # NULL => /\ p_parent'[p] \in Live
                                         /\ p \in p_child'[p_parent'[p]]
                                         /\ p_pid[p_parent'[p]] < p_pid[p]
               /\ \A k \in p_child'[p] : k \in Live /\ p_parent'[k] = p
    <3>1. /\ p_parent[p] = NULL => p_pid[p] = 1 \/ p \in ToSet(term)
          /\ p_parent[p] # NULL => /\ p_parent[p] \in Live
                                   /\ p \in p_child[p_parent[p]]
                                   /\ p_pid[p_parent[p]] < p_pid[p]
          /\ \A k \in p_child[p] : k \in Live /\ p_parent[k] = p
      BY <2>2 DEF TreeInv, TreeConsistent
    <3>2. Live \subseteq Pcbs
      BY DEF Live
    <3>3. CASE p = c
      BY <2>4, <2>5, <2>6, <3>1, <3>2, <3>3
    <3>4. CASE p # c
      BY <2>4, <2>5, <2>6, <3>1, <3>2, <3>4
    <3>. QED BY <3>3, <3>4
  <2>8. \A p \in pcbFree : p_child'[p] = {}
    BY <1>0, <2>2, <2>4, <2>5 DEF TreeInv, TreeConsistent, Live
  <2>9. TreeConsistent'
    BY <2>2, <2>7, <2>8 DEF TreeConsistent
  <2>10. StackRight'
    <3>1. /\ Len(term) \in Nat /\ Len(term) >= 1 /\ Len(term') = Len(term) + 1
          /\ term'[1] = c /\ \A i \in 1..Len(term) : term'[i + 1] = term[i]
      BY <1>0, <2>1, <2>2, <2>3 DEF Cons
    <3>2. \A i \in 1..Len(term) : /\ term[i] \in Pcbs /\ p_pid[term[i]] \in Nat
                                  /\ p_pid[term[i]] <= p_pid[h]
      <4>1. \A i \in 2..Len(term) : p_pid[term[1]] > p_pid[term[i]]
        BY <2>2, <3>1 DEF TreeInv, StackRight
      <4>2. \A i \in 1..Len(term) : term[i] \in Pcbs
        BY <1>0
      <4>. QED BY <1>0, <2>3, <3>1, <4>1, <4>2
    <3>3. ASSUME NEW i \in 1..Len(term'), NEW j \in 1..Len(term'), i < j
          PROVE  p_pid[term'[i]] > p_pid[term'[j]]
      <4>1. j - 1 \in 1..Len(term) /\ term'[j] = term[j - 1]
        <5>1. j - 1 \in 1..Len(term) /\ (j - 1) + 1 = j
          BY <3>1, <3>3
        <5>. QED BY <3>1, <5>1
      <4>2. CASE i = 1
        <5>1. /\ p_pid[c] \in Nat /\ p_pid[h] \in Nat /\ p_pid[term[j - 1]] \in Nat
              /\ p_pid[term[j - 1]] <= p_pid[h]
          BY <1>0, <2>3, <3>2, <4>1
        <5>2. p_pid[c] > p_pid[term[j - 1]]
          BY <2>4, <5>1
        <5>. QED BY <3>1, <4>1, <4>2, <5>2
      <4>3. CASE i # 1
        <5>1. i - 1 \in 1..Len(term) /\ (i - 1) + 1 = i /\ i - 1 < j - 1
          BY <3>1, <3>3, <4>3
        <5>2. term'[i] = term[i - 1]
          BY <3>1, <5>1
        <5>. QED BY <2>2, <4>1, <5>1, <5>2 DEF TreeInv, StackRight
      <4>. QED BY <4>2, <4>3
    <3>. QED BY <2>2, <2>4, <2>6, <3>3 DEF TreeInv, StackRight
  <2>. QED BY <2>2, <2>9, <2>10 DEF TreeInv, PidsIssued
<1>5. CASE terminateSelf
  <2>. DEFINE p == Head(term)
  <2>1. /\ cpu = "term" /\ Intact /\ p_child[p] = {} /\ outChild(p)
        /\ pcbFree' = pcbFree \cup {p} /\ term' = Tail(term)
        /\ UNCHANGED <<p_pid, next_pid>>
        /\ Intact' => (cpu' # "term" => Tail(term) = <<>>)
    BY <1>5 DEF terminateSelf, emptyChild, Intact
  <2>2. /\ p \in Pcbs /\ p \in ToSet(term) /\ Tail(term) \in Seq(Pcbs)
        /\ ToSet(term) = ToSet(Tail(term)) \cup {p} /\ p = term[1]
        /\ Len(term) \in Nat /\ Len(Tail(term)) = Len(term) - 1
        /\ \A i \in 1..(Len(term) - 1) : Tail(term)[i] = term[i + 1]
    BY <1>0, <2>1, TailOfQueue
  <2>. HIDE DEF p
  <2>3. p \in Live /\ Live' = Live \ {p}
    BY <2>1, <2>2 DEF TreeInv, StackRight, Live
  <2>4. /\ p_parent' = [p_parent EXCEPT ![p] = NULL]
        /\ p_child' \in [Pcbs -> SUBSET Pcbs]
        /\ \A q \in Pcbs : p_child'[q] = IF q = p_parent[p] THEN p_child[q] \ {p}
                                          ELSE p_child[q]
    BY <1>0, <1>n, <2>1, <2>2 DEF outChild
  <2>5. ASSUME NEW q \in Live'
        PROVE  /\ p_parent'[q] = NULL => p_pid[q] = 1 \/ q \in ToSet(term')
               /\ p_parent'[q] # NULL => /\ p_parent'[q] \in Live'
                                         /\ q \in p_child'[p_parent'[q]]
                                         /\ p_pid[p_parent'[q]] < p_pid[q]
               /\ \A k \in p_child'[q] : k \in Live' /\ p_parent'[k] = q
    <3>1. /\ p_parent[q] = NULL => p_pid[q] = 1 \/ q \in ToSet(term)
          /\ p_parent[q] # NULL => /\ p_parent[q] \in Live
                                   /\ q \in p_child[p_parent[q]]
                                   /\ p_pid[p_parent[q]] < p_pid[q]
          /\ \A k \in p_child[q] : k \in Live /\ p_parent[k] = q
      BY <2>1, <2>3 DEF TreeInv, TreeConsistent
    <3>2. Live \subseteq Pcbs /\ q # p /\ q \in Pcbs /\ p_parent'[q] = p_parent[q]
      BY <1>0, <2>3, <2>4 DEF Live
    <3>3. \A k \in p_child'[q] : k \in p_child[q] /\ k # p
      BY <2>4, <3>1, <3>2
    <3>4. \A k \in p_child'[q] : k \in Live' /\ p_parent'[k] = q
      BY <1>0, <2>3, <2>4, <3>1, <3>2, <3>3
    <3>5. p_parent[q] # NULL => p_parent[q] # p
      BY <2>1, <3>1
    <3>6. p_parent[q] # NULL => q \in p_child'[p_parent[q]]
      BY <1>0, <2>4, <3>1, <3>2
    <3>. QED BY <2>1, <2>2, <2>3, <3>1, <3>2, <3>4, <3>5, <3>6
  <2>6. \A q \in pcbFree' : p_child'[q] = {}
    <3>1. \A q \in pcbFree' : q \in Pcbs /\ p_child[q] = {}
      BY <1>0, <2>1, <2>2 DEF TreeInv, TreeConsistent
    <3>. QED BY <2>4, <3>1
  <2>7. TreeConsistent'
    BY <2>1, <2>5, <2>6 DEF TreeConsistent
  <2>8. \A i, j \in 1..Len(term') : i < j => p_pid[term'[i]] > p_pid[term'[j]]
    <3>. TAKE i, j \in 1..Len(term')
    <3>1. /\ i + 1 \in 1..Len(term) /\ j + 1 \in 1..Len(term)
          /\ term'[i] = term[i + 1] /\ term'[j] = term[j + 1]
          /\ i < j => i + 1 < j + 1
      BY <2>1, <2>2
    <3>. QED BY <2>1, <3>1 DEF TreeInv, StackRight
  <2>9. ToSet(term') \subseteq Live'
    <3>1. p \notin ToSet(Tail(term))
      <4>1. \A i \in 1..Len(Tail(term)) : Tail(term)[i] # p
        <5>. TAKE i \in 1..Len(Tail(term))
        <5>1. 1 \in 1..Len(term) /\ i + 1 \in 1..Len(term) /\ 1 < i + 1
              /\ Tail(term)[i] = term[i + 1]
          BY <2>2
        <5>2. p_pid[term[1]] > p_pid[term[i + 1]] /\ p_pid[p] \in Nat
          BY <1>0, <2>1, <2>2, <5>1 DEF TreeInv, StackRight
        <5>. QED BY <2>2, <5>1, <5>2
      <4>. DEFINE u == Tail(term)
      <4>. HIDE DEF u
      <4>2. u \in Seq(Pcbs) /\ \A i \in 1..Len(u) : u[i] # p
        BY <2>2, <4>1 DEF u
      <4>3. p \notin ToSet(u)
        BY <4>2, ToSetSeq
      <4>. QED BY <4>3 DEF u
    <3>. QED BY <2>1, <2>2, <2>3, <3>1 DEF TreeInv, StackRight
  <2>10. StackRight'
    BY <2>1, <2>8, <2>9 DEF StackRight
  <2>. QED BY <2>1, <2>7, <2>10 DEF TreeInv, PidsIssued
<1>. QED BY <1>1, <1>2, <1>3, <1>4, <1>5, StepKinds

LEMMA TreeInit == Init => TreeInv
<1>. SUFFICES ASSUME Init PROVE TreeInv
  OBVIOUS
<1>1. PICK first \in Pcbs : allocFirstPcb(first) /\ term = <<>> /\ cpu = "run"
  BY DEF Init
<1>2. ToSet(<<>>) = {} /\ Len(<<>>) = 0
  BY DEF ToSet
<1>. QED BY <1>1, <1>2
         DEF allocFirstPcb, TreeInv, PidsIssued, TreeConsistent, StackRight, Live

(* The inductive invariant behind the tree: links, pids, the stack of a    *)
(* termination in progress, on top of PlaceInv.                            *)
THEOREM TreeCorrect == ASSUME ~KillAny PROVE Spec => [](PlaceInv /\ TreeInv)
<1>1. PlaceInv => TypeInv /\ Placed
  BY PlaceMeaning DEF PlaceInv, TypeInv
<1>2. PlaceInv /\ TreeInv /\ [Next]_vars => TreeInv'
  BY <1>1, TreeStep
<1>. QED BY <1>2, TreeInit, PlaceCorrect, PTL DEF Spec

(* The parent and child links of the living describe one tree at every     *)
(* moment: the only root is the first process, a child names its parent,   *)
(* a parent is older than its child and no free PCB is linked, also half-  *)
(* way through the recursion of terminateProcess.                          *)
THEOREM TreeSafe == ASSUME ~KillAny PROVE Spec => []TreeConsistent
<1>1. TreeInv => TreeConsistent
  BY DEF TreeInv
<1>. QED BY <1>1, TreeCorrect, PTL
-----------------------------------------------------------------------------
(* SoftBlocked for given queues.                                           *)
SoftWaits(sd) == UNION {ToSet(sd[s]) : s \in DeviceSemaphores}

Counted(free, count) == count = Cardinality(Pcbs \ free)
SoftCounted(sd, soft) == soft = Cardinality(SoftWaits(sd))

(* dispatch() stops only on an empty ready queue, in the mode its counters *)
(* call for.                                                               *)
IdleRight ==
    cpu \in Stopped => /\ readyQueue = <<>>
                       /\ cpu = idleMode(processCount, softBlock_count)

CountInv ==
    /\ Intact => Counted(pcbFree, processCount) /\ SoftCounted(semd, softBlock_count)
    /\ IdleRight

LEMMA SoftMeaning == ASSUME TypeOK PROVE SoftBlocked = SoftWaits(semd)
<1>1. \A s \in DeviceSemaphores : ToSet(semd[s]) \subseteq Pcbs
  BY ToSetSeq DEF TypeOK, Sems
<1>. QED BY <1>1 DEF SoftBlocked, BlockedOn, SoftWaits

(* A process blocks.                                                       *)
LEMMA SoftBlock ==
    ASSUME NEW sd \in [Sems -> Seq(Pcbs)], NEW s \in Sems, NEW cur \in Pcbs,
           cur \notin WaitsIn(sd), NEW soft, SoftCounted(sd, soft)
    PROVE  SoftCounted(With(sd, s, Append(sd[s], cur)),
                       IF isDeviceSemaphore(s) THEN soft + 1 ELSE soft)
<1>. DEFINE sn == With(sd, s, Append(sd[s], cur))
<1>1. sn[s] = Append(sd[s], cur) /\ \A t \in Sems \ {s} : sn[t] = sd[t]
  BY DEF With
<1>2. ToSet(sn[s]) = ToSet(sd[s]) \cup {cur}
  BY <1>1, AppendToQueue
<1>3. DeviceSemaphores \subseteq Sems
  BY DEF Sems
<1>. HIDE DEF sn
<1>4. CASE isDeviceSemaphore(s)
  <2>1. SoftWaits(sn) = SoftWaits(sd) \cup {cur}
    BY <1>1, <1>2, <1>3, <1>4 DEF SoftWaits, isDeviceSemaphore
  <2>2. cur \notin SoftWaits(sd)
    BY <1>3 DEF SoftWaits, WaitsIn
  <2>3. SoftWaits(sd) \subseteq Pcbs
    BY <1>3, ToSetSeq DEF SoftWaits
  <2>4. IsFiniteSet(SoftWaits(sd))
    BY <2>3, PcbsAssumption, FS_Subset
  <2>5. Cardinality(SoftWaits(sn)) = Cardinality(SoftWaits(sd)) + 1
    BY <2>1, <2>2, <2>4, FS_AddElement
  <2>. QED BY <1>4, <2>5 DEF SoftCounted, sn
<1>5. CASE ~isDeviceSemaphore(s)
  <2>1. SoftWaits(sn) = SoftWaits(sd)
    BY <1>1, <1>3, <1>5 DEF SoftWaits, isDeviceSemaphore
  <2>. QED BY <1>5, <2>1 DEF SoftCounted, sn
<1>. QED BY <1>4, <1>5

(* A waiter leaves its queue.                                              *)
LEMMA SoftDrop ==
    ASSUME NEW sd \in [Sems -> Seq(Pcbs)], NEW s \in Sems, Apart(sd),
           NEW p \in ToSet(sd[s]), NEW q \in Seq(Pcbs),
           ToSet(q) = ToSet(sd[s]) \ {p}, NEW soft, SoftCounted(sd, soft)
    PROVE  SoftCounted(With(sd, s, q),
                       IF isDeviceSemaphore(s) THEN soft - 1 ELSE soft)
<1>. DEFINE sn == With(sd, s, q)
<1>1. sn[s] = q /\ \A t \in Sems \ {s} : sn[t] = sd[t]
  BY DEF With
<1>2. DeviceSemaphores \subseteq Sems
  BY DEF Sems
<1>3. \A t \in Sems \ {s} : p \notin ToSet(sd[t])
  BY DEF Apart
<1>. HIDE DEF sn
<1>4. CASE isDeviceSemaphore(s)
  <2>1. p \in SoftWaits(sd) /\ SoftWaits(sn) = SoftWaits(sd) \ {p}
    BY <1>1, <1>2, <1>3, <1>4, ZenonT(60) DEF SoftWaits, isDeviceSemaphore
  <2>2. SoftWaits(sd) \subseteq Pcbs
    BY <1>2, ToSetSeq DEF SoftWaits
  <2>3. IsFiniteSet(SoftWaits(sd))
    BY <2>2, PcbsAssumption, FS_Subset
  <2>4. Cardinality(SoftWaits(sn)) = Cardinality(SoftWaits(sd)) - 1
    BY <2>1, <2>3, FS_RemoveElement
  <2>. QED BY <1>4, <2>4 DEF SoftCounted, sn
<1>5. CASE ~isDeviceSemaphore(s)
  <2>1. SoftWaits(sn) = SoftWaits(sd)
    BY <1>1, <1>2, <1>5 DEF SoftWaits, isDeviceSemaphore
  <2>. QED BY <1>5, <2>1 DEF SoftCounted, sn
<1>. QED BY <1>4, <1>5

(* A PCB is allocated or freed.                                            *)
LEMMA CountChange ==
    ASSUME NEW free \in SUBSET Pcbs, NEW count, Counted(free, count), NEW p \in Pcbs
    PROVE  /\ p \in free => Counted(free \ {p}, count + 1)
           /\ p \notin free => Counted(free \cup {p}, count - 1)
<1>1. IsFiniteSet(Pcbs \ free)
  BY PcbsAssumption, FS_Subset
<1>2. ASSUME p \in free PROVE Counted(free \ {p}, count + 1)
  <2>1. Pcbs \ (free \ {p}) = (Pcbs \ free) \cup {p} /\ p \notin Pcbs \ free
    BY <1>2
  <2>. QED BY <1>1, <2>1, FS_AddElement DEF Counted
<1>3. ASSUME p \notin free PROVE Counted(free \cup {p}, count - 1)
  <2>1. Pcbs \ (free \cup {p}) = (Pcbs \ free) \ {p} /\ p \in Pcbs \ free
    BY <1>3
  <2>. QED BY <1>1, <2>1, FS_RemoveElement, ZenonT(60) DEF Counted
<1>. QED BY <1>2, <1>3

(* block(), with the counter its caller passes to dispatch().              *)
LEMMA BlockCounted ==
    ASSUME TypeInv, Placed, CountInv, cpu = "run", NEW s \in Sems, NEW soft,
           soft = IF isDeviceSemaphore(s) THEN softBlock_count + 1 ELSE softBlock_count,
           block(s, soft), UNCHANGED <<pcbFree, processCount>>
    PROVE  CountInv'
<1>1. /\ currProc \in Pcbs /\ semd \in [Sems -> Seq(Pcbs)]
      /\ Place(readyQueue, semd, currProc, pcbFree)
      /\ Counted(pcbFree, processCount) /\ SoftCounted(semd, softBlock_count)
  BY DEF TypeInv, TypeOK, SomebodyRuns, Placed, Intact, CountInv
<1>2. semdAvailable(s)
  BY RoomInAsl
<1>3. /\ semd' = With(semd, s, Append(semd[s], currProc)) /\ softBlock_count' = soft
      /\ dispatch(readyQueue, processCount, soft, NULL)
  BY <1>2 DEF block, insertBlocked, With
<1>4. SoftCounted(semd', softBlock_count')
  BY <1>1, <1>3, SoftBlock DEF Place
<1>5. IdleRight'
  BY <1>3, DispatchMode DEF IdleRight
<1>. QED BY <1>1, <1>4, <1>5 DEF CountInv

(* removeBlocked takes its waiter off the count of a device semaphore.     *)
LEMMA WakeCounted ==
    ASSUME TypeInv, Placed, CountInv, Intact, NEW s \in Sems, removeBlocked(s)
    PROVE  SoftCounted(semd', IF isDeviceSemaphore(s) THEN softBlock_count - 1
                              ELSE softBlock_count)
<1>1. /\ semd \in [Sems -> Seq(Pcbs)] /\ SoftCounted(semd, softBlock_count)
      /\ Place(readyQueue, semd, currProc, pcbFree)
  BY DEF TypeInv, TypeOK, Placed, CountInv
<1>. DEFINE p == Head(semd[s])
            q == Tail(semd[s])
<1>2. semd[s] # <<>> /\ semd' = With(semd, s, q)
  BY DEF removeBlocked, With
<1>3. Apart(semd) /\ IsInjective(semd[s]) /\ semd[s] \in Seq(Pcbs)
  BY <1>1 DEF Place, Apart
<1>4. /\ p \in ToSet(semd[s]) /\ q \in Seq(Pcbs) /\ p \notin ToSet(q)
      /\ ToSet(semd[s]) = ToSet(q) \cup {p}
  BY <1>2, <1>3, TailOfQueue
<1>. HIDE DEF p, q
<1>5. ToSet(q) = ToSet(semd[s]) \ {p}
  BY <1>4
<1>. QED BY <1>1, <1>2, <1>3, <1>4, <1>5, SoftDrop

(* terminateProcess takes one process off the counters: a process that     *)
(* counts as blocked on a device, and is not on the ready queue, is.       *)
LEMMA SelfCounted ==
    ASSUME TypeInv, Placed, TreeInv, CountInv, terminateSelf
    PROVE  CountInv'
<1>. DEFINE p == Head(term)
            cur == IF p = currProc THEN NULL ELSE currProc
            rq == IF p = currProc \/ onSemaphore(p) THEN readyQueue
                  ELSE outProcQ(readyQueue, p)
            soft == IF onSemaphore(p) /\ isDeviceSemaphore(p_semAdd[p])
                    THEN softBlock_count - 1 ELSE softBlock_count
<1>1. /\ cpu = "term" /\ Intact
      /\ semd' = IF onSemaphore(p) THEN outBlocked(p) ELSE semd
      /\ pcbFree' = pcbFree \cup {p} /\ softBlock_count' = soft
      /\ processCount' = processCount - 1
  BY DEF terminateSelf, Intact
<1>2. IF p \in ToSet(rq)
      THEN cpu' = "corrupt"
      ELSE cpu' = cpu \/ dispatch(rq, processCount - 1, soft, cur)
  BY DEF terminateSelf
<1>3. /\ semd \in [Sems -> Seq(Pcbs)] /\ p_semAdd \in [Pcbs -> Sems \cup {NULL}]
      /\ pcbFree \in SUBSET Pcbs /\ term \in Seq(Pcbs) /\ term # <<>>
      /\ Place(readyQueue, semd, currProc, pcbFree) /\ Names(semd, p_semAdd)
      /\ Counted(pcbFree, processCount) /\ SoftCounted(semd, softBlock_count)
  BY <1>1 DEF TypeInv, TypeOK, Placed, CountInv
<1>4. p \in Pcbs /\ p \in ToSet(term)
  BY <1>3, TailOfQueue
<1>5. p \notin pcbFree
  BY <1>1, <1>4 DEF TreeInv, StackRight, Live
<1>6. IdleRight'
  <2>1. CASE cpu' = "corrupt" \/ cpu' = cpu
    BY <1>1, <2>1 DEF IdleRight, Stopped
  <2>2. CASE dispatch(rq, processCount - 1, soft, cur)
    <3>. HIDE DEF rq, soft, cur
    <3>. QED BY <1>1, <2>2, DispatchMode DEF IdleRight
  <2>. QED BY <1>2, <2>1, <2>2
<1>7. Counted(pcbFree', processCount')
  BY <1>1, <1>3, <1>4, <1>5, CountChange
<1>8. ASSUME Intact' PROVE SoftCounted(semd', softBlock_count')
  <2>1. p \notin ToSet(rq)
    BY <1>2, <1>8 DEF Intact
  <2>2. CASE ~onSemaphore(p)
    BY <1>1, <1>3, <2>2
  <2>3. CASE onSemaphore(p)
    <3>. DEFINE s == p_semAdd[p]
                q == RemoveFirst(semd[s], p)
    <3>1. p # currProc /\ s \in Sems /\ p \notin ToSet(readyQueue)
      BY <1>3, <1>4, <2>1, <2>3 DEF onSemaphore
    <3>2. p \in ToSet(semd[s])
      <4>1. p \in WaitsIn(semd)
        BY <1>3, <1>4, <1>5, <3>1 DEF Place
      <4>. QED BY <1>3, <4>1 DEF WaitsIn, Names
    <3>3. semd' = With(semd, s, q) /\ soft = IF isDeviceSemaphore(s) THEN softBlock_count - 1
                                             ELSE softBlock_count
      BY <1>1, <2>3 DEF outBlocked, With
    <3>. HIDE DEF s, soft, p
    <3>4. Apart(semd) /\ IsInjective(semd[s]) /\ semd[s] \in Seq(Pcbs)
      BY <1>3, <3>1 DEF Place, Apart
    <3>5. q \in Seq(Pcbs) /\ ToSet(q) = ToSet(semd[s]) \ {p}
      BY <3>4, RemoveFromQueue
    <3>. HIDE DEF q
    <3>6. SoftCounted(With(semd, s, q), IF isDeviceSemaphore(s) THEN softBlock_count - 1
                                        ELSE softBlock_count)
      BY <1>3, <3>1, <3>2, <3>4, <3>5, SoftDrop
    <3>. QED BY <1>1, <3>3, <3>6
  <2>. QED BY <2>2, <2>3
<1>. QED BY <1>6, <1>7, <1>8 DEF CountInv

LEMMA CountStep ==
    ASSUME TypeInv, Placed, TreeInv, CountInv, [Next]_vars
    PROVE  CountInv'
<1>0. pcbFree \in SUBSET Pcbs
  BY DEF TypeInv, TypeOK
<1>s. ASSUME NEW mode, cpu = mode, cpu' = mode, mode # "corrupt",
             UNCHANGED <<pcbFree, processCount, softBlock_count, semd, readyQueue>>
      PROVE  CountInv'
  BY <1>s DEF CountInv, Intact, IdleRight
<1>d. ASSUME cpu # "corrupt", UNCHANGED <<pcbFree, processCount, softBlock_count, semd>>,
             NEW rq, NEW cur, dispatch(rq, processCount, softBlock_count, cur)
      PROVE  CountInv'
  BY <1>d, DispatchMode DEF CountInv, Intact, IdleRight
<1>1. ASSUME NEW prio \in Prios, NEW support \in Supports, nsys1(prio, support)
      PROVE  CountInv'
  <2>1. /\ cpu = "run" /\ cpu' = "run" /\ UNCHANGED <<semd, softBlock_count>>
        /\ \/ UNCHANGED <<pcbFree, processCount>>
           \/ \E n \in pcbFree : pcbFree' = pcbFree \ {n} /\ processCount' = processCount + 1
    BY <1>1 DEF nsys1
  <2>2. Counted(pcbFree, processCount) /\ SoftCounted(semd, softBlock_count)
    BY <2>1 DEF CountInv, Intact
  <2>3. Counted(pcbFree', processCount')
    BY <1>0, <2>1, <2>2, CountChange
  <2>. QED BY <2>1, <2>2, <2>3 DEF CountInv, IdleRight, Stopped
<1>2. ASSUME NEW p \in Pcbs, cpu = "run", callTerminate(p)
      PROVE  CountInv'
  BY <1>2 DEF callTerminate, CountInv, Intact, IdleRight, Stopped
<1>3. ASSUME NEW pid \in 0..MaxPid, nsys2(pid)
      PROVE  CountInv'
  <2>1. cpu = "run" /\ currProc \in Pcbs /\ findPcbByPid(pid) \subseteq Pcbs
    BY <1>3 DEF nsys2, TypeInv, SomebodyRuns, findPcbByPid, searchInTree, Blocked
  <2>. QED BY <1>2, <1>3, <1>s, <2>1 DEF nsys2, vars
<1>4. ASSUME NEW s \in UserSems, nsys3(s)
      PROVE  CountInv'
  <2>1. /\ s \in Sems /\ ~isDeviceSemaphore(s) /\ cpu = "run"
        /\ UNCHANGED <<pcbFree, processCount>>
    BY <1>4, SemsAssumption DEF Sems, nsys3, isDeviceSemaphore
  <2>2. CASE UNCHANGED <<semd, p_semAdd, currProc, readyQueue, cpu, softBlock_count>>
    BY <1>s, <2>1, <2>2
  <2>3. CASE block(s, softBlock_count)
    BY <2>1, <2>3, BlockCounted
  <2>. QED BY <1>4, <2>2, <2>3 DEF nsys3
<1>5. ASSUME NEW s \in UserSems, nsys4(s)
      PROVE  CountInv'
  <2>1. /\ s \in Sems /\ ~isDeviceSemaphore(s) /\ cpu = "run" /\ Intact
        /\ UNCHANGED <<pcbFree, processCount, softBlock_count, cpu>>
    BY <1>5, SemsAssumption DEF Sems, nsys4, isDeviceSemaphore, Intact
  <2>2. CASE UNCHANGED <<semd, p_semAdd, readyQueue>>
    BY <1>s, <2>1, <2>2
  <2>3. CASE removeBlocked(s)
    <3>1. SoftCounted(semd', softBlock_count)
      BY <2>1, <2>3, WakeCounted
    <3>. QED BY <2>1, <3>1 DEF CountInv, Intact, IdleRight, Stopped
  <2>. QED BY <1>5, <2>2, <2>3 DEF nsys4
<1>6. ASSUME NEW d \in DevSems, nsys5(d)
      PROVE  CountInv'
  <2>1. /\ d \in Sems /\ isDeviceSemaphore(d) /\ cpu = "run"
        /\ UNCHANGED <<pcbFree, processCount>> /\ block(d, softBlock_count + 1)
    BY <1>6 DEF Sems, DeviceSemaphores, nsys5, isDeviceSemaphore
  <2>. QED BY <2>1, BlockCounted
<1>7. ASSUME nsys7
      PROVE  CountInv'
  <2>1. /\ ClockSem \in Sems /\ isDeviceSemaphore(ClockSem) /\ cpu = "run"
        /\ UNCHANGED <<pcbFree, processCount>> /\ block(ClockSem, softBlock_count + 1)
    BY <1>7 DEF Sems, DeviceSemaphores, nsys7, isDeviceSemaphore
  <2>. QED BY <2>1, BlockCounted
<1>8. ASSUME nsys10
      PROVE  CountInv'
  BY <1>8, <1>d DEF nsys10
<1>9. ASSUME passUpOrDie
      PROVE  CountInv'
  <2>1. cpu = "run" /\ currProc \in Pcbs
    BY <1>9 DEF passUpOrDie, TypeInv, SomebodyRuns
  <2>. QED BY <1>2, <1>9, <1>s, <2>1 DEF passUpOrDie, vars
<1>10. ASSUME terminateChild
       PROVE  CountInv'
  BY <1>10, <1>s DEF terminateChild
<1>11. ASSUME pltInterruptHandler
       PROVE  CountInv'
  BY <1>11, <1>d DEF pltInterruptHandler
<1>12. ASSUME itInterruptHandler
       PROVE  CountInv'
  <2>1. /\ cpu \in {"run", "wait", "tick"} /\ Intact /\ ClockSem \in Sems
        /\ isDeviceSemaphore(ClockSem) /\ UNCHANGED <<pcbFree, processCount>>
    BY <1>12 DEF itInterruptHandler, Interruptible, Sems, DeviceSemaphores,
                 isDeviceSemaphore, Intact
  <2>2. CASE removeBlocked(ClockSem) /\ softBlock_count' = softBlock_count - 1 /\ cpu' = "tick"
    <3>1. SoftCounted(semd', softBlock_count - 1)
      BY <2>1, <2>2, WakeCounted
    <3>. QED BY <2>1, <2>2, <3>1 DEF CountInv, Intact, IdleRight, Stopped
  <2>3. CASE /\ UNCHANGED <<semd, softBlock_count>>
             /\ dispatch(IF currProc = NULL THEN readyQueue
                         ELSE insertProcQ(readyQueue, p_prio, currProc),
                         processCount, softBlock_count, currProc)
    BY <1>d, <2>1, <2>3
  <2>. QED BY <1>12, <2>2, <2>3 DEF itInterruptHandler
<1>13. ASSUME NEW d \in DevSems, deviceInterruptHandler(d)
       PROVE  CountInv'
  <2>. DEFINE woken == semd[d] # <<>>
              r == IF woken THEN insertProcQ(readyQueue, p_prio, Head(semd[d]))
                   ELSE readyQueue
              soft == IF woken THEN softBlock_count - 1 ELSE softBlock_count
  <2>1. /\ cpu \in {"run", "wait"} /\ Intact /\ d \in Sems /\ isDeviceSemaphore(d)
        /\ UNCHANGED <<pcbFree, processCount>> /\ softBlock_count' = soft
        /\ \/ removeBlocked(d)
           \/ ~woken /\ semd' = semd
        /\ \/ cpu' = "run"
           \/ dispatch(r, processCount, soft, currProc)
    BY <1>13 DEF deviceInterruptHandler, Interruptible, Sems, DeviceSemaphores,
                 isDeviceSemaphore, Intact
  <2>2. Counted(pcbFree, processCount) /\ SoftCounted(semd, softBlock_count)
    BY <2>1 DEF CountInv
  <2>3. SoftCounted(semd', soft)
    <3>1. CASE removeBlocked(d)
      <4>1. soft = softBlock_count - 1
        BY <3>1 DEF removeBlocked
      <4>. QED BY <2>1, <3>1, <4>1, WakeCounted
    <3>2. CASE ~woken /\ semd' = semd
      BY <2>2, <3>2
    <3>. QED BY <2>1, <3>1, <3>2
  <2>. HIDE DEF woken, r, soft
  <2>4. IdleRight'
    BY <2>1, DispatchMode DEF IdleRight, Stopped
  <2>. QED BY <2>1, <2>2, <2>3, <2>4 DEF CountInv
<1>14. ASSUME NEW d \in DevSems, deviceDone(d)
       PROVE  CountInv'
  BY <1>14 DEF deviceDone, CountInv, Intact, IdleRight
<1>15. CASE UNCHANGED vars
  BY <1>15 DEF vars, CountInv, Intact, IdleRight
<1>. QED
  BY <1>1, <1>3, <1>4, <1>5, <1>6, <1>7, <1>8, <1>9, <1>10, SelfCounted,
     <1>11, <1>12, <1>13, <1>14, <1>15
  DEF Next, syscallHandler, interruptHandler, terminateProcess

LEMMA CountInit == Init => CountInv
<1>. SUFFICES ASSUME Init PROVE CountInv
  OBVIOUS
<1>1. PICK first \in Pcbs : /\ allocFirstPcb(first) /\ initASL /\ cpu = "run"
                            /\ processCount = 1 /\ softBlock_count = 0
  BY DEF Init
<1>2. Pcbs \ pcbFree = {first} /\ \A s \in DeviceSemaphores : semd[s] = <<>>
  BY <1>1 DEF allocFirstPcb, initASL, Sems
<1>3. SoftWaits(semd) = {}
  BY <1>2 DEF SoftWaits, ToSet
<1>4. Cardinality({first}) = 1 /\ Cardinality({}) = 0
  BY FS_Singleton, FS_EmptySet
<1>. QED BY <1>1, <1>2, <1>3, <1>4
         DEF CountInv, Counted, SoftCounted, IdleRight, Stopped

(* The inductive invariant behind the counters.                            *)
THEOREM CountCorrect ==
    ASSUME ~KillAny PROVE Spec => [](PlaceInv /\ CountInv)
<1>1. PlaceInv => TypeInv /\ Placed
  BY PlaceMeaning DEF PlaceInv, TypeInv
<1>2. PlaceInv /\ TreeInv /\ CountInv /\ [Next]_vars => CountInv'
  BY <1>1, CountStep
<1>. QED BY <1>2, CountInit, TreeCorrect, PTL DEF Spec

(* processCount is the number of processes that exist and softBlock_count  *)
(* the number of those that wait for a device or the clock, as long as the *)
(* lists are intact: blocking, waking and terminating a process in any     *)
(* state keep the counters exact, for any number of PCBs and devices.      *)
THEOREM CountsSafe == ASSUME ~KillAny PROVE Spec => []CountsExact
<1>1. PlaceInv /\ CountInv => CountsExact
  BY SoftMeaning DEF PlaceInv, TypeInv, CountInv, CountsExact, Counted, SoftCounted, Live
<1>. QED BY <1>1, CountCorrect, PTL

(* dispatch() halts only when nobody is left, waits only when a device or  *)
(* the clock will wake somebody, and panics only when every process waits  *)
(* for a V that none of them can issue.                                    *)
THEOREM StopsSafe == ASSUME ~KillAny PROVE Spec => []StopsRightly
<1>1. PlaceInv /\ CountInv => StopsRightly
  <2>. SUFFICES ASSUME PlaceInv, CountInv, cpu \in Stopped PROVE StopsRightly
    BY DEF StopsRightly, Stopped
  <2>1. /\ Intact /\ readyQueue = <<>> /\ cpu = idleMode(processCount, softBlock_count)
        /\ currProc = NULL /\ pcbFree \subseteq Pcbs
    BY DEF CountInv, IdleRight, PlaceInv, IdleCpu, Intact, Stopped, TypeInv, TypeOK
  <2>2. Live = Blocked
    BY <2>1 DEF PlaceInv, OnePlace, ToSet
  <2>3. processCount = Cardinality(Live) /\ softBlock_count = Cardinality(SoftBlocked)
    BY <2>1, SoftMeaning DEF PlaceInv, TypeInv, CountInv, Counted, SoftCounted, Live
  <2>4. /\ IsFiniteSet(Live) /\ IsFiniteSet(SoftBlocked)
        /\ Cardinality(Live) \in Nat /\ Cardinality(SoftBlocked) \in Nat
    <3>1. IsFiniteSet(Live) /\ IsFiniteSet(SoftBlocked)
      BY PcbsAssumption, FS_Subset DEF Live, SoftBlocked
    <3>. QED BY <3>1, FS_CardinalityType
  <2>5. /\ (processCount = 0 <=> Live = {}) /\ (softBlock_count = 0 <=> SoftBlocked = {})
    BY <2>3, <2>4, FS_EmptySet
  <2>6. CASE cpu = "halt"
    <3>1. processCount = 0
      BY <2>1, <2>6 DEF idleMode
    <3>. QED BY <2>1, <2>5, <2>6, <3>1 DEF StopsRightly, Live
  <2>7. CASE cpu = "wait"
    <3>1. softBlock_count > 0
      BY <2>1, <2>7 DEF idleMode
    <3>. QED BY <2>3, <2>4, <2>5, <2>7, <3>1 DEF StopsRightly
  <2>8. CASE cpu = "panic"
    <3>1. processCount # 0 /\ ~ (softBlock_count > 0)
      BY <2>1, <2>8 DEF idleMode
    <3>2. SoftBlocked = {} /\ Live # {}
      BY <2>3, <2>4, <2>5, <3>1
    <3>. QED BY <2>2, <2>8, <3>2 DEF StopsRightly
  <2>. QED BY <2>6, <2>7, <2>8 DEF Stopped
<1>. QED BY <1>1, CountCorrect, PTL
=============================================================================
