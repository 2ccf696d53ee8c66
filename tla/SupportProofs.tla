--------------------------- MODULE SupportProofs ---------------------------
(***************************************************************************)
(* The support level for any number of programs, ASIDs, pages and frames:  *)
(* types, mutual exclusion on the swap pool, the truth of                  *)
(* holdingSwapMutex, the use of semaphores and freedom from deadlock.      *)
(***************************************************************************)
EXTENDS Support, ProcQueueProofs, TLAPS

(* A page fault in service is about an entry of the page table.            *)
FaultsRight == \A p \in Uprocs : pc[p] \in InPager => missing(p) \in Ptes

TypeInv == TypeOK /\ FaultsRight
-----------------------------------------------------------------------------
(* P by a process that waits nowhere: it passes an open semaphore, or goes *)
(* to the end of the queue of a closed one.                                *)
LEMMA PEffect ==
    ASSUME semVal \in [Sems -> Nat], semQ \in [Sems -> Seq(Procs)],
           NEW s \in Sems, NEW p \in Procs, P(s, p)
    PROVE  /\ semVal' \in [Sems -> Nat] /\ semQ' \in [Sems -> Seq(Procs)]
           /\ \/ /\ semVal[s] > 0 /\ semQ' = semQ
                 /\ semVal' = [semVal EXCEPT ![s] = @ - 1]
              \/ /\ semVal[s] = 0 /\ semVal' = semVal
                 /\ semQ'[s] # <<>> /\ ToSet(semQ'[s]) = ToSet(semQ[s]) \cup {p}
                 /\ p \notin ToSet(semQ[s]) /\ IsInjective(semQ[s])
                      => IsInjective(semQ'[s])
                 /\ \A t \in Sems \ {s} : semQ'[t] = semQ[t]
<1>1. semVal[s] \in Nat /\ semQ[s] \in Seq(Procs)
  OBVIOUS
<1>2. CASE semVal[s] > 0
  BY <1>1, <1>2 DEF P
<1>3. CASE ~ (semVal[s] > 0)
  <2>1. semVal[s] = 0 /\ semVal' = semVal /\ semQ' = [semQ EXCEPT ![s] = Append(@, p)]
    BY <1>1, <1>3 DEF P
  <2>2. /\ Append(semQ[s], p) \in Seq(Procs) /\ Append(semQ[s], p) # <<>>
        /\ ToSet(Append(semQ[s], p)) = ToSet(semQ[s]) \cup {p}
        /\ p \notin ToSet(semQ[s]) /\ IsInjective(semQ[s])
             => IsInjective(Append(semQ[s], p))
    BY <1>1, AppendToQueue
  <2>3. semQ'[s] = Append(semQ[s], p) /\ \A t \in Sems \ {s} : semQ'[t] = semQ[t]
    BY <2>1
  <2>. QED BY <2>1, <2>2, <2>3
<1>. QED BY <1>2, <1>3

(* V is counted, or takes the first waiter off the queue.                  *)
LEMMA VEffect ==
    ASSUME semVal \in [Sems -> Nat], semQ \in [Sems -> Seq(Procs)],
           NEW s \in Sems, V(s)
    PROVE  /\ semVal' \in [Sems -> Nat] /\ semQ' \in [Sems -> Seq(Procs)]
           /\ \/ /\ semQ[s] = <<>> /\ semQ' = semQ
                 /\ semVal' = [semVal EXCEPT ![s] = @ + 1]
              \/ /\ semQ[s] # <<>> /\ semVal' = semVal
                 /\ \A t \in Sems \ {s} : semQ'[t] = semQ[t]
                 /\ Head(semQ[s]) \in ToSet(semQ[s])
                 /\ IsInjective(semQ[s]) =>
                      /\ ToSet(semQ'[s]) = ToSet(semQ[s]) \ {Head(semQ[s])}
                      /\ IsInjective(semQ'[s])
<1>1. semVal[s] \in Nat /\ semQ[s] \in Seq(Procs)
  OBVIOUS
<1>2. CASE semQ[s] = <<>>
  BY <1>1, <1>2 DEF V
<1>3. CASE semQ[s] # <<>>
  <2>1. semVal' = semVal /\ semQ' = [semQ EXCEPT ![s] = Tail(@)]
    BY <1>3 DEF V
  <2>2. /\ Tail(semQ[s]) \in Seq(Procs) /\ Head(semQ[s]) \in ToSet(semQ[s])
        /\ IsInjective(semQ[s]) => /\ ToSet(Tail(semQ[s])) = ToSet(semQ[s]) \ {Head(semQ[s])}
                                   /\ IsInjective(Tail(semQ[s]))
    BY <1>1, <1>3, TailOfQueue
  <2>3. semQ'[s] = Tail(semQ[s]) /\ \A t \in Sems \ {s} : semQ'[t] = semQ[t]
    BY <2>1
  <2>4. semQ' \in [Sems -> Seq(Procs)]
    BY <2>1, <2>2
  <2>. QED BY <1>3, <2>1, <2>2, <2>3, <2>4
<1>. QED BY <1>2, <1>3

(* TERMPROCESS takes the processes it ends off every queue.                *)
LEMMA TermEffect ==
    ASSUME semQ \in [Sems -> Seq(Procs)], NEW p, TERMPROCESS(p)
    PROVE  /\ semQ' \in [Sems -> Seq(Procs)]
           /\ \A s \in Sems : /\ ToSet(semQ'[s]) = ToSet(semQ[s]) \ progeny(p)
                              /\ IsInjective(semQ[s]) => IsInjective(semQ'[s])
<1>. DEFINE D == progeny(p)
<1>1. semQ' = [s \in Sems |-> Without(semQ[s], D)]
  BY DEF TERMPROCESS
<1>. HIDE DEF D
<1>2. \A s \in Sems : /\ Without(semQ[s], D) \in Seq(Procs)
                      /\ ToSet(Without(semQ[s], D)) = ToSet(semQ[s]) \ D
                      /\ IsInjective(semQ[s]) => IsInjective(Without(semQ[s], D))
  BY WithoutMembers
<1>3. \A s \in Sems : /\ ToSet(semQ'[s]) = ToSet(semQ[s]) \ D
                      /\ IsInjective(semQ[s]) => IsInjective(semQ'[s])
  BY <1>1, <1>2
<1>. QED BY <1>1, <1>2, <1>3 DEF D
-----------------------------------------------------------------------------
(* What a step must show to keep the types of the memory, the variables of *)
(* the pager and the local variables.                                      *)
LocalType ==
    /\ ret \in [Uprocs -> {"user", "write", "read"}]
    /\ vpn \in [Uprocs -> Vpns \cup {0}]
    /\ frame \in [Uprocs -> Frames]
    /\ asidOf \in [Uprocs -> Asids]
SemType == semVal \in [Sems -> Nat] /\ semQ \in [Sems -> Seq(Procs)]
PagingType ==
    /\ swapPool \in [Frames -> Ptes \cup {FREE}]
    /\ fifoCont \in Frames
    /\ holdingSwapMutex \in [Asids -> BOOLEAN]
TableType ==
    /\ pte \in [Ptes -> Frames \cup {INVALID}]
    /\ tlb \in [Ptes -> Frames \cup {INVALID, ABSENT}]
MemoryType == ram \in [Frames -> Contents] /\ flash \in [Ptes -> Contents]

LEMMA TypeParts ==
    TypeOK <=> /\ pc \in [Procs -> Labels]
               /\ LocalType /\ SemType /\ PagingType /\ TableType /\ MemoryType
  BY DEF TypeOK, LocalType, SemType, PagingType, TableType, MemoryType

LEMMA TypePartsNext ==
    TypeOK' <=> /\ pc' \in [Procs -> Labels]
                /\ LocalType' /\ SemType' /\ PagingType' /\ TableType' /\ MemoryType'
  BY DEF TypeOK, LocalType, SemType, PagingType, TableType, MemoryType

(* Contents that a store or a new program makes older stay contents.       *)
LEMMA ContentsClosed ==
    /\ \A e \in Ptes : Latest(e) \in Contents
    /\ \A c \in Contents : Older(c) \in Contents
  BY DEF Contents, Latest, Older

LEMMA SemsSame == ASSUME SemType, UNCHANGED sems PROVE SemType'
  BY DEF SemType, sems

LEMMA SemNames ==
    {"swapSemaphore", "masterSemaphore", "shellSemaphore",
     "termWriteSemaphore", "termReadSemaphore"} \subseteq Sems
  BY DEF Sems

LEMMA PType == ASSUME SemType, NEW s \in Sems, NEW p \in Procs, P(s, p) PROVE SemType'
  BY PEffect DEF SemType

LEMMA VType == ASSUME SemType, NEW s \in Sems, V(s) PROVE SemType'
  BY VEffect DEF SemType

LEMMA SizesFacts ==
    /\ 0 \in Frames /\ \A i \in Frames : (i + 1) % POOLSIZE \in Frames
    /\ 0 \in Pages /\ \A v \in Nat : v % MAXPAGES \in Pages
<1>1. MAXPAGES \in Nat \ {0} /\ POOLSIZE \in Nat \ {0}
  BY SizesAssumption
<1>2. \A a \in Nat : a % POOLSIZE \in 0..(POOLSIZE - 1) /\ a % MAXPAGES \in 0..(MAXPAGES - 1)
  BY <1>1
<1>3. \A i \in Frames : i + 1 \in Nat
  BY <1>1 DEF Frames
<1>4. 0 \in 0..(POOLSIZE - 1) /\ 0 \in 0..(MAXPAGES - 1)
  BY <1>1
<1>. QED BY <1>2, <1>3, <1>4 DEF Frames, Pages

LEMMA TypeInit == Init => TypeInv
<1>. SUFFICES ASSUME Init PROVE TypeInv
  OBVIOUS
<1>1. pc \in [Procs -> Labels]
  BY DEF Init, Labels
<1>2. LocalType
  BY SizesFacts, AsidsAssumption DEF Init, LocalType
<1>3. SemType
  BY DEF Init, SemType
<1>4. PagingType /\ TableType
  BY SizesFacts DEF Init, initSwapPool, PagingType, TableType
<1>5. MemoryType
  BY ContentsClosed DEF Init, MemoryType, Contents
<1>6. FaultsRight
  BY DEF Init, FaultsRight, InPager, Uprocs, Procs
<1>. QED BY <1>1, <1>2, <1>3, <1>4, <1>5, <1>6, TypeParts DEF TypeInv

(* Every action keeps the types, one group of variables after the other.   *)
LEMMA TypeStep ==
    ASSUME TypeInv, [Next]_vars
    PROVE  TypeInv'
<1>0. /\ pc \in [Procs -> Labels]
      /\ LocalType /\ SemType /\ PagingType /\ TableType /\ MemoryType /\ FaultsRight
  BY TypeParts DEF TypeInv
<1>a. Uprocs \subseteq Procs /\ Shell \in Uprocs /\ Inst \in Procs /\ Kids \subseteq Uprocs
  BY DEF Uprocs, Procs
<1>g. ASSUME NEW p \in Procs, NEW l \in Labels, Goto(p, l) PROVE pc' \in [Procs -> Labels]
  BY <1>0, <1>g DEF Goto
<1>f. ASSUME \A q \in Uprocs : pc'[q] \in InPager =>
                  pc[q] \in InPager /\ vpn'[q] = vpn[q] /\ asidOf'[q] = asidOf[q]
      PROVE  FaultsRight'
  BY <1>0, <1>f DEF FaultsRight, missing
<1>m. ASSUME NEW p \in Procs, NEW l \in Labels, Goto(p, l), pc[p] \in InPager \/ l \notin InPager,
             UNCHANGED <<vpn, asidOf>>
      PROVE  pc' \in [Procs -> Labels] /\ FaultsRight'
  <2>1. \A q \in Uprocs : pc'[q] \in InPager => pc[q] \in InPager
    BY <1>0, <1>a, <1>m DEF Goto
  <2>. QED BY <1>f, <1>g, <1>m, <2>1
<1>t. ASSUME pc' \in [Procs -> Labels], LocalType', SemType', PagingType', TableType',
             MemoryType', FaultsRight'
      PROVE  TypeInv'
  BY <1>t, TypePartsNext DEF TypeInv
<1>L. ASSUME UNCHANGED locals PROVE LocalType'
  BY <1>0, <1>L DEF LocalType, locals
<1>S. ASSUME UNCHANGED sems PROVE SemType'
  BY <1>0, <1>S, SemsSame
<1>P. ASSUME UNCHANGED paging PROVE PagingType'
  BY <1>0, <1>P DEF PagingType, paging
<1>T. ASSUME UNCHANGED <<pte, tlb>> PROVE TableType'
  BY <1>0, <1>T DEF TableType
<1>M. ASSUME UNCHANGED <<ram, flash>> PROVE MemoryType'
  BY <1>0, <1>M DEF MemoryType
<1>1. ASSUME NEW p \in Uprocs, NEW l \in {"user", "write", "read"}, touch(p, l)
      PROVE  TypeInv'
  <2>1. LocalType'
    BY <1>0, <1>1 DEF touch, LocalType
  <2>2. pc' \in [Procs -> Labels]
    BY <1>1, <1>a, <1>g DEF touch, Labels
  <2>3. FaultsRight'
    BY <1>0, <1>1, <1>f, <1>a DEF touch, Goto, InPager, LocalType
  <2>. QED BY <1>1, <1>t, <1>S, <1>P, <1>T, <1>M, <2>1, <2>2, <2>3 DEF touch
<1>2. ASSUME NEW p \in Uprocs, uTLB_RefillHandler(p)
      PROVE  TypeInv'
  <2>1. PICK e \in Ptes : tlb' = [tlb EXCEPT ![e] = ABSENT, ![refillEntry(p)] = pte[refillEntry(p)]]
    BY <1>2 DEF uTLB_RefillHandler
  <2>2. refillEntry(p) \in Ptes
    BY <1>0, SizesFacts, SizesAssumption DEF refillEntry, LocalType, Ptes
  <2>3. TableType'
    BY <1>0, <1>2, <2>1, <2>2 DEF TableType, uTLB_RefillHandler
  <2>4. FaultsRight' /\ pc' \in [Procs -> Labels]
    BY <1>0, <1>2, <1>f DEF uTLB_RefillHandler, locals
  <2>. QED BY <1>2, <1>t, <1>L, <1>S, <1>P, <1>M, <2>3, <2>4 DEF uTLB_RefillHandler
<1>3. ASSUME NEW p \in Uprocs, loadStore(p)
      PROVE  TypeInv'
  <2>1. LocalType'
    BY <1>0, <1>3 DEF loadStore, LocalType
  <2>2. ret[p] \in Labels \ InPager
    BY <1>0 DEF LocalType, Labels, InPager
  <2>3. pc' \in [Procs -> Labels]
    BY <1>3, <1>a, <1>g, <2>2 DEF loadStore
  <2>4. FaultsRight'
    BY <1>0, <1>3, <1>f, <1>a, <2>2 DEF loadStore, Goto, LocalType
  <2>5. MemoryType'
    <3>. DEFINE e == missing(p)
                stored(c) == IF c = Latest(e) THEN Older(c) ELSE c
    <3>1. CASE UNCHANGED <<ram, flash>>
      BY <1>M, <3>1
    <3>2. CASE /\ ram' = [f \in Frames |-> IF f = tlb[e] THEN ram[f] ELSE stored(ram[f])]
               /\ flash' = [b \in Ptes |-> stored(flash[b])]
      <4>1. \A c \in Contents : stored(c) \in Contents
        BY ContentsClosed
      <4>. HIDE DEF stored, e
      <4>. QED BY <1>0, <3>2, <4>1 DEF MemoryType
    <3>. QED BY <1>3, <3>1, <3>2 DEF loadStore
  <2>. QED BY <1>3, <1>t, <1>S, <1>P, <1>T, <2>1, <2>3, <2>4, <2>5 DEF loadStore
<1>4. ASSUME NEW p \in Uprocs, pagerEnter(p)
      PROVE  TypeInv'
  <2>1. SemType'
    BY <1>0, <1>4, <1>a, PType, SemNames DEF pagerEnter
  <2>2. pc' \in [Procs -> Labels]
    BY <1>4, <1>a, <1>g DEF pagerEnter, Labels
  <2>3. \A q \in Uprocs \ {p} : pc'[q] = pc[q]
    BY <1>0, <1>4 DEF pagerEnter, Goto
  <2>4. missing(p) \in Ptes /\ \A q \in Uprocs : missing(q)' = missing(q)
    BY <1>4 DEF pagerEnter, hits, missing, locals
  <2>5. FaultsRight'
    BY <1>0, <2>3, <2>4 DEF FaultsRight
  <2>. QED BY <1>4, <1>t, <1>L, <1>P, <1>T, <1>M, <2>1, <2>2, <2>5 DEF pagerEnter
<1>5. ASSUME NEW p \in Uprocs, pagerPick(p)
      PROVE  TypeInv'
  <2>1. PICK i \in Frames :
         /\ pickFrame(i)
         /\ frame' = [frame EXCEPT ![p] = i]
         /\ \/ /\ swapPool[i] # FREE
               /\ pte' = [pte EXCEPT ![swapPool[i]] = INVALID]
               /\ tlb' = updateTLB(tlb, swapPool[i], INVALID)
               /\ Goto(p, "evict")
            \/ /\ swapPool[i] = FREE
               /\ Goto(p, "load")
               /\ UNCHANGED <<pte, tlb>>
    BY <1>5 DEF pagerPick
  <2>2. LocalType'
    BY <1>0, <1>5, <2>1 DEF LocalType, pagerPick
  <2>3. fifoCont' \in Frames
    BY <1>0, <2>1, SizesFacts DEF pickFrame, PagingType
  <2>4. PagingType'
    BY <1>0, <1>5, <2>3 DEF PagingType, pagerPick, LocalType
  <2>5. TableType'
    BY <1>0, <2>1 DEF TableType, updateTLB, PagingType
  <2>6. pc[p] \in InPager /\ "evict" \in Labels /\ "load" \in Labels /\ UNCHANGED <<vpn, asidOf>>
    BY <1>5 DEF pagerPick, At, InPager, Labels
  <2>7. pc' \in [Procs -> Labels] /\ FaultsRight'
    BY <1>a, <1>m, <2>1, <2>6
  <2>. QED BY <1>5, <1>t, <1>S, <1>M, <2>2, <2>4, <2>5, <2>7 DEF pagerPick
<1>6. ASSUME NEW p \in Uprocs, pagerWrite(p)
      PROVE  TypeInv'
  <2>1. MemoryType'
    BY <1>0, <1>6 DEF pagerWrite, readWriteFlashdrive, MemoryType, LocalType
  <2>2. pc[p] \in InPager /\ "load" \in Labels /\ UNCHANGED <<vpn, asidOf>> /\ Goto(p, "load")
    BY <1>6 DEF pagerWrite, At, InPager, Labels, locals
  <2>3. pc' \in [Procs -> Labels] /\ FaultsRight'
    BY <1>a, <1>m, <2>2
  <2>. QED BY <1>6, <1>t, <1>L, <1>S, <1>P, <1>T, <2>1, <2>3 DEF pagerWrite
<1>7. ASSUME NEW p \in Uprocs, pagerRead(p)
      PROVE  TypeInv'
  <2>0. pc[p] \in InPager /\ UNCHANGED <<vpn, asidOf>>
    BY <1>7 DEF pagerRead, At, InPager, locals
  <2>1. MemoryType'
    <3>1. missing(p) \in Ptes /\ JUNK \in Contents
      BY <1>0, <2>0 DEF FaultsRight, Contents
    <3>. QED BY <1>0, <1>7, <3>1 DEF pagerRead, readWriteFlashdrive, MemoryType
  <2>2. pc' \in [Procs -> Labels] /\ FaultsRight'
    <3>1. (Goto(p, "map") \/ Goto(p, "giveUp")) /\ "map" \in Labels /\ "giveUp" \in Labels
      BY <1>7 DEF pagerRead, Labels
    <3>. QED BY <1>a, <1>m, <2>0, <3>1
  <2>. QED BY <1>7, <1>t, <1>L, <1>S, <1>P, <1>T, <2>1, <2>2 DEF pagerRead
<1>8. ASSUME NEW p \in Uprocs, pagerMap(p)
      PROVE  TypeInv'
  <2>1. pc[p] \in InPager /\ "release" \in Labels /\ UNCHANGED <<vpn, asidOf>> /\ Goto(p, "release")
    BY <1>8 DEF pagerMap, At, InPager, Labels, locals
  <2>2. pc' \in [Procs -> Labels] /\ FaultsRight'
    BY <1>a, <1>m, <2>1
  <2>3. missing(p) \in Ptes
    BY <1>0, <2>1 DEF FaultsRight
  <2>4. PagingType'
    BY <1>0, <1>8, <2>3 DEF pagerMap, PagingType, LocalType
  <2>5. TableType'
    BY <1>0, <1>8, <2>3 DEF pagerMap, TableType, LocalType, updateTLB
  <2>. QED BY <1>8, <1>t, <1>L, <1>S, <1>M, <2>2, <2>4, <2>5 DEF pagerMap
<1>9. ASSUME NEW p \in Uprocs, pagerRelease(p) \/ pagerGiveUp(p)
      PROVE  TypeInv'
  <2>1. /\ pc[p] \in InPager /\ "access" \in Labels /\ "sys2" \in Labels
        /\ UNCHANGED <<vpn, asidOf>> /\ (Goto(p, "access") \/ Goto(p, "sys2"))
    BY <1>9 DEF pagerRelease, pagerGiveUp, At, InPager, Labels
  <2>2. pc' \in [Procs -> Labels] /\ FaultsRight'
    BY <1>a, <1>m, <2>1
  <2>3. LocalType' /\ PagingType'
    <3>1. LocalType'
      BY <1>0, <1>9, SizesFacts DEF pagerRelease, pagerGiveUp, LocalType
    <3>2. CASE pagerRelease(p)
      BY <1>P, <3>1, <3>2 DEF pagerRelease
    <3>3. CASE pagerGiveUp(p)
      BY <1>0, <3>1, <3>3 DEF pagerGiveUp, PagingType
    <3>. QED BY <1>9, <3>2, <3>3
  <2>4. SemType'
    BY <1>0, <1>9, VType, SemNames DEF pagerRelease, pagerGiveUp
  <2>. QED BY <1>9, <1>t, <1>T, <1>M, <2>2, <2>3, <2>4 DEF pagerRelease, pagerGiveUp
<1>10. ASSUME NEW p \in Uprocs, sys2Enter(p)
       PROVE  TypeInv'
  <2>1. "signal" \in Labels \ InPager /\ UNCHANGED <<vpn, asidOf>> /\ Goto(p, "signal")
    BY <1>10 DEF sys2Enter, InPager, Labels, locals
  <2>2. pc' \in [Procs -> Labels] /\ FaultsRight'
    BY <1>a, <1>m, <2>1
  <2>3. SemType'
    BY <1>0, <1>10, <1>S, VType, SemNames DEF sys2Enter
  <2>4. PagingType'
    BY <1>0, <1>10 DEF sys2Enter, PagingType
  <2>. QED BY <1>10, <1>t, <1>L, <1>T, <1>M, <2>2, <2>3, <2>4 DEF sys2Enter
<1>11. ASSUME NEW p \in Uprocs, sys2Signal(p)
       PROVE  TypeInv'
  <2>1. "lock" \in Labels \ InPager /\ UNCHANGED <<vpn, asidOf>> /\ Goto(p, "lock")
    BY <1>11 DEF sys2Signal, InPager, Labels, locals
  <2>2. pc' \in [Procs -> Labels] /\ FaultsRight'
    BY <1>a, <1>m, <2>1
  <2>3. V("masterSemaphore") \/ V("shellSemaphore")
    BY <1>11 DEF sys2Signal
  <2>4. SemType'
    BY <1>0, <2>3, VType, SemNames
  <2>. QED BY <1>11, <1>t, <1>L, <1>P, <1>T, <1>M, <2>2, <2>4 DEF sys2Signal
<1>12. ASSUME NEW p \in Uprocs, freeSwapFramesLock(p)
       PROVE  TypeInv'
  <2>1. "wipe" \in Labels \ InPager /\ UNCHANGED <<vpn, asidOf>> /\ Goto(p, "wipe")
    BY <1>12 DEF freeSwapFramesLock, InPager, Labels, locals
  <2>2. pc' \in [Procs -> Labels] /\ FaultsRight'
    BY <1>a, <1>m, <2>1
  <2>3. SemType'
    BY <1>0, <1>12, <1>a, PType, SemNames DEF freeSwapFramesLock
  <2>. QED BY <1>12, <1>t, <1>L, <1>P, <1>T, <1>M, <2>2, <2>3 DEF freeSwapFramesLock
<1>13. ASSUME NEW p \in Uprocs, freeSwapFramesWipe(p)
       PROVE  TypeInv'
  <2>1. "unlock" \in Labels \ InPager /\ UNCHANGED <<vpn, asidOf>> /\ Goto(p, "unlock")
    BY <1>13 DEF freeSwapFramesWipe, InPager, Labels, locals
  <2>2. pc' \in [Procs -> Labels] /\ FaultsRight'
    BY <1>a, <1>m, <2>1
  <2>3. PagingType' /\ TableType'
    BY <1>0, <1>13 DEF freeSwapFramesWipe, PagingType, TableType
  <2>. QED BY <1>13, <1>t, <1>L, <1>S, <1>M, <2>2, <2>3 DEF freeSwapFramesWipe
<1>14. ASSUME NEW p \in Uprocs, freeSwapFramesUnlock(p)
       PROVE  TypeInv'
  <2>1. "term" \in Labels \ InPager /\ UNCHANGED <<vpn, asidOf>> /\ Goto(p, "term")
    BY <1>14 DEF freeSwapFramesUnlock, InPager, Labels, locals
  <2>2. pc' \in [Procs -> Labels] /\ FaultsRight'
    BY <1>a, <1>m, <2>1
  <2>3. SemType'
    BY <1>0, <1>14, VType, SemNames DEF freeSwapFramesUnlock
  <2>. QED BY <1>14, <1>t, <1>L, <1>P, <1>T, <1>M, <2>2, <2>3 DEF freeSwapFramesUnlock
<1>15. ASSUME NEW p \in Procs, TERMPROCESS(p),
              UNCHANGED <<locals, paging, pte, tlb, ram, flash>>
       PROVE  TypeInv'
  <2>1. {"dead", "zombie"} \subseteq Labels \ InPager
    BY DEF Labels, InPager
  <2>2. pc' \in [Procs -> Labels] /\ \A q \in Uprocs : pc'[q] \in InPager => pc[q] \in InPager
    BY <1>0, <1>15, <1>a, <2>1 DEF TERMPROCESS
  <2>3. FaultsRight'
    BY <1>15, <1>f, <2>2 DEF locals
  <2>4. SemType'
    BY <1>0, <1>15, TermEffect DEF SemType, TERMPROCESS
  <2>. QED BY <1>15, <1>t, <1>L, <1>P, <1>T, <1>M, <2>2, <2>3, <2>4
<1>16. ASSUME NEW p \in Uprocs, programTrapHandler(p)
       PROVE  TypeInv'
  <2>1. "sys2" \in Labels \ InPager /\ UNCHANGED <<vpn, asidOf>> /\ Goto(p, "sys2")
    BY <1>16 DEF programTrapHandler, InPager, Labels, locals
  <2>2. pc' \in [Procs -> Labels] /\ FaultsRight'
    BY <1>a, <1>m, <2>1
  <2>. QED BY <1>16, <1>t, <1>L, <1>S, <1>P, <1>T, <1>M, <2>2 DEF programTrapHandler
<1>17. ASSUME NEW p \in Uprocs, NEW l \in {"write", "read"},
              terminalEnter(p, l) \/ terminalLeave(p, l)
       PROVE  TypeInv'
  <2>1. /\ l \in Labels \ InPager /\ "user" \in Labels \ InPager
        /\ UNCHANGED <<vpn, asidOf>> /\ (Goto(p, l) \/ Goto(p, "user"))
    BY <1>17 DEF terminalEnter, terminalLeave, InPager, Labels, locals
  <2>2. pc' \in [Procs -> Labels] /\ FaultsRight'
    BY <1>a, <1>m, <2>1
  <2>3. terminal(l) \in Sems /\ (P(terminal(l), p) \/ V(terminal(l)))
    BY <1>17, SemNames DEF terminalEnter, terminalLeave, terminal
  <2>4. SemType'
    BY <1>0, <1>a, <2>3, PType, VType
  <2>. QED BY <1>17, <1>t, <1>L, <1>P, <1>T, <1>M, <2>2, <2>4 DEF terminalEnter, terminalLeave
<1>18. ASSUME NEW a \in Asids, sys6(a)
       PROVE  TypeInv'
  <2>1. TableType'
    BY <1>0, <1>18 DEF sys6, createUProc, initUProc, TableType
  <2>2. MemoryType'
    BY <1>0, <1>18, ContentsClosed DEF sys6, createUProc, initUProc, MemoryType
  <2>3. ASSUME NEW k \in Kids,
               pc' = [pc EXCEPT ![k] = "access", ![Shell] = "join"],
               asidOf' = [asidOf EXCEPT ![k] = a],
               ret' = [ret EXCEPT ![k] = "user"],
               vpn' = [vpn EXCEPT ![k] = 0],
               frame' = [frame EXCEPT ![k] = 0]
        PROVE  pc' \in [Procs -> Labels] /\ LocalType' /\ FaultsRight'
    <3>1. LocalType'
      BY <1>0, <1>a, <2>3, SizesFacts DEF LocalType
    <3>2. pc' \in [Procs -> Labels]
      BY <1>0, <2>3 DEF Labels
    <3>3. \A q \in Uprocs : pc'[q] \in InPager =>
               pc[q] \in InPager /\ vpn'[q] = vpn[q] /\ asidOf'[q] = asidOf[q]
      BY <1>0, <1>a, <2>3 DEF InPager, LocalType
    <3>. QED BY <1>f, <3>1, <3>2, <3>3
  <2>4. ASSUME Goto(Shell, "sys2"), UNCHANGED locals
        PROVE  pc' \in [Procs -> Labels] /\ LocalType' /\ FaultsRight'
    <3>1. "sys2" \in Labels \ InPager /\ UNCHANGED <<vpn, asidOf>>
      BY <2>4 DEF InPager, Labels, locals
    <3>. QED BY <1>a, <1>m, <1>L, <2>4, <3>1
  <2>5. pc' \in [Procs -> Labels] /\ LocalType' /\ FaultsRight'
    BY <1>18, <2>3, <2>4 DEF sys6, createUProc
  <2>. QED BY <1>18, <1>t, <1>S, <1>P, <2>1, <2>2, <2>5 DEF sys6
<1>19. ASSUME sys6Join \/ testWait
       PROVE  TypeInv'
  <2>1. /\ {"user", "term"} \subseteq Labels \ InPager /\ UNCHANGED <<vpn, asidOf>>
        /\ Goto(Shell, "user") \/ Goto(Inst, "term")
    BY <1>19 DEF sys6Join, testWait, InPager, Labels, locals
  <2>2. pc' \in [Procs -> Labels] /\ FaultsRight'
    BY <1>a, <1>m, <2>1
  <2>3. SemType'
    BY <1>0, <1>19, <1>a, PType, SemNames DEF sys6Join, testWait
  <2>. QED BY <1>19, <1>t, <1>L, <1>P, <1>T, <1>M, <2>2, <2>3 DEF sys6Join, testWait
<1>20. CASE UNCHANGED vars
  BY <1>20, <1>0, <1>t, <1>L, <1>S, <1>P, <1>T, <1>M, <1>f DEF vars, locals
<1>21. ASSUME testEnd \/ \E p \in Uprocs : sys2Term(p)
       PROVE  TypeInv'
  BY <1>15, <1>21, <1>a DEF testEnd, sys2Term
<1>. QED
  BY <1>1, <1>2, <1>3, <1>4, <1>5, <1>6, <1>7, <1>8, <1>9, <1>10, <1>11, <1>12, <1>13,
     <1>14, <1>16, <1>17, <1>18, <1>19, <1>20, <1>21
  DEF Next, handler, pager, sys2

(* Every variable of the support level keeps to its kind: the FIFO counter *)
(* stays a frame, the pager writes only entries of the page table, and a   *)
(* frame's content is always some page's (vmSupport.c, syscalls.c).        *)
THEOREM TypeCorrect == Spec => []TypeInv
<1>1. Init => TypeInv
  BY TypeInit
<1>2. TypeInv /\ [Next]_vars => TypeInv'
  BY TypeStep
<1>. QED BY <1>1, <1>2, PTL DEF Spec

(* The same without the strengthening: the types that the runs check hold  *)
(* of vmSupport.c and syscalls.c for any number of programs and frames.    *)
THEOREM TypeSafe == Spec => []TypeOK
<1>1. TypeInv => TypeOK
  BY DEF TypeInv
<1>. QED BY <1>1, TypeCorrect, PTL
-----------------------------------------------------------------------------
(***************************************************************************)
(* The invariant behind mutual exclusion.                                  *)
(***************************************************************************)
Critical == InPager \cup InWipe
Picked == {"evict", "load", "map", "giveUp"}
Signalled == {"lock", "wipe", "unlock", "term"} \cup Gone
Alive == pc[Shell] \notin Gone

USE DEF Gone

(* Who waits for a semaphore is where the code waits for it.               *)
WaitsAt(p, s) ==
    \/ s = "swapSemaphore" /\ p \in Uprocs /\ pc[p] \in {"pick", "wipe"}
    \/ s = "masterSemaphore" /\ p = Inst /\ pc[p] = "term"
    \/ s = "shellSemaphore" /\ p = Shell /\ pc[p] = "user"
    \/ s = "termWriteSemaphore" /\ p \in Uprocs /\ pc[p] = "write"
    \/ s = "termReadSemaphore" /\ p \in Uprocs /\ pc[p] = "read"

WaitsRight ==
    \A s \in Sems : /\ \A p \in ToSet(semQ[s]) : WaitsAt(p, s)
                    /\ IsInjective(semQ[s])
                    /\ semQ[s] # <<>> => semVal[s] = 0

(* The processes past their P on swapSemaphore: at most one, and then the  *)
(* semaphore is closed.                                                    *)
Inside == {p \in Uprocs : pc[p] \in Critical /\ p \notin ToSet(semQ["swapSemaphore"])}
OneInside ==
    /\ \A p, q \in Inside : p = q
    /\ Inside # {} => semVal["swapSemaphore"] = 0
    /\ semVal["swapSemaphore"] <= 1

(* The shell owns SHELL_ASID, and has at most one program that has not     *)
(* signalled its end yet, for which it waits.                              *)
AsidsRight ==
    /\ asidOf[Shell] = SHELL_ASID
    /\ \A k \in Kids : pc[k] \notin Gone => asidOf[k] # SHELL_ASID

Unsignalled == {k \in Kids : pc[k] \notin Signalled}
Joining == pc[Shell] = "join" \/ semQ["shellSemaphore"] # <<>>
OneProgram ==
    Alive => /\ \A k, l \in Unsignalled : k = l
             /\ Unsignalled # {} => Joining /\ semVal["shellSemaphore"] = 0
             /\ semVal["shellSemaphore"] # 0 =>
                  semVal["shellSemaphore"] = 1 /\ pc[Shell] = "join"

FlagRight ==
    Alive => \A a \in Asids :
        holdingSwapMutex[a] <=> \E p \in Uprocs : asidOf[p] = a /\ pc[p] \in Picked

(* The shell is the parent of the programs and the child of test().        *)
Orphans == /\ ~Alive => \A k \in Kids : pc[k] \in Gone
           /\ pc[Inst] = "dead" => ~Alive
           /\ pc[Inst] \in {"boot", "term", "dead"}

SyncInv == TypeInv /\ WaitsRight /\ OneInside /\ AsidsRight /\ OneProgram /\ FlagRight /\ Orphans
-----------------------------------------------------------------------------
(***************************************************************************)
(* The actions as the invariant sees them: a process moves from label l to *)
(* label m, with a P, a V or neither; a program starts; a family ends.     *)
(***************************************************************************)
SetFlag(p, b) == holdingSwapMutex' = [holdingSwapMutex EXCEPT ![asidOf[p]] = b]

PlainStep(p, l, m) ==
    /\ At(p, l) /\ Goto(p, m) /\ UNCHANGED <<sems, asidOf>>
    /\ \/ /\ l \in {"user", "write", "read"} /\ m = "access"
          /\ ret' = [ret EXCEPT ![p] = l] /\ UNCHANGED holdingSwapMutex
       \/ /\ l = "access" /\ m = ret[p]
          /\ ret' = [ret EXCEPT ![p] = "user"] /\ UNCHANGED holdingSwapMutex
       \/ /\ l = "pick" /\ m \in {"evict", "load"}
          /\ SetFlag(p, TRUE) /\ UNCHANGED ret
       \/ /\ \/ l = "evict" /\ m = "load"
             \/ l = "load" /\ m = "map"
             \/ l = "load" /\ m = "giveUp" /\ ReadFails
             \/ l = "wipe" /\ m = "unlock"
             \/ l = "user" /\ m = "sys2"
          /\ UNCHANGED <<ret, holdingSwapMutex>>
       \/ /\ \/ l = "map" /\ m = "release"
             \/ l = "sys2" /\ m = "signal"
          /\ SetFlag(p, FALSE) /\ UNCHANGED ret

PStep(p, s, l, m) ==
    /\ At(p, l) /\ Goto(p, m) /\ P(s, p) /\ UNCHANGED <<asidOf, ret, holdingSwapMutex>>
    /\ \/ p \in Uprocs /\ s = "swapSemaphore" /\ l = "access" /\ m = "pick"
       \/ p \in Uprocs /\ s = "swapSemaphore" /\ l = "lock" /\ m = "wipe"
       \/ p \in Uprocs /\ s = "termWriteSemaphore" /\ l = "user" /\ m = "write"
       \/ p \in Uprocs /\ s = "termReadSemaphore" /\ l = "user" /\ m = "read"
       \/ p = Shell /\ s = "shellSemaphore" /\ l = "join" /\ m = "user"
       \/ p = Inst /\ s = "masterSemaphore" /\ l = "boot" /\ m = "term"

VStep(p, s, l, m) ==
    /\ At(p, l) /\ Goto(p, m) /\ V(s) /\ UNCHANGED <<asidOf, ret>>
    /\ \/ /\ s = "swapSemaphore" /\ l = "giveUp" /\ m = "sys2" /\ SetFlag(p, FALSE)
       \/ /\ \/ s = "swapSemaphore" /\ l = "release" /\ m = "access"
             \/ s = "swapSemaphore" /\ l = "unlock" /\ m = "term"
             \/ s = "masterSemaphore" /\ l = "signal" /\ m = "lock" /\ p = Shell
             \/ s = "shellSemaphore" /\ l = "signal" /\ m = "lock" /\ p # Shell
             \/ s = "termWriteSemaphore" /\ l = "write" /\ m = "user"
             \/ s = "termReadSemaphore" /\ l = "read" /\ m = "user"
          /\ UNCHANGED holdingSwapMutex

CreateStep(k, a) ==
    /\ At(Shell, "user") /\ pc[k] = "dead" /\ a # SHELL_ASID
    /\ pc' = [pc EXCEPT ![k] = "access", ![Shell] = "join"]
    /\ asidOf' = [asidOf EXCEPT ![k] = a] /\ ret' = [ret EXCEPT ![k] = "user"]
    /\ UNCHANGED <<sems, holdingSwapMutex>>

(* Who dies with p is dead or a zombie.                                    *)
TermLabel(p, q) == IF q \in progeny(p)
                   THEN pc'[q] \in Gone /\ (q = p => pc'[q] = "dead")
                   ELSE pc'[q] = pc[q]
USE DEF TermLabel

TermStep(p) ==
    /\ At(p, "term") /\ TERMPROCESS(p)
    /\ UNCHANGED <<asidOf, ret, holdingSwapMutex>>

SyncStep ==
    \/ UNCHANGED <<pc, sems, asidOf, ret, holdingSwapMutex>>
    \/ \E p \in Uprocs, l, m \in Labels : PlainStep(p, l, m)
    \/ \E p \in Procs, s \in Sems, l, m \in Labels : PStep(p, s, l, m)
    \/ \E p \in Uprocs, s \in Sems, l, m \in Labels : VStep(p, s, l, m)
    \/ \E k \in Kids, a \in Asids : CreateStep(k, a)
    \/ \E p \in Procs : TermStep(p)

(* At sys2 the flag of the caller is down: its V is never performed for a  *)
(* mutex that the caller does not hold.                                    *)
LEMMA FlagDown ==
    ASSUME SyncInv, NEW p \in Uprocs, pc[p] = "sys2"
    PROVE  ~holdingSwapMutex[asidOf[p]]
<1>1. Alive /\ asidOf[p] \in Asids
  <2>1. p = Shell \/ p \in Kids
    BY DEF Uprocs
  <2>. QED BY <2>1 DEF SyncInv, Orphans, Alive, TypeInv, TypeOK
<1>2. ASSUME NEW q \in Uprocs, asidOf[q] = asidOf[p], pc[q] \in Picked PROVE FALSE
  <2>1. pc[q] \notin Gone /\ pc[q] # "sys2" /\ pc[q] \notin Signalled /\ pc[p] \notin Signalled
    BY <1>2 DEF Picked, Signalled
  <2>2. (p = Shell) <=> (q = Shell)
    BY <1>2, <2>1, ProcsAssumption DEF SyncInv, AsidsRight, Uprocs
  <2>3. p # Shell => p \in Unsignalled /\ q \in Unsignalled
    BY <2>1, <2>2 DEF Unsignalled, Uprocs
  <2>. QED BY <1>1, <2>1, <2>2, <2>3 DEF SyncInv, OneProgram
<1>. QED BY <1>1, <1>2 DEF SyncInv, FlagRight

(* Every action is such a step.                                            *)
LEMMA SyncKinds ==
    ASSUME SyncInv, [Next]_vars
    PROVE  SyncStep
<1>0. /\ ret \in [Uprocs -> {"user", "write", "read"}]
      /\ Uprocs \subseteq Procs /\ Shell \in Uprocs /\ Inst \in Procs
  BY DEF SyncInv, TypeInv, TypeOK, Uprocs, Procs
<1>a. ASSUME NEW p \in Uprocs, NEW l \in Labels, NEW m \in Labels, PlainStep(p, l, m)
      PROVE  SyncStep
  BY <1>a DEF SyncStep
<1>b. ASSUME NEW p \in Procs, NEW s \in Sems, NEW l \in Labels, NEW m \in Labels,
             PStep(p, s, l, m)
      PROVE  SyncStep
  BY <1>b DEF SyncStep
<1>c. ASSUME NEW p \in Uprocs, NEW s \in Sems, NEW l \in Labels, NEW m \in Labels,
             VStep(p, s, l, m)
      PROVE  SyncStep
  BY <1>c DEF SyncStep
<1>1. ASSUME NEW p \in Uprocs, NEW l \in {"user", "write", "read"}, touch(p, l)
      PROVE  SyncStep
  <2>1. PlainStep(p, l, "access") /\ l \in Labels /\ "access" \in Labels
    BY <1>1 DEF touch, PlainStep, Labels, paging
  <2>. QED BY <1>a, <2>1
<1>2. ASSUME NEW p \in Uprocs, loadStore(p)
      PROVE  SyncStep
  <2>1. PlainStep(p, "access", ret[p]) /\ ret[p] \in Labels /\ "access" \in Labels
    BY <1>0, <1>2 DEF loadStore, PlainStep, Labels, paging
  <2>. QED BY <1>a, <2>1
<1>3. ASSUME NEW p \in Uprocs, pagerPick(p)
      PROVE  SyncStep
  <2>1. PlainStep(p, "pick", "evict") \/ PlainStep(p, "pick", "load")
    BY <1>3 DEF pagerPick, PlainStep, SetFlag
  <2>2. {"pick", "evict", "load"} \subseteq Labels
    BY DEF Labels
  <2>. QED BY <1>a, <2>1, <2>2
<1>4. ASSUME NEW p \in Uprocs, pagerWrite(p) \/ pagerRead(p) \/ freeSwapFramesWipe(p)
      PROVE  SyncStep
  <2>1. \/ PlainStep(p, "evict", "load") \/ PlainStep(p, "load", "map")
        \/ PlainStep(p, "load", "giveUp") \/ PlainStep(p, "wipe", "unlock")
    BY <1>4 DEF pagerWrite, pagerRead, freeSwapFramesWipe, PlainStep, locals, paging
  <2>2. {"evict", "load", "map", "giveUp", "wipe", "unlock"} \subseteq Labels
    BY DEF Labels
  <2>. QED BY <1>a, <2>1, <2>2
<1>5. ASSUME NEW p \in Uprocs, programTrapHandler(p)
      PROVE  SyncStep
  <2>1. PlainStep(p, "user", "sys2") /\ "user" \in Labels /\ "sys2" \in Labels
    BY <1>5 DEF programTrapHandler, PlainStep, Labels, locals, paging
  <2>. QED BY <1>a, <2>1
<1>6. ASSUME NEW p \in Uprocs, pagerMap(p)
      PROVE  SyncStep
  <2>1. PlainStep(p, "map", "release") /\ "map" \in Labels /\ "release" \in Labels
    BY <1>6 DEF pagerMap, PlainStep, SetFlag, Labels, locals
  <2>. QED BY <1>a, <2>1
<1>7. ASSUME NEW p \in Uprocs, sys2Enter(p)
      PROVE  SyncStep
  <2>1. UNCHANGED sems
    BY <1>7, FlagDown DEF sys2Enter, At
  <2>2. PlainStep(p, "sys2", "signal") /\ "sys2" \in Labels /\ "signal" \in Labels
    BY <1>7, <2>1 DEF sys2Enter, PlainStep, SetFlag, Labels, locals
  <2>. QED BY <1>a, <2>2
<1>8. ASSUME NEW p \in Uprocs, pagerEnter(p) \/ freeSwapFramesLock(p)
      PROVE  SyncStep
  <2>1. PStep(p, "swapSemaphore", "access", "pick") \/ PStep(p, "swapSemaphore", "lock", "wipe")
    BY <1>8 DEF pagerEnter, freeSwapFramesLock, PStep, locals, paging
  <2>2. {"access", "pick", "lock", "wipe"} \subseteq Labels
    BY DEF Labels
  <2>. QED BY <1>0, <1>b, <2>1, <2>2, SemNames
<1>9. ASSUME NEW p \in Uprocs, NEW l \in {"write", "read"}, terminalEnter(p, l)
      PROVE  SyncStep
  <2>1. PStep(p, terminal(l), "user", l) /\ terminal(l) \in Sems
    BY <1>9, SemNames DEF terminalEnter, PStep, terminal, locals, paging
  <2>2. {"user", l} \subseteq Labels
    BY DEF Labels
  <2>. QED BY <1>0, <1>b, <2>1, <2>2
<1>10. ASSUME sys6Join \/ testWait
       PROVE  SyncStep
  <2>1. \/ PStep(Shell, "shellSemaphore", "join", "user")
        \/ PStep(Inst, "masterSemaphore", "boot", "term")
    BY <1>10 DEF sys6Join, testWait, PStep, locals, paging
  <2>2. {"join", "user", "boot", "term"} \subseteq Labels
    BY DEF Labels
  <2>. QED BY <1>0, <1>b, <2>1, <2>2, SemNames
<1>11. ASSUME NEW p \in Uprocs, pagerRelease(p) \/ pagerGiveUp(p) \/ freeSwapFramesUnlock(p)
       PROVE  SyncStep
  <2>1. \/ VStep(p, "swapSemaphore", "release", "access")
        \/ VStep(p, "swapSemaphore", "giveUp", "sys2")
        \/ VStep(p, "swapSemaphore", "unlock", "term")
    BY <1>11 DEF pagerRelease, pagerGiveUp, freeSwapFramesUnlock, VStep, SetFlag, locals, paging
  <2>2. {"release", "access", "giveUp", "sys2", "unlock", "term"} \subseteq Labels
    BY DEF Labels
  <2>. QED BY <1>c, <2>1, <2>2, SemNames
<1>12. ASSUME NEW p \in Uprocs, sys2Signal(p)
       PROVE  SyncStep
  <2>1. asidOf[p] = SHELL_ASID <=> p = Shell
    BY <1>12 DEF sys2Signal, At, SyncInv, AsidsRight, Uprocs
  <2>2. \/ VStep(p, "masterSemaphore", "signal", "lock")
        \/ VStep(p, "shellSemaphore", "signal", "lock")
    BY <1>12, <2>1 DEF sys2Signal, VStep, locals, paging
  <2>3. {"signal", "lock"} \subseteq Labels
    BY DEF Labels
  <2>. QED BY <1>c, <2>2, <2>3, SemNames
<1>13. ASSUME NEW p \in Uprocs, NEW l \in {"write", "read"}, terminalLeave(p, l)
       PROVE  SyncStep
  <2>1. VStep(p, terminal(l), l, "user") /\ terminal(l) \in Sems
    BY <1>13, SemNames DEF terminalLeave, VStep, terminal, locals, paging
  <2>2. {"user", l} \subseteq Labels
    BY DEF Labels
  <2>. QED BY <1>c, <2>1, <2>2
<1>14. ASSUME NEW a \in Asids, sys6(a)
       PROVE  SyncStep
  <2>1. PlainStep(Shell, "user", "sys2") \/ \E k \in Kids : CreateStep(k, a)
    BY <1>14 DEF sys6, createUProc, PlainStep, CreateStep, locals, paging
  <2>2. {"user", "sys2"} \subseteq Labels
    BY DEF Labels
  <2>. QED BY <1>0, <1>a, <2>1, <2>2 DEF SyncStep
<1>15. ASSUME testEnd \/ \E p \in Uprocs : sys2Term(p)
       PROVE  SyncStep
  BY <1>0, <1>15 DEF testEnd, sys2Term, SyncStep, TermStep, locals, paging
<1>16. ASSUME UNCHANGED vars \/ \E p \in Uprocs : uTLB_RefillHandler(p)
       PROVE  SyncStep
  BY <1>16 DEF vars, uTLB_RefillHandler, SyncStep, locals, paging
<1>. QED
  BY <1>1, <1>2, <1>3, <1>4, <1>5, <1>6, <1>7, <1>8, <1>9, <1>10, <1>11, <1>12, <1>13,
     <1>14, <1>15, <1>16
  DEF Next, handler, pager, sys2
-----------------------------------------------------------------------------
(* Who moves waits nowhere, and nobody else's label changes.               *)
LEMMA MoverReady ==
    ASSUME pc \in [Procs -> Labels], NEW p \in Procs, NEW l, NEW m, At(p, l), Goto(p, m)
    PROVE  /\ pc[p] = l /\ pc'[p] = m /\ \A s \in Sems : p \notin ToSet(semQ[s])
           /\ \A q \in Procs \ {p} : pc'[q] = pc[q]
  BY DEF At, Ready, Goto

(* The queues keep holding exactly those whose label says they wait.       *)
LEMMA WaitsStep ==
    ASSUME SyncInv, SyncStep
    PROVE  WaitsRight'
<1>0. /\ pc \in [Procs -> Labels] /\ semVal \in [Sems -> Nat] /\ semQ \in [Sems -> Seq(Procs)]
      /\ Uprocs \subseteq Procs /\ Shell \in Procs /\ Inst \in Procs /\ WaitsRight
  BY DEF SyncInv, TypeInv, TypeOK, Uprocs, Procs
<1>w. \A s \in Sems : ToSet(semQ[s]) \subseteq Procs
  BY <1>0, ToSetSeq
<1>a. ASSUME UNCHANGED sems, \A s \in Sems : \A q \in ToSet(semQ[s]) : pc'[q] = pc[q]
      PROVE  WaitsRight'
  <2>1. \A s \in Sems : \A q \in ToSet(semQ[s]) : WaitsAt(q, s)'
    BY <1>0, <1>a DEF WaitsRight, WaitsAt
  <2>. QED BY <1>0, <1>a, <2>1 DEF WaitsRight, sems
<1>1. CASE UNCHANGED <<pc, sems, asidOf, ret, holdingSwapMutex>>
  BY <1>1, <1>a
<1>2. ASSUME NEW p \in Uprocs, NEW l, NEW m, PlainStep(p, l, m)
      PROVE  WaitsRight'
  <2>1. \A s \in Sems : \A q \in ToSet(semQ[s]) : q \in Procs /\ q # p
    BY <1>0, <1>2, <1>w, MoverReady DEF PlainStep
  <2>2. \A q \in Procs \ {p} : pc'[q] = pc[q]
    BY <1>0, <1>2, MoverReady DEF PlainStep
  <2>. QED BY <1>2, <1>a, <2>1, <2>2 DEF PlainStep
<1>3. ASSUME NEW p \in Procs, NEW s \in Sems, NEW l, NEW m, PStep(p, s, l, m)
      PROVE  WaitsRight'
  <2>1. /\ pc[p] = l /\ pc'[p] = m /\ \A t \in Sems : p \notin ToSet(semQ[t])
        /\ \A q \in Procs \ {p} : pc'[q] = pc[q]
    BY <1>0, <1>3, MoverReady DEF PStep
  <2>2. WaitsAt(p, s)'
    BY <1>3, <2>1 DEF PStep, WaitsAt
  <2>3. \A t \in Sems : \A q \in ToSet(semQ[t]) : WaitsAt(q, t)'
    BY <1>0, <1>w, <2>1 DEF WaitsRight, WaitsAt
  <2>4. CASE semVal[s] > 0 /\ semQ' = semQ /\ semVal' = [semVal EXCEPT ![s] = @ - 1]
    <3>1. \A t \in Sems : semQ[t] # <<>> => semVal'[t] = 0
      BY <1>0, <2>4 DEF WaitsRight
    <3>. QED BY <1>0, <2>3, <2>4, <3>1 DEF WaitsRight
  <2>5. CASE /\ semVal[s] = 0 /\ semVal' = semVal
             /\ ToSet(semQ'[s]) = ToSet(semQ[s]) \cup {p} /\ IsInjective(semQ'[s])
             /\ \A t \in Sems \ {s} : semQ'[t] = semQ[t]
    BY <1>0, <2>2, <2>3, <2>5 DEF WaitsRight
  <2>6. P(s, p) /\ p \notin ToSet(semQ[s]) /\ IsInjective(semQ[s])
    BY <1>0, <1>3, <2>1 DEF PStep, WaitsRight
  <2>. QED BY <1>0, <2>4, <2>5, <2>6, PEffect
<1>4. ASSUME NEW p \in Uprocs, NEW s \in Sems, NEW l, NEW m, VStep(p, s, l, m)
      PROVE  WaitsRight'
  <2>1. /\ \A t \in Sems : p \notin ToSet(semQ[t])
        /\ \A q \in Procs \ {p} : pc'[q] = pc[q]
    BY <1>0, <1>4, MoverReady DEF VStep
  <2>2. \A t \in Sems : \A q \in ToSet(semQ[t]) : WaitsAt(q, t)'
    <3>1. \A t \in Sems : \A q \in ToSet(semQ[t]) : pc'[q] = pc[q]
      BY <1>w, <2>1
    <3>. QED BY <1>0, <3>1 DEF WaitsRight, WaitsAt
  <2>3. CASE semQ[s] = <<>> /\ semQ' = semQ /\ semVal' = [semVal EXCEPT ![s] = @ + 1]
    <3>1. \A t \in Sems : semQ[t] # <<>> => semVal'[t] = 0
      BY <1>0, <2>3 DEF WaitsRight
    <3>. QED BY <1>0, <2>2, <2>3, <3>1 DEF WaitsRight
  <2>4. CASE /\ semQ[s] # <<>> /\ semVal' = semVal
             /\ ToSet(semQ'[s]) \subseteq ToSet(semQ[s]) /\ IsInjective(semQ'[s])
             /\ \A t \in Sems \ {s} : semQ'[t] = semQ[t]
    BY <1>0, <2>2, <2>4 DEF WaitsRight
  <2>5. V(s) /\ IsInjective(semQ[s])
    BY <1>0, <1>4 DEF VStep, WaitsRight
  <2>. QED BY <1>0, <2>3, <2>4, <2>5, VEffect
<1>5. ASSUME NEW k \in Kids, NEW a \in Asids, CreateStep(k, a)
      PROVE  WaitsRight'
  <2>1. \A s \in Sems : k \notin ToSet(semQ[s]) /\ Shell \notin ToSet(semQ[s])
    BY <1>0, <1>5 DEF CreateStep, WaitsRight, WaitsAt, At, Ready
  <2>2. \A q \in Procs : q # k /\ q # Shell => pc'[q] = pc[q]
    BY <1>0, <1>5 DEF CreateStep
  <2>. QED BY <1>5, <1>a, <1>w, <2>1, <2>2 DEF CreateStep
<1>6. ASSUME NEW p \in Procs, TermStep(p)
      PROVE  WaitsRight'
  <2>1. \A s \in Sems : /\ ToSet(semQ'[s]) = ToSet(semQ[s]) \ progeny(p)
                        /\ IsInjective(semQ'[s])
    BY <1>0, <1>6, TermEffect DEF TermStep, WaitsRight
  <2>2. semVal' = semVal /\ \A q \in Procs \ progeny(p) : pc'[q] = pc[q]
    BY <1>0, <1>6 DEF TermStep, TERMPROCESS
  <2>3. \A s \in Sems : \A q \in ToSet(semQ'[s]) : WaitsAt(q, s)'
    BY <1>0, <1>w, <2>1, <2>2 DEF WaitsRight, WaitsAt
  <2>4. \A s \in Sems : semQ'[s] # <<>> => semQ[s] # <<>>
    <3>. TAKE s \in Sems
    <3>1. semQ' \in [Sems -> Seq(Procs)]
      BY <1>0, <1>6, TermEffect DEF TermStep
    <3>2. semQ'[s] # <<>> => Head(semQ'[s]) \in ToSet(semQ'[s])
      BY <3>1, TailOfQueue
    <3>3. semQ[s] = <<>> => ToSet(semQ[s]) = {}
      BY DEF ToSet
    <3>. QED BY <2>1, <3>2, <3>3
  <2>. QED BY <1>0, <2>1, <2>2, <2>3, <2>4 DEF WaitsRight
<1>. QED BY <1>1, <1>2, <1>3, <1>4, <1>5, <1>6 DEF SyncStep

(* At most one process is inside: P lets one in only when the semaphore is *)
(* open, and V, by the one that leaves, lets in one more or opens it.      *)
LEMMA InsideStep ==
    ASSUME SyncInv, SyncStep
    PROVE  OneInside'
<1>0. /\ pc \in [Procs -> Labels] /\ semVal \in [Sems -> Nat] /\ semQ \in [Sems -> Seq(Procs)]
      /\ ret \in [Uprocs -> {"user", "write", "read"}]
      /\ Uprocs \subseteq Procs /\ Shell \in Uprocs /\ Kids \subseteq Uprocs
      /\ Inst \notin Uprocs
      /\ OneInside /\ WaitsRight
  BY ProcsAssumption DEF SyncInv, TypeInv, TypeOK, Uprocs, Procs
<1>. DEFINE swap == "swapSemaphore"
<1>s. swap \in Sems
  BY SemNames
<1>. HIDE DEF swap
<1>i. Inside = {p \in Uprocs : pc[p] \in Critical /\ p \notin ToSet(semQ[swap])}
  BY DEF Inside, swap
<1>j. Inside' = {p \in Uprocs : pc'[p] \in Critical /\ p \notin ToSet(semQ'[swap])}
  BY DEF Inside, swap
<1>k. /\ \A p, q \in Inside : p = q
      /\ Inside # {} => semVal[swap] = 0
      /\ semVal[swap] <= 1 /\ semVal[swap] \in Nat
  BY <1>0, <1>s DEF OneInside, swap
<1>l. ASSUME \A p, q \in Inside' : p = q, Inside' # {} => semVal'[swap] = 0, semVal'[swap] <= 1
      PROVE  OneInside'
  BY <1>l DEF OneInside, swap
<1>a. ASSUME Inside' \subseteq Inside, semVal'[swap] = semVal[swap] PROVE OneInside'
  BY <1>a, <1>k, <1>l
<1>1. CASE UNCHANGED <<pc, sems, asidOf, ret, holdingSwapMutex>>
  BY <1>1, <1>a, <1>i, <1>j DEF sems
<1>2. ASSUME NEW p \in Uprocs, NEW l, NEW m, PlainStep(p, l, m)
      PROVE  OneInside'
  <2>1. /\ pc[p] = l /\ pc'[p] = m /\ p \notin ToSet(semQ[swap])
        /\ \A q \in Procs \ {p} : pc'[q] = pc[q]
    BY <1>0, <1>2, <1>s, MoverReady DEF PlainStep
  <2>2. m \in Critical => l \in Critical
    BY <1>0, <1>2 DEF PlainStep, Critical, InPager, InWipe
  <2>3. semQ' = semQ /\ semVal' = semVal
    BY <1>2 DEF PlainStep, sems
  <2>. QED BY <1>0, <1>a, <1>i, <1>j, <2>1, <2>2, <2>3
<1>3. ASSUME NEW p \in Procs, NEW s \in Sems, NEW l, NEW m, PStep(p, s, l, m)
      PROVE  OneInside'
  <2>1. /\ pc[p] = l /\ pc'[p] = m /\ p \notin ToSet(semQ[swap]) /\ P(s, p)
        /\ \A q \in Procs \ {p} : pc'[q] = pc[q]
    BY <1>0, <1>3, <1>s, MoverReady DEF PStep
  <2>2. CASE s = swap
    <3>1. p \in Uprocs
      BY <1>0, <1>3, <2>2 DEF PStep, swap
    <3>2. CASE semVal[s] > 0 /\ semQ' = semQ /\ semVal' = [semVal EXCEPT ![s] = @ - 1]
      <4>1. Inside = {} /\ semVal'[swap] = 0
        BY <1>0, <1>k, <1>s, <2>2, <3>2
      <4>2. Inside' \subseteq {p}
        BY <1>0, <1>i, <1>j, <2>1, <3>2, <4>1
      <4>. QED BY <1>l, <4>1, <4>2
    <3>3. CASE semVal' = semVal /\ ToSet(semQ'[s]) = ToSet(semQ[s]) \cup {p}
      BY <1>0, <1>a, <1>i, <1>j, <2>1, <2>2, <3>3
    <3>. QED BY <1>0, <2>1, <3>2, <3>3, PEffect
  <2>3. CASE s # swap
    <3>1. semQ'[swap] = semQ[swap] /\ semVal'[swap] = semVal[swap]
      BY <1>0, <1>s, <2>1, <2>3, PEffect
    <3>2. m \notin Critical
      BY <1>3, <2>3 DEF PStep, swap, Critical, InPager, InWipe
    <3>. QED BY <1>0, <1>a, <1>i, <1>j, <2>1, <3>1, <3>2
  <2>. QED BY <2>2, <2>3
<1>4. ASSUME NEW p \in Uprocs, NEW s \in Sems, NEW l, NEW m, VStep(p, s, l, m)
      PROVE  OneInside'
  <2>1. /\ pc[p] = l /\ pc'[p] = m /\ p \notin ToSet(semQ[swap]) /\ V(s)
        /\ \A q \in Procs \ {p} : pc'[q] = pc[q]
    BY <1>0, <1>4, <1>s, MoverReady DEF VStep
  <2>2. m \notin Critical
    BY <1>4 DEF VStep, Critical, InPager, InWipe
  <2>3. CASE s = swap
    <3>1. l \in Critical
      BY <1>4, <2>3 DEF VStep, swap, Critical, InPager, InWipe
    <3>2. Inside = {p} /\ semVal[swap] = 0
      BY <1>i, <1>k, <2>1, <3>1
    <3>3. CASE semQ' = semQ /\ semVal' = [semVal EXCEPT ![s] = @ + 1]
      <4>1. Inside' = {} /\ semVal'[swap] = 1
        BY <1>0, <1>i, <1>j, <1>s, <2>1, <2>2, <2>3, <3>2, <3>3
      <4>. QED BY <1>l, <4>1
    <3>4. CASE semVal' = semVal /\ ToSet(semQ'[s]) = ToSet(semQ[s]) \ {Head(semQ[s])}
      <4>1. Inside' \subseteq {Head(semQ[s])}
        BY <1>0, <1>i, <1>j, <2>1, <2>2, <2>3, <3>2, <3>4
      <4>. QED BY <1>l, <3>2, <3>4, <4>1
    <3>5. IsInjective(semQ[s])
      BY <1>0 DEF WaitsRight
    <3>. QED BY <1>0, <2>1, <3>3, <3>4, <3>5, VEffect
  <2>4. CASE s # swap
    <3>1. semQ'[swap] = semQ[swap] /\ semVal'[swap] = semVal[swap]
      BY <1>0, <1>s, <2>1, <2>4, VEffect
    <3>. QED BY <1>0, <1>a, <1>i, <1>j, <2>1, <2>2, <3>1
  <2>. QED BY <2>3, <2>4
<1>5. ASSUME NEW k \in Kids, NEW a \in Asids, CreateStep(k, a)
      PROVE  OneInside'
  <2>1. /\ \A q \in Uprocs : q # k /\ q # Shell => pc'[q] = pc[q]
        /\ pc'[k] \in {"access", "join"} /\ pc'[Shell] = "join"
        /\ semQ' = semQ /\ semVal' = semVal
    BY <1>0, <1>5 DEF CreateStep, sems
  <2>2. "access" \notin Critical /\ "join" \notin Critical
    BY DEF Critical, InPager, InWipe
  <2>. QED BY <1>a, <1>i, <1>j, <2>1, <2>2
<1>6. ASSUME NEW p \in Procs, TermStep(p)
      PROVE  OneInside'
  <2>1. semVal' = semVal /\ ToSet(semQ'[swap]) = ToSet(semQ[swap]) \ progeny(p)
    BY <1>0, <1>6, <1>s, TermEffect DEF TermStep, TERMPROCESS
  <2>2. \A q \in Uprocs : IF q \in progeny(p) THEN pc'[q] \in Gone ELSE pc'[q] = pc[q]
    BY <1>0, <1>6 DEF TermStep, TERMPROCESS
  <2>3. Gone \cap Critical = {}
    BY DEF Critical, InPager, InWipe
  <2>. QED BY <1>a, <1>i, <1>j, <2>1, <2>2, <2>3
<1>. QED BY <1>1, <1>2, <1>3, <1>4, <1>5, <1>6 DEF SyncStep

(* Who owns which ASID, and who dies with whom.                            *)
LEMMA FamilyStep ==
    ASSUME SyncInv, SyncStep
    PROVE  AsidsRight' /\ Orphans'
<1>0. /\ pc \in [Procs -> Labels] /\ asidOf \in [Uprocs -> Asids]
      /\ Uprocs \subseteq Procs /\ Shell \in Uprocs /\ Kids \subseteq Uprocs /\ Inst \in Procs
      /\ Shell \notin Kids /\ Inst \notin Uprocs /\ Inst # Shell
      /\ Uprocs = Kids \cup {Shell} /\ Procs = Uprocs \cup {Inst}
      /\ AsidsRight /\ Orphans /\ ret \in [Uprocs -> {"user", "write", "read"}]
  BY ProcsAssumption DEF SyncInv, TypeInv, TypeOK, Uprocs, Procs
<1>a. ASSUME asidOf' = asidOf, NEW p \in Procs, pc[p] \notin Gone, pc'[p] \notin Gone,
             \A q \in Procs \ {p} : pc'[q] = pc[q],
             p = Inst => pc'[p] \in {"boot", "term", "dead"}
      PROVE  AsidsRight' /\ Orphans'
  <2>0. ASSUME NEW q \in Procs
        PROVE  (pc'[q] \in Gone <=> pc[q] \in Gone) /\ (pc'[q] = "dead" <=> pc[q] = "dead")
    <3>1. CASE q = p
      BY <1>a, <3>1
    <3>2. CASE q # p
      <4>1. pc'[q] = pc[q]
        BY <1>a, <3>2
      <4>. QED BY <4>1
    <3>. QED BY <3>1, <3>2
  <2>1. /\ \A q \in Procs : pc'[q] \in Gone <=> pc[q] \in Gone
        /\ \A q \in Procs : pc'[q] = "dead" <=> pc[q] = "dead"
    BY <2>0
  <2>2. AsidsRight'
    BY <1>0, <1>a, <2>1 DEF AsidsRight
  <2>3. Orphans'
    BY <1>0, <1>a, <2>1 DEF Orphans, Alive
  <2>. QED BY <2>2, <2>3
<1>1. CASE UNCHANGED <<pc, sems, asidOf, ret, holdingSwapMutex>>
  BY <1>0, <1>1 DEF AsidsRight, Orphans, Alive
<1>2. ASSUME NEW p \in Uprocs, NEW l, NEW m, PlainStep(p, l, m)
      PROVE  AsidsRight' /\ Orphans'
  <2>1. pc[p] = l /\ pc'[p] = m /\ \A q \in Procs \ {p} : pc'[q] = pc[q]
    BY <1>0, <1>2, MoverReady DEF PlainStep
  <2>2. l \notin Gone /\ m \notin Gone /\ asidOf' = asidOf
    BY <1>0, <1>2 DEF PlainStep
  <2>. QED BY <1>0, <1>a, <2>1, <2>2
<1>3. ASSUME NEW p \in Procs, NEW s \in Sems, NEW l, NEW m, PStep(p, s, l, m)
      PROVE  AsidsRight' /\ Orphans'
  <2>1. pc[p] = l /\ pc'[p] = m /\ \A q \in Procs \ {p} : pc'[q] = pc[q]
    BY <1>0, <1>3, MoverReady DEF PStep
  <2>2. l \notin Gone /\ m \notin Gone /\ asidOf' = asidOf /\ (p = Inst => m = "term")
    BY <1>0, <1>3 DEF PStep
  <2>. QED BY <1>0, <1>a, <2>1, <2>2
<1>4. ASSUME NEW p \in Uprocs, NEW s \in Sems, NEW l, NEW m, VStep(p, s, l, m)
      PROVE  AsidsRight' /\ Orphans'
  <2>1. pc[p] = l /\ pc'[p] = m /\ \A q \in Procs \ {p} : pc'[q] = pc[q]
    BY <1>0, <1>4, MoverReady DEF VStep
  <2>2. l \notin Gone /\ m \notin Gone /\ asidOf' = asidOf
    BY <1>0, <1>4 DEF VStep
  <2>. QED BY <1>0, <1>a, <2>1, <2>2
<1>5. ASSUME NEW k \in Kids, NEW a \in Asids, CreateStep(k, a)
      PROVE  AsidsRight' /\ Orphans'
  <2>1. /\ a # SHELL_ASID /\ asidOf' = [asidOf EXCEPT ![k] = a] /\ k # Shell
        /\ \A q \in Procs : q # k /\ q # Shell => pc'[q] = pc[q]
        /\ pc[Shell] = "user" /\ pc'[Shell] = "join"
    BY <1>0, <1>5 DEF CreateStep, At
  <2>. QED BY <1>0, <2>1 DEF AsidsRight, Orphans, Alive
<1>6. ASSUME NEW p \in Procs, TermStep(p)
      PROVE  AsidsRight' /\ Orphans'
  <2>1. /\ \A q \in Procs : TermLabel(p, q)
        /\ asidOf' = asidOf
    BY <1>6 DEF TermStep, TERMPROCESS
  <2>2. /\ Inst \in progeny(p) => progeny(p) = Procs
        /\ Shell \in progeny(p) => Uprocs \subseteq progeny(p)
    BY <1>0 DEF progeny
  <2>3. p \in progeny(p)
    BY <1>0 DEF progeny
  <2>4. AsidsRight'
    BY <1>0, <2>1 DEF AsidsRight
  <2>5. ~Alive' => \A k \in Kids : pc'[k] \in Gone
    BY <1>0, <2>1, <2>2 DEF Orphans, Alive
  <2>6. /\ pc'[Inst] = "dead" => ~Alive'
        /\ pc'[Inst] \in {"boot", "term", "dead"}
    <3>1. CASE p = Inst
      BY <1>0, <2>1, <2>2, <2>3, <3>1 DEF Alive
    <3>2. CASE p # Inst
      <4>1. Inst \notin progeny(p) /\ pc'[Inst] = pc[Inst]
        BY <1>0, <2>1, <3>2 DEF progeny
      <4>2. ~Alive => ~Alive'
        BY <1>0, <2>1 DEF Alive
      <4>. QED BY <1>0, <4>1, <4>2 DEF Orphans
    <3>. QED BY <3>1, <3>2
  <2>. QED BY <2>4, <2>5, <2>6 DEF Orphans
<1>. QED BY <1>1, <1>2, <1>3, <1>4, <1>5, <1>6 DEF SyncStep

(* A semaphore is open or has waiters, but its queue is empty if none of   *)
(* those who may wait there does.                                          *)
LEMMA EmptyQueue ==
    ASSUME SyncInv, NEW s \in Sems, \A q \in Procs : q \notin ToSet(semQ[s])
    PROVE  semQ[s] = <<>>
<1>1. semQ[s] \in Seq(Procs)
  BY DEF SyncInv, TypeInv, TypeOK
<1>. QED BY <1>1, TailOfQueue

(* The shell starts a program only when it waits for none.                 *)
LEMMA ShellFree ==
    ASSUME SyncInv, At(Shell, "user")
    PROVE  Alive /\ ~Joining /\ Unsignalled = {} /\ semVal["shellSemaphore"] = 0
<1>1. pc[Shell] = "user" /\ Shell \notin ToSet(semQ["shellSemaphore"])
  BY SemNames DEF At, Ready
<1>2. \A q \in Procs : q \notin ToSet(semQ["shellSemaphore"])
  BY <1>1, SemNames DEF SyncInv, WaitsRight, WaitsAt
<1>3. semQ["shellSemaphore"] = <<>>
  BY <1>2, EmptyQueue, SemNames
<1>. QED BY <1>1, <1>3 DEF Alive, Joining, SyncInv, OneProgram

(* One program at a time has not signalled its end.                        *)
LEMMA ProgramStep ==
    ASSUME SyncInv, SyncStep
    PROVE  OneProgram'
<1>. DEFINE sh == "shellSemaphore"
<1>0. /\ pc \in [Procs -> Labels] /\ semVal \in [Sems -> Nat] /\ semQ \in [Sems -> Seq(Procs)]
      /\ ret \in [Uprocs -> {"user", "write", "read"}]
      /\ Uprocs \subseteq Procs /\ Shell \in Uprocs /\ Kids \subseteq Uprocs
      /\ Shell \notin Kids /\ Inst \notin Uprocs /\ Uprocs = Kids \cup {Shell}
      /\ OneProgram /\ WaitsRight /\ sh \in Sems
  BY ProcsAssumption, SemNames DEF SyncInv, TypeInv, TypeOK, Uprocs, Procs
<1>a. ASSUME Alive' => Alive, Unsignalled' = Unsignalled,
             semVal'[sh] = semVal[sh], semQ'[sh] = semQ[sh],
             pc'[Shell] = "join" <=> pc[Shell] = "join"
      PROVE  OneProgram'
  BY <1>0, <1>a DEF OneProgram, Joining
<1>u. Unsignalled = {k \in Kids : pc[k] \notin Signalled}
  BY DEF Unsignalled
<1>v. Unsignalled' = {k \in Kids : pc'[k] \notin Signalled}
  BY DEF Unsignalled
<1>m. ASSUME NEW p \in Procs, pc[p] \notin Gone,
             \A q \in Procs \ {p} : pc'[q] = pc[q],
             pc[p] \in Signalled <=> pc'[p] \in Signalled,
             pc'[p] = "join" <=> pc[p] = "join"
      PROVE  /\ Alive' => Alive
             /\ Unsignalled' = Unsignalled
             /\ pc'[Shell] = "join" <=> pc[Shell] = "join"
  BY <1>0, <1>m, <1>u, <1>v DEF Alive
<1>1. CASE UNCHANGED <<pc, sems, asidOf, ret, holdingSwapMutex>>
  BY <1>1, <1>a, <1>u, <1>v DEF sems, Alive
<1>2. ASSUME NEW p \in Uprocs, NEW l, NEW m, PlainStep(p, l, m)
      PROVE  OneProgram'
  <2>1. pc[p] = l /\ pc'[p] = m /\ \A q \in Procs \ {p} : pc'[q] = pc[q]
    BY <1>0, <1>2, MoverReady DEF PlainStep
  <2>2. (l \in Signalled <=> m \in Signalled) /\ l # "join" /\ m # "join" /\ l \notin Gone
    BY <1>0, <1>2 DEF PlainStep, Signalled
  <2>3. semQ' = semQ /\ semVal' = semVal
    BY <1>2 DEF PlainStep, sems
  <2>. QED BY <1>0, <1>a, <1>m, <2>1, <2>2, <2>3
<1>3. ASSUME NEW p \in Procs, NEW s \in Sems, NEW l, NEW m, PStep(p, s, l, m)
      PROVE  OneProgram'
  <2>1. pc[p] = l /\ pc'[p] = m /\ P(s, p) /\ \A q \in Procs \ {p} : pc'[q] = pc[q]
    BY <1>0, <1>3, MoverReady DEF PStep
  <2>2. CASE s # sh
    <3>1. semQ'[sh] = semQ[sh] /\ semVal'[sh] = semVal[sh]
      BY <1>0, <2>1, <2>2, PEffect, ZenonT(60)
    <3>2. l \notin Gone /\ l # "join" /\ m # "join" /\ (p # Inst => (l \in Signalled <=> m \in Signalled))
      BY <1>0, <1>3, <2>2 DEF PStep, Signalled
    <3>3. CASE p # Inst
      BY <1>a, <1>m, <2>1, <3>1, <3>2, <3>3
    <3>4. CASE p = Inst
      <4>1. Unsignalled' = Unsignalled /\ pc'[Shell] = pc[Shell]
        BY <1>0, <1>u, <1>v, <2>1, <3>4
      <4>. QED BY <1>a, <3>1, <4>1 DEF Alive
    <3>. QED BY <3>3, <3>4
  <2>3. CASE s = sh
    <3>1. p = Shell /\ l = "join" /\ m = "user"
      BY <1>3, <2>3 DEF PStep
    <3>2. Unsignalled' = Unsignalled /\ Alive
      BY <1>0, <1>u, <1>v, <2>1, <3>1 DEF Alive
    <3>3. CASE semVal[s] > 0 /\ semQ' = semQ /\ semVal' = [semVal EXCEPT ![s] = @ - 1]
      <4>1. Unsignalled = {} /\ semVal'[sh] = 0
        BY <1>0, <2>3, <3>2, <3>3 DEF OneProgram
      <4>. QED BY <3>2, <4>1 DEF OneProgram
    <3>4. CASE semVal[s] = 0 /\ semVal' = semVal /\ semQ'[s] # <<>>
      BY <1>0, <2>3, <3>2, <3>4 DEF OneProgram, Joining
    <3>. QED BY <1>0, <2>1, <3>3, <3>4, PEffect
  <2>. QED BY <2>2, <2>3
<1>4. ASSUME NEW p \in Uprocs, NEW s \in Sems, NEW l, NEW m, VStep(p, s, l, m)
      PROVE  OneProgram'
  <2>1. pc[p] = l /\ pc'[p] = m /\ V(s) /\ \A q \in Procs \ {p} : pc'[q] = pc[q]
    BY <1>0, <1>4, MoverReady DEF VStep
  <2>2. CASE s # sh
    <3>1. semQ'[sh] = semQ[sh] /\ semVal'[sh] = semVal[sh]
      BY <1>0, <2>1, <2>2, VEffect
    <3>2. l \notin Gone /\ l # "join" /\ m # "join" /\ (p # Shell => (l \in Signalled <=> m \in Signalled))
      BY <1>0, <1>4, <2>2 DEF VStep, Signalled
    <3>3. CASE p # Shell
      BY <1>0, <1>a, <1>m, <2>1, <3>1, <3>2, <3>3
    <3>4. CASE p = Shell
      <4>1. Unsignalled' = Unsignalled
        BY <1>0, <1>u, <1>v, <2>1, <3>4, ZenonT(60)
      <4>. QED BY <1>a, <2>1, <3>1, <3>2, <3>4, <4>1 DEF Alive
    <3>. QED BY <3>3, <3>4
  <2>3. CASE s = sh
    <3>1. p \in Kids /\ l = "signal" /\ m = "lock"
      BY <1>0, <1>4, <2>3 DEF VStep
    <3>2. p \in Unsignalled /\ pc'[Shell] = pc[Shell]
      BY <1>0, <1>u, <2>1, <3>1 DEF Signalled
    <3>. SUFFICES ASSUME Alive' PROVE OneProgram'
      BY DEF OneProgram
    <3>3. Alive /\ Joining /\ semVal[sh] = 0 /\ \A k \in Unsignalled : k = p
      BY <1>0, <3>2 DEF OneProgram, Alive
    <3>4. Unsignalled' = {}
      BY <1>0, <1>u, <1>v, <2>1, <3>1, <3>3 DEF Signalled
    <3>5. CASE semQ[s] = <<>> /\ semVal' = [semVal EXCEPT ![s] = @ + 1]
      <4>1. semVal'[sh] = 1 /\ pc'[Shell] = "join"
        BY <1>0, <2>3, <3>2, <3>3, <3>5 DEF Joining
      <4>. QED BY <3>4, <4>1 DEF OneProgram
    <3>6. CASE semVal' = semVal
      BY <3>3, <3>4, <3>6 DEF OneProgram
    <3>. QED BY <1>0, <2>1, <3>5, <3>6, VEffect
  <2>. QED BY <2>2, <2>3
<1>5. ASSUME NEW k \in Kids, NEW a \in Asids, CreateStep(k, a)
      PROVE  OneProgram'
  <2>1. /\ \A q \in Procs : q # k /\ q # Shell => pc'[q] = pc[q]
        /\ pc'[Shell] = "join" /\ semVal' = semVal
    BY <1>0, <1>5 DEF CreateStep, sems
  <2>2. Unsignalled = {} /\ semVal[sh] = 0
    BY <1>5, ShellFree DEF CreateStep
  <2>3. Unsignalled' \subseteq {k}
    BY <1>0, <1>u, <1>v, <2>1, <2>2
  <2>. QED BY <2>1, <2>2, <2>3 DEF OneProgram, Joining
<1>6. ASSUME NEW p \in Procs, TermStep(p)
      PROVE  OneProgram'
  <2>1. /\ \A q \in Procs : TermLabel(p, q)
        /\ semVal' = semVal /\ pc[p] = "term"
    BY <1>6 DEF TermStep, TERMPROCESS, At
  <2>2. CASE p \in Kids
    <3>1. progeny(p) = {p}
      BY <1>0, <2>2 DEF progeny
    <3>2. Unsignalled' = Unsignalled /\ pc'[Shell] = pc[Shell]
      BY <1>0, <1>u, <1>v, <2>1, <3>1, <2>2 DEF Signalled
    <3>3. Joining' <=> Joining
      <4>1. semQ' \in [Sems -> Seq(Procs)] /\ ToSet(semQ'[sh]) = ToSet(semQ[sh]) \ {p}
        BY <1>0, <1>6, <3>1, TermEffect DEF TermStep
      <4>2. p \notin ToSet(semQ[sh])
        BY <1>0, <1>6 DEF TermStep, At, Ready
      <4>3. \A q : q \in Seq(Procs) => (q = <<>> <=> ToSet(q) = {})
        <5>1. ToSet(<<>>) = {}
          BY DEF ToSet
        <5>. QED BY <5>1, TailOfQueue
      <4>4. semQ'[sh] = <<>> <=> semQ[sh] = <<>>
        BY <1>0, <4>1, <4>2, <4>3
      <4>. QED BY <3>2, <4>4 DEF Joining
    <3>. QED BY <1>0, <2>1, <3>2, <3>3 DEF OneProgram, Alive
  <2>3. CASE p \notin Kids
    <3>1. Shell \in progeny(p)
      BY <1>0, <2>3 DEF progeny, Procs
    <3>. QED BY <1>0, <2>1, <3>1 DEF OneProgram, Alive
  <2>. QED BY <2>2, <2>3
<1>. QED BY <1>1, <1>2, <1>3, <1>4, <1>5, <1>6 DEF SyncStep

(* Who is past the pager's choice of a frame is inside.                    *)
LEMMA PickedInside ==
    ASSUME SyncInv, NEW p \in Uprocs, pc[p] \in Picked \cup {"release"}
    PROVE  p \in Inside
<1>1. p \notin ToSet(semQ["swapSemaphore"])
  BY SemNames, ProcsAssumption DEF SyncInv, WaitsRight, WaitsAt, Picked
<1>. QED BY <1>1 DEF Inside, Critical, InPager, Picked

(* holdingSwapMutex follows the one process that is inside the pager.      *)
LEMMA FlagStep ==
    ASSUME SyncInv, SyncStep
    PROVE  FlagRight'
<1>0. /\ pc \in [Procs -> Labels] /\ asidOf \in [Uprocs -> Asids]
      /\ holdingSwapMutex \in [Asids -> BOOLEAN]
      /\ ret \in [Uprocs -> {"user", "write", "read"}]
      /\ Uprocs \subseteq Procs /\ Shell \in Uprocs /\ Kids \subseteq Uprocs
      /\ Shell \notin Kids /\ Inst \notin Uprocs /\ Uprocs = Kids \cup {Shell}
      /\ FlagRight /\ OneInside
  BY ProcsAssumption DEF SyncInv, TypeInv, TypeOK, Uprocs, Procs
<1>p. \A p, q \in Uprocs : /\ pc[p] \in Picked \cup {"release"} \/ p \in Inside
                           /\ pc[q] \in Picked
                           => p = q
  BY <1>0, PickedInside DEF OneInside
<1>a. ASSUME Alive' => Alive, holdingSwapMutex' = holdingSwapMutex,
             \A q \in Uprocs : /\ pc'[q] \in Picked <=> pc[q] \in Picked
                               /\ pc[q] \in Picked => asidOf'[q] = asidOf[q]
      PROVE  FlagRight'
  BY <1>0, <1>a DEF FlagRight
<1>d. ASSUME NEW p \in Uprocs, Alive' => Alive, SetFlag(p, FALSE), asidOf' = asidOf,
             \A q \in Uprocs : pc[q] \in Picked /\ asidOf[q] = asidOf[p] => q = p,
             \A q \in Uprocs \ {p} : pc'[q] = pc[q], pc'[p] \notin Picked
      PROVE  FlagRight'
  <2>. SUFFICES ASSUME Alive', NEW a \in Asids
                PROVE  holdingSwapMutex'[a] <=>
                         \E q \in Uprocs : asidOf[q] = a /\ pc'[q] \in Picked
    BY <1>d DEF FlagRight
  <2>1. holdingSwapMutex[a] <=> \E q \in Uprocs : asidOf[q] = a /\ pc[q] \in Picked
    BY <1>0, <1>d DEF FlagRight
  <2>2. CASE a = asidOf[p]
    BY <1>0, <1>d, <2>2 DEF SetFlag
  <2>3. CASE a # asidOf[p]
    <3>1. holdingSwapMutex'[a] = holdingSwapMutex[a]
      BY <1>0, <1>d, <2>3 DEF SetFlag
    <3>. QED BY <1>d, <2>1, <2>3, <3>1
  <2>. QED BY <2>2, <2>3
<1>1. CASE UNCHANGED <<pc, sems, asidOf, ret, holdingSwapMutex>>
  BY <1>1, <1>a DEF Alive
<1>2. ASSUME NEW p \in Uprocs, NEW l, NEW m, PlainStep(p, l, m)
      PROVE  FlagRight'
  <2>1. /\ pc[p] = l /\ pc'[p] = m /\ \A q \in Procs \ {p} : pc'[q] = pc[q]
        /\ p \notin ToSet(semQ["swapSemaphore"])
    BY <1>0, <1>2, MoverReady, SemNames DEF PlainStep
  <2>2. asidOf' = asidOf /\ l \notin Gone /\ m \notin Gone
    BY <1>0, <1>2 DEF PlainStep
  <2>3. Alive' => Alive
    BY <1>0, <2>1, <2>2 DEF Alive
  <2>4. CASE holdingSwapMutex' = holdingSwapMutex /\ (l \in Picked <=> m \in Picked)
    BY <1>0, <1>a, <2>1, <2>2, <2>3, <2>4
  <2>5. CASE l = "pick" /\ m \in {"evict", "load"} /\ SetFlag(p, TRUE)
    <3>1. m \in Picked /\ l \notin Picked
      BY <2>5 DEF Picked
    <3>2. SUFFICES ASSUME Alive', NEW a \in Asids
                   PROVE  holdingSwapMutex'[a] <=>
                            \E q \in Uprocs : asidOf[q] = a /\ pc'[q] \in Picked
      BY <2>2 DEF FlagRight
    <3>3. holdingSwapMutex[a] <=> \E q \in Uprocs : asidOf[q] = a /\ pc[q] \in Picked
      BY <1>0, <2>3, <3>2 DEF FlagRight
    <3>4. CASE a = asidOf[p]
      BY <1>0, <2>1, <2>5, <3>1, <3>4 DEF SetFlag
    <3>5. CASE a # asidOf[p]
      <4>1. holdingSwapMutex'[a] = holdingSwapMutex[a]
        BY <1>0, <2>5, <3>5 DEF SetFlag
      <4>. QED BY <1>0, <2>1, <3>3, <3>5, <4>1
    <3>. QED BY <3>4, <3>5
  <2>6. CASE l = "map" /\ m = "release" /\ SetFlag(p, FALSE)
    <3>1. \A q \in Uprocs : pc[q] \in Picked => q = p
      BY <1>p, <2>1, <2>6 DEF Picked
    <3>2. pc'[p] \notin Picked /\ \A q \in Uprocs \ {p} : pc'[q] = pc[q]
      BY <1>0, <2>1, <2>6 DEF Picked
    <3>. QED BY <1>d, <2>2, <2>3, <2>6, <3>1, <3>2
  <2>7. CASE l = "sys2" /\ m = "signal" /\ SetFlag(p, FALSE)
    <3>1. Alive
      BY <1>0, <2>1, <2>2 DEF SyncInv, Orphans, Alive
    <3>2. \A q \in Uprocs : pc[q] \in Picked => asidOf[q] # asidOf[p]
      BY <1>0, <2>1, <2>7, <3>1, FlagDown DEF FlagRight
    <3>3. m \notin Picked
      BY <2>7 DEF Picked
    <3>. QED BY <1>0, <1>d, <2>1, <2>2, <2>3, <2>7, <3>2, <3>3, ZenonT(60)
  <2>. QED BY <1>0, <1>2, <2>4, <2>5, <2>6, <2>7 DEF PlainStep, Picked
<1>3. ASSUME NEW p \in Procs, NEW s \in Sems, NEW l, NEW m, PStep(p, s, l, m)
      PROVE  FlagRight'
  <2>1. pc[p] = l /\ pc'[p] = m /\ \A q \in Procs \ {p} : pc'[q] = pc[q]
    BY <1>0, <1>3, MoverReady DEF PStep
  <2>2. /\ l \notin Picked /\ m \notin Picked /\ l \notin Gone
        /\ asidOf' = asidOf /\ holdingSwapMutex' = holdingSwapMutex
    BY <1>3 DEF PStep, Picked
  <2>. QED BY <1>0, <1>a, <2>1, <2>2 DEF Alive
<1>4. ASSUME NEW p \in Uprocs, NEW s \in Sems, NEW l, NEW m, VStep(p, s, l, m)
      PROVE  FlagRight'
  <2>1. pc[p] = l /\ pc'[p] = m /\ \A q \in Procs \ {p} : pc'[q] = pc[q]
    BY <1>0, <1>4, MoverReady DEF VStep
  <2>2. m \notin Picked /\ l \notin Gone /\ asidOf' = asidOf
    BY <1>4 DEF VStep, Picked
  <2>3. Alive' => Alive
    BY <1>0, <2>1, <2>2 DEF Alive
  <2>4. CASE l = "giveUp" /\ SetFlag(p, FALSE)
    <3>1. \A q \in Uprocs : pc[q] \in Picked => q = p
      BY <1>p, <2>1, <2>4 DEF Picked
    <3>2. pc'[p] \notin Picked /\ \A q \in Uprocs \ {p} : pc'[q] = pc[q]
      BY <1>0, <2>1, <2>2
    <3>. QED BY <1>d, <2>2, <2>3, <2>4, <3>1, <3>2
  <2>5. CASE l \notin Picked /\ holdingSwapMutex' = holdingSwapMutex
    BY <1>0, <1>a, <2>1, <2>2, <2>3, <2>5
  <2>. QED BY <1>4, <2>4, <2>5 DEF VStep, Picked
<1>5. ASSUME NEW k \in Kids, NEW a \in Asids, CreateStep(k, a)
      PROVE  FlagRight'
  <2>1. /\ \A q \in Procs : q # k /\ q # Shell => pc'[q] = pc[q]
        /\ pc[k] = "dead" /\ pc'[k] = "access" /\ pc[Shell] = "user" /\ pc'[Shell] = "join"
        /\ \A q \in Uprocs \ {k} : asidOf'[q] = asidOf[q]
        /\ holdingSwapMutex' = holdingSwapMutex
    BY <1>0, <1>5 DEF CreateStep, At
  <2>. QED BY <1>0, <1>a, <2>1 DEF Alive, Picked
<1>6. ASSUME NEW p \in Procs, TermStep(p)
      PROVE  FlagRight'
  <2>1. /\ \A q \in Procs : TermLabel(p, q)
        /\ asidOf' = asidOf /\ holdingSwapMutex' = holdingSwapMutex /\ pc[p] = "term"
    BY <1>6 DEF TermStep, TERMPROCESS, At
  <2>2. CASE p \in Kids
    <3>1. progeny(p) = {p}
      BY <1>0, <2>2 DEF progeny
    <3>2. pc[p] \notin Picked /\ Gone \cap Picked = {}
      BY <2>1 DEF Picked
    <3>. QED BY <1>0, <1>a, <2>1, <2>2, <3>1, <3>2 DEF Alive
  <2>3. CASE p \notin Kids
    <3>1. Shell \in progeny(p)
      BY <1>0, <2>3 DEF progeny, Procs
    <3>. QED BY <1>0, <2>1, <3>1 DEF FlagRight, Alive
  <2>. QED BY <2>2, <2>3
<1>. QED BY <1>1, <1>2, <1>3, <1>4, <1>5, <1>6 DEF SyncStep
-----------------------------------------------------------------------------
LEMMA SyncInit == Init => SyncInv
<1>. SUFFICES ASSUME Init PROVE SyncInv
  OBVIOUS
<1>0. /\ Shell \notin Kids /\ Inst \notin Kids /\ Inst # Shell
      /\ Uprocs = Kids \cup {Shell} /\ Procs = Uprocs \cup {Inst}
  BY ProcsAssumption DEF Uprocs, Procs
<1>1. /\ pc[Inst] = "boot" /\ pc[Shell] = "access" /\ \A k \in Kids : pc[k] = "dead"
      /\ \A s \in Sems : semQ[s] = <<>>
      /\ semVal["swapSemaphore"] = 1
      /\ semVal["shellSemaphore"] = 0
  BY <1>0, SemNames DEF Init, initSwapPool
<1>2. ToSet(<<>>) = {} /\ IsInjective(<<>>)
  BY DEF ToSet, IsInjective
<1>3. WaitsRight
  BY <1>1, <1>2 DEF WaitsRight
<1>4. Inside = {} /\ Unsignalled = {}
  BY <1>0, <1>1 DEF Inside, Unsignalled, Critical, InPager, InWipe, Signalled
<1>5. OneInside /\ OneProgram
  BY <1>1, <1>4 DEF OneInside, OneProgram
<1>6. AsidsRight /\ Orphans
  BY <1>0, <1>1 DEF Init, AsidsRight, Orphans, Alive
<1>7. FlagRight
  BY <1>0, <1>1 DEF Init, FlagRight, Picked
<1>. QED BY <1>3, <1>5, <1>6, <1>7, TypeInit DEF SyncInv

LEMMA SyncNext == SyncInv /\ [Next]_vars => SyncInv'
<1>. SUFFICES ASSUME SyncInv, [Next]_vars PROVE SyncInv'
  OBVIOUS
<1>1. SyncStep
  BY SyncKinds
<1>2. TypeInv'
  BY TypeStep DEF SyncInv
<1>. QED
  BY <1>1, <1>2, WaitsStep, InsideStep, FamilyStep, ProgramStep, FlagStep DEF SyncInv

(* The inductive invariant of the support level's synchronisation.         *)
THEOREM SyncCorrect == Spec => []SyncInv
  BY SyncInit, SyncNext, PTL DEF Spec

LEMMA HoldersInside == SyncInv => Holders = Inside
<1>. SUFFICES ASSUME SyncInv PROVE Holders = Inside
  OBVIOUS
<1>1. ASSUME NEW p \in Uprocs, pc[p] \in Critical, p \notin ToSet(semQ["swapSemaphore"])
      PROVE  Ready(p)
  BY <1>1 DEF SyncInv, WaitsRight, WaitsAt, Ready, Critical, InPager, InWipe
<1>. QED BY <1>1, SemNames DEF Holders, Inside, Critical, Ready

(* Mutual exclusion on the swap pool, for any number of programs, ASIDs    *)
(* and frames, whatever flash operations fail, also when an ASID is reused *)
(* before its last owner has gone (the P and V around the pager and        *)
(* freeSwapFrames, and the V that sys2 performs by holdingSwapMutex).      *)
THEOREM SwapMutexSafe == Spec => []SwapMutex
<1>1. SyncInv => SwapMutex
  <2>. SUFFICES ASSUME SyncInv PROVE SwapMutex
    OBVIOUS
  <2>1. /\ Holders = Inside /\ OneInside /\ semVal["swapSemaphore"] \in Nat
    BY HoldersInside, SemNames DEF SyncInv, TypeInv, TypeOK
  <2>2. CASE Inside = {}
    BY <2>1, <2>2, FS_EmptySet DEF SwapMutex, OneInside
  <2>3. CASE Inside # {}
    <3>1. PICK p \in Inside : TRUE
      BY <2>3
    <3>2. Inside = {p}
      BY <2>1, <3>1 DEF OneInside
    <3>3. Cardinality({p}) = 1
      BY FS_Singleton
    <3>. QED BY <2>1, <2>3, <3>2, <3>3 DEF SwapMutex, OneInside
  <2>. QED BY <2>2, <2>3
<1>. QED BY <1>1, SyncCorrect, PTL

(* holdingSwapMutex of an ASID is up exactly while the process of that     *)
(* ASID is in the pager behind its P: sys2 never releases the swap pool    *)
(* for somebody else, and never keeps it.                                  *)
THEOREM HoldingSafe == Spec => []HoldingRight
<1>1. SyncInv => HoldingRight
  <2>. SUFFICES ASSUME SyncInv PROVE HoldingRight
    OBVIOUS
  <2>1. \A p \in Uprocs : pc[p] \in Picked <=> p \in Holders /\ pc[p] \in Picked
    BY HoldersInside, PickedInside
  <2>2. Holders \subseteq Uprocs /\ FlagRight
    BY DEF Holders, SyncInv
  <2>. QED BY <2>1, <2>2 DEF HoldingRight, FlagRight, Alive, Picked
<1>. QED BY <1>1, SyncCorrect, PTL
-----------------------------------------------------------------------------
(* The helpers of SemaphoreSpec are those of ProcQueue.                    *)
LEMMA SameHelpers ==
    /\ \A q : Semaphores!ToSet(q) = ToSet(q)
    /\ \A q, D : Semaphores!Without(q, D) = Without(q, D)
<1>1. \A q : Semaphores!ToSet(q) = ToSet(q)
  BY DEF Semaphores!ToSet, ToSet
<1>2. \A q, D : Semaphores!Without(q, D) = Without(q, D)
  BY DEF Semaphores!Without, Without, Semaphores!Rank, Rank,
         Semaphores!Cardinality, Cardinality
<1>. QED BY <1>1, <1>2

(* P, V and TERMPROCESS are steps of SemaphoreSpec.                        *)
LEMMA SemaphoreStep ==
    ASSUME SyncInv, SyncStep
    PROVE  [Semaphores!Next]_(Semaphores!svars)
<1>0. semVal \in [Sems -> Nat] /\ semQ \in [Sems -> Seq(Procs)] /\ Uprocs \subseteq Procs
  BY DEF SyncInv, TypeInv, TypeOK, Procs
<1>1. CASE UNCHANGED sems
  BY <1>1 DEF sems, Semaphores!svars
<1>2. ASSUME NEW p \in Procs, NEW s \in Sems, NEW l, NEW m, PStep(p, s, l, m)
      PROVE  Semaphores!Next
  <2>1. P(s, p) /\ \A t \in Sems : p \notin ToSet(semQ[t])
    BY <1>2 DEF PStep, At, Ready
  <2>2. CASE semVal[s] > 0
    <3>1. Semaphores!Pass(s)
      BY <2>1, <2>2 DEF P, Semaphores!Pass
    <3>. QED BY <3>1 DEF Semaphores!Next
  <2>3. CASE ~ (semVal[s] > 0)
    <3>1. semVal[s] = 0 /\ \A t \in Sems : ~Semaphores!Waits(p, t)
      BY <1>0, <2>1, <2>3, SameHelpers DEF Semaphores!Waits
    <3>2. Semaphores!Wait(p, s)
      BY <2>1, <2>3, <3>1 DEF P, Semaphores!Wait
    <3>. QED BY <3>2 DEF Semaphores!Next
  <2>. QED BY <2>2, <2>3
<1>3. ASSUME NEW s \in Sems, V(s)
      PROVE  Semaphores!Next
  <2>1. Semaphores!Wake(s) \/ Semaphores!Count(s)
    BY <1>3 DEF V, Semaphores!Wake, Semaphores!Count
  <2>. QED BY <2>1 DEF Semaphores!Next
<1>4. ASSUME NEW p \in Procs, TERMPROCESS(p)
      PROVE  Semaphores!Next
  <2>1. Semaphores!Leave(progeny(p))
    BY <1>4, SameHelpers DEF TERMPROCESS, Semaphores!Leave
  <2>2. progeny(p) \in SUBSET Procs
    BY <1>0 DEF progeny
  <2>. QED BY <2>1, <2>2 DEF Semaphores!Next
<1>. QED
  BY <1>1, <1>2, <1>3, <1>4, ZenonT(60) DEF SyncStep, PlainStep, VStep, CreateStep, TermStep

(* The support level uses its semaphores as SemaphoreSpec, which the       *)
(* Nucleus is proved to implement, allows: a process waits for one         *)
(* semaphore at a time, behind those who came before it, and leaves by a V *)
(* or by its end (SYSCALL 3 and 4 and TERMPROCESS of phase3).              *)
THEOREM SemaphoresSafe == Spec => UsesSemaphores
<1>1. Init => Semaphores!Init
  BY DEF Init, Semaphores!Init
<1>2. SyncInv /\ [Next]_vars => [Semaphores!Next]_(Semaphores!svars)
  BY SyncKinds, SemaphoreStep
<1>. QED BY <1>1, <1>2, SyncCorrect, PTL DEF Spec, UsesSemaphores, Semaphores!Spec
-----------------------------------------------------------------------------
(***************************************************************************)
(* Why dispatch() never finds a deadlock when no flash read fails: whoever *)
(* holds what others wait for is still there.                              *)
(***************************************************************************)
MutexHeld == Alive /\ semVal["swapSemaphore"] = 0 => Inside # {}

InTerminal(p, l) ==
    \/ pc[p] = l /\ p \notin ToSet(semQ[terminal(l)])
    \/ pc[p] \in {"access"} \cup InPager /\ ret[p] = l
TerminalHeld ==
    Alive => \A l \in {"write", "read"} :
                semVal[terminal(l)] = 0 => \E p \in Uprocs : InTerminal(p, l)

ProgramRuns == Alive /\ Joining => Unsignalled # {} \/ semVal["shellSemaphore"] # 0

EndHeard ==
    pc[Shell] \in Signalled =>
        /\ semQ["masterSemaphore"] = <<>>
        /\ pc[Inst] = "boot" => semVal["masterSemaphore"] # 0

NoGiveUp == \A p \in Uprocs : pc[p] # "giveUp"

HeldInv == MutexHeld /\ TerminalHeld /\ ProgramRuns /\ EndHeard /\ NoGiveUp

(* A queue is empty if nobody is on it.                                    *)
LEMMA EmptyIff == ASSUME NEW q \in Seq(Procs) PROVE q = <<>> <=> ToSet(q) = {}
<1>1. ToSet(<<>>) = {}
  BY DEF ToSet
<1>. QED BY <1>1, TailOfQueue

(* What every step of a program, the shell or test() has in common.        *)
LEMMA SyncTypes ==
    ASSUME SyncInv
    PROVE  /\ pc \in [Procs -> Labels] /\ semVal \in [Sems -> Nat]
           /\ semQ \in [Sems -> Seq(Procs)]
           /\ ret \in [Uprocs -> {"user", "write", "read"}]
           /\ Uprocs \subseteq Procs /\ Shell \in Uprocs /\ Kids \subseteq Uprocs
           /\ Shell \notin Kids /\ Inst \notin Uprocs /\ Inst \in Procs
           /\ Uprocs = Kids \cup {Shell} /\ Procs = Uprocs \cup {Inst} /\ WaitsRight
  BY ProcsAssumption DEF SyncInv, TypeInv, TypeOK, Uprocs, Procs

(* The end of a program takes nobody but itself; the end of the shell or   *)
(* of test() takes the shell.                                              *)
LEMMA TermFamily ==
    ASSUME SyncInv, NEW p \in Procs, TermStep(p)
    PROVE  /\ pc[p] = "term" /\ semVal' = semVal /\ ret' = ret
           /\ \A s \in Sems : p \notin ToSet(semQ[s])
           /\ \A s \in Sems : ToSet(semQ'[s]) = ToSet(semQ[s]) \ progeny(p)
           /\ semQ' \in [Sems -> Seq(Procs)]
           /\ \A q \in Procs : TermLabel(p, q)
           /\ p \in Kids => progeny(p) = {p}
           /\ p \notin Kids => Shell \in progeny(p) /\ ~Alive'
<1>0. /\ semQ \in [Sems -> Seq(Procs)] /\ pc \in [Procs -> Labels]
      /\ Shell \in Procs /\ Shell \notin Kids /\ Inst \notin Kids
      /\ Procs = Kids \cup {Shell, Inst}
  BY SyncTypes DEF Uprocs
<1>1. /\ pc[p] = "term" /\ semVal' = semVal /\ ret' = ret
      /\ \A s \in Sems : p \notin ToSet(semQ[s])
      /\ \A q \in Procs : TermLabel(p, q)
  BY DEF TermStep, TERMPROCESS, At, Ready
<1>2. /\ \A s \in Sems : ToSet(semQ'[s]) = ToSet(semQ[s]) \ progeny(p)
      /\ semQ' \in [Sems -> Seq(Procs)]
  BY <1>0, TermEffect DEF TermStep
<1>3. p \in Kids => progeny(p) = {p}
  BY <1>0 DEF progeny
<1>4. p \notin Kids => Shell \in progeny(p)
  BY <1>0 DEF progeny, Uprocs
<1>. QED BY <1>0, <1>1, <1>2, <1>3, <1>4 DEF Alive

(* Somebody is inside while swapSemaphore is closed.                       *)
LEMMA MutexHeldStep ==
    ASSUME SyncInv, MutexHeld, SyncStep
    PROVE  MutexHeld'
<1>. DEFINE swap == "swapSemaphore"
<1>0. /\ pc \in [Procs -> Labels] /\ semVal \in [Sems -> Nat]
      /\ semQ \in [Sems -> Seq(Procs)]
      /\ ret \in [Uprocs -> {"user", "write", "read"}]
      /\ Uprocs \subseteq Procs /\ Shell \in Uprocs /\ Kids \subseteq Uprocs
      /\ Shell \notin Kids /\ WaitsRight /\ swap \in Sems
  BY SyncTypes, SemNames
<1>i. Inside = {p \in Uprocs : pc[p] \in Critical /\ p \notin ToSet(semQ[swap])}
  BY DEF Inside
<1>j. Inside' = {p \in Uprocs : pc'[p] \in Critical /\ p \notin ToSet(semQ'[swap])}
  BY DEF Inside
<1>a. ASSUME Alive' => Alive, Inside \subseteq Inside', semVal'[swap] = semVal[swap]
      PROVE  MutexHeld'
  BY <1>a DEF MutexHeld
<1>m. ASSUME NEW p \in Procs, pc[p] \notin Gone, \A q \in Procs \ {p} : pc'[q] = pc[q]
      PROVE  Alive' => Alive
  BY <1>0, <1>m DEF Alive
<1>. HIDE DEF swap
<1>1. CASE UNCHANGED <<pc, sems, asidOf, ret, holdingSwapMutex>>
  BY <1>1, <1>a, <1>i, <1>j DEF sems, Alive
<1>2. ASSUME NEW p \in Uprocs, NEW l, NEW m, PlainStep(p, l, m)
      PROVE  MutexHeld'
  <2>1. pc[p] = l /\ pc'[p] = m /\ \A q \in Procs \ {p} : pc'[q] = pc[q]
    BY <1>0, <1>2, MoverReady DEF PlainStep
  <2>2. (l \in Critical => m \in Critical) /\ l \notin Gone /\ semQ' = semQ /\ semVal' = semVal
    BY <1>2 DEF PlainStep, Critical, InPager, InWipe, sems
  <2>. QED BY <1>0, <1>a, <1>i, <1>j, <1>m, <2>1, <2>2
<1>3. ASSUME NEW p \in Procs, NEW s \in Sems, NEW l, NEW m, PStep(p, s, l, m)
      PROVE  MutexHeld'
  <2>1. /\ pc[p] = l /\ pc'[p] = m /\ P(s, p) /\ \A q \in Procs \ {p} : pc'[q] = pc[q]
        /\ \A t \in Sems : p \notin ToSet(semQ[t])
    BY <1>0, <1>3, MoverReady DEF PStep
  <2>2. l \notin Critical /\ l \notin Gone
    BY <1>3 DEF PStep, Critical, InPager, InWipe
  <2>3. CASE s = swap
    <3>1. p \in Uprocs /\ m \in Critical
      BY <1>0, <1>3, <2>3 DEF PStep, swap, Critical, InPager, InWipe
    <3>2. CASE semQ' = semQ
      <4>1. p \in Inside'
        BY <1>0, <1>j, <2>1, <3>1, <3>2
      <4>. QED BY <4>1 DEF MutexHeld
    <3>3. CASE semVal' = semVal /\ ToSet(semQ'[s]) = ToSet(semQ[s]) \cup {p}
      BY <1>0, <1>a, <1>i, <1>j, <1>m, <2>1, <2>2, <2>3, <3>3
    <3>. QED BY <1>0, <2>1, <3>2, <3>3, PEffect
  <2>4. CASE s # swap
    <3>1. semQ'[swap] = semQ[swap] /\ semVal'[swap] = semVal[swap]
      BY <1>0, <2>1, <2>4, PEffect
    <3>. QED BY <1>0, <1>a, <1>i, <1>j, <1>m, <2>1, <2>2, <3>1
  <2>. QED BY <2>3, <2>4
<1>4. ASSUME NEW p \in Uprocs, NEW s \in Sems, NEW l, NEW m, VStep(p, s, l, m)
      PROVE  MutexHeld'
  <2>1. /\ pc[p] = l /\ pc'[p] = m /\ V(s) /\ \A q \in Procs \ {p} : pc'[q] = pc[q]
        /\ \A t \in Sems : p \notin ToSet(semQ[t])
    BY <1>0, <1>4, MoverReady DEF VStep
  <2>2. CASE s = swap
    <3>1. CASE semVal' = [semVal EXCEPT ![s] = @ + 1]
      <4>1. semVal'[swap] # 0
        BY <1>0, <2>2, <3>1
      <4>. QED BY <4>1 DEF MutexHeld, swap
    <3>2. CASE /\ ToSet(semQ'[s]) = ToSet(semQ[s]) \ {Head(semQ[s])}
               /\ Head(semQ[s]) \in ToSet(semQ[s])
      <4>. DEFINE h == Head(semQ[s])
      <4>1. h \in Uprocs /\ pc[h] \in {"pick", "wipe"} /\ h # p
        BY <1>0, <2>1, <2>2, <3>2 DEF WaitsRight, WaitsAt, swap
      <4>. HIDE DEF h
      <4>2. h \in Uprocs /\ pc'[h] \in Critical /\ h \notin ToSet(semQ'[swap])
        BY <1>0, <2>1, <2>2, <3>2, <4>1 DEF h, Critical, InPager, InWipe
      <4>3. h \in Inside'
        BY <1>j, <4>2
      <4>. QED BY <4>3 DEF MutexHeld
    <3>3. IsInjective(semQ[s])
      BY <1>0 DEF WaitsRight
    <3>. QED BY <1>0, <2>1, <3>1, <3>2, <3>3, VEffect
  <2>3. CASE s # swap
    <3>1. semQ'[swap] = semQ[swap] /\ semVal'[swap] = semVal[swap]
      BY <1>0, <2>1, <2>3, VEffect
    <3>2. l \notin Critical /\ l \notin Gone
      BY <1>4, <2>3 DEF VStep, swap, Critical, InPager, InWipe
    <3>. QED BY <1>0, <1>a, <1>i, <1>j, <1>m, <2>1, <3>1, <3>2
  <2>. QED BY <2>2, <2>3
<1>5. ASSUME NEW k \in Kids, NEW a \in Asids, CreateStep(k, a)
      PROVE  MutexHeld'
  <2>1. /\ \A q \in Uprocs : q # k /\ q # Shell => pc'[q] = pc[q]
        /\ pc[k] \notin Critical /\ pc[Shell] \notin Critical /\ pc[Shell] \notin Gone
        /\ semQ' = semQ /\ semVal' = semVal
    BY <1>0, <1>5 DEF CreateStep, sems, At, Critical, InPager, InWipe
  <2>. QED BY <1>a, <1>i, <1>j, <2>1 DEF Alive
<1>6. ASSUME NEW p \in Procs, TermStep(p)
      PROVE  MutexHeld'
  <2>1. CASE p \in Kids
    <3>1. /\ \A q \in Procs \ {p} : pc'[q] = pc[q]
          /\ pc[p] = "term" /\ semVal' = semVal /\ ToSet(semQ'[swap]) \subseteq ToSet(semQ[swap])
      BY <1>0, <1>6, <2>1, TermFamily
    <3>2. pc[p] \notin Critical
      BY <3>1 DEF Critical, InPager, InWipe
    <3>. QED BY <1>0, <1>a, <1>i, <1>j, <1>m, <3>1, <3>2
  <2>2. CASE p \notin Kids
    BY <1>6, <2>2, TermFamily DEF MutexHeld
  <2>. QED BY <2>1, <2>2
<1>. QED BY <1>1, <1>2, <1>3, <1>4, <1>5, <1>6 DEF SyncStep

(* A terminal semaphore that is closed is held by a process in             *)
(* writeTerminal or readTerminal, page faults on its behalf included.      *)
LEMMA TerminalHeldStep ==
    ASSUME SyncInv, TerminalHeld, NoGiveUp, SyncStep
    PROVE  TerminalHeld'
<1>. SUFFICES ASSUME NEW l \in {"write", "read"}, Alive', semVal'[terminal(l)] = 0
              PROVE  \E q \in Uprocs : InTerminal(q, l)'
  BY DEF TerminalHeld
<1>. DEFINE t == terminal(l)
<1>0. /\ pc \in [Procs -> Labels] /\ semVal \in [Sems -> Nat]
      /\ semQ \in [Sems -> Seq(Procs)]
      /\ ret \in [Uprocs -> {"user", "write", "read"}]
      /\ Uprocs \subseteq Procs /\ Shell \in Uprocs /\ Kids \subseteq Uprocs
      /\ Shell \notin Kids /\ WaitsRight /\ t \in Sems
  BY SyncTypes, SemNames DEF terminal
<1>t. /\ t = terminal(l) /\ semVal'[t] = 0 /\ t # "swapSemaphore" /\ t # "shellSemaphore"
      /\ t # "masterSemaphore"
      /\ \A k \in {"write", "read"} : terminal(k) = t => k = l
      /\ terminal("write") = "termWriteSemaphore" /\ terminal("read") = "termReadSemaphore"
  BY DEF terminal
<1>. HIDE DEF t
<1>k. ASSUME NEW q \in Uprocs, InTerminal(q, l), pc'[q] = pc[q], ret'[q] = ret[q],
             q \notin ToSet(semQ[t]) => q \notin ToSet(semQ'[t])
      PROVE  \E r \in Uprocs : InTerminal(r, l)'
  BY <1>k, <1>t DEF InTerminal
<1>h. ASSUME Alive, semVal[t] = 0
      PROVE  \E q \in Uprocs : InTerminal(q, l)
  BY <1>h, <1>t DEF TerminalHeld
<1>m. ASSUME NEW p \in Procs, pc[p] \notin Gone, \A q \in Procs \ {p} : pc'[q] = pc[q]
      PROVE  Alive
  BY <1>0, <1>m DEF Alive
<1>1. CASE UNCHANGED <<pc, sems, asidOf, ret, holdingSwapMutex>>
  BY <1>1, <1>h, <1>k, <1>t DEF sems, Alive
<1>2. ASSUME NEW p \in Uprocs, NEW j, NEW m, PlainStep(p, j, m)
      PROVE  \E q \in Uprocs : InTerminal(q, l)'
  <2>1. /\ pc[p] = j /\ pc'[p] = m /\ \A q \in Procs \ {p} : pc'[q] = pc[q]
        /\ \A s \in Sems : p \notin ToSet(semQ[s])
    BY <1>0, <1>2, MoverReady DEF PlainStep
  <2>2. j \notin Gone /\ semQ' = semQ /\ semVal' = semVal /\ \A q \in Uprocs \ {p} : ret'[q] = ret[q]
    BY <1>0, <1>2 DEF PlainStep, sems
  <2>3. PICK q \in Uprocs : InTerminal(q, l)
    BY <1>0, <1>h, <1>m, <1>t, <2>1, <2>2
  <2>4. CASE q # p
    BY <1>0, <1>k, <2>1, <2>2, <2>3, <2>4
  <2>5. CASE q = p
    <3>1. j = l \/ (j \in {"access"} \cup InPager /\ ret[p] = l)
      BY <2>1, <2>3, <2>5 DEF InTerminal
    <3>2. pc'[p] = l \/ (pc'[p] \in {"access"} \cup InPager /\ ret'[p] = l)
      BY <1>0, <1>2, <2>1, <3>1 DEF PlainStep, InPager
    <3>. QED BY <1>0, <1>t, <2>1, <2>2, <3>2 DEF InTerminal
  <2>. QED BY <2>4, <2>5
<1>3. ASSUME NEW p \in Procs, NEW s \in Sems, NEW j, NEW m, PStep(p, s, j, m)
      PROVE  \E q \in Uprocs : InTerminal(q, l)'
  <2>1. /\ pc[p] = j /\ pc'[p] = m /\ P(s, p) /\ \A q \in Procs \ {p} : pc'[q] = pc[q]
        /\ \A r \in Sems : p \notin ToSet(semQ[r])
    BY <1>0, <1>3, MoverReady DEF PStep
  <2>2. j \notin Gone /\ ret' = ret
    BY <1>3 DEF PStep
  <2>3. CASE s = t
    <3>1. p \in Uprocs /\ m = l /\ j = "user"
      BY <1>0, <1>3, <1>t, <2>3 DEF PStep
    <3>2. CASE semQ' = semQ
      BY <1>0, <1>t, <2>1, <3>1, <3>2 DEF InTerminal
    <3>3. CASE semVal' = semVal /\ ToSet(semQ'[s]) = ToSet(semQ[s]) \cup {p}
      <4>1. PICK q \in Uprocs : InTerminal(q, l)
        BY <1>0, <1>h, <1>m, <1>t, <2>1, <2>2, <3>3
      <4>2. q # p
        BY <2>1, <3>1, <4>1 DEF InTerminal, InPager
      <4>. QED BY <1>0, <1>k, <2>1, <2>2, <2>3, <3>3, <4>1, <4>2
    <3>. QED BY <1>0, <2>1, <3>2, <3>3, PEffect
  <2>4. CASE s # t
    <3>1. semQ'[t] = semQ[t] /\ semVal'[t] = semVal[t]
      BY <1>0, <2>1, <2>4, PEffect
    <3>2. PICK q \in Uprocs : InTerminal(q, l)
      BY <1>0, <1>h, <1>m, <1>t, <2>1, <2>2, <3>1
    <3>3. CASE q # p
      BY <1>0, <1>k, <2>1, <2>2, <3>1, <3>2, <3>3
    <3>4. CASE q = p
      <4>1. j = l \/ (j \in {"access"} \cup InPager /\ ret[p] = l)
        BY <2>1, <3>2, <3>4 DEF InTerminal
      <4>2. j = "access" /\ m = "pick" /\ ret[p] = l
        BY <1>3, <4>1 DEF PStep, InPager
      <4>. QED BY <2>1, <2>2, <3>2, <3>4, <4>2 DEF InTerminal, InPager
    <3>. QED BY <3>3, <3>4
  <2>. QED BY <2>3, <2>4
<1>4. ASSUME NEW p \in Uprocs, NEW s \in Sems, NEW j, NEW m, VStep(p, s, j, m)
      PROVE  \E q \in Uprocs : InTerminal(q, l)'
  <2>1. /\ pc[p] = j /\ pc'[p] = m /\ V(s) /\ \A q \in Procs \ {p} : pc'[q] = pc[q]
        /\ \A r \in Sems : p \notin ToSet(semQ[r])
    BY <1>0, <1>4, MoverReady DEF VStep
  <2>2. j \notin Gone /\ ret' = ret
    BY <1>4 DEF VStep
  <2>3. CASE s = t
    <3>1. CASE semVal' = [semVal EXCEPT ![s] = @ + 1]
      BY <1>0, <1>t, <2>3, <3>1
    <3>2. CASE /\ ToSet(semQ'[s]) = ToSet(semQ[s]) \ {Head(semQ[s])}
               /\ Head(semQ[s]) \in ToSet(semQ[s])
      <4>. DEFINE h == Head(semQ[s])
      <4>1. h \in Uprocs /\ pc[h] = l /\ h # p
        BY <1>0, <1>t, <2>1, <2>3, <3>2 DEF WaitsRight, WaitsAt
      <4>. HIDE DEF h
      <4>2. h \in Uprocs /\ pc'[h] = l /\ h \notin ToSet(semQ'[t])
        BY <1>0, <2>1, <2>3, <3>2, <4>1 DEF h
      <4>. QED BY <1>t, <4>2 DEF InTerminal
    <3>3. IsInjective(semQ[s])
      BY <1>0 DEF WaitsRight
    <3>. QED BY <1>0, <2>1, <3>1, <3>2, <3>3, VEffect
  <2>4. CASE s # t
    <3>1. semQ'[t] = semQ[t] /\ semVal'[t] = semVal[t]
      BY <1>0, <2>1, <2>4, VEffect
    <3>2. PICK q \in Uprocs : InTerminal(q, l)
      BY <1>0, <1>h, <1>m, <1>t, <2>1, <2>2, <3>1
    <3>3. CASE q # p
      BY <1>0, <1>k, <2>1, <2>2, <3>1, <3>2, <3>3
    <3>4. CASE q = p
      <4>1. j = l \/ (j \in {"access"} \cup InPager /\ ret[p] = l)
        BY <2>1, <3>2, <3>4 DEF InTerminal
      <4>2. j = "release" /\ m = "access" /\ ret[p] = l
        BY <1>4, <1>t, <2>1, <2>4, <4>1 DEF VStep, InPager, NoGiveUp
      <4>. QED BY <2>1, <2>2, <3>2, <3>4, <4>2 DEF InTerminal, InPager
    <3>. QED BY <3>3, <3>4
  <2>. QED BY <2>3, <2>4
<1>5. ASSUME NEW k \in Kids, NEW a \in Asids, CreateStep(k, a)
      PROVE  \E q \in Uprocs : InTerminal(q, l)'
  <2>1. /\ \A q \in Uprocs : q # k /\ q # Shell => pc'[q] = pc[q] /\ ret'[q] = ret[q]
        /\ pc[k] = "dead" /\ pc[Shell] = "user" /\ semQ' = semQ /\ semVal' = semVal
    BY <1>0, <1>5 DEF CreateStep, sems, At
  <2>2. PICK q \in Uprocs : InTerminal(q, l)
    BY <1>h, <1>t, <2>1 DEF Alive
  <2>3. q # k /\ q # Shell
    BY <2>1, <2>2 DEF InTerminal, InPager
  <2>. QED BY <1>k, <2>1, <2>2, <2>3
<1>6. ASSUME NEW p \in Procs, TermStep(p)
      PROVE  \E q \in Uprocs : InTerminal(q, l)'
  <2>1. p \in Kids
    BY <1>6, TermFamily
  <2>2. /\ \A q \in Procs \ {p} : pc'[q] = pc[q]
        /\ pc[p] = "term" /\ semVal' = semVal /\ ToSet(semQ'[t]) \subseteq ToSet(semQ[t])
        /\ ret' = ret
    BY <1>0, <1>6, <2>1, TermFamily
  <2>3. PICK q \in Uprocs : InTerminal(q, l)
    BY <1>0, <1>h, <1>m, <1>t, <2>2
  <2>4. q # p
    BY <2>2, <2>3 DEF InTerminal, InPager
  <2>. QED BY <1>0, <1>k, <2>2, <2>3, <2>4
<1>. QED BY <1>1, <1>2, <1>3, <1>4, <1>5, <1>6 DEF SyncStep

(* Where a label leads: nobody signals its end twice, or takes it back.    *)
LEMMA SignalledMoves ==
    ASSUME NEW p, NEW s, NEW l, NEW m, ret \in [Uprocs -> {"user", "write", "read"}]
    PROVE  /\ p \in Uprocs /\ PlainStep(p, l, m) =>
                 (l \in Signalled <=> m \in Signalled) /\ l \notin Gone /\ m # "join"
           /\ PStep(p, s, l, m) => l \notin Gone /\ m # "join"
           /\ PStep(p, s, l, m) /\ s # "masterSemaphore" =>
                 (l \in Signalled <=> m \in Signalled) /\ p \in {Shell} \cup Uprocs
           /\ VStep(p, s, l, m) => l \notin Gone /\ m # "join"
           /\ VStep(p, s, l, m) /\ s \notin {"masterSemaphore", "shellSemaphore"} =>
                 (l \in Signalled <=> m \in Signalled)
  BY DEF PlainStep, PStep, VStep, Signalled

(* The shell waits only while its program has not signalled it.            *)
LEMMA ProgramRunsStep ==
    ASSUME SyncInv, ProgramRuns, SyncStep
    PROVE  ProgramRuns'
<1>. DEFINE sh == "shellSemaphore"
<1>0. /\ pc \in [Procs -> Labels] /\ semVal \in [Sems -> Nat]
      /\ semQ \in [Sems -> Seq(Procs)]
      /\ ret \in [Uprocs -> {"user", "write", "read"}]
      /\ Uprocs \subseteq Procs /\ Shell \in Uprocs /\ Kids \subseteq Uprocs
      /\ Shell \notin Kids /\ Inst \notin Uprocs /\ WaitsRight /\ sh \in Sems
      /\ "masterSemaphore" # sh
  BY SyncTypes, SemNames
<1>a. ASSUME Alive' => Alive, Unsignalled \subseteq Unsignalled', semVal'[sh] = semVal[sh],
             Joining' => Joining
      PROVE  ProgramRuns'
  BY <1>a DEF ProgramRuns
<1>m. ASSUME NEW p \in Procs, pc[p] \notin Gone, pc'[p] # "join", semQ'[sh] = semQ[sh],
             \A q \in Procs \ {p} : pc'[q] = pc[q]
      PROVE  (Alive' => Alive) /\ (Joining' => Joining)
  BY <1>0, <1>m DEF Alive, Joining
<1>u. ASSUME NEW p \in Procs, p \in Kids => (pc[p] \in Signalled <=> pc'[p] \in Signalled),
             \A q \in Procs \ {p} : pc'[q] = pc[q]
      PROVE  Unsignalled' = Unsignalled
  BY <1>0, <1>u DEF Unsignalled
<1>e. /\ ProgramRuns' <=> (Alive' /\ Joining' => Unsignalled' # {} \/ semVal'[sh] # 0)
      /\ Joining' <=> (pc'[Shell] = "join" \/ semQ'[sh] # <<>>)
      /\ Joining <=> (pc[Shell] = "join" \/ semQ[sh] # <<>>)
  BY DEF ProgramRuns, Joining
<1>. HIDE DEF sh
<1>1. CASE UNCHANGED <<pc, sems, asidOf, ret, holdingSwapMutex>>
  BY <1>1 DEF sems, ProgramRuns, Alive, Joining, Unsignalled
<1>2. ASSUME NEW p \in Uprocs, NEW l, NEW m, PlainStep(p, l, m)
      PROVE  ProgramRuns'
  <2>1. pc[p] = l /\ pc'[p] = m /\ \A q \in Procs \ {p} : pc'[q] = pc[q]
    BY <1>0, <1>2, MoverReady DEF PlainStep
  <2>2. (l \in Signalled <=> m \in Signalled) /\ l \notin Gone /\ m # "join"
    BY <1>0, <1>2, SignalledMoves
  <2>3. semQ' = semQ /\ semVal' = semVal
    BY <1>2 DEF PlainStep, sems
  <2>. QED BY <1>0, <1>a, <1>m, <1>u, <2>1, <2>2, <2>3
<1>3. ASSUME NEW p \in Procs, NEW s \in Sems, NEW l, NEW m, PStep(p, s, l, m)
      PROVE  ProgramRuns'
  <2>1. pc[p] = l /\ pc'[p] = m /\ P(s, p) /\ \A q \in Procs \ {p} : pc'[q] = pc[q]
    BY <1>0, <1>3, MoverReady DEF PStep
  <2>2. l \notin Gone /\ m # "join"
    BY <1>0, <1>3, SignalledMoves
  <2>3. CASE s = sh
    <3>1. p = Shell /\ l = "join"
      BY <1>3, <2>3 DEF PStep, sh
    <3>2. Unsignalled' = Unsignalled
      BY <1>0, <1>u, <2>1, <3>1
    <3>3. CASE semVal[s] > 0 /\ semQ' = semQ
      <4>1. semQ'[sh] = <<>> /\ pc'[Shell] # "join"
        BY <1>0, <2>1, <2>2, <2>3, <3>1, <3>3 DEF WaitsRight
      <4>. QED BY <1>e, <4>1
    <3>4. CASE semVal' = semVal
      BY <1>a, <1>e, <2>1, <2>2, <3>1, <3>2, <3>4 DEF Alive
    <3>. QED BY <1>0, <2>1, <3>3, <3>4, PEffect
  <2>4. CASE s # sh
    <3>1. semQ'[sh] = semQ[sh] /\ semVal'[sh] = semVal[sh]
      BY <1>0, <2>1, <2>4, PEffect
    <3>2. p \in Kids => (l \in Signalled <=> m \in Signalled)
      BY <1>0, <1>3 DEF PStep, Signalled
    <3>. QED BY <1>0, <1>a, <1>m, <1>u, <2>1, <2>2, <3>1, <3>2
  <2>. QED BY <2>3, <2>4
<1>4. ASSUME NEW p \in Uprocs, NEW s \in Sems, NEW l, NEW m, VStep(p, s, l, m)
      PROVE  ProgramRuns'
  <2>1. pc[p] = l /\ pc'[p] = m /\ V(s) /\ \A q \in Procs \ {p} : pc'[q] = pc[q]
    BY <1>0, <1>4, MoverReady DEF VStep
  <2>2. l \notin Gone /\ m # "join"
    BY <1>0, <1>4, SignalledMoves
  <2>3. CASE s = sh
    <3>1. CASE semVal' = [semVal EXCEPT ![s] = @ + 1]
      <4>1. semVal'[sh] # 0
        BY <1>0, <2>3, <3>1
      <4>. QED BY <1>e, <4>1
    <3>2. CASE /\ ToSet(semQ'[s]) = ToSet(semQ[s]) \ {Head(semQ[s])}
               /\ Head(semQ[s]) \in ToSet(semQ[s]) /\ semQ' \in [Sems -> Seq(Procs)]
      <4>1. \A q \in ToSet(semQ[s]) : q = Shell /\ pc[q] = "user"
        BY <1>0, <2>3 DEF WaitsRight, WaitsAt, sh
      <4>2. ToSet(semQ'[sh]) = {} /\ pc[Shell] = "user"
        BY <2>3, <3>2, <4>1
      <4>3. semQ'[sh] = <<>> /\ pc'[Shell] # "join"
        BY <1>0, <2>1, <2>2, <3>2, <4>2, EmptyIff
      <4>. QED BY <1>e, <4>3
    <3>3. IsInjective(semQ[s])
      BY <1>0 DEF WaitsRight
    <3>. QED BY <1>0, <2>1, <3>1, <3>2, <3>3, VEffect
  <2>4. CASE s # sh
    <3>1. semQ'[sh] = semQ[sh] /\ semVal'[sh] = semVal[sh]
      BY <1>0, <2>1, <2>4, VEffect
    <3>2. p \in Kids => (l \in Signalled <=> m \in Signalled)
      BY <1>0, <1>4, <2>4 DEF VStep, Signalled, sh
    <3>. QED BY <1>0, <1>a, <1>m, <1>u, <2>1, <2>2, <3>1, <3>2
  <2>. QED BY <2>3, <2>4
<1>5. ASSUME NEW k \in Kids, NEW a \in Asids, CreateStep(k, a)
      PROVE  ProgramRuns'
  <2>1. pc'[k] = "access"
    BY <1>0, <1>5 DEF CreateStep
  <2>2. k \in Unsignalled'
    BY <2>1 DEF Unsignalled, Signalled
  <2>. QED BY <1>e, <2>2
<1>6. ASSUME NEW p \in Procs, TermStep(p)
      PROVE  ProgramRuns'
  <2>1. CASE p \in Kids
    <3>1. /\ \A q \in Procs \ {p} : pc'[q] = pc[q]
          /\ pc[p] = "term" /\ pc'[p] = "dead" /\ semVal' = semVal
          /\ ToSet(semQ'[sh]) \subseteq ToSet(semQ[sh]) /\ semQ' \in [Sems -> Seq(Procs)]
      BY <1>0, <1>6, <2>1, TermFamily
    <3>2. Unsignalled' = Unsignalled
      BY <1>0, <1>u, <3>1 DEF Signalled
    <3>3. semQ'[sh] # <<>> => semQ[sh] # <<>>
      BY <1>0, <3>1, EmptyIff
    <3>4. pc'[Shell] = pc[Shell]
      BY <1>0, <2>1, <3>1
    <3>. QED BY <1>a, <1>e, <3>1, <3>2, <3>3, <3>4 DEF Alive
  <2>2. CASE p \notin Kids
    BY <1>6, <2>2, TermFamily DEF ProgramRuns
  <2>. QED BY <2>1, <2>2
<1>. QED BY <1>1, <1>2, <1>3, <1>4, <1>5, <1>6 DEF SyncStep

(* Once the shell has signalled its end, test() has passed its P or finds  *)
(* the semaphore open.                                                     *)
LEMMA EndHeardStep ==
    ASSUME SyncInv, EndHeard, SyncStep
    PROVE  EndHeard'
<1>. DEFINE ms == "masterSemaphore"
<1>0. /\ pc \in [Procs -> Labels] /\ semVal \in [Sems -> Nat]
      /\ semQ \in [Sems -> Seq(Procs)]
      /\ ret \in [Uprocs -> {"user", "write", "read"}]
      /\ Uprocs \subseteq Procs /\ Shell \in Uprocs /\ Kids \subseteq Uprocs
      /\ Shell \notin Kids /\ Inst \notin Uprocs /\ Inst \in Procs
      /\ Procs = Uprocs \cup {Inst} /\ Uprocs = Kids \cup {Shell} /\ WaitsRight /\ ms \in Sems
  BY SyncTypes, SemNames
<1>e. /\ EndHeard <=> (pc[Shell] \in Signalled =>
            semQ[ms] = <<>> /\ (pc[Inst] = "boot" => semVal[ms] # 0))
      /\ EndHeard' <=> (pc'[Shell] \in Signalled =>
            semQ'[ms] = <<>> /\ (pc'[Inst] = "boot" => semVal'[ms] # 0))
  BY DEF EndHeard
<1>w. \A q \in ToSet(semQ[ms]) : q = Inst /\ pc[Inst] = "term"
  BY <1>0 DEF WaitsRight, WaitsAt
<1>. HIDE DEF ms
<1>1. CASE UNCHANGED <<pc, sems, asidOf, ret, holdingSwapMutex>>
  BY <1>1 DEF sems, EndHeard
<1>2. ASSUME NEW p \in Uprocs, NEW l, NEW m, PlainStep(p, l, m)
      PROVE  EndHeard'
  <2>1. pc[p] = l /\ pc'[p] = m /\ \A q \in Procs \ {p} : pc'[q] = pc[q]
    BY <1>0, <1>2, MoverReady DEF PlainStep
  <2>2. l \in Signalled <=> m \in Signalled
    BY <1>0, <1>2, SignalledMoves
  <2>3. semQ' = semQ /\ semVal' = semVal
    BY <1>2 DEF PlainStep, sems
  <2>. QED BY <1>0, <1>e, <2>1, <2>2, <2>3
<1>3. ASSUME NEW p \in Procs, NEW s \in Sems, NEW l, NEW m, PStep(p, s, l, m)
      PROVE  EndHeard'
  <2>1. pc[p] = l /\ pc'[p] = m /\ P(s, p) /\ \A q \in Procs \ {p} : pc'[q] = pc[q]
    BY <1>0, <1>3, MoverReady DEF PStep
  <2>3. CASE s = ms
    <3>1. p = Inst /\ l = "boot" /\ m = "term"
      BY <1>3, <2>3 DEF PStep, ms
    <3>2. CASE semVal[s] > 0 /\ semQ' = semQ
      BY <1>0, <1>e, <2>1, <3>1, <3>2
    <3>3. CASE semVal[s] = 0
      BY <1>0, <1>e, <2>1, <2>3, <3>1, <3>3
    <3>. QED BY <1>0, <2>1, <3>2, <3>3, PEffect
  <2>4. CASE s # ms
    <3>1. semQ'[ms] = semQ[ms] /\ semVal'[ms] = semVal[ms]
      BY <1>0, <2>1, <2>4, PEffect
    <3>2. (l \in Signalled <=> m \in Signalled) /\ p \in Uprocs
      BY <1>0, <1>3, <2>4, SignalledMoves DEF ms
    <3>. QED BY <1>0, <1>e, <2>1, <3>1, <3>2
  <2>. QED BY <2>3, <2>4
<1>4. ASSUME NEW p \in Uprocs, NEW s \in Sems, NEW l, NEW m, VStep(p, s, l, m)
      PROVE  EndHeard'
  <2>1. pc[p] = l /\ pc'[p] = m /\ V(s) /\ \A q \in Procs \ {p} : pc'[q] = pc[q]
    BY <1>0, <1>4, MoverReady DEF VStep
  <2>2. pc'[Inst] = pc[Inst]
    BY <1>0, <2>1
  <2>3. CASE s = ms
    <3>1. CASE semQ[s] = <<>> /\ semQ' = semQ /\ semVal' = [semVal EXCEPT ![s] = @ + 1]
      <4>1. semVal'[ms] # 0 /\ semQ'[ms] = <<>>
        BY <1>0, <2>3, <3>1
      <4>. QED BY <1>e, <4>1
    <3>2. CASE /\ ToSet(semQ'[s]) = ToSet(semQ[s]) \ {Head(semQ[s])}
               /\ Head(semQ[s]) \in ToSet(semQ[s]) /\ semQ' \in [Sems -> Seq(Procs)]
      <4>1. ToSet(semQ'[ms]) = {} /\ pc[Inst] = "term"
        BY <1>w, <2>3, <3>2
      <4>2. semQ'[ms] = <<>>
        BY <1>0, <3>2, <4>1, EmptyIff
      <4>. QED BY <1>e, <2>2, <4>1, <4>2
    <3>3. IsInjective(semQ[s])
      BY <1>0 DEF WaitsRight
    <3>. QED BY <1>0, <2>1, <3>1, <3>2, <3>3, VEffect
  <2>4. CASE s # ms
    <3>1. semQ'[ms] = semQ[ms] /\ semVal'[ms] = semVal[ms]
      BY <1>0, <2>1, <2>4, VEffect
    <3>2. p = Shell => (l \in Signalled <=> m \in Signalled)
      BY <1>0, <1>4, <2>4 DEF VStep, Signalled, ms
    <3>. QED BY <1>0, <1>e, <2>1, <2>2, <3>1, <3>2
  <2>. QED BY <2>3, <2>4
<1>5. ASSUME NEW k \in Kids, NEW a \in Asids, CreateStep(k, a)
      PROVE  EndHeard'
  <2>1. pc'[Shell] = "join"
    BY <1>0, <1>5 DEF CreateStep
  <2>. QED BY <1>e, <2>1 DEF Signalled
<1>6. ASSUME NEW p \in Procs, TermStep(p)
      PROVE  EndHeard'
  <2>0. /\ pc[p] = "term" /\ semVal' = semVal /\ semQ' \in [Sems -> Seq(Procs)]
        /\ ToSet(semQ'[ms]) = ToSet(semQ[ms]) \ progeny(p)
        /\ \A q \in Procs : TermLabel(p, q)
    BY <1>0, <1>6, TermFamily
  <2>1. CASE p = Inst
    <3>1. progeny(p) = Procs
      BY <2>1 DEF progeny
    <3>2. ToSet(semQ'[ms]) = {} /\ pc'[Inst] = "dead"
      BY <1>0, <1>w, <2>0, <2>1, <3>1
    <3>3. semQ'[ms] = <<>>
      BY <1>0, <2>0, <3>2, EmptyIff
    <3>. QED BY <1>e, <3>2, <3>3
  <2>2. CASE p # Inst
    <3>1. /\ Inst \notin progeny(p) /\ (p # Shell => Shell \notin progeny(p))
      BY <1>0, <2>2 DEF progeny
    <3>2. pc'[Inst] = pc[Inst] /\ (pc'[Shell] \in Signalled => pc[Shell] \in Signalled)
      BY <1>0, <2>0, <3>1 DEF Signalled
    <3>3. semQ[ms] = <<>> => semQ'[ms] = <<>>
      BY <1>0, <2>0, EmptyIff, ZenonT(60)
    <3>. QED BY <1>e, <2>0, <3>2, <3>3
  <2>. QED BY <2>1, <2>2
<1>. QED BY <1>1, <1>2, <1>3, <1>4, <1>5, <1>6 DEF SyncStep

(* Without failing reads nobody takes the error path of the pager.         *)
LEMMA NoGiveUpStep ==
    ASSUME SyncInv, NoGiveUp, SyncStep, ~ReadFails
    PROVE  NoGiveUp'
<1>0. /\ pc \in [Procs -> Labels] /\ ret \in [Uprocs -> {"user", "write", "read"}]
      /\ Uprocs \subseteq Procs /\ Shell \in Uprocs /\ Kids \subseteq Uprocs
  BY SyncTypes
<1>1. CASE UNCHANGED <<pc, sems, asidOf, ret, holdingSwapMutex>>
  BY <1>1 DEF NoGiveUp
<1>2. ASSUME NEW p \in Procs, NEW l, NEW m, At(p, l), Goto(p, m), m # "giveUp"
      PROVE  NoGiveUp'
  <2>1. pc'[p] = m /\ \A q \in Procs \ {p} : pc'[q] = pc[q]
    BY <1>0, <1>2, MoverReady
  <2>. QED BY <1>0, <1>2, <2>1 DEF NoGiveUp
<1>3. ASSUME NEW p \in Uprocs, NEW l, NEW m, PlainStep(p, l, m)
      PROVE  NoGiveUp'
  <2>1. At(p, l) /\ Goto(p, m) /\ m # "giveUp"
    BY <1>0, <1>3 DEF PlainStep
  <2>. QED BY <1>0, <1>2, <2>1
<1>4. ASSUME NEW p \in Procs, NEW s \in Sems, NEW l, NEW m, PStep(p, s, l, m) \/ VStep(p, s, l, m)
      PROVE  NoGiveUp'
  <2>1. At(p, l) /\ Goto(p, m) /\ m # "giveUp"
    BY <1>4 DEF PStep, VStep
  <2>. QED BY <1>0, <1>2, <2>1
<1>5. ASSUME NEW k \in Kids, NEW a \in Asids, CreateStep(k, a)
      PROVE  NoGiveUp'
  BY <1>0, <1>5 DEF CreateStep, NoGiveUp
<1>6. ASSUME NEW p \in Procs, TermStep(p)
      PROVE  NoGiveUp'
  BY <1>0, <1>6, TermFamily DEF NoGiveUp
<1>. QED BY <1>0, <1>1, <1>3, <1>4, <1>5, <1>6 DEF SyncStep

(* The inductive invariant of deadlock freedom.                            *)
THEOREM HeldCorrect == ASSUME ~ReadFails PROVE Spec => [](SyncInv /\ HeldInv)
<1>1. Init => HeldInv
  <2>. SUFFICES ASSUME Init PROVE HeldInv
    OBVIOUS
  <2>0. /\ Shell \notin Kids /\ Inst \notin Kids /\ Inst # Shell
        /\ Uprocs = Kids \cup {Shell} /\ Procs = Uprocs \cup {Inst}
    BY ProcsAssumption DEF Uprocs, Procs
  <2>1. /\ pc[Shell] = "access" /\ \A k \in Kids : pc[k] = "dead"
        /\ semQ["shellSemaphore"] = <<>> /\ semVal["swapSemaphore"] = 1
        /\ semVal["termWriteSemaphore"] = 1 /\ semVal["termReadSemaphore"] = 1
    BY <2>0, SemNames DEF Init, initSwapPool
  <2>2. MutexHeld /\ TerminalHeld
    BY <2>1 DEF MutexHeld, TerminalHeld, terminal
  <2>3. ProgramRuns /\ EndHeard /\ NoGiveUp
    BY <2>0, <2>1 DEF ProgramRuns, Joining, EndHeard, Signalled, NoGiveUp
  <2>. QED BY <2>2, <2>3 DEF HeldInv
<1>2. SyncInv /\ HeldInv /\ [Next]_vars => HeldInv'
  <2>. SUFFICES ASSUME SyncInv, HeldInv, [Next]_vars PROVE HeldInv'
    OBVIOUS
  <2>1. SyncStep
    BY SyncKinds
  <2>. QED
    BY <2>1, MutexHeldStep, TerminalHeldStep, ProgramRunsStep, EndHeardStep, NoGiveUpStep
    DEF HeldInv
<1>. QED BY <1>1, <1>2, SyncCorrect, PTL DEF Spec

(* Who is not ready is dead or waits where its label says.                 *)
LEMMA BlockedAt ==
    ASSUME SyncInv, NEW p \in Uprocs, pc[p] # "dead", ~Ready(p)
    PROVE  \/ pc[p] \in {"pick", "wipe"} /\ p \in ToSet(semQ["swapSemaphore"])
           \/ p = Shell /\ p \in ToSet(semQ["shellSemaphore"])
           \/ pc[p] = "write" /\ p \in ToSet(semQ["termWriteSemaphore"])
           \/ pc[p] = "read" /\ p \in ToSet(semQ["termReadSemaphore"])
<1>0. WaitsRight /\ p # Inst
  BY SyncTypes
<1>1. PICK s \in Sems : p \in ToSet(semQ[s])
  BY DEF Ready
<1>2. WaitsAt(p, s)
  BY <1>0, <1>1 DEF WaitsRight
<1>. QED BY <1>0, <1>1, <1>2 DEF WaitsAt

(* dispatch() never finds a deadlock (the PANIC of scheduler.c), for any   *)
(* number of programs, ASIDs, pages and frames, whatever writes fail, also *)
(* when ASIDs are reused early: the waits for the shell, the terminal and  *)
(* the swap pool never close a circle, and who waits in them has somebody  *)
(* alive to wait for, as long as no flash read fails.                      *)
THEOREM NoPanicSafe == ASSUME ~ReadFails PROVE Spec => []NoPanic
<1>1. SyncInv /\ HeldInv => NoPanic
  <2>. SUFFICES ASSUME SyncInv, HeldInv, \E p \in Procs : pc[p] # "dead",
                       \A p \in Procs : ~Ready(p)
                PROVE  FALSE
    BY DEF NoPanic
  <2>0. /\ pc \in [Procs -> Labels] /\ semVal \in [Sems -> Nat]
        /\ semQ \in [Sems -> Seq(Procs)]
        /\ Uprocs \subseteq Procs /\ Shell \in Uprocs /\ Kids \subseteq Uprocs
        /\ Uprocs = Kids \cup {Shell} /\ Procs = Uprocs \cup {Inst} /\ WaitsRight
        /\ Inst \notin Uprocs
    BY SyncTypes
  <2>e. ASSUME NEW s \in Sems, NEW p \in ToSet(semQ[s]) PROVE semVal[s] = 0 /\ semQ[s] # <<>>
    <3>1. semQ[s] \in Seq(Procs)
      BY <2>0
    <3>2. semQ[s] # <<>>
      BY <2>e, <3>1, EmptyIff
    <3>. QED BY <2>0, <3>2 DEF WaitsRight
  <2>a. Alive
    <3>. SUFFICES ASSUME ~Alive PROVE FALSE
      OBVIOUS
    <3>0. \A p \in Procs : pc[p] # "zombie"
      <4>. SUFFICES ASSUME NEW p \in Procs, pc[p] = "zombie" PROVE FALSE
        OBVIOUS
      <4>1. PICK s \in Sems : p \in ToSet(semQ[s])
        BY DEF Ready
      <4>. QED BY <2>0, <4>1 DEF WaitsRight, WaitsAt
    <3>1. \A p \in Uprocs : pc[p] = "dead"
      BY <2>0, <3>0 DEF SyncInv, Orphans, Alive
    <3>2. pc[Inst] # "dead" /\ semQ["masterSemaphore"] = <<>>
      BY <2>0, <3>1 DEF HeldInv, EndHeard, Signalled, Alive
    <3>3. PICK s \in Sems : Inst \in ToSet(semQ[s])
      BY <2>0, <3>2 DEF Ready
    <3>4. s = "masterSemaphore"
      BY <2>0, <3>3 DEF WaitsRight, WaitsAt
    <3>. QED BY <2>e, <3>2, <3>3, <3>4
  <2>1. \A p \in Uprocs : p \notin ToSet(semQ["swapSemaphore"])
    <3>. SUFFICES ASSUME NEW p \in Uprocs, p \in ToSet(semQ["swapSemaphore"]) PROVE FALSE
      OBVIOUS
    <3>1. Inside # {}
      BY <2>a, <2>e, SemNames DEF HeldInv, MutexHeld
    <3>2. Holders # {}
      BY <3>1, HoldersInside
    <3>. QED BY <2>0, <3>2 DEF Holders
  <2>2. ASSUME NEW l \in {"write", "read"}, NEW p \in Uprocs, p \in ToSet(semQ[terminal(l)])
        PROVE  FALSE
    <3>1. PICK q \in Uprocs : InTerminal(q, l)
      BY <2>2, <2>a, <2>e, SemNames DEF HeldInv, TerminalHeld, terminal
    <3>2. pc[q] # "dead" /\ ~Ready(q)
      BY <2>0, <2>2, <3>1 DEF InTerminal, InPager
    <3>3. q \notin ToSet(semQ["swapSemaphore"])
      BY <2>1
    <3>4. CASE pc[q] = l /\ q \notin ToSet(semQ[terminal(l)])
      <4>1. ~ (pc[q] = "user")
        BY <2>2, <3>4
      <4>2. q \notin ToSet(semQ["shellSemaphore"])
        BY <2>0, <4>1, SemNames DEF WaitsRight, WaitsAt
      <4>. QED BY <2>2, <3>2, <3>3, <3>4, <4>2, BlockedAt DEF terminal
    <3>5. CASE pc[q] \in {"access"} \cup InPager
      <4>1. pc[q] \notin {"user", "write", "read"}
        BY <3>5 DEF InPager
      <4>2. q \notin ToSet(semQ["shellSemaphore"])
        BY <2>0, <4>1, SemNames DEF WaitsRight, WaitsAt
      <4>. QED BY <3>2, <3>3, <4>1, <4>2, BlockedAt
    <3>. QED BY <3>1, <3>4, <3>5 DEF InTerminal
  <2>3. ASSUME NEW p \in Uprocs, pc[p] # "dead"
        PROVE  p = Shell /\ Shell \in ToSet(semQ["shellSemaphore"])
    <3>1. ~Ready(p)
      BY <2>0
    <3>2. p \notin ToSet(semQ["termWriteSemaphore"]) /\ p \notin ToSet(semQ["termReadSemaphore"])
      BY <2>2 DEF terminal
    <3>. QED BY <2>1, <2>3, <3>1, <3>2, BlockedAt
  <2>4. Shell \in ToSet(semQ["shellSemaphore"])
    BY <2>0, <2>3, <2>a DEF Alive
  <2>5. semVal["shellSemaphore"] = 0 /\ Joining
    BY <2>4, <2>e, SemNames DEF Joining
  <2>6. PICK k \in Unsignalled : TRUE
    BY <2>5, <2>a DEF HeldInv, ProgramRuns
  <2>7. k \in Kids /\ pc[k] # "dead"
    BY <2>6 DEF Unsignalled, Signalled
  <2>. QED BY <2>0, <2>3, <2>7, SyncTypes
<1>. QED BY <1>1, HeldCorrect, PTL
=============================================================================
