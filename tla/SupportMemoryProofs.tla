------------------------ MODULE SupportMemoryProofs ------------------------
(***************************************************************************)
(* Virtual memory, for any number of programs, ASIDs, pages and frames: as *)
(* long as flash operations succeed and an ASID is not reused before its   *)
(* last owner has gone, every frame, page table entry, TLB entry and flash *)
(* block tells the truth about the others, so a program reads what it      *)
(* wrote last.                                                             *)
(***************************************************************************)
EXTENDS SupportProofs

USE DEF Gone, TermLabel

Ended == Gone \cup {"sys2", "signal", "lock", "wipe", "unlock", "term"}
Freed == {"unlock", "term", "dead"}

(* An ASID has one live owner, and an occupied frame belongs to an ASID    *)
(* whose owner has yet to free its frames.                                 *)
OwnersApart ==
    \A p, q \in Uprocs :
        pc[p] # "dead" /\ pc[q] # "dead" /\ asidOf[p] = asidOf[q] => p = q
FramesOwned ==
    \A f \in Frames : swapPool[f] # FREE =>
        \E p \in Uprocs : asidOf[p] = swapPool[f][1] /\ pc[p] \notin Freed

(* Swap pool, page tables and TLB agree.                                   *)
FramesRight ==
    \A f \in Frames : swapPool[f] # FREE /\ ~Busy(f) =>
        ram[f] = Latest(swapPool[f]) /\ pte[swapPool[f]] = f
EntriesRight ==
    \A e \in Ptes : pte[e] \in Frames => swapPool[pte[e]] = e /\ ~Busy(pte[e])
TlbRight == \A e \in Ptes : tlb[e] # ABSENT => tlb[e] = pte[e]

(* What is not in memory is up to date on its flash device, and a block    *)
(* never holds another page.                                               *)
DiskRight ==
    \A e \in Ptes, p \in Running :
        asidOf[p] = e[1] /\ pte[e] = INVALID /\ ~Evicted(e) => flash[e] = Latest(e)
DiskOwn == \A e \in Ptes : flash[e] \in {Latest(e), Older(Latest(e))}

(* What the pager relies on between two of its steps.                      *)
FaultsOpen ==
    \A p \in Uprocs : pc[p] \in InPager \ {"release"} => pte[missing(p)] = INVALID
VictimRight ==
    \A p \in Uprocs : pc[p] = "evict" =>
        /\ swapPool[frame[p]] # FREE
        /\ ram[frame[p]] = Latest(swapPool[frame[p]])
        /\ pte[swapPool[frame[p]]] = INVALID
LoadedRight == \A p \in Uprocs : pc[p] = "map" => ram[frame[p]] = Latest(missing(p))

MemParts ==
    /\ OwnersApart /\ FramesOwned /\ FramesRight /\ EntriesRight /\ TlbRight
    /\ DiskRight /\ DiskOwn /\ FaultsOpen /\ VictimRight /\ LoadedRight

MemInv == Alive => MemParts

(* The values the proofs rely on, one place for all of them.               *)
LEMMA MemTypes ==
    ASSUME SyncInv
    PROVE  /\ pc \in [Procs -> Labels] /\ Uprocs \subseteq Procs
           /\ Uprocs = Kids \cup {Shell} /\ Shell \notin Kids /\ Inst \notin Uprocs
           /\ Inst \in Procs
           /\ vpn \in [Uprocs -> Vpns \cup {0}] /\ frame \in [Uprocs -> Frames]
           /\ asidOf \in [Uprocs -> Asids]
           /\ swapPool \in [Frames -> Ptes \cup {FREE}] /\ fifoCont \in Frames
           /\ pte \in [Ptes -> Frames \cup {INVALID}]
           /\ tlb \in [Ptes -> Frames \cup {INVALID, ABSENT}]
           /\ ram \in [Frames -> Contents] /\ flash \in [Ptes -> Contents]
           /\ FREE \notin Ptes /\ INVALID \notin Frames
           /\ ABSENT \notin Frames /\ ABSENT # INVALID
           /\ \A p \in Uprocs : pc[p] \in InPager => missing(p) \in Ptes
  BY ProcsAssumption, MarksAssumption
     DEF SyncInv, TypeInv, TypeOK, Uprocs, Procs, FaultsRight

(* Contents tell the page they belong to.                                  *)
LEMMA LatestOf ==
    /\ \A d, e : Latest(d) = Latest(e) => d = e
    /\ \A d, e \in Ptes : Older(Latest(d)) # Latest(e)
<1>1. \A d, e : Latest(d) = Latest(e) => d = e
  BY DEF Latest
<1>2. \A e \in Ptes : Latest(e) \in Ptes \X BOOLEAN
  BY DEF Latest
<1>3. \A e \in Ptes : Latest(e) # JUNK
  BY <1>2, MarksAssumption
<1>4. \A e \in Ptes : Older(Latest(e)) = <<e, FALSE>>
  BY <1>3 DEF Older, Latest
<1>5. \A d, e : <<d, FALSE>> # <<e, TRUE>>
  OBVIOUS
<1>. QED BY <1>1, <1>4, <1>5 DEF Latest

(* While a process is inside, nobody else works on a frame.                *)
LEMMA InsideAlone ==
    ASSUME SyncInv, NEW p \in Uprocs, NEW l \in Critical, At(p, l)
    PROVE  \A q \in Uprocs : pc[q] \in Picked => q = p
<1>1. p \in Inside
  BY SemNames DEF Inside, At, Ready
<1>. QED BY <1>1, PickedInside DEF SyncInv, OneInside
-----------------------------------------------------------------------------
(***************************************************************************)
(* Steps that leave the memory alone.                                      *)
(***************************************************************************)
Quiet ==
    /\ UNCHANGED <<swapPool, pte, tlb, ram, flash, asidOf>>
    /\ \A q \in Uprocs :
         \/ pc'[q] = pc[q] /\ frame'[q] = frame[q] /\ vpn'[q] = vpn[q]
         \/ /\ pc[q] \notin Picked /\ pc'[q] \notin Picked /\ pc[q] # "dead"
            /\ pc[q] \in Ended => pc'[q] \in Ended
            /\ pc'[q] \in Freed => pc[q] \in Freed
            /\ pc'[q] \in InPager \ {"release"} =>
                 vpn'[q] = vpn[q] /\ pte[missing(q)] = INVALID

LEMMA QuietStep ==
    ASSUME SyncInv, MemParts, Quiet
    PROVE  MemParts'
<1>1. \A q \in Uprocs : pc'[q] \in Picked \/ pc[q] \in Picked =>
           pc'[q] = pc[q] /\ frame'[q] = frame[q] /\ vpn'[q] = vpn[q]
  BY DEF Quiet
<1>2. \A f \in Frames : Busy(f)' <=> Busy(f)
  BY <1>1 DEF Busy, Picked
<1>3. \A e \in Ptes : Evicted(e)' <=> Evicted(e)
  BY <1>1 DEF Quiet, Evicted, Picked
<1>4. UNCHANGED <<swapPool, pte, tlb, ram, flash, asidOf>>
  BY DEF Quiet
<1>5. Running' \subseteq Running
  BY DEF Quiet, Running, Ended
<1>6. OwnersApart' /\ FramesOwned'
  <2>1. \A q \in Uprocs : (pc'[q] # "dead" => pc[q] # "dead") /\ (pc[q] \notin Freed => pc'[q] \notin Freed)
    BY DEF Quiet
  <2>. QED BY <1>4, <2>1 DEF MemParts, OwnersApart, FramesOwned
<1>7. FramesRight' /\ EntriesRight' /\ TlbRight'
  BY <1>2, <1>4, MemTypes DEF MemParts, FramesRight, EntriesRight, TlbRight
<1>8. DiskRight' /\ DiskOwn'
  BY <1>3, <1>4, <1>5 DEF MemParts, DiskRight, DiskOwn
<1>9. FaultsOpen'
  BY <1>4 DEF Quiet, MemParts, FaultsOpen, missing
<1>10. VictimRight' /\ LoadedRight'
  BY <1>1, <1>4 DEF MemParts, VictimRight, LoadedRight, missing, Picked
<1>. QED BY <1>6, <1>7, <1>8, <1>9, <1>10 DEF MemParts
-----------------------------------------------------------------------------
(***************************************************************************)
(* Steps that change it.                                                   *)
(***************************************************************************)
LEMMA RefillStep ==
    ASSUME SyncInv, MemParts, NEW p \in Uprocs, uTLB_RefillHandler(p)
    PROVE  MemParts'
<1>0. /\ vpn \in [Uprocs -> Vpns \cup {0}] /\ asidOf \in [Uprocs -> Asids]
      /\ tlb \in [Ptes -> Frames \cup {INVALID, ABSENT}]
  BY MemTypes
<1>1. UNCHANGED <<pc, ret, vpn, frame, asidOf, swapPool, pte, ram, flash>>
  BY DEF uTLB_RefillHandler, locals, paging
<1>2. PICK e \in Ptes : tlb' = [tlb EXCEPT ![e] = ABSENT, ![refillEntry(p)] = pte[refillEntry(p)]]
  BY DEF uTLB_RefillHandler
<1>3. refillEntry(p) \in Ptes
  BY <1>0, SizesFacts, SizesAssumption DEF refillEntry, Ptes
<1>4. TlbRight'
  <2>. DEFINE r == refillEntry(p)
  <2>. HIDE DEF r
  <2>1. tlb' = [tlb EXCEPT ![e] = ABSENT, ![r] = pte[r]] /\ r \in Ptes
    BY <1>2, <1>3 DEF r
  <2>2. \A d \in Ptes : tlb'[d] \in {ABSENT, tlb[d], pte[d]}
    BY <1>0, <2>1
  <2>. QED BY <1>1, <2>2 DEF MemParts, TlbRight
<1>5. /\ OwnersApart' /\ FramesOwned' /\ FaultsOpen' /\ VictimRight' /\ LoadedRight'
      /\ DiskOwn'
  BY <1>1 DEF MemParts, OwnersApart, FramesOwned, FaultsOpen, VictimRight, LoadedRight,
              DiskOwn, missing
<1>6. FramesRight' /\ EntriesRight' /\ DiskRight'
  <2>1. /\ \A f : Busy(f)' <=> Busy(f)
        /\ \A d : Evicted(d)' <=> Evicted(d)
        /\ Running' = Running
    BY <1>1 DEF Busy, Evicted, Running
  <2>. QED BY <1>1, <2>1 DEF MemParts, FramesRight, EntriesRight, DiskRight
<1>. QED BY <1>4, <1>5, <1>6 DEF MemParts

(* A store reaches the only copy that anybody will look at again.          *)
LEMMA StoreStep ==
    ASSUME SyncInv, MemParts, NEW p \in Uprocs, loadStore(p)
    PROVE  MemParts'
<1>. DEFINE e == missing(p)
            f == tlb[e]
            stored(c) == IF c = Latest(e) THEN Older(c) ELSE c
<1>0. /\ pc \in [Procs -> Labels] /\ Uprocs \subseteq Procs
      /\ vpn \in [Uprocs -> Vpns \cup {0}] /\ frame \in [Uprocs -> Frames]
      /\ ret \in [Uprocs -> {"user", "write", "read"}]
      /\ swapPool \in [Frames -> Ptes \cup {FREE}]
      /\ pte \in [Ptes -> Frames \cup {INVALID}]
      /\ ram \in [Frames -> Contents] /\ flash \in [Ptes -> Contents]
      /\ INVALID \notin Frames /\ ABSENT \notin Frames
      /\ \A q \in Uprocs : pc[q] \in InPager => missing(q) \in Ptes
  BY MemTypes, SyncTypes
<1>1. /\ pc[p] = "access" /\ pc'[p] = ret[p] /\ \A q \in Uprocs \ {p} : pc'[q] = pc[q]
      /\ \A q \in Uprocs \ {p} : vpn'[q] = vpn[q]
      /\ UNCHANGED <<frame, asidOf, swapPool, pte, tlb>>
  BY <1>0 DEF loadStore, At, Goto, paging
<1>2. e \in Ptes /\ f \in Frames
  BY DEF loadStore, hits
<1>3. \/ UNCHANGED <<ram, flash>>
      \/ /\ ram' = [g \in Frames |-> IF g = f THEN ram[g] ELSE stored(ram[g])]
         /\ flash' = [b \in Ptes |-> stored(flash[b])]
  BY DEF loadStore
<1>4. CASE UNCHANGED <<ram, flash>>
  <2>1. ret[p] \in {"user", "write", "read"}
    BY <1>0
  <2>2. Quiet
    BY <1>1, <1>4, <2>1 DEF Quiet, Picked, Ended, Freed, InPager
  <2>. QED BY <2>2, QuietStep
<1>5. CASE /\ ram' = [g \in Frames |-> IF g = f THEN ram[g] ELSE stored(ram[g])]
           /\ flash' = [b \in Ptes |-> stored(flash[b])]
  <2>0. ret[p] \in {"user", "write", "read"}
    BY <1>0
  <2>1. pte[e] = f /\ swapPool[f] = e
    BY <1>0, <1>2 DEF MemParts, TlbRight, EntriesRight
  <2>2. \A d \in Ptes : d # e => stored(Latest(d)) = Latest(d)
    BY LatestOf
  <2>3. \A g \in Frames, d \in Ptes : ram[g] = Latest(d) /\ (g = f \/ d # e) => ram'[g] = Latest(d)
    <3>. HIDE DEF e, f, stored
    <3>. QED BY <1>5, <2>2
  <2>4. \A d \in Ptes : flash[d] = Latest(d) /\ d # e => flash'[d] = Latest(d)
    <3>. HIDE DEF e, f, stored
    <3>. QED BY <1>5, <2>2
  <2>5. DiskOwn'
    <3>1. \A d \in Ptes : stored(Latest(d)) \in {Latest(d), Older(Latest(d))}
                        /\ stored(Older(Latest(d))) = Older(Latest(d))
      BY <1>2, LatestOf
    <3>. HIDE DEF e, f, stored
    <3>. QED BY <1>5, <3>1 DEF MemParts, DiskOwn
  <2>. HIDE DEF e, f, stored
  <2>6. /\ \A q \in Uprocs : pc'[q] \in InPager \/ pc[q] \in InPager =>
             q # p /\ pc'[q] = pc[q] /\ missing(q)' = missing(q)
        /\ \A q \in Uprocs : pc'[q] # "dead" => pc[q] # "dead"
        /\ \A q \in Uprocs : pc[q] \notin Freed => pc'[q] \notin Freed
    BY <1>1, <2>0 DEF InPager, missing, Freed
  <2>7. /\ \A g : Busy(g)' <=> Busy(g)
        /\ \A d : Evicted(d)' <=> Evicted(d)
        /\ Running' \subseteq Running
    BY <1>1, <2>0 DEF Busy, Evicted, Running
  <2>8. OwnersApart' /\ FramesOwned' /\ TlbRight'
    BY <1>1, <2>6 DEF MemParts, OwnersApart, FramesOwned, TlbRight
  <2>9. FramesRight'
    <3>. SUFFICES ASSUME NEW g \in Frames, swapPool[g] # FREE, ~Busy(g)
                  PROVE  ram'[g] = Latest(swapPool[g]) /\ pte[swapPool[g]] = g
      BY <1>1, <2>7 DEF FramesRight
    <3>1. ram[g] = Latest(swapPool[g]) /\ pte[swapPool[g]] = g /\ swapPool[g] \in Ptes
      BY <1>0 DEF MemParts, FramesRight
    <3>2. g = f \/ swapPool[g] # e
      BY <2>1, <3>1
    <3>. QED BY <2>3, <3>1, <3>2
  <2>10. EntriesRight'
    BY <1>1, <2>7 DEF MemParts, EntriesRight
  <2>11. DiskRight'
    BY <1>0, <1>1, <1>2, <2>1, <2>4, <2>7 DEF MemParts, DiskRight
  <2>12. FaultsOpen'
    BY <1>1, <2>6 DEF MemParts, FaultsOpen
  <2>13. VictimRight'
    <3>. SUFFICES ASSUME NEW q \in Uprocs, pc'[q] = "evict"
                  PROVE  /\ swapPool[frame[q]] # FREE
                         /\ ram'[frame[q]] = Latest(swapPool[frame[q]])
                         /\ pte[swapPool[frame[q]]] = INVALID
      BY <1>1 DEF VictimRight
    <3>1. /\ swapPool[frame[q]] # FREE /\ ram[frame[q]] = Latest(swapPool[frame[q]])
          /\ pte[swapPool[frame[q]]] = INVALID
      BY <2>6 DEF MemParts, VictimRight, InPager
    <3>2. swapPool[frame[q]] \in Ptes /\ frame[q] \in Frames /\ swapPool[frame[q]] # e
      BY <1>0, <1>2, <2>1, <3>1
    <3>. QED BY <2>3, <3>1, <3>2
  <2>14. LoadedRight'
    <3>. SUFFICES ASSUME NEW q \in Uprocs, pc'[q] = "map"
                  PROVE  ram'[frame[q]] = Latest(missing(q)')
      BY <1>1 DEF LoadedRight
    <3>1. pc[q] = "map" /\ missing(q)' = missing(q) /\ missing(q) \in Ptes
      BY <1>0, <2>6 DEF InPager
    <3>2. ram[frame[q]] = Latest(missing(q)) /\ pte[missing(q)] = INVALID
      BY <3>1 DEF MemParts, LoadedRight, FaultsOpen, InPager
    <3>3. frame[q] \in Frames /\ missing(q) # e
      BY <1>0, <1>2, <2>1, <3>2
    <3>. QED BY <2>3, <3>1, <3>2, <3>3
  <2>. QED BY <2>5, <2>8, <2>9, <2>10, <2>11, <2>12, <2>13, <2>14 DEF MemParts
<1>. QED BY <1>3, <1>4, <1>5

(* A step of the pager moves its process along InPager only.               *)
LEMMA PagerMoves ==
    ASSUME SyncInv, MemParts, NEW p \in Uprocs, NEW l \in InPager, NEW m \in InPager,
           At(p, l), Goto(p, m), UNCHANGED <<vpn, asidOf>>
    PROVE  /\ pc[p] = l /\ pc'[p] = m /\ \A q \in Uprocs \ {p} : pc'[q] = pc[q]
           /\ \A q \in Uprocs : missing(q)' = missing(q)
           /\ \A q \in Uprocs : pc[q] \in Picked \/ pc'[q] \in Picked => q = p
           /\ Running' = Running /\ p \in Running
           /\ OwnersApart'
           /\ \A q \in Uprocs : pc[q] \notin Freed => pc'[q] \notin Freed
           /\ p \in Uprocs /\ pc[p] \notin Freed
<1>0. pc \in [Procs -> Labels] /\ Uprocs \subseteq Procs
  BY MemTypes
<1>1. pc[p] = l /\ pc'[p] = m /\ \A q \in Uprocs \ {p} : pc'[q] = pc[q]
  BY <1>0 DEF At, Goto
<1>2. l \notin Ended /\ m \notin Ended /\ "dead" \in Ended /\ Freed \subseteq Ended
  BY DEF InPager, Ended, Freed
<1>3. \A q \in Uprocs : pc[q] \in Picked => q = p
  BY InsideAlone DEF Critical
<1>4. Running' = Running /\ p \in Running
  BY <1>1, <1>2 DEF Running, Ended
<1>5. OwnersApart'
  BY <1>1, <1>2 DEF MemParts, OwnersApart
<1>. QED BY <1>1, <1>2, <1>3, <1>4, <1>5 DEF missing

(* The victim's entry is invalid before its frame is touched.              *)
LEMMA PickStep ==
    ASSUME SyncInv, MemParts, NEW p \in Uprocs, pagerPick(p)
    PROVE  MemParts'
<1>0. /\ pc \in [Procs -> Labels] /\ Uprocs \subseteq Procs
      /\ vpn \in [Uprocs -> Vpns \cup {0}] /\ frame \in [Uprocs -> Frames]
      /\ asidOf \in [Uprocs -> Asids]
      /\ swapPool \in [Frames -> Ptes \cup {FREE}]
      /\ pte \in [Ptes -> Frames \cup {INVALID}]
      /\ tlb \in [Ptes -> Frames \cup {INVALID, ABSENT}]
      /\ ram \in [Frames -> Contents] /\ flash \in [Ptes -> Contents]
      /\ FREE \notin Ptes /\ INVALID \notin Frames
      /\ \A q \in Uprocs : pc[q] \in InPager => missing(q) \in Ptes
  BY MemTypes
<1>1. PICK i \in Frames :
         /\ frame' = [frame EXCEPT ![p] = i]
         /\ \/ /\ swapPool[i] # FREE
               /\ pte' = [pte EXCEPT ![swapPool[i]] = INVALID]
               /\ tlb' = updateTLB(tlb, swapPool[i], INVALID)
               /\ Goto(p, "evict")
            \/ /\ swapPool[i] = FREE
               /\ Goto(p, "load")
               /\ UNCHANGED <<pte, tlb>>
  BY DEF pagerPick
<1>2. PICK m \in {"evict", "load"} : Goto(p, m) /\ (m = "evict" <=> swapPool[i] # FREE)
  BY <1>1
<1>3. /\ At(p, "pick") /\ UNCHANGED <<vpn, asidOf, swapPool, ram, flash>>
      /\ "pick" \in InPager /\ m \in InPager
  BY DEF pagerPick, InPager
<1>4. /\ pc[p] = "pick" /\ pc'[p] = m /\ \A q \in Uprocs \ {p} : pc'[q] = pc[q]
      /\ \A q \in Uprocs : missing(q)' = missing(q)
      /\ \A q \in Uprocs : pc[q] \in Picked \/ pc'[q] \in Picked => q = p
      /\ Running' = Running /\ OwnersApart'
      /\ \A q \in Uprocs : pc[q] \notin Freed => pc'[q] \notin Freed
  BY <1>2, <1>3, PagerMoves
<1>5. /\ \A f : ~Busy(f) /\ (Busy(f)' => f = i)
      /\ \A e : ~Evicted(e) /\ (swapPool[i] = e /\ e # FREE => Evicted(e)')
  BY <1>0, <1>1, <1>2, <1>3, <1>4 DEF Busy, Evicted, Picked
<1>6. /\ swapPool[i] # FREE => swapPool[i] \in Ptes
      /\ \A e \in Ptes : pte'[e] = IF e = swapPool[i] THEN INVALID ELSE pte[e]
      /\ \A e \in Ptes : tlb'[e] = IF e = swapPool[i] /\ tlb[e] # ABSENT THEN INVALID ELSE tlb[e]
  BY <1>0, <1>1 DEF updateTLB
<1>7. FramesOwned'
  BY <1>3, <1>4 DEF MemParts, FramesOwned
<1>8. FramesRight'
  <2>. SUFFICES ASSUME NEW f \in Frames, swapPool[f] # FREE, ~Busy(f)'
                PROVE  ram[f] = Latest(swapPool[f]) /\ pte'[swapPool[f]] = f
    BY <1>3 DEF FramesRight
  <2>1. ram[f] = Latest(swapPool[f]) /\ pte[swapPool[f]] = f /\ swapPool[f] \in Ptes
    BY <1>0, <1>5 DEF MemParts, FramesRight
  <2>2. f # i
    BY <1>0, <1>1, <1>2, <1>4 DEF Busy
  <2>3. swapPool[i] # FREE => pte[swapPool[i]] = i
    BY <1>5 DEF MemParts, FramesRight
  <2>. QED BY <1>6, <2>1, <2>2, <2>3
<1>9. EntriesRight'
  <2>. SUFFICES ASSUME NEW e \in Ptes, pte'[e] \in Frames
                PROVE  swapPool[pte'[e]] = e /\ pte'[e] # i
    BY <1>3, <1>5 DEF EntriesRight
  <2>1. pte'[e] = pte[e] /\ e # swapPool[i]
    BY <1>0, <1>6
  <2>2. swapPool[pte[e]] = e
    BY <2>1 DEF MemParts, EntriesRight
  <2>. QED BY <2>1, <2>2
<1>10. TlbRight'
  BY <1>6 DEF MemParts, TlbRight
<1>11. DiskRight' /\ DiskOwn'
  <2>1. \A e \in Ptes : pte'[e] = INVALID /\ ~Evicted(e)' => pte[e] = INVALID
    BY <1>0, <1>5, <1>6
  <2>. QED BY <1>3, <1>4, <1>5, <2>1 DEF MemParts, DiskRight, DiskOwn
<1>12. FaultsOpen'
  <2>1. \A q \in Uprocs : pc'[q] \in InPager \ {"release"} => pc[q] \in InPager \ {"release"}
    BY <1>3, <1>4
  <2>2. \A q \in Uprocs : pc'[q] \in InPager \ {"release"} =>
             missing(q) \in Ptes /\ pte[missing(q)] = INVALID
    BY <1>0, <2>1 DEF MemParts, FaultsOpen
  <2>. QED BY <1>4, <1>6, <2>2 DEF FaultsOpen
<1>13. VictimRight'
  <2>. SUFFICES ASSUME NEW q \in Uprocs, pc'[q] = "evict"
                PROVE  /\ swapPool[frame'[q]] # FREE
                       /\ ram[frame'[q]] = Latest(swapPool[frame'[q]])
                       /\ pte'[swapPool[frame'[q]]] = INVALID
    BY <1>3 DEF VictimRight
  <2>1. q = p /\ frame'[q] = i /\ swapPool[i] # FREE
    BY <1>0, <1>1, <1>2, <1>4 DEF Picked
  <2>. QED BY <1>5, <1>6, <2>1 DEF MemParts, FramesRight
<1>14. LoadedRight'
  BY <1>2, <1>4 DEF LoadedRight, Picked
<1>. QED BY <1>4, <1>7, <1>8, <1>9, <1>10, <1>11, <1>12, <1>13, <1>14 DEF MemParts

(* The write-back puts the victim's page where it will be looked for.      *)
LEMMA WriteStep ==
    ASSUME SyncInv, MemParts, ~WriteFails, NEW p \in Uprocs, pagerWrite(p)
    PROVE  MemParts'
<1>. DEFINE i == frame[p]
            v == swapPool[i]
<1>0. /\ pc \in [Procs -> Labels] /\ Uprocs \subseteq Procs
      /\ vpn \in [Uprocs -> Vpns \cup {0}] /\ frame \in [Uprocs -> Frames]
      /\ asidOf \in [Uprocs -> Asids]
      /\ swapPool \in [Frames -> Ptes \cup {FREE}]
      /\ pte \in [Ptes -> Frames \cup {INVALID}]
      /\ tlb \in [Ptes -> Frames \cup {INVALID, ABSENT}]
      /\ ram \in [Frames -> Contents] /\ flash \in [Ptes -> Contents]
      /\ FREE \notin Ptes /\ INVALID \notin Frames
      /\ \A q \in Uprocs : pc[q] \in InPager => missing(q) \in Ptes
  BY MemTypes
<1>1. /\ At(p, "evict") /\ Goto(p, "load") /\ flash' = [flash EXCEPT ![v] = ram[i]]
      /\ UNCHANGED <<vpn, frame, asidOf, swapPool, pte, tlb, ram>>
      /\ "evict" \in InPager /\ "load" \in InPager
  BY DEF pagerWrite, readWriteFlashdrive, locals, paging, InPager
<1>2. /\ pc[p] = "evict" /\ pc'[p] = "load" /\ \A q \in Uprocs \ {p} : pc'[q] = pc[q]
      /\ \A q \in Uprocs : missing(q)' = missing(q)
      /\ \A q \in Uprocs : pc[q] \in Picked \/ pc'[q] \in Picked => q = p
      /\ Running' = Running /\ OwnersApart'
      /\ \A q \in Uprocs : pc[q] \notin Freed => pc'[q] \notin Freed
  BY <1>1, PagerMoves
<1>3. v \in Ptes /\ ram[i] = Latest(v)
  BY <1>0, <1>2 DEF MemParts, VictimRight
<1>. HIDE DEF i, v
<1>4. /\ \A f : Busy(f)' <=> Busy(f)
      /\ \A e \in Ptes : Evicted(e) => e = v
  BY <1>1, <1>2 DEF Busy, Evicted, Picked, i, v
<1>5. \A e \in Ptes : flash'[e] = IF e = v THEN Latest(e) ELSE flash[e]
  BY <1>0, <1>1, <1>3
<1>6. FramesOwned' /\ TlbRight'
  BY <1>1, <1>2 DEF MemParts, FramesOwned, TlbRight
<1>7. FramesRight' /\ EntriesRight'
  BY <1>1, <1>4 DEF MemParts, FramesRight, EntriesRight
<1>8. DiskRight' /\ DiskOwn'
  BY <1>1, <1>2, <1>4, <1>5 DEF MemParts, DiskRight, DiskOwn
<1>9. FaultsOpen'
  BY <1>1, <1>2 DEF MemParts, FaultsOpen
<1>10. VictimRight' /\ LoadedRight'
  BY <1>2 DEF VictimRight, LoadedRight, Picked
<1>. QED BY <1>2, <1>6, <1>7, <1>8, <1>9, <1>10 DEF MemParts

(* What is read is what the program wrote last.                            *)
LEMMA ReadStep ==
    ASSUME SyncInv, MemParts, ~ReadFails, NEW p \in Uprocs, pagerRead(p)
    PROVE  MemParts'
<1>. DEFINE i == frame[p]
            e == missing(p)
<1>0. /\ pc \in [Procs -> Labels] /\ Uprocs \subseteq Procs
      /\ vpn \in [Uprocs -> Vpns \cup {0}] /\ frame \in [Uprocs -> Frames]
      /\ asidOf \in [Uprocs -> Asids]
      /\ swapPool \in [Frames -> Ptes \cup {FREE}]
      /\ pte \in [Ptes -> Frames \cup {INVALID}]
      /\ tlb \in [Ptes -> Frames \cup {INVALID, ABSENT}]
      /\ ram \in [Frames -> Contents] /\ flash \in [Ptes -> Contents]
      /\ FREE \notin Ptes /\ INVALID \notin Frames
      /\ \A q \in Uprocs : pc[q] \in InPager => missing(q) \in Ptes
  BY MemTypes
<1>1. /\ At(p, "load") /\ Goto(p, "map") /\ ram' = [ram EXCEPT ![i] = flash[e]]
      /\ UNCHANGED <<vpn, frame, asidOf, swapPool, pte, tlb, flash>>
      /\ "load" \in InPager /\ "map" \in InPager
  BY DEF pagerRead, readWriteFlashdrive, locals, paging, InPager
<1>2. /\ pc[p] = "load" /\ pc'[p] = "map" /\ \A q \in Uprocs \ {p} : pc'[q] = pc[q]
      /\ \A q \in Uprocs : missing(q)' = missing(q)
      /\ \A q \in Uprocs : pc[q] \in Picked \/ pc'[q] \in Picked => q = p
      /\ Running' = Running /\ p \in Running /\ OwnersApart'
      /\ \A q \in Uprocs : pc[q] \notin Freed => pc'[q] \notin Freed
  BY <1>1, PagerMoves
<1>3. /\ \A f : Busy(f)' <=> Busy(f)
      /\ \A d : ~Evicted(d) /\ ~Evicted(d)'
      /\ Busy(i) /\ i \in Frames
  BY <1>0, <1>1, <1>2 DEF Busy, Evicted, Picked
<1>4. e \in Ptes /\ pte[e] = INVALID /\ asidOf[p] = e[1]
  BY <1>0, <1>2 DEF MemParts, FaultsOpen, InPager, missing
<1>5. flash[e] = Latest(e)
  <2>. HIDE DEF e
  <2>. QED BY <1>2, <1>3, <1>4 DEF MemParts, DiskRight
<1>6. ram'[i] = Latest(e) /\ \A f \in Frames \ {i} : ram'[f] = ram[f]
  BY <1>0, <1>1, <1>3, <1>5
<1>7. FramesOwned' /\ TlbRight' /\ DiskOwn'
  BY <1>1, <1>2 DEF MemParts, FramesOwned, TlbRight, DiskOwn
<1>8. FramesRight' /\ EntriesRight'
  BY <1>1, <1>3, <1>6 DEF MemParts, FramesRight, EntriesRight
<1>9. DiskRight'
  BY <1>1, <1>2, <1>3 DEF MemParts, DiskRight
<1>10. FaultsOpen'
  BY <1>1, <1>2 DEF MemParts, FaultsOpen
<1>11. VictimRight' /\ LoadedRight'
  BY <1>1, <1>2, <1>6 DEF VictimRight, LoadedRight, Picked
<1>. QED BY <1>2, <1>7, <1>8, <1>9, <1>10, <1>11 DEF MemParts

(* The page is mapped once it is there, and nothing else is mapped to its  *)
(* frame.                                                                  *)
LEMMA MapStep ==
    ASSUME SyncInv, MemParts, NEW p \in Uprocs, pagerMap(p)
    PROVE  MemParts'
<1>. DEFINE i == frame[p]
            e == missing(p)
<1>0. /\ pc \in [Procs -> Labels] /\ Uprocs \subseteq Procs
      /\ vpn \in [Uprocs -> Vpns \cup {0}] /\ frame \in [Uprocs -> Frames]
      /\ asidOf \in [Uprocs -> Asids]
      /\ swapPool \in [Frames -> Ptes \cup {FREE}]
      /\ pte \in [Ptes -> Frames \cup {INVALID}]
      /\ tlb \in [Ptes -> Frames \cup {INVALID, ABSENT}]
      /\ ram \in [Frames -> Contents] /\ flash \in [Ptes -> Contents]
      /\ FREE \notin Ptes /\ INVALID \notin Frames
      /\ \A q \in Uprocs : pc[q] \in InPager => missing(q) \in Ptes
  BY MemTypes
<1>1. /\ At(p, "map") /\ Goto(p, "release")
      /\ swapPool' = [swapPool EXCEPT ![i] = e]
      /\ pte' = [pte EXCEPT ![e] = i] /\ tlb' = updateTLB(tlb, e, i)
      /\ UNCHANGED <<vpn, frame, asidOf, ram, flash>>
      /\ "map" \in InPager /\ "release" \in InPager
  BY DEF pagerMap, locals, InPager
<1>2. /\ pc[p] = "map" /\ pc'[p] = "release" /\ \A q \in Uprocs \ {p} : pc'[q] = pc[q]
      /\ \A q \in Uprocs : missing(q)' = missing(q)
      /\ \A q \in Uprocs : pc[q] \in Picked \/ pc'[q] \in Picked => q = p
      /\ Running' = Running /\ OwnersApart'
      /\ \A q \in Uprocs : pc[q] \notin Freed => pc'[q] \notin Freed
  BY <1>1, PagerMoves
<1>3. e \in Ptes /\ pte[e] = INVALID /\ ram[i] = Latest(e) /\ i \in Frames /\ asidOf[p] = e[1]
  BY <1>0, <1>2 DEF MemParts, FaultsOpen, LoadedRight, InPager, missing
<1>4. /\ \A f \in Frames : ~Busy(f)' /\ (Busy(f) <=> f = i)
      /\ \A d : ~Evicted(d) /\ ~Evicted(d)'
  BY <1>1, <1>2 DEF Busy, Evicted, Picked
<1>5. /\ \A d \in Ptes : pte'[d] = IF d = e THEN i ELSE pte[d]
      /\ \A f \in Frames : swapPool'[f] = IF f = i THEN e ELSE swapPool[f]
      /\ \A d \in Ptes : tlb'[d] = IF d = e /\ tlb[d] # ABSENT THEN i ELSE tlb[d]
  BY <1>0, <1>1, <1>3 DEF updateTLB
<1>f. \A q \in Uprocs : pc'[q] \in InPager \ {"release"} =>
           missing(q) \in Ptes /\ missing(q) # e /\ pte[missing(q)] = INVALID
  <2>. SUFFICES ASSUME NEW q \in Uprocs, pc'[q] \in InPager \ {"release"}
                PROVE  missing(q) \in Ptes /\ missing(q) # e /\ pte[missing(q)] = INVALID
    OBVIOUS
  <2>1. q # p /\ pc[q] \in InPager \ {"release"}
    BY <1>2
  <2>2. asidOf[q] # asidOf[p]
    BY <1>2, <2>1 DEF MemParts, OwnersApart, InPager
  <2>3. missing(q)[1] # missing(p)[1]
    BY <2>2 DEF missing
  <2>. QED BY <1>0, <2>1, <2>3 DEF MemParts, FaultsOpen
<1>. HIDE DEF i, e
<1>6. FramesOwned'
  <2>1. pc'[p] \notin Freed /\ asidOf'[p] = e[1]
    BY <1>1, <1>2, <1>3 DEF Freed
  <2>. QED BY <1>1, <1>2, <1>5, <2>1 DEF MemParts, FramesOwned
<1>7. FramesRight'
  <2>1. \A f \in Frames \ {i} : swapPool[f] # FREE =>
            ram[f] = Latest(swapPool[f]) /\ pte[swapPool[f]] = f /\ swapPool[f] \in Ptes
    BY <1>0, <1>4 DEF MemParts, FramesRight
  <2>2. \A f \in Frames \ {i} : swapPool[f] # FREE => swapPool[f] # e
    BY <1>0, <1>3, <2>1
  <2>. QED BY <1>1, <1>3, <1>5, <2>1, <2>2 DEF FramesRight
<1>8. EntriesRight'
  <2>1. \A d \in Ptes \ {e} : pte[d] \in Frames => swapPool[pte[d]] = d /\ pte[d] # i
    BY <1>4 DEF MemParts, EntriesRight
  <2>. QED BY <1>3, <1>4, <1>5, <2>1 DEF EntriesRight
<1>9. TlbRight'
  BY <1>5 DEF MemParts, TlbRight
<1>10. DiskRight' /\ DiskOwn'
  <2>1. \A d \in Ptes : pte'[d] = INVALID => pte[d] = INVALID
    BY <1>0, <1>3, <1>5
  <2>. QED BY <1>1, <1>2, <1>4, <2>1 DEF MemParts, DiskRight, DiskOwn
<1>11. FaultsOpen'
  BY <1>2, <1>5, <1>f DEF FaultsOpen
<1>12. VictimRight' /\ LoadedRight'
  BY <1>2 DEF VictimRight, LoadedRight, Picked
<1>. QED BY <1>2, <1>6, <1>7, <1>8, <1>9, <1>10, <1>11, <1>12 DEF MemParts

(* freeSwapFrames takes the frames and the entries of its ASID, all of     *)
(* them and no other.                                                      *)
LEMMA WipeStep ==
    ASSUME SyncInv, MemParts, NEW p \in Uprocs, freeSwapFramesWipe(p)
    PROVE  MemParts'
<1>. DEFINE a == asidOf[p]
            mine == {f \in Frames : swapPool[f] # FREE /\ swapPool[f][1] = a}
            entries == {swapPool[f] : f \in mine}
<1>0. /\ pc \in [Procs -> Labels] /\ Uprocs \subseteq Procs
      /\ vpn \in [Uprocs -> Vpns \cup {0}] /\ frame \in [Uprocs -> Frames]
      /\ asidOf \in [Uprocs -> Asids]
      /\ swapPool \in [Frames -> Ptes \cup {FREE}]
      /\ pte \in [Ptes -> Frames \cup {INVALID}]
      /\ tlb \in [Ptes -> Frames \cup {INVALID, ABSENT}]
      /\ ram \in [Frames -> Contents] /\ flash \in [Ptes -> Contents]
      /\ FREE \notin Ptes /\ INVALID \notin Frames
      /\ \A q \in Uprocs : pc[q] \in InPager => missing(q) \in Ptes
  BY MemTypes
<1>1. /\ At(p, "wipe") /\ Goto(p, "unlock")
      /\ swapPool' = [f \in Frames |-> IF f \in mine THEN FREE ELSE swapPool[f]]
      /\ pte' = [e \in Ptes |-> IF e \in entries THEN INVALID ELSE pte[e]]
      /\ tlb' = [e \in Ptes |-> ABSENT]
      /\ UNCHANGED <<vpn, frame, asidOf, ram, flash>>
  BY DEF freeSwapFramesWipe, locals
<1>2. pc[p] = "wipe" /\ pc'[p] = "unlock" /\ \A q \in Uprocs \ {p} : pc'[q] = pc[q]
  BY <1>0, <1>1 DEF At, Goto
<1>3. \A q \in Uprocs : pc[q] \notin Picked /\ pc'[q] \notin Picked
  <2>1. \A q \in Uprocs : pc[q] \in Picked => q = p
    BY <1>1, InsideAlone DEF Critical, InWipe
  <2>. QED BY <1>2, <2>1 DEF Picked
<1>4. /\ \A f : ~Busy(f) /\ ~Busy(f)'
      /\ \A e : ~Evicted(e) /\ ~Evicted(e)'
  BY <1>3 DEF Busy, Evicted, Picked
<1>5. /\ \A f \in mine : f \in Frames /\ swapPool[f] # FREE /\ swapPool[f][1] = a
      /\ \A f \in Frames : swapPool[f] # FREE /\ swapPool[f][1] = a => f \in mine
      /\ \A f \in mine : swapPool[f] \in entries
      /\ \A e \in entries : e[1] = a
  OBVIOUS
<1>. HIDE DEF mine, entries
<1>6. OwnersApart'
  BY <1>1, <1>2 DEF MemParts, OwnersApart
<1>7. FramesOwned'
  <2>. SUFFICES ASSUME NEW f \in Frames, swapPool'[f] # FREE
                PROVE  \E q \in Uprocs : asidOf[q] = swapPool'[f][1] /\ pc'[q] \notin Freed
    BY <1>1 DEF FramesOwned
  <2>1. swapPool'[f] = swapPool[f] /\ swapPool[f][1] # a
    BY <1>1, <1>5
  <2>2. PICK q \in Uprocs : asidOf[q] = swapPool[f][1] /\ pc[q] \notin Freed
    BY <2>1 DEF MemParts, FramesOwned
  <2>. QED BY <1>2, <2>1, <2>2
<1>8. FramesRight'
  <2>. SUFFICES ASSUME NEW f \in Frames, swapPool'[f] # FREE
                PROVE  ram[f] = Latest(swapPool'[f]) /\ pte'[swapPool'[f]] = f
    BY <1>1 DEF FramesRight
  <2>1. swapPool'[f] = swapPool[f] /\ swapPool[f][1] # a /\ swapPool[f] \in Ptes
    BY <1>0, <1>1, <1>5
  <2>2. swapPool[f] \notin entries
    BY <1>5, <2>1
  <2>3. ram[f] = Latest(swapPool[f]) /\ pte[swapPool[f]] = f
    BY <1>4, <2>1 DEF MemParts, FramesRight
  <2>. QED BY <1>1, <2>1, <2>2, <2>3
<1>9. EntriesRight'
  <2>. SUFFICES ASSUME NEW e \in Ptes, pte'[e] \in Frames
                PROVE  swapPool'[pte'[e]] = e
    BY <1>4 DEF EntriesRight
  <2>1. pte'[e] = pte[e] /\ e \notin entries
    BY <1>0, <1>1
  <2>2. swapPool[pte[e]] = e
    BY <2>1 DEF MemParts, EntriesRight
  <2>3. pte[e] \notin mine
    BY <1>5, <2>1, <2>2
  <2>. QED BY <1>1, <2>1, <2>2, <2>3
<1>10. TlbRight'
  BY <1>1 DEF TlbRight
<1>11. DiskRight' /\ DiskOwn'
  <2>1. Running' = Running /\ p \notin Running
    BY <1>2 DEF Running
  <2>2. ASSUME NEW e \in Ptes, NEW q \in Running, asidOf[q] = e[1], pte'[e] = INVALID
        PROVE  pte[e] = INVALID
    <3>1. q \in Uprocs /\ pc[q] # "dead" /\ q # p
      BY <2>1 DEF Running
    <3>2. asidOf[q] # a
      BY <1>2, <3>1 DEF MemParts, OwnersApart
    <3>3. e \notin entries
      BY <1>5, <2>2, <3>2
    <3>. QED BY <1>1, <2>2, <3>3
  <2>. QED BY <1>1, <1>4, <2>1, <2>2 DEF MemParts, DiskRight, DiskOwn
<1>12. FaultsOpen'
  <2>1. \A q \in Uprocs : pc'[q] \in InPager => pc[q] = pc'[q]
    BY <1>2 DEF InPager
  <2>2. \A q \in Uprocs : missing(q)' = missing(q)
    BY <1>1 DEF missing
  <2>. QED BY <1>0, <1>1, <2>1, <2>2 DEF MemParts, FaultsOpen
<1>13. VictimRight' /\ LoadedRight'
  BY <1>3 DEF VictimRight, LoadedRight, Picked
<1>. QED BY <1>6, <1>7, <1>8, <1>9, <1>10, <1>11, <1>12, <1>13 DEF MemParts

(* A new program finds no frame, no entry and no TLB entry of its ASID.    *)
LEMMA ExecStep ==
    ASSUME SyncInv, MemParts, ~Reuse, NEW a \in Asids, sys6(a)
    PROVE  MemParts'
<1>0. /\ pc \in [Procs -> Labels] /\ Uprocs \subseteq Procs
      /\ Uprocs = Kids \cup {Shell} /\ Shell \notin Kids
      /\ vpn \in [Uprocs -> Vpns \cup {0}] /\ frame \in [Uprocs -> Frames]
      /\ asidOf \in [Uprocs -> Asids]
      /\ swapPool \in [Frames -> Ptes \cup {FREE}]
      /\ pte \in [Ptes -> Frames \cup {INVALID}]
      /\ tlb \in [Ptes -> Frames \cup {INVALID, ABSENT}]
      /\ ram \in [Frames -> Contents] /\ flash \in [Ptes -> Contents]
      /\ FREE \notin Ptes /\ INVALID \notin Frames
      /\ \A q \in Uprocs : pc[q] \in InPager => missing(q) \in Ptes
  BY MemTypes
<1>1. /\ pc[Shell] = "user" /\ a # SHELL_ASID /\ initUProc(a) /\ UNCHANGED <<swapPool, tlb>>
      /\ \A k \in Kids : asidOf[k] = a => pc[k] = "dead"
  BY DEF sys6, createUProc, At, paging
<1>2. \A q \in Uprocs : asidOf[q] = a => pc[q] = "dead"
  BY <1>0, <1>1 DEF SyncInv, AsidsRight
(* Nothing of this ASID is left, and everybody else is where it was.       *)
<1>3. \A f \in Frames : swapPool[f] # FREE => swapPool[f][1] # a
  BY <1>2 DEF MemParts, FramesOwned, Freed
<1>4. \A e \in Ptes : e[1] = a => pte[e] = INVALID
  BY <1>0, <1>3 DEF MemParts, EntriesRight
<1>5. \A e \in Ptes : pte'[e] = pte[e]
  BY <1>1, <1>4 DEF initUProc
<1>6. \A e \in Ptes : flash'[e] = IF e[1] = a THEN Latest(e) ELSE flash[e]
  <2>1. \A e \in Ptes : flash'[e] = IF e[1] = a /\ flash[e] = Older(Latest(e)) THEN Latest(e) ELSE flash[e]
    BY <1>1 DEF initUProc
  <2>. QED BY <2>1 DEF MemParts, DiskOwn
<1>7. \A f \in Frames, d \in Ptes : ram[f] = Latest(d) /\ d[1] # a => ram'[f] = ram[f]
  <2>1. \A f \in Frames : ram'[f] =
             IF \E e \in Ptes : e[1] = a /\ ram[f] = Latest(e) /\ flash[e] # ram[f]
             THEN Older(ram[f]) ELSE ram[f]
    BY <1>1 DEF initUProc
  <2>2. \A f \in Frames, d \in Ptes : ram[f] = Latest(d) /\ d[1] # a =>
             ~ \E e \in Ptes : e[1] = a /\ ram[f] = Latest(e)
    BY LatestOf
  <2>. QED BY <2>1, <2>2
<1>8. PICK S \in SUBSET Kids :
         /\ \A q, r \in S : q = r
         /\ \A q \in S : pc[q] = "dead" /\ pc'[q] = "access" /\ asidOf'[q] = a
         /\ \A q \in Kids \ S : pc'[q] = pc[q]
         /\ pc'[Shell] \in {"join", "sys2"}
         /\ \A q \in Uprocs \ S : asidOf'[q] = asidOf[q] /\ vpn'[q] = vpn[q] /\ frame'[q] = frame[q]
  <2>. DEFINE Started(S) ==
         /\ \A q, r \in S : q = r
         /\ \A q \in S : pc[q] = "dead" /\ pc'[q] = "access" /\ asidOf'[q] = a
         /\ \A q \in Kids \ S : pc'[q] = pc[q]
         /\ pc'[Shell] \in {"join", "sys2"}
         /\ \A q \in Uprocs \ S : asidOf'[q] = asidOf[q] /\ vpn'[q] = vpn[q] /\ frame'[q] = frame[q]
  <2>1. ASSUME NEW k \in Kids, pc[k] = "dead",
               pc' = [pc EXCEPT ![k] = "access", ![Shell] = "join"],
               asidOf' = [asidOf EXCEPT ![k] = a],
               vpn' = [vpn EXCEPT ![k] = 0],
               frame' = [frame EXCEPT ![k] = 0]
        PROVE  Started({k})
    BY <1>0, <2>1
  <2>2. ASSUME Goto(Shell, "sys2"), UNCHANGED locals
        PROVE  Started({})
    BY <1>0, <2>2 DEF Goto, locals
  <2>3. \E S \in SUBSET Kids : Started(S)
    <3>. HIDE DEF Started
    <3>. QED BY <2>1, <2>2 DEF sys6, createUProc
  <2>. QED BY <2>3
<1>9. \A q \in Uprocs : pc'[q] \in Picked \/ pc[q] \in Picked \/ pc'[q] \in InPager =>
         /\ pc'[q] = pc[q] /\ frame'[q] = frame[q] /\ missing(q)' = missing(q)
         /\ asidOf[q] # a
  <2>1. /\ {"access", "user", "join", "sys2", "dead"} \cap (Picked \cup InPager) = {}
    BY DEF Picked, InPager
  <2>2. \A q \in Uprocs : pc'[q] \in Picked \/ pc[q] \in Picked \/ pc'[q] \in InPager =>
            q # Shell /\ q \notin S /\ pc[q] # "dead"
    BY <1>0, <1>1, <1>8, <2>1
  <2>. QED BY <1>0, <1>2, <1>8, <2>2 DEF missing
<1>10. /\ \A f : Busy(f)' <=> Busy(f)
       /\ \A e : Evicted(e)' <=> Evicted(e)
  BY <1>1, <1>9 DEF Busy, Evicted, Picked
<1>11. OwnersApart'
  <2>1. \A q \in Uprocs : pc'[q] # "dead" => (q \in S /\ asidOf'[q] = a) \/ (pc[q] # "dead" /\ asidOf'[q] = asidOf[q])
    BY <1>0, <1>1, <1>8
  <2>. QED BY <1>2, <1>8, <2>1 DEF MemParts, OwnersApart
<1>12. FramesOwned'
  <2>1. \A q \in Uprocs : pc[q] \notin Freed => pc'[q] \notin Freed /\ asidOf'[q] = asidOf[q]
    BY <1>0, <1>8 DEF Freed
  <2>. QED BY <1>1, <2>1 DEF MemParts, FramesOwned
<1>13. FramesRight'
  BY <1>0, <1>1, <1>3, <1>5, <1>7, <1>10 DEF MemParts, FramesRight
<1>14. EntriesRight' /\ TlbRight'
  BY <1>1, <1>5, <1>10 DEF MemParts, EntriesRight, TlbRight
<1>15. DiskRight'
  <2>1. \A q \in Running' : asidOf'[q] # a => q \in Running /\ asidOf'[q] = asidOf[q]
    BY <1>0, <1>1, <1>8 DEF Running
  <2>. QED BY <1>5, <1>6, <1>10, <2>1 DEF MemParts, DiskRight
<1>16. DiskOwn'
  BY <1>6 DEF MemParts, DiskOwn
<1>17. FaultsOpen'
  <2>1. \A q \in Uprocs : pc'[q] \in InPager \ {"release"} =>
            missing(q)' = missing(q) /\ missing(q) \in Ptes /\ pte[missing(q)] = INVALID
    BY <1>0, <1>9 DEF MemParts, FaultsOpen
  <2>. QED BY <1>5, <2>1 DEF FaultsOpen
<1>18. VictimRight'
  <2>1. \A q \in Uprocs : pc'[q] = "evict" =>
            /\ frame'[q] = frame[q] /\ frame[q] \in Frames /\ swapPool[frame[q]] # FREE
            /\ ram[frame[q]] = Latest(swapPool[frame[q]]) /\ pte[swapPool[frame[q]]] = INVALID
    BY <1>0, <1>9 DEF MemParts, VictimRight, Picked
  <2>2. \A q \in Uprocs : pc'[q] = "evict" =>
            swapPool[frame[q]] \in Ptes /\ swapPool[frame[q]][1] # a
    BY <1>0, <1>3, <2>1
  <2>. QED BY <1>1, <1>5, <1>7, <2>1, <2>2 DEF VictimRight
<1>19. LoadedRight'
  <2>1. \A q \in Uprocs : pc'[q] = "map" =>
            /\ frame'[q] = frame[q] /\ frame[q] \in Frames /\ missing(q)' = missing(q)
            /\ ram[frame[q]] = Latest(missing(q)) /\ missing(q) \in Ptes
    BY <1>0, <1>9 DEF MemParts, LoadedRight, Picked, InPager
  <2>2. \A q \in Uprocs : pc'[q] = "map" => missing(q)[1] # a
    BY <1>9 DEF missing, Picked
  <2>. QED BY <1>7, <2>1, <2>2 DEF LoadedRight
<1>. QED
  BY <1>11, <1>12, <1>13, <1>14, <1>15, <1>16, <1>17, <1>18, <1>19 DEF MemParts
-----------------------------------------------------------------------------
(***************************************************************************)
(* Every step.                                                             *)
(***************************************************************************)
(* Nobody brings the shell back.                                           *)
LEMMA AliveBefore ==
    ASSUME SyncInv, SyncStep, Alive'
    PROVE  Alive
<1>0. /\ pc \in [Procs -> Labels] /\ Uprocs \subseteq Procs /\ Shell \in Procs /\ Kids \subseteq Uprocs
  BY SyncTypes
<1>1. ASSUME NEW p \in Procs, NEW l, NEW m, At(p, l), Goto(p, m), l \notin Gone
      PROVE  Alive
  BY <1>0, <1>1, MoverReady DEF Alive
<1>2. CASE \E p \in Uprocs, l, m \in Labels : PlainStep(p, l, m)
  <2>1. PICK p \in Uprocs, l \in Labels, m \in Labels : PlainStep(p, l, m)
    BY <1>2
  <2>2. At(p, l) /\ Goto(p, m) /\ p \in Procs
    BY <1>0, <2>1 DEF PlainStep
  <2>3. l \notin Gone
    BY <2>1 DEF PlainStep
  <2>. QED BY <1>1, <2>2, <2>3
<1>3. ASSUME NEW p \in Procs, NEW s \in Sems, NEW l, NEW m, PStep(p, s, l, m) \/ VStep(p, s, l, m)
      PROVE  Alive
  <2>1. At(p, l) /\ Goto(p, m) /\ l \notin Gone
    BY <1>3 DEF PStep, VStep, At, Ready
  <2>. QED BY <1>1, <2>1
<1>4. CASE \E k \in Kids, a \in Asids : CreateStep(k, a)
  BY <1>4 DEF CreateStep, At, Alive
<1>5. ASSUME NEW p \in Procs, TermStep(p) PROVE Alive
  BY <1>0, <1>5, TermFamily DEF Alive
<1>6. CASE UNCHANGED <<pc, sems, asidOf, ret, holdingSwapMutex>>
  BY <1>6 DEF Alive
<1>. QED BY <1>0, <1>2, <1>3, <1>4, <1>5, <1>6 DEF SyncStep

(* The moves outside the pager and freeSwapFrames are quiet.               *)
LEMMA QuietMove ==
    ASSUME SyncInv, NEW p \in Procs, NEW l, NEW m, At(p, l), Goto(p, m),
           UNCHANGED <<swapPool, pte, tlb, ram, flash, asidOf>>,
           \A q \in Uprocs \ {p} : frame'[q] = frame[q] /\ vpn'[q] = vpn[q],
           l \notin Picked, m \notin Picked, l \in Ended => m \in Ended,
           m \in Freed => l \in Freed,
           m \in InPager => m = "release" \/ (vpn'[p] = vpn[p] /\ pte[missing(p)] = INVALID)
    PROVE  Quiet
<1>0. pc \in [Procs -> Labels] /\ Uprocs \subseteq Procs
  BY SyncTypes
<1>1. /\ pc[p] = l /\ pc'[p] = m /\ l # "dead" /\ \A q \in Procs \ {p} : pc'[q] = pc[q]
  BY <1>0, MoverReady DEF At, Ready
<1>. QED BY <1>0, <1>1 DEF Quiet

LEMMA MemStep ==
    ASSUME ~ReadFails, ~WriteFails, ~Reuse, SyncInv, NoGiveUp, MemInv, [Next]_vars
    PROVE  MemInv'
<1>. SUFFICES ASSUME Alive' PROVE MemParts'
  BY DEF MemInv
<1>a. Alive
  BY SyncKinds, AliveBefore
<1>b. MemParts
  BY <1>a DEF MemInv
<1>0. /\ ret \in [Uprocs -> {"user", "write", "read"}] /\ frame \in [Uprocs -> Frames]
      /\ vpn \in [Uprocs -> Vpns \cup {0}]
      /\ Uprocs \subseteq Procs /\ Shell \in Uprocs /\ Inst \notin Uprocs /\ Inst \in Procs
      /\ Shell \notin Kids /\ Inst \notin Kids /\ Uprocs = Kids \cup {Shell}
  BY SyncTypes, MemTypes
<1>q. ASSUME NEW p \in Procs, NEW l, NEW m, At(p, l), Goto(p, m),
             UNCHANGED <<swapPool, pte, tlb, ram, flash, asidOf>>,
             \A q \in Uprocs \ {p} : frame'[q] = frame[q] /\ vpn'[q] = vpn[q],
             <<l, m>> \in {<<"user", "access">>, <<"write", "access">>, <<"read", "access">>,
                 <<"release", "access">>, <<"sys2", "signal">>, <<"signal", "lock">>,
                 <<"lock", "wipe">>, <<"unlock", "term">>, <<"user", "sys2">>,
                 <<"user", "write">>, <<"user", "read">>, <<"write", "user">>,
                 <<"read", "user">>, <<"join", "user">>}
      PROVE  MemParts'
  <2>1. /\ l \notin Picked /\ m \notin Picked /\ (l \in Ended => m \in Ended)
        /\ (m \in Freed => l \in Freed) /\ m \notin InPager
    BY <1>q DEF Picked, Ended, Freed, InPager
  <2>2. Quiet
    BY <1>q, <2>1, QuietMove
  <2>. QED BY <1>b, <2>2, QuietStep
<1>s. UNCHANGED <<locals, paging, pte, tlb, ram, flash>> =>
        /\ UNCHANGED <<swapPool, pte, tlb, ram, flash, asidOf>>
        /\ \A q \in Uprocs : frame'[q] = frame[q] /\ vpn'[q] = vpn[q]
  BY DEF locals, paging
<1>1. ASSUME NEW p \in Uprocs, NEW l \in {"user", "write", "read"}, touch(p, l)
      PROVE  MemParts'
  <2>1. /\ At(p, l) /\ Goto(p, "access") /\ UNCHANGED <<swapPool, pte, tlb, ram, flash, asidOf>>
        /\ \A q \in Uprocs \ {p} : frame'[q] = frame[q] /\ vpn'[q] = vpn[q]
    BY <1>0, <1>1 DEF touch, paging
  <2>. QED BY <1>0, <1>q, <2>1
<1>2. ASSUME NEW p \in Uprocs, pagerEnter(p)
      PROVE  MemParts'
  <2>1. /\ At(p, "access") /\ Goto(p, "pick") /\ UNCHANGED <<swapPool, pte, tlb, ram, flash, asidOf>>
        /\ \A q \in Uprocs : frame'[q] = frame[q] /\ vpn'[q] = vpn[q]
        /\ missing(p) \in Ptes /\ tlb[missing(p)] = INVALID
    BY <1>2, <1>s DEF pagerEnter, hits
  <2>2. pte[missing(p)] = INVALID
    BY <1>b, <2>1, MemTypes DEF MemParts, TlbRight
  <2>3. /\ "access" \notin Picked \cup Ended \cup Freed /\ "pick" \notin Picked \cup Freed
    BY DEF Picked, Ended, Freed
  <2>4. Quiet
    BY <1>0, <2>1, <2>2, <2>3, QuietMove
  <2>. QED BY <1>b, <2>4, QuietStep
<1>3. ASSUME NEW p \in Uprocs, pagerRelease(p)
      PROVE  MemParts'
  <2>1. /\ At(p, "release") /\ Goto(p, "access") /\ UNCHANGED <<swapPool, pte, tlb, ram, flash, asidOf>>
        /\ \A q \in Uprocs \ {p} : frame'[q] = frame[q] /\ vpn'[q] = vpn[q]
    BY <1>0, <1>3 DEF pagerRelease, paging
  <2>. QED BY <1>0, <1>q, <2>1
<1>4. ASSUME NEW p \in Uprocs, sys2Enter(p)
      PROVE  MemParts'
  <2>1. /\ At(p, "sys2") /\ Goto(p, "signal") /\ UNCHANGED <<swapPool, pte, tlb, ram, flash, asidOf>>
        /\ \A q \in Uprocs \ {p} : frame'[q] = frame[q] /\ vpn'[q] = vpn[q]
    BY <1>4 DEF sys2Enter, locals
  <2>. QED BY <1>0, <1>q, <2>1
<1>5. ASSUME NEW p \in Uprocs, sys2Signal(p) \/ freeSwapFramesLock(p) \/ freeSwapFramesUnlock(p)
      PROVE  MemParts'
  <2>1. /\ UNCHANGED <<locals, paging, pte, tlb, ram, flash>>
        /\ \/ At(p, "signal") /\ Goto(p, "lock")
           \/ At(p, "lock") /\ Goto(p, "wipe")
           \/ At(p, "unlock") /\ Goto(p, "term")
    BY <1>5 DEF sys2Signal, freeSwapFramesLock, freeSwapFramesUnlock
  <2>. QED BY <1>0, <1>q, <1>s, <2>1
<1>6. ASSUME NEW p \in Uprocs, NEW l \in {"write", "read"},
             programTrapHandler(p) \/ terminalEnter(p, l) \/ terminalLeave(p, l)
      PROVE  MemParts'
  <2>1. /\ UNCHANGED <<locals, paging, pte, tlb, ram, flash>>
        /\ \/ At(p, "user") /\ Goto(p, "sys2")
           \/ At(p, "user") /\ Goto(p, l)
           \/ At(p, l) /\ Goto(p, "user")
    BY <1>6 DEF programTrapHandler, terminalEnter, terminalLeave
  <2>. QED BY <1>0, <1>q, <1>s, <2>1
<1>7. ASSUME sys6Join
      PROVE  MemParts'
  <2>1. /\ UNCHANGED <<locals, paging, pte, tlb, ram, flash>> /\ At(Shell, "join") /\ Goto(Shell, "user")
    BY <1>7 DEF sys6Join
  <2>. QED BY <1>0, <1>q, <1>s, <2>1
<1>8. ASSUME UNCHANGED vars \/ testWait
      PROVE  MemParts'
  <2>1. UNCHANGED <<locals, paging, pte, tlb, ram, flash>> /\ \A q \in Uprocs : pc'[q] = pc[q]
    BY <1>0, <1>8, MemTypes DEF vars, testWait, Goto
  <2>2. Quiet
    BY <1>s, <2>1 DEF Quiet
  <2>. QED BY <1>b, <2>2, QuietStep
<1>9. ASSUME NEW p \in Procs, At(p, "term"), TERMPROCESS(p),
             UNCHANGED <<locals, paging, pte, tlb, ram, flash>>
      PROVE  MemParts'
  <2>1. TermStep(p)
    BY <1>9 DEF TermStep, locals, paging
  <2>2. p \in Kids
    BY <2>1, TermFamily
  <2>3. \A q \in Uprocs : pc'[q] = IF q = p THEN "dead" ELSE pc[q]
    BY <1>0, <2>1, <2>2, TermFamily
  <2>4. pc[p] = "term"
    BY <1>9 DEF At
  <2>5. Quiet
    BY <1>9, <1>s, <2>3, <2>4 DEF Quiet, Picked, Ended, Freed, InPager
  <2>. QED BY <1>b, <2>5, QuietStep
<1>10. ASSUME testEnd \/ \E p \in Uprocs : sys2Term(p)
       PROVE  MemParts'
  BY <1>0, <1>9, <1>10 DEF testEnd, sys2Term
<1>11. ASSUME NEW p \in Uprocs, pagerPick(p) \/ pagerWrite(p) \/ pagerRead(p) \/ pagerMap(p)
                             \/ freeSwapFramesWipe(p) \/ uTLB_RefillHandler(p) \/ loadStore(p)
       PROVE  MemParts'
  BY <1>b, <1>11, PickStep, WriteStep, ReadStep, MapStep, WipeStep, RefillStep, StoreStep
<1>12. ASSUME NEW a \in Asids, sys6(a)
       PROVE  MemParts'
  BY <1>b, <1>12, ExecStep
<1>13. ASSUME NEW p \in Uprocs, pagerGiveUp(p)
       PROVE  FALSE
  BY <1>13 DEF pagerGiveUp, At, NoGiveUp
<1>. QED
  BY <1>1, <1>2, <1>3, <1>4, <1>5, <1>6, <1>7, <1>8, <1>10, <1>11, <1>12, <1>13
  DEF Next, handler, pager, sys2

LEMMA MemInit == Init => MemInv
<1>. SUFFICES ASSUME Init PROVE MemParts
  BY DEF MemInv
<1>0. /\ Shell \notin Kids /\ Inst \notin Kids /\ Inst # Shell
      /\ Uprocs = Kids \cup {Shell} /\ Procs = Uprocs \cup {Inst}
      /\ INVALID \notin Frames
  BY ProcsAssumption, MarksAssumption DEF Uprocs, Procs
<1>1. /\ pc[Shell] = "access" /\ \A k \in Kids : pc[k] = "dead"
  BY <1>0 DEF Init
<1>2. /\ \A f \in Frames : swapPool[f] = FREE
      /\ \A e \in Ptes : pte[e] = INVALID /\ tlb[e] = ABSENT /\ flash[e] = Latest(e)
  BY DEF Init, initSwapPool
<1>3. OwnersApart /\ FramesOwned /\ FramesRight /\ EntriesRight /\ TlbRight
  BY <1>0, <1>1, <1>2 DEF OwnersApart, FramesOwned, FramesRight, EntriesRight, TlbRight
<1>4. DiskRight /\ DiskOwn
  BY <1>2 DEF DiskRight, DiskOwn
<1>5. FaultsOpen /\ VictimRight /\ LoadedRight
  BY <1>0, <1>1 DEF FaultsOpen, VictimRight, LoadedRight, InPager
<1>. QED BY <1>3, <1>4, <1>5 DEF MemParts

(* The inductive invariant of virtual memory.                              *)
THEOREM MemCorrect ==
    ASSUME ~ReadFails, ~WriteFails, ~Reuse
    PROVE  Spec => [](SyncInv /\ MemInv)
<1>1. SyncInv /\ HeldInv /\ MemInv /\ [Next]_vars => MemInv'
  BY MemStep DEF HeldInv
<1>. QED BY <1>1, MemInit, HeldCorrect, PTL DEF Spec

(* Every occupied entry of the swap pool names the page its frame holds,   *)
(* up to date, and the page table points back (swapPool, pager and         *)
(* freeSwapFrames of vmSupport.c), for any number of programs and frames.  *)
THEOREM OccupiedSafe ==
    ASSUME ~ReadFails, ~WriteFails, ~Reuse
    PROVE  Spec => []OccupiedFrame
<1>1. MemInv => OccupiedFrame
  BY DEF MemInv, MemParts, FramesRight, OccupiedFrame, Alive
<1>. QED BY <1>1, MemCorrect, PTL

(* Virtual memory is memory: whatever the pager evicts, writes back and    *)
(* loads in between, and whichever programs start and end, a program finds *)
(* in every page of its address space what it wrote there last.  The       *)
(* hypotheses are needed: TLC refutes the property when an ASID is reused  *)
(* too early, and a write-back whose status nobody reads loses the page.   *)
THEOREM CoherentSafe ==
    ASSUME ~ReadFails, ~WriteFails, ~Reuse
    PROVE  Spec => []Coherent
<1>1. SyncInv /\ MemInv => Coherent
  <2>. SUFFICES ASSUME SyncInv, MemInv, NEW p \in Running, NEW k \in Pages
                PROVE  LET e == <<asidOf[p], k>>
                       IN /\ tlb[e] \in Frames => ram[tlb[e]] = Latest(e)
                          /\ pte[e] \in Frames => ram[pte[e]] = Latest(e)
                          /\ pte[e] = INVALID /\ ~Evicted(e) => flash[e] = Latest(e)
    BY DEF Coherent
  <2>. DEFINE e == <<asidOf[p], k>>
  <2>1. p \in Uprocs /\ pc[p] \notin Gone
    BY DEF Running
  <2>2. Alive
    BY <2>1, MemTypes DEF SyncInv, Orphans, Alive
  <2>3. e \in Ptes /\ asidOf[p] = e[1]
    BY <2>1, MemTypes DEF Ptes
  <2>4. MemParts
    BY <2>2 DEF MemInv
  <2>. HIDE DEF e
  <2>5. pte[e] \in Frames => ram[pte[e]] = Latest(e)
    <3>1. pte[e] \in Frames => swapPool[pte[e]] = e /\ ~Busy(pte[e])
      BY <2>3, <2>4 DEF MemParts, EntriesRight
    <3>2. FREE # e
      BY <2>3, MemTypes
    <3>. QED BY <2>4, <3>1, <3>2 DEF MemParts, FramesRight
  <2>6. tlb[e] \in Frames => tlb[e] = pte[e]
    BY <2>3, <2>4, MemTypes DEF MemParts, TlbRight
  <2>7. pte[e] = INVALID /\ ~Evicted(e) => flash[e] = Latest(e)
    BY <2>3, <2>4 DEF MemParts, DiskRight
  <2>8. /\ tlb[e] \in Frames => ram[tlb[e]] = Latest(e)
        /\ pte[e] \in Frames => ram[pte[e]] = Latest(e)
        /\ pte[e] = INVALID /\ ~Evicted(e) => flash[e] = Latest(e)
    BY <2>5, <2>6, <2>7
  <2>. QED BY <2>8 DEF e
<1>. QED BY <1>1, MemCorrect, PTL
=============================================================================
