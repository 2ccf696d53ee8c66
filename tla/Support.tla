------------------------------ MODULE Support ------------------------------
(***************************************************************************)
(* The PandOSsh support level: demand paging through the swap pool, SYS2,  *)
(* SYS4, SYS5 and SYS6, the instantiator and the U-procs it leads to       *)
(* (phase3/, and uTLB_RefillHandler of phase2/src/exceptions.c).           *)
(*                                                                         *)
(* Support-level code runs with interrupts enabled: any ready process may  *)
(* be given the CPU between two steps.  A step ends at a Nucleus call that *)
(* may block or wake somebody; what lies between two such calls touches    *)
(* data that swapSemaphore protects, runs with interrupts masked, or, in   *)
(* createUProc, prepares a support structure for a process to come.        *)
(* A process that waits for its DOIO is one whose next step is that I/O.   *)
(***************************************************************************)
EXTENDS ProcQueue, FiniteSets

CONSTANTS
    Inst,        \* the process of test(), the instantiator
    Shell,       \* the process of the shell
    Kids,        \* PCBs for the programs the shell executes
    Asids,       \* ASIDs with a flash device; SHELL_ASID is one of them
    SHELL_ASID,
    MAXPAGES,    \* entries of sup_privatePgTbl
    Vpns,        \* pages of kuseg a program touches, as offsets into it; the
                 \* stack page 0xBFFFF is MAXPAGES - 1, its index everywhere
    POOLSIZE,
    ReadFails,   \* whether a FLASHREAD may end with an error status
    WriteFails,  \* whether a FLASHWRITE may
    Reuse,       \* whether the shell may EXECUTE a program whose previous
                 \* instance has not been terminated yet
    FREE, INVALID, ABSENT, JUNK

Uprocs == Kids \cup {Shell}
Procs == Uprocs \cup {Inst}
Pages == 0..(MAXPAGES - 1)
Ptes == Asids \X Pages
Frames == 0..(POOLSIZE - 1)
Sems == {"swapSemaphore", "masterSemaphore", "shellSemaphore",
         "termWriteSemaphore", "termReadSemaphore"}

ASSUME ProcsAssumption == /\ Shell \notin Kids /\ Inst \notin Kids /\ Inst # Shell
                          /\ IsFiniteSet(Kids)
ASSUME AsidsAssumption == /\ SHELL_ASID \in Asids /\ IsFiniteSet(Asids)
ASSUME SizesAssumption == /\ MAXPAGES \in Nat \ {0} /\ POOLSIZE \in Nat \ {0}
                          /\ Vpns \subseteq Nat
ASSUME ModesAssumption == /\ ReadFails \in BOOLEAN /\ WriteFails \in BOOLEAN
                          /\ Reuse \in BOOLEAN
ASSUME MarksAssumption == /\ FREE \notin Ptes /\ INVALID \notin Frames
                          /\ ABSENT \notin Frames \cup {INVALID}
                          /\ JUNK \notin Ptes \X BOOLEAN

VARIABLES
    pc,                \* where every process is, see Labels
    ret,               \* what a memory access in progress returns to
    vpn,               \* the page it is about
    frame,             \* the pager's i
    asidOf,            \* sup_asid of the process's support structure
    semVal, semQ,      \* value and waiters of every semaphore
    swapPool,          \* <<sw_asid, sw_pageNo>> of every frame, or FREE
    fifoCont,
    holdingSwapMutex,
    pte,               \* frame of every page table entry, INVALID when V = 0
    tlb,               \* external: the same, as the TLB caches it
    ram, flash         \* what a frame and a block of a flash device hold

locals == <<ret, vpn, frame, asidOf>>
sems == <<semVal, semQ>>
paging == <<swapPool, fifoCont, holdingSwapMutex>>
vars == <<pc, locals, sems, paging, pte, tlb, ram, flash>>

(***************************************************************************)
(* The contents of a page of memory are named by the page they belong to   *)
(* and by whether they are what the program wrote last.                    *)
(***************************************************************************)
Contents == (Ptes \X BOOLEAN) \cup {JUNK}
Latest(e) == <<e, TRUE>>
Older(c) == IF c = JUNK THEN c ELSE <<c[1], FALSE>>

Labels == {"user", "write", "read",      \* user code, writeTerminal, readTerminal
           "access",                      \* an access to user memory
           "pick", "evict", "load", "map", "release", "giveUp",    \* pager
           "join",                        \* sys6 after createUProc
           "sys2", "signal", "lock", "wipe", "unlock", "term",     \* sys2
           "boot",
           "zombie",                      \* terminated, but on the ready queue
           "dead"}
Gone == {"zombie", "dead"}
InPager == {"pick", "evict", "load", "map", "release", "giveUp"}
InWipe == {"wipe", "unlock"}

Ready(p) == pc[p] # "dead" /\ \A s \in Sems : p \notin ToSet(semQ[s])

(* The ready queue runs into the list of free PCBs; see TERMPROCESS.       *)
Corrupt == \E p \in Procs : pc[p] = "zombie"
At(p, l) == pc[p] = l /\ Ready(p) /\ ~Corrupt
Goto(p, l) == pc' = [pc EXCEPT ![p] = l]
-----------------------------------------------------------------------------
(* PASSEREN and VERHOGEN, as the Nucleus performs them.                    *)
P(s, p) ==
    /\ semVal' = IF semVal[s] > 0 THEN [semVal EXCEPT ![s] = @ - 1] ELSE semVal
    /\ semQ' = IF semVal[s] > 0 THEN semQ ELSE [semQ EXCEPT ![s] = Append(@, p)]

(* Mutant: the V that wakes somebody is counted as well.                   *)
VCounted(s) ==
    /\ semVal' = [semVal EXCEPT ![s] = @ + 1]
    /\ semQ' = IF semQ[s] = <<>> THEN semQ ELSE [semQ EXCEPT ![s] = Tail(@)]

V(s) ==
    /\ semVal' = IF semQ[s] = <<>> THEN [semVal EXCEPT ![s] = @ + 1] ELSE semVal
    /\ semQ' = IF semQ[s] = <<>> THEN semQ ELSE [semQ EXCEPT ![s] = Tail(@)]

progeny(p) == IF p = Inst THEN Procs ELSE IF p = Shell THEN Uprocs ELSE {p}

(***************************************************************************)
(* NSYS2 on the caller: it and its progeny are terminated.                 *)
(* terminateProcess takes p_semAdd # NULL for "blocked", and no wake-up    *)
(* clears the field.  Every U-proc has been woken at least once, from the  *)
(* DOIO that read its first page, so a descendant that is ready is freed   *)
(* without being taken off readyQueue (and if it was a device's semaphore, *)
(* softBlock_count loses one).  readyQueue.next then never leaves the      *)
(* freed PCB: dispatch(), which tests emptyProcQ first, dispatches it for  *)
(* ever.  What it and the processes queued behind it do is not followed:   *)
(* the model stops there.                                                  *)
(***************************************************************************)
TERMPROCESS(p) ==
    /\ pc' = [q \in Procs |-> IF q \notin progeny(p) THEN pc[q]
                              ELSE IF q # p /\ Ready(q) THEN "zombie" ELSE "dead"]
    /\ semQ' = [s \in Sems |-> Without(semQ[s], progeny(p))]
    /\ UNCHANGED semVal
-----------------------------------------------------------------------------
(***************************************************************************)
(* Memory accesses, by user code or by writeTerminal and readTerminal on   *)
(* its behalf.                                                             *)
(***************************************************************************)
touch(p, l) ==
    /\ At(p, l)
    /\ \E v \in Vpns : vpn' = [vpn EXCEPT ![p] = v]
    /\ ret' = [ret EXCEPT ![p] = l]
    /\ Goto(p, "access")
    /\ UNCHANGED <<frame, asidOf, sems, paging, pte, tlb, ram, flash>>

(* The page the access is about, and whether the TLB knows it.             *)
missing(p) == <<asidOf[p], vpn[p]>>
hits(p) == missing(p) \in Ptes /\ tlb[missing(p)] # ABSENT

(* The page table entry a VPN selects: missingVPN % MAXPAGES.              *)
refillEntry(p) == <<asidOf[p], vpn[p] % MAXPAGES>>

(* The entry goes to a random place of the TLB, over another one or not.   *)
uTLB_RefillHandler(p) ==
    /\ At(p, "access")
    /\ ~hits(p)
    /\ \E e \in Ptes : tlb' = [tlb EXCEPT ![e] = ABSENT,
                                          ![refillEntry(p)] = pte[refillEntry(p)]]
    /\ UNCHANGED <<pc, locals, sems, paging, pte, ram, flash>>

(* A load, or a store: every copy of the page elsewhere is out of date.    *)
loadStore(p) ==
    /\ At(p, "access")
    /\ hits(p) /\ tlb[missing(p)] \in Frames
    /\ LET e == missing(p)
           stored(c) == IF c = Latest(e) THEN Older(c) ELSE c
       IN \/ UNCHANGED <<ram, flash>>
          \/ /\ ram' = [f \in Frames |-> IF f = tlb[e] THEN ram[f] ELSE stored(ram[f])]
             /\ flash' = [b \in Ptes |-> stored(flash[b])]
    /\ Goto(p, ret[p])
    /\ vpn' = [vpn EXCEPT ![p] = 0]
    /\ ret' = [ret EXCEPT ![p] = "user"]
    /\ UNCHANGED <<frame, asidOf, sems, paging, pte, tlb>>
-----------------------------------------------------------------------------
(***************************************************************************)
(* vmSupport.c.  TLB-Mod never occurs: D is set in every entry.            *)
(***************************************************************************)
(* Mutant: the TLB is told of new translations, not of lost ones.          *)
updateTLBKeeps(t, e, lo) ==
    IF t[e] = ABSENT \/ lo = INVALID THEN t ELSE [t EXCEPT ![e] = lo]

(* TLBP and TLBWI: the TLB follows entry e if it caches it.                *)
updateTLB(t, e, lo) == IF t[e] = ABSENT THEN t ELSE [t EXCEPT ![e] = lo]

pagerEnter(p) ==
    /\ At(p, "access")
    /\ hits(p) /\ tlb[missing(p)] = INVALID
    /\ P("swapSemaphore", p)
    /\ Goto(p, "pick")
    /\ UNCHANGED <<locals, paging, pte, tlb, ram, flash>>

freeFrames == {f \in Frames : swapPool[f] = FREE}

(* Mutant: the counter is not reduced modulo POOLSIZE.                     *)
pickFrameNoWrap(i) == \/ /\ i \in freeFrames
                         /\ \A j \in freeFrames : i <= j
                         /\ UNCHANGED fifoCont
                      \/ /\ freeFrames = {}
                         /\ i = fifoCont
                         /\ fifoCont' = fifoCont + 1

(* The first unoccupied frame, or the next one of the round robin.         *)
pickFrame(i) == \/ /\ i \in freeFrames
                   /\ \A j \in freeFrames : i <= j
                   /\ UNCHANGED fifoCont
                \/ /\ freeFrames = {}
                   /\ i = fifoCont
                   /\ fifoCont' = (fifoCont + 1) % POOLSIZE

pagerPick(p) ==
    /\ At(p, "pick")
    /\ holdingSwapMutex' = [holdingSwapMutex EXCEPT ![asidOf[p]] = TRUE]
    /\ \E i \in Frames :
         /\ pickFrame(i)
         /\ frame' = [frame EXCEPT ![p] = i]
         /\ \/ /\ swapPool[i] # FREE
               /\ pte' = [pte EXCEPT ![swapPool[i]] = INVALID]
               /\ tlb' = updateTLB(tlb, swapPool[i], INVALID)
               /\ Goto(p, "evict")
            \/ /\ swapPool[i] = FREE
               /\ Goto(p, "load")
               /\ UNCHANGED <<pte, tlb>>
    /\ UNCHANGED <<ret, vpn, asidOf, sems, swapPool, ram, flash>>

(* A DOIO that ends well, between frame i and the block of page e[2] on    *)
(* the flash device of ASID e[1].                                          *)
readWriteFlashdrive(e, i, op) ==
    \/ /\ op = "FLASHREAD"
       /\ ram' = [ram EXCEPT ![i] = flash[e]]
       /\ UNCHANGED flash
    \/ /\ op = "FLASHWRITE"
       /\ flash' = [flash EXCEPT ![e] = ram[i]]
       /\ UNCHANGED ram

(* The write-back of the victim; its status is not looked at.              *)
pagerWrite(p) ==
    /\ At(p, "evict")
    /\ \/ readWriteFlashdrive(swapPool[frame[p]], frame[p], "FLASHWRITE")
       \/ WriteFails /\ UNCHANGED <<ram, flash>>
    /\ Goto(p, "load")
    /\ UNCHANGED <<locals, sems, paging, pte, tlb>>

(* The read; one that fails may have overwritten the frame.                *)
pagerRead(p) ==
    /\ At(p, "load")
    /\ \/ /\ readWriteFlashdrive(missing(p), frame[p], "FLASHREAD")
          /\ Goto(p, "map")
       \/ /\ ReadFails
          /\ ram' \in {ram, [ram EXCEPT ![frame[p]] = JUNK]}
          /\ Goto(p, "giveUp")
          /\ UNCHANGED flash
    /\ UNCHANGED <<locals, sems, paging, pte, tlb>>

(* Mutant: holdingSwapMutex stays set.                                     *)
pagerMapKeepsFlag(p) ==
    /\ At(p, "map")
    /\ swapPool' = [swapPool EXCEPT ![frame[p]] = missing(p)]
    /\ pte' = [pte EXCEPT ![missing(p)] = frame[p]]
    /\ tlb' = updateTLB(tlb, missing(p), frame[p])
    /\ Goto(p, "release")
    /\ UNCHANGED <<locals, sems, fifoCont, holdingSwapMutex, ram, flash>>

(* The swap pool entry, the page table entry, the TLB and the flag.        *)
pagerMap(p) ==
    /\ At(p, "map")
    /\ swapPool' = [swapPool EXCEPT ![frame[p]] = missing(p)]
    /\ pte' = [pte EXCEPT ![missing(p)] = frame[p]]
    /\ tlb' = updateTLB(tlb, missing(p), frame[p])
    /\ holdingSwapMutex' = [holdingSwapMutex EXCEPT ![asidOf[p]] = FALSE]
    /\ Goto(p, "release")
    /\ UNCHANGED <<locals, sems, fifoCont, ram, flash>>

(* V, and LDST to retry the access.                                        *)
pagerRelease(p) ==
    /\ At(p, "release")
    /\ V("swapSemaphore")
    /\ Goto(p, "access")
    /\ frame' = [frame EXCEPT ![p] = 0]
    /\ UNCHANGED <<ret, vpn, asidOf, paging, pte, tlb, ram, flash>>

(* Mutant: the error path keeps the mutex.                                 *)
pagerGiveUpLocked(p) ==
    /\ At(p, "giveUp")
    /\ holdingSwapMutex' = [holdingSwapMutex EXCEPT ![asidOf[p]] = FALSE]
    /\ Goto(p, "sys2")
    /\ frame' = [frame EXCEPT ![p] = 0]
    /\ UNCHANGED <<ret, vpn, asidOf, sems, swapPool, fifoCont, pte, tlb, ram, flash>>

(* The error path: V, then programTrapHandler.                             *)
pagerGiveUp(p) ==
    /\ At(p, "giveUp")
    /\ holdingSwapMutex' = [holdingSwapMutex EXCEPT ![asidOf[p]] = FALSE]
    /\ V("swapSemaphore")
    /\ Goto(p, "sys2")
    /\ frame' = [frame EXCEPT ![p] = 0]
    /\ UNCHANGED <<ret, vpn, asidOf, swapPool, fifoCont, pte, tlb, ram, flash>>

pager(p) == \/ pagerEnter(p) \/ pagerPick(p) \/ pagerWrite(p) \/ pagerRead(p)
            \/ pagerMap(p) \/ pagerRelease(p) \/ pagerGiveUp(p)
-----------------------------------------------------------------------------
(***************************************************************************)
(* syscalls.c: SYS2.                                                       *)
(***************************************************************************)
(* Mutants: the V without the test; only the shell signals; everybody      *)
(* signals the shell.                                                      *)
sys2EnterUntested(p) ==
    /\ At(p, "sys2")
    /\ holdingSwapMutex' = [holdingSwapMutex EXCEPT ![asidOf[p]] = FALSE]
    /\ V("swapSemaphore")
    /\ Goto(p, "signal")
    /\ UNCHANGED <<locals, swapPool, fifoCont, pte, tlb, ram, flash>>
sys2SignalShellOnly(p) ==
    /\ At(p, "signal")
    /\ IF asidOf[p] = SHELL_ASID THEN V("masterSemaphore") ELSE UNCHANGED sems
    /\ Goto(p, "lock")
    /\ UNCHANGED <<locals, paging, pte, tlb, ram, flash>>
sys2SignalToShell(p) ==
    /\ At(p, "signal")
    /\ V("shellSemaphore")
    /\ Goto(p, "lock")
    /\ UNCHANGED <<locals, paging, pte, tlb, ram, flash>>

(* The mutex is released if the flag says it is held.                      *)
sys2Enter(p) ==
    /\ At(p, "sys2")
    /\ holdingSwapMutex' = [holdingSwapMutex EXCEPT ![asidOf[p]] = FALSE]
    /\ IF holdingSwapMutex[asidOf[p]] THEN V("swapSemaphore") ELSE UNCHANGED sems
    /\ Goto(p, "signal")
    /\ UNCHANGED <<locals, swapPool, fifoCont, pte, tlb, ram, flash>>

(* The instantiator waits for the shell, the shell for its program.        *)
sys2Signal(p) ==
    /\ At(p, "signal")
    /\ V(IF asidOf[p] = SHELL_ASID THEN "masterSemaphore" ELSE "shellSemaphore")
    /\ Goto(p, "lock")
    /\ UNCHANGED <<locals, paging, pte, tlb, ram, flash>>

(* freeSwapFrames, in three steps.                                         *)
freeSwapFramesLock(p) ==
    /\ At(p, "lock")
    /\ P("swapSemaphore", p)
    /\ Goto(p, "wipe")
    /\ UNCHANGED <<locals, paging, pte, tlb, ram, flash>>

(* Mutant: the frames stay occupied.                                       *)
freeSwapFramesWipeKeeps(p) ==
    /\ At(p, "wipe")
    /\ LET mine == {f \in Frames : swapPool[f] # FREE /\ swapPool[f][1] = asidOf[p]}
           entries == {swapPool[f] : f \in mine}
       IN pte' = [e \in Ptes |-> IF e \in entries THEN INVALID ELSE pte[e]]
    /\ tlb' = [e \in Ptes |-> ABSENT]
    /\ Goto(p, "unlock")
    /\ UNCHANGED <<locals, sems, paging, ram, flash>>

freeSwapFramesWipe(p) ==
    /\ At(p, "wipe")
    /\ LET mine == {f \in Frames : swapPool[f] # FREE /\ swapPool[f][1] = asidOf[p]}
           entries == {swapPool[f] : f \in mine}
       IN /\ swapPool' = [f \in Frames |-> IF f \in mine THEN FREE ELSE swapPool[f]]
          /\ pte' = [e \in Ptes |-> IF e \in entries THEN INVALID ELSE pte[e]]
    /\ tlb' = [e \in Ptes |-> ABSENT]
    /\ Goto(p, "unlock")
    /\ UNCHANGED <<locals, sems, fifoCont, holdingSwapMutex, ram, flash>>

freeSwapFramesUnlock(p) ==
    /\ At(p, "unlock")
    /\ V("swapSemaphore")
    /\ Goto(p, "term")
    /\ UNCHANGED <<locals, paging, pte, tlb, ram, flash>>

sys2Term(p) ==
    /\ At(p, "term")
    /\ TERMPROCESS(p)
    /\ UNCHANGED <<locals, paging, pte, tlb, ram, flash>>

sys2(p) == \/ sys2Enter(p) \/ sys2Signal(p) \/ freeSwapFramesLock(p)
           \/ freeSwapFramesWipe(p) \/ freeSwapFramesUnlock(p) \/ sys2Term(p)

(***************************************************************************)
(* What a U-proc asks for.  generalExceptionHandler sends TERMINATE, every *)
(* trap, every unknown call and every call with bad arguments to sys2.     *)
(***************************************************************************)
programTrapHandler(p) ==
    /\ At(p, "user")
    /\ Goto(p, "sys2")
    /\ UNCHANGED <<locals, sems, paging, pte, tlb, ram, flash>>

(* SYS4 and SYS5: P, the characters (touch and DOIO), V on every way out.  *)
terminal(l) == IF l = "write" THEN "termWriteSemaphore" ELSE "termReadSemaphore"

terminalEnter(p, l) ==
    /\ At(p, "user")
    /\ P(terminal(l), p)
    /\ Goto(p, l)
    /\ UNCHANGED <<locals, paging, pte, tlb, ram, flash>>

(* Mutant: a way out without the V.                                        *)
terminalLeaveLocked(p, l) ==
    /\ At(p, l)
    /\ Goto(p, "user")
    /\ UNCHANGED <<locals, sems, paging, pte, tlb, ram, flash>>

terminalLeave(p, l) ==
    /\ At(p, l)
    /\ V(terminal(l))
    /\ Goto(p, "user")
    /\ UNCHANGED <<locals, paging, pte, tlb, ram, flash>>

(* initUProc: the page table of the ASID is invalid; what its flash device *)
(* holds is the memory the new program starts from.                        *)
initUProc(a) ==
    /\ pte' = [e \in Ptes |-> IF e[1] = a THEN INVALID ELSE pte[e]]
    /\ flash' = [e \in Ptes |-> IF e[1] = a /\ flash[e] = Older(Latest(e))
                                THEN Latest(e) ELSE flash[e]]
    /\ ram' = [f \in Frames |->
                 IF \E e \in Ptes : e[1] = a /\ ram[f] = Latest(e) /\ flash[e] # ram[f]
                 THEN Older(ram[f]) ELSE ram[f]]

(* Called by the shell; NOPROC, when no PCB is left, is its end.  The new  *)
(* process begins with the fetch at UPROCSTARTADDR, in page 0.             *)
createUProc(a) ==
    /\ initUProc(a)
    /\ \/ \E k \in Kids :
            /\ pc[k] = "dead"
            /\ pc' = [pc EXCEPT ![k] = "access", ![Shell] = "join"]
            /\ asidOf' = [asidOf EXCEPT ![k] = a]
            /\ ret' = [ret EXCEPT ![k] = "user"]
            /\ vpn' = [vpn EXCEPT ![k] = 0]
            /\ frame' = [frame EXCEPT ![k] = 0]
       \/ /\ \A k \in Kids : pc[k] # "dead"
          /\ Goto(Shell, "sys2")
          /\ UNCHANGED locals

(* SYS6 with good arguments, up to the P.                                  *)
sys6(a) ==
    /\ At(Shell, "user")
    /\ a # SHELL_ASID
    /\ Reuse \/ \A k \in Kids : asidOf[k] = a => pc[k] = "dead"
    /\ createUProc(a)
    /\ UNCHANGED <<sems, paging, tlb>>

(* ... and the P the shell waits on.                                       *)
sys6Join ==
    /\ At(Shell, "join")
    /\ P("shellSemaphore", Shell)
    /\ Goto(Shell, "user")
    /\ UNCHANGED <<locals, paging, pte, tlb, ram, flash>>

(* initProc.c: test() after it has created the shell.                      *)
testWait ==
    /\ At(Inst, "boot")
    /\ P("masterSemaphore", Inst)
    /\ Goto(Inst, "term")
    /\ UNCHANGED <<locals, paging, pte, tlb, ram, flash>>

testEnd ==
    /\ At(Inst, "term")
    /\ TERMPROCESS(Inst)
    /\ UNCHANGED <<locals, paging, pte, tlb, ram, flash>>
-----------------------------------------------------------------------------
initSwapPool == /\ swapPool = [f \in Frames |-> FREE]
                /\ semVal["swapSemaphore"] = 1

(* test() up to its P: semaphores, initSwapPool and createUProc(SHELL_ASID)*)
Init ==
    /\ pc = [p \in Procs |-> CASE p = Inst -> "boot"
                               [] p = Shell -> "access"
                               [] OTHER -> "dead"]
    /\ ret = [p \in Uprocs |-> "user"]
    /\ vpn = [p \in Uprocs |-> 0]
    /\ frame = [p \in Uprocs |-> 0]
    /\ asidOf = [p \in Uprocs |-> SHELL_ASID]
    /\ semVal = [s \in Sems |-> IF s \in {"masterSemaphore", "shellSemaphore"}
                                THEN 0 ELSE 1]
    /\ semQ = [s \in Sems |-> <<>>]
    /\ initSwapPool
    /\ fifoCont = 0
    /\ holdingSwapMutex = [a \in Asids |-> FALSE]
    /\ pte = [e \in Ptes |-> INVALID]
    /\ tlb = [e \in Ptes |-> ABSENT]
    /\ ram = [f \in Frames |-> JUNK]
    /\ flash = [e \in Ptes |-> Latest(e)]

handler(p) == pager(p) \/ sys2(p) \/ uTLB_RefillHandler(p) \/ loadStore(p)

Next ==
    \/ \E p \in Uprocs :
         \/ handler(p)
         \/ programTrapHandler(p)
         \/ \E l \in {"user", "write", "read"} : touch(p, l)
         \/ \E l \in {"write", "read"} : terminalEnter(p, l) \/ terminalLeave(p, l)
    \/ \E a \in Asids : sys6(a)
    \/ sys6Join
    \/ testWait
    \/ testEnd

Spec == Init /\ [][Next]_vars

(***************************************************************************)
(* All processes have the same priority, so the round robin of the Nucleus *)
(* gives every ready one the CPU, and flash devices finish.  Nothing is    *)
(* asked of user code, nor of who sits at the terminal.                    *)
(***************************************************************************)
Fairness ==
    /\ \A p \in Uprocs : WF_vars(handler(p))
    /\ WF_vars(sys6Join)
    /\ WF_vars(testWait \/ testEnd)

FairSpec == Spec /\ Fairness
-----------------------------------------------------------------------------
(* Every variable holds a value of its kind.                               *)
TypeOK ==
    /\ pc \in [Procs -> Labels]
    /\ ret \in [Uprocs -> {"user", "write", "read"}]
    /\ vpn \in [Uprocs -> Vpns \cup {0}]
    /\ frame \in [Uprocs -> Frames]
    /\ asidOf \in [Uprocs -> Asids]
    /\ semVal \in [Sems -> Nat]
    /\ semQ \in [Sems -> Seq(Procs)]
    /\ swapPool \in [Frames -> Ptes \cup {FREE}]
    /\ fifoCont \in Frames
    /\ holdingSwapMutex \in [Asids -> BOOLEAN]
    /\ pte \in [Ptes -> Frames \cup {INVALID}]
    /\ tlb \in [Ptes -> Frames \cup {INVALID, ABSENT}]
    /\ ram \in [Frames -> Contents]
    /\ flash \in [Ptes -> Contents]

(* The processes that are past their P on swapSemaphore and not yet at the *)
(* matching V.                                                             *)
Holders == {p \in Uprocs : pc[p] \in InPager \cup InWipe /\ Ready(p)}

(* Mutual exclusion on the swap pool: at most one process is in the pager  *)
(* or in freeSwapFrames, and then the semaphore is closed.                 *)
SwapMutex == Cardinality(Holders) + semVal["swapSemaphore"] <= 1

(* holdingSwapMutex tells the truth, so sys2 never performs a V for a      *)
(* mutex that another process holds.                                       *)
HoldingRight ==
    pc[Shell] \notin Gone =>
    \A a \in Asids : holdingSwapMutex[a] <=>
        \E p \in Holders : asidOf[p] = a /\ pc[p] \in {"evict", "load", "map", "giveUp"}

Busy(f) == \E p \in Uprocs : /\ pc[p] \in {"evict", "load", "map", "giveUp"}
                             /\ frame[p] = f

(* An occupied entry of the swap pool tells the truth: unless the pager is *)
(* at work on the frame, the frame holds the page the entry names, up to   *)
(* date, and the page table entry of that page points back at it.  The     *)
(* pager writes the frame to that page's block when it evicts it.          *)
OccupiedFrame ==
    pc[Shell] \notin Gone =>
    \A f \in Frames : swapPool[f] # FREE /\ ~Busy(f) =>
        /\ ram[f] = Latest(swapPool[f])
        /\ pte[swapPool[f]] = f

Running == {p \in Uprocs : pc[p] \notin Gone \cup {"sys2", "signal", "lock",
                                                   "wipe", "unlock", "term"}}
Evicted(e) == \E p \in Uprocs : pc[p] = "evict" /\ swapPool[frame[p]] = e

(* Virtual memory: whatever is evicted, reloaded and freed in between, a   *)
(* program reads what it wrote last.  A page it can reach without a fault  *)
(* is up to date in its frame; any other is up to date on its flash device *)
(* once the write-back that may be in progress has ended.                  *)
Coherent ==
    \A p \in Running, k \in Pages :
        LET e == <<asidOf[p], k>>
        IN /\ tlb[e] \in Frames => ram[tlb[e]] = Latest(e)
           /\ pte[e] \in Frames => ram[pte[e]] = Latest(e)
           /\ pte[e] = INVALID /\ ~Evicted(e) => flash[e] = Latest(e)

(* dispatch() never finds a deadlock: while processes exist, one of them   *)
(* is ready or waits for a device.                                         *)
NoPanic == (\E p \in Procs : pc[p] # "dead") => \E p \in Procs : Ready(p)

-----------------------------------------------------------------------------
(* A page fault is served, or its process is terminated: the queue of the  *)
(* swap pool always moves on.                                              *)
FaultServed == \A p \in Uprocs : pc[p] \in InPager ~> pc[p] \notin InPager

(* A program that ends, in whatever way, wakes the shell that waits for it.*)
ShellResumes == \A k \in Kids : pc[k] = "sys2" ~> Shell \notin ToSet(semQ["shellSemaphore"])

(* When the shell ends, whatever way, the instantiator is woken and        *)
(* terminates everybody, so that dispatch() halts, unless a termination    *)
(* met a descendant that was ready (syscall.c:59) and freed it in place.   *)
ShutsDown == pc[Shell] = "sys2" ~> Corrupt \/ \A p \in Procs : pc[p] = "dead"

(* The end of the system as the documentation has it: when the shell ends, *)
(* all processes end and dispatch() halts.  The code does not guarantee    *)
(* it: sys2 wakes the instantiator before the shell's own TERMPROCESS, and *)
(* the instantiator then terminates a shell that is ready.                 *)
SystemHalts == pc[Shell] = "sys2" ~> \A p \in Procs : pc[p] = "dead"

-----------------------------------------------------------------------------
Semaphores == INSTANCE SemaphoreSpec WITH
    Proc <- Procs, Sem <- Sems, Sync <- {}, value <- semVal, queue <- semQ

(* The support level uses its semaphores as the Nucleus implements them:   *)
(* P, V and TERMPROCESS of this module are steps of the specification that *)
(* Nucleus is shown to implement.                                          *)
UsesSemaphores == Semaphores!Spec
=============================================================================
