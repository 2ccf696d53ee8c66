----------------------------- MODULE Interrupts -----------------------------
(***************************************************************************)
(* Device I/O and CPU time in the Nucleus: DOIO and the device registers,  *)
(* the decoding of device interrupts, and who is charged for the time that *)
(* passes (phase2/src/interrupts.c, and nsys3 to nsys10 of syscall.c).     *)
(*                                                                         *)
(* Nucleus has the queues, the counters and the process tree.  Here the    *)
(* ready queue is a set from which dispatch() takes any member, what a P   *)
(* on a user semaphore finds is left open, and a termination takes any set *)
(* of other processes along with the caller: its progeny.                  *)
(***************************************************************************)
EXTENDS ProcQueue, FiniteSets, FiniteSetsExt

CONSTANTS
    Procs,
    NULL,
    Devices,      \* the devices in use, as <<interrupt line, number>>
    Errors,       \* whether devices may report errors
    TickForgiven, \* whether the history leaves out what itInterruptHandler
                  \* does not charge
    Width,        \* cpu_t and the TOD clock count modulo 2^Width
    TIMESLICE,    \* ticks of the clock until the local timer interrupts
    MaxCount      \* bound on the completions nobody waited for, per device

Lines == 3..7
DevNos == 0..7
ASSUME ProcsAssumption == IsFiniteSet(Procs) /\ NULL \notin Procs
ASSUME DevicesAssumption == Devices \subseteq Lines \X DevNos
ASSUME ModesAssumption == Errors \in BOOLEAN /\ TickForgiven \in BOOLEAN
ASSUME TimeAssumption == /\ Width \in Nat /\ TIMESLICE \in 0..(2^Width - 1)
                         /\ MaxCount \in Nat \ {0}
-----------------------------------------------------------------------------
(***************************************************************************)
(* Device registers and the semaphores that go with them.                  *)
(***************************************************************************)
START_DEVREG == 268435540      \* 0x10000054
DEVREGSIZE == 16
DEVPERINT == 8
NSUPPSEM == 48
RECV == 4                      \* offset of command, and of recv_command
TRANSM == 12                   \* offset of transm_command
READY == 1
DEVERROR == 4
OKCHARTRANS == 5
CHARRECV == 5
BUSY == 3

devAddr(IntLineNo, DevNo) == START_DEVREG + (IntLineNo - 3) * 128 + DevNo * 16

(* The command registers of a device: a terminal has two.                  *)
commands(IntLineNo, DevNo) ==
    {devAddr(IntLineNo, DevNo) + f :
        f \in IF IntLineNo = 7 THEN {RECV, TRANSM} ELSE {RECV}}
CmdRegs == UNION {commands(d[1], d[2]) : d \in Devices}

(* nsys5: the semaphore that belongs to a command register.                *)
semIndex(a1) ==
    LET offset == a1 - START_DEVREG
        regIndex == offset \div DEVREGSIZE
        fieldOffset == offset % DEVREGSIZE
        lineIndex == regIndex \div DEVPERINT
        devNo == regIndex % DEVPERINT
    IN lineIndex * DEVPERINT + devNo
       + IF lineIndex = 4 /\ fieldOffset = TRANSM THEN DEVPERINT ELSE 0

(* deviceInterruptHandler: the semaphore of the half that has completed.   *)
semaphoreIdx(IntLineNo, DevNo, transmitter) ==
    (IntLineNo - 3) * DEVPERINT + DevNo + IF transmitter THEN DEVPERINT ELSE 0

UserSem == NSUPPSEM + 1        \* stands for every semaphore outside the Nucleus
DevSems == {semIndex(r) : r \in CmdRegs}
Sems == DevSems \cup {NSUPPSEM, UserSem}
-----------------------------------------------------------------------------
VARIABLES
    currProc,
    ready,               \* the members of readyQueue
    semd,                \* the processes blocked on every semaphore
    device_semaphores,
    reg_a0,              \* what DOIO has returned to a process, else NULL
    status,              \* external: of every command register, the status,
                         \* whose command it is about, and whether another
                         \* was written meanwhile
    interrupting,        \* external: the command registers whose completion
                         \* has not been acknowledged
    tod, tod_start, p_time,
    used                 \* history: the CPU time a process has used; with
                         \* TickForgiven, without the part of a slice that a
                         \* tick cut short

io == <<semd, device_semaphores, reg_a0, status, interrupting>>
vars == <<currProc, ready, io, tod, tod_start, p_time, used>>

Blocked == UNION {ToSet(semd[s]) : s \in Sems}
Live == ready \cup Blocked \cup ({currProc} \ {NULL})

(* Mutant: the sum is not reduced.                                         *)
PlusUnwrapped(a, b) == a + b

(* Arithmetic of cpu_t and of the TOD clock.  cpu_t is a signed int, whose *)
(* overflow C leaves undefined; the build (gcc, -O0, rv32) adds and        *)
(* subtracts with instructions that wrap, and the residue is what matters  *)
(* to differences of times.                                                *)
Plus(a, b) == (a + b) % 2^Width
elapsed == Plus(tod, -tod_start)

(* currProc->p_time += currentTime - tod_start.                            *)
charge == p_time' = [p_time EXCEPT ![currProc] = Plus(@, elapsed)]

(* Mutant: tod_start is not read again.                                    *)
dispatchOldStart(rdy) ==
    /\ \/ /\ rdy # {}
          /\ \E p \in rdy : currProc' = p /\ ready' = rdy \ {p}
       \/ /\ rdy = {}
          /\ currProc' = NULL
          /\ ready' = {}
    /\ UNCHANGED tod_start

(* dispatch(): the ready processes are rdy; with none the processor waits. *)
dispatch(rdy) ==
    \/ /\ rdy # {}
       /\ \E p \in rdy : currProc' = p /\ ready' = rdy \ {p}
       /\ tod_start' = tod
    \/ /\ rdy = {}
       /\ currProc' = NULL
       /\ ready' = {}
       /\ UNCHANGED tod_start
-----------------------------------------------------------------------------
(***************************************************************************)
(* System calls of the running process.  a0 holds the call's number while  *)
(* it is in progress, so an earlier result is gone.                        *)
(***************************************************************************)
block(s) ==
    /\ charge
    /\ semd' = [semd EXCEPT ![s] = Append(@, currProc)]
    /\ reg_a0' = [reg_a0 EXCEPT ![currProc] = NULL]
    /\ dispatch(ready)

(* NSYS3, when the semaphore is closed.                                    *)
nsys3 ==
    /\ currProc # NULL
    /\ block(UserSem)
    /\ UNCHANGED <<device_semaphores, status, interrupting, tod, used>>

(* NSYS4, when somebody waits.                                             *)
nsys4 ==
    /\ currProc # NULL
    /\ semd[UserSem] # <<>>
    /\ ready' = ready \cup {Head(semd[UserSem])}
    /\ semd' = [semd EXCEPT ![UserSem] = Tail(@)]
    /\ reg_a0' = [reg_a0 EXCEPT ![currProc] = NULL]
    /\ UNCHANGED <<currProc, device_semaphores, status, interrupting, tod,
                   tod_start, p_time, used>>

(* A command of p that has just begun, and a register at rest.             *)
command(p) == [code |-> BUSY, by |-> p, late |-> FALSE]
atRest == [code |-> READY, by |-> NULL, late |-> FALSE]

(* External: a command register ignores what is written to it while it is  *)
(* busy (late remembers that); a command it accepts withdraws the          *)
(* interrupt of an earlier one.                                            *)
writeCommand(r) ==
    \/ /\ status[r].code = BUSY
       /\ status' = [status EXCEPT ![r].late = TRUE]
       /\ UNCHANGED interrupting
    \/ /\ status[r].code # BUSY
       /\ status' = [status EXCEPT ![r] = command(currProc)]
       /\ interrupting' = interrupting \ {r}

(* Mutant: a completion that was counted lets the next request through.    *)
nsys5TakesCount(a1) ==
    /\ currProc # NULL
    /\ \/ /\ device_semaphores[semIndex(a1)] > 0
          /\ device_semaphores' = [device_semaphores EXCEPT ![semIndex(a1)] = @ - 1]
          /\ reg_a0' = [reg_a0 EXCEPT ![currProc] = status[a1]]
          /\ UNCHANGED <<currProc, ready, semd, tod_start, p_time>>
       \/ /\ device_semaphores[semIndex(a1)] = 0
          /\ block(semIndex(a1))
          /\ UNCHANGED device_semaphores
    /\ writeCommand(a1)
    /\ UNCHANGED <<tod, used>>

(* NSYS5: whatever the semaphore counts and the register does, the caller  *)
(* blocks.                                                                 *)
nsys5(a1) ==
    /\ currProc # NULL
    /\ block(semIndex(a1))
    /\ writeCommand(a1)
    /\ UNCHANGED <<device_semaphores, tod, used>>

(* What the callers of DOIO see to, with a mutex for every device          *)
(* (termReadSemaphore and termWriteSemaphore, swapSemaphore, the *_mut of  *)
(* p2test): nobody else waits for it.  It may still be at work, on the     *)
(* command of a process that was terminated.                               *)
exclusive(r) == semd[semIndex(r)] = <<>>

(* NSYS6: what GETTIME returns to the running process.                     *)
nsys6 == Plus(p_time[currProc], elapsed)

nsys7 ==
    /\ currProc # NULL
    /\ block(NSUPPSEM)
    /\ UNCHANGED <<device_semaphores, status, interrupting, tod, used>>

nsys10 ==
    /\ currProc # NULL
    /\ charge
    /\ reg_a0' = [reg_a0 EXCEPT ![currProc] = NULL]
    /\ dispatch(ready \cup {currProc})
    /\ UNCHANGED <<semd, device_semaphores, status, interrupting, tod, used>>

(* NSYS1.  The fields initPcb clears are those of a free PCB (see nsys2).  *)
nsys1(p) ==
    /\ currProc # NULL
    /\ p \in Procs \ Live
    /\ ready' = ready \cup {p}
    /\ reg_a0' = [reg_a0 EXCEPT ![currProc] = NULL]
    /\ UNCHANGED <<currProc, semd, device_semaphores, status, interrupting,
                   tod, tod_start, p_time, used>>

(* NSYS2 of the caller: it and D die; commands in progress go on, and what *)
(* they will report is no longer about anybody.  The fields of a PCB that  *)
(* nobody reads before initPcb clears them are cleared here.               *)
nsys2(D) ==
    /\ currProc # NULL
    /\ D \subseteq Live \ {currProc}
    /\ LET dead == D \cup {currProc}
       IN /\ semd' = [s \in Sems |-> Without(semd[s], dead)]
          /\ status' = [r \in CmdRegs |-> IF status[r].by \in dead
                                          THEN [status[r] EXCEPT !.by = NULL]
                                          ELSE status[r]]
          /\ reg_a0' = [p \in Procs |-> IF p \in dead THEN NULL ELSE reg_a0[p]]
          /\ p_time' = [p \in Procs |-> IF p \in dead THEN 0 ELSE p_time[p]]
          /\ used' = [p \in Procs |-> IF p \in dead THEN 0 ELSE used[p]]
          /\ dispatch(ready \ dead)
    /\ UNCHANGED <<device_semaphores, interrupting, tod>>
-----------------------------------------------------------------------------
(***************************************************************************)
(* Interrupts.                                                             *)
(***************************************************************************)
(* External: time passes for whoever has the CPU.                          *)
STCK ==
    /\ Width > 0
    /\ currProc # NULL => elapsed < TIMESLICE
    /\ tod' = Plus(tod, 1)
    /\ used' = IF currProc = NULL THEN used
               ELSE [used EXCEPT ![currProc] = Plus(@, 1)]
    /\ UNCHANGED <<currProc, ready, io, tod_start, p_time>>

(* The slice set by dispatch() is over.                                    *)
pltInterruptHandler ==
    /\ currProc # NULL
    /\ elapsed = TIMESLICE
    /\ charge
    /\ dispatch(ready \cup {currProc})
    /\ UNCHANGED <<io, tod, used>>

(* All waiters wake; the interrupted process is re-queued, and unlike in   *)
(* pltInterruptHandler its p_time is left as it was.                       *)
itInterruptHandler ==
    /\ semd' = [semd EXCEPT ![NSUPPSEM] = <<>>]
    /\ device_semaphores' = [device_semaphores EXCEPT ![NSUPPSEM] = 0]
    /\ used' = IF TickForgiven /\ currProc # NULL
               THEN [used EXCEPT ![currProc] = Plus(@, -elapsed)] ELSE used
    /\ dispatch(ready \cup ToSet(semd[NSUPPSEM]) \cup ({currProc} \ {NULL}))
    /\ UNCHANGED <<reg_a0, status, interrupting, tod, p_time>>

(* External: a command ends; terminals and other devices report success    *)
(* with different codes.                                                   *)
endCodes(r) ==
    {IF r < devAddr(7, 0) THEN READY ELSE CHARRECV}
    \cup IF Errors THEN {DEVERROR} ELSE {}

deviceDone(r) ==
    /\ status[r].code = BUSY
    /\ \E c \in endCodes(r) : status' = [status EXCEPT ![r].code = c]
    /\ interrupting' = interrupting \cup {r}
    /\ UNCHANGED <<currProc, ready, semd, device_semaphores, reg_a0, tod,
                   tod_start, p_time, used>>

(* The bitmap of an interrupt line.                                        *)
bitmap(IntLineNo) ==
    {n \in DevNos : <<IntLineNo, n>> \in Devices
                    /\ commands(IntLineNo, n) \cap interrupting # {}}

(* External: ACK, written to a command register.                           *)
acknowledge(r) ==
    /\ status' = [status EXCEPT ![r] = atRest]
    /\ interrupting' = interrupting \ {r}

(* LDST of the interrupted process, or dispatch() when the CPU was idle.   *)
resume(rdy) ==
    \/ /\ currProc # NULL
       /\ ready' = rdy
       /\ UNCHANGED <<currProc, tod_start>>
    \/ /\ currProc = NULL
       /\ dispatch(rdy)

(* The V on the device's semaphore, and the way out.                       *)
deliver(idx, st) ==
    \/ /\ semd[idx] # <<>>
       /\ semd' = [semd EXCEPT ![idx] = Tail(@)]
       /\ reg_a0' = [reg_a0 EXCEPT ![Head(semd[idx])] = st]
       /\ resume(ready \cup {Head(semd[idx])})
       /\ UNCHANGED device_semaphores
    \/ /\ semd[idx] = <<>>
       /\ device_semaphores' = [device_semaphores EXCEPT ![idx] = Min({@ + 1, MaxCount})]
       /\ resume(ready)
       /\ UNCHANGED <<semd, reg_a0>>

(* Mutant: a transmission is taken for complete whenever it is not busy.   *)
transmittedIfIdle(st) == st.code # BUSY

transmitted(st) == st.code = OKCHARTRANS
received(st) == st.code = CHARRECV

(* Mutant: the receiver is acknowledged all the same.                      *)
leavePendingAcked(recv) ==
    /\ resume(ready)
    /\ acknowledge(recv)
    /\ UNCHANGED <<semd, device_semaphores, reg_a0>>

(* A terminal of which neither half has succeeded.                         *)
leavePending(recv) == resume(ready) /\ UNCHANGED io

deviceInterruptHandler(IntLineNo, DevNo) ==
    /\ bitmap(IntLineNo) # {} /\ DevNo = Min(bitmap(IntLineNo))
    /\ LET recv == devAddr(IntLineNo, DevNo) + RECV
           transm == devAddr(IntLineNo, DevNo) + TRANSM
       IN \/ /\ IntLineNo = 7 /\ transmitted(status[transm])
             /\ deliver(semaphoreIdx(IntLineNo, DevNo, TRUE), status[transm])
             /\ acknowledge(transm)
          \/ /\ IntLineNo = 7 /\ ~transmitted(status[transm])
             /\ received(status[recv])
             /\ deliver(semaphoreIdx(IntLineNo, DevNo, FALSE), status[recv])
             /\ acknowledge(recv)
          \/ /\ IntLineNo = 7 /\ ~transmitted(status[transm])
             /\ ~received(status[recv])
             /\ leavePending(recv)
          \/ /\ IntLineNo # 7
             /\ deliver(semaphoreIdx(IntLineNo, DevNo, FALSE), status[recv])
             /\ acknowledge(recv)
    /\ UNCHANGED <<tod, p_time, used>>
-----------------------------------------------------------------------------
Init ==
    /\ \E p \in Procs : currProc = p /\ ready = Procs \ {p}
    /\ semd = [s \in Sems |-> <<>>]
    /\ device_semaphores = [s \in DevSems \cup {NSUPPSEM} |-> 0]
    /\ reg_a0 = [p \in Procs |-> NULL]
    /\ status = [r \in CmdRegs |-> atRest]
    /\ interrupting = {}
    /\ tod = 0
    /\ tod_start = 0
    /\ p_time = [p \in Procs |-> 0]
    /\ used = [p \in Procs |-> 0]

syscallHandler ==
    \/ \E p \in Procs : nsys1(p)
    \/ \E D \in SUBSET Procs : nsys2(D)
    \/ nsys3
    \/ nsys4
    \/ \E r \in CmdRegs : exclusive(r) /\ nsys5(r)
    \/ nsys7
    \/ nsys10

interruptHandler ==
    \/ pltInterruptHandler
    \/ itInterruptHandler
    \/ \E d \in Devices : deviceInterruptHandler(d[1], d[2])

Next ==
    \/ syscallHandler
    \/ interruptHandler
    \/ STCK
    \/ \E r \in CmdRegs : deviceDone(r)

Spec == Init /\ [][Next]_vars

(***************************************************************************)
(* Commands end, and an interrupt that is pending and unmasked is taken    *)
(* before the next user instruction: no device of a line and no half of a  *)
(* terminal whose turn comes again and again is passed over for ever.      *)
(***************************************************************************)
serve(d, r) == deviceInterruptHandler(d[1], d[2]) /\ interrupting' = interrupting \ {r}

Fairness ==
    /\ \A r \in CmdRegs : WF_vars(deviceDone(r))
    /\ \A d \in Devices : /\ WF_vars(deviceInterruptHandler(d[1], d[2]))
                          /\ \A r \in commands(d[1], d[2]) : SF_vars(serve(d, r))

FairSpec == Spec /\ Fairness
-----------------------------------------------------------------------------
(* Every variable holds a value of its kind.                               *)
TypeOK ==
    /\ currProc \in Procs \cup {NULL}
    /\ ready \subseteq Procs
    /\ semd \in [Sems -> Seq(Procs)]
    /\ device_semaphores \in [DevSems \cup {NSUPPSEM} -> 0..MaxCount]
    /\ status \in [CmdRegs -> [code : {READY, BUSY, DEVERROR, CHARRECV},
                               by : Procs \cup {NULL}, late : BOOLEAN]]
    /\ interrupting \subseteq CmdRegs
    /\ reg_a0 \in [Procs -> [code : {READY, DEVERROR, CHARRECV},
                             by : Procs \cup {NULL}, late : BOOLEAN] \cup {NULL}]
    /\ p_time \in [Procs -> 0..(2^Width - 1)]
    /\ used \in [Procs -> 0..(2^Width - 1)]
    /\ {tod, tod_start} \subseteq 0..(2^Width - 1)

(* nsys5 and deviceInterruptHandler, which compute it from an address and  *)
(* from a line and a device number, agree on the semaphore of each of the  *)
(* 48 sub-devices of the machine; no two share one and none is the         *)
(* pseudo-clock's.                                                         *)
IndicesAgree ==
    \A l \in Lines, n \in DevNos :
        /\ semIndex(devAddr(l, n) + RECV) = semaphoreIdx(l, n, FALSE)
        /\ l = 7 => semIndex(devAddr(l, n) + TRANSM) = semaphoreIdx(l, n, TRUE)
        /\ \A r \in commands(l, n) :
             /\ semIndex(r) \in 0..(NSUPPSEM - 1)
             /\ \A k \in Lines, m \in DevNos : \A q \in commands(k, m) :
                  semIndex(r) = semIndex(q) => r = q

(* A completion that p may be given: that of its own command or, if the    *)
(* device was still at work on the command of a terminated process when p  *)
(* asked for it and ignored p's, that one.                                 *)
DueTo(st, p) == st.by = p \/ (st.by = NULL /\ st.late)

(* A process waits for a device only while a command is in progress there  *)
(* or its completion is about to be delivered, and the completion is due   *)
(* to it: whatever is terminated, acknowledged or started in between,      *)
(* nobody waits for an interrupt that has already been consumed.           *)
WaitsForCompletion ==
    \A r \in CmdRegs : \A p \in ToSet(semd[semIndex(r)]) :
        DueTo(status[r], p) /\ (status[r].code = BUSY \/ r \in interrupting)

(* DOIO returns the completion status of the command the caller issued,    *)
(* or, when the device ignored that one, of the command that kept it busy; *)
(* never what belongs to another process that is alive, to the other half  *)
(* of a terminal or the other device of a line, the status of a command in *)
(* progress, or a completion that was counted on the semaphore because its *)
(* process was terminated: nsys5 blocks its caller whatever that counts.   *)
OwnAnswer ==
    \A p \in Live : reg_a0[p] # NULL =>
        DueTo(reg_a0[p], p) /\ reg_a0[p].code # BUSY

(* The CPU time on the books of a process is the time it has used:         *)
(* blocking, yielding, time slices, idle waits and other people's          *)
(* interrupts charge every tick of the clock once and to the process that  *)
(* used it, across the wrap of the clock.  For the running process it is   *)
(* what GETTIME returns.  A pseudo-clock tick charges nothing, so this     *)
(* holds only of a history that forgives it (TickForgiven).                *)
TimeAccounted ==
    \A p \in Live : used[p] = IF p = currProc THEN nsys6 ELSE p_time[p]

(* DOIO returns (or the caller is terminated).                             *)
DoioReturns ==
    \A p \in Procs, s \in DevSems : p \in ToSet(semd[s]) ~> p \notin ToSet(semd[s])
=============================================================================
