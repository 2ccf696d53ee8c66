# PandOSsh in TLA+

A verification project for PandOSsh, a small operating system for the uRISCV
emulator: a Nucleus (phases 1 and 2: process table, semaphores, scheduler,
system calls, interrupts) and a support level (phase 3: demand paging, terminal
I/O, a shell that runs one program at a time).

## 1. The system

| part | state | operations | correct when |
|---|---|---|---|
| process queues (`phase1/pcb.c`, `headers/listx.h`) | circular lists through `p_list` | `insertProcQ`, `removeProcQ`, `headProcQ`, `outProcQ` | by priority, FIFO within one; nobody lost or doubled |
| PCB table and tree (`phase1/pcb.c`) | `pcbFree_h`, `next_pid`, the PCB fields, `p_parent`, `p_child`, `p_sib` | `allocPcb`, `freePcb`, `insertChild`, `removeChild`, `outChild` | links describe one tree of living processes; pids are unique |
| Active Semaphore List (`phase1/asl.c`) | `semd_h`, `semdFree_h`, one queue per active semaphore | `insertBlocked`, `removeBlocked`, `outBlocked` | FIFO; a descriptor is there for whoever blocks |
| scheduler (`phase2/src/scheduler.c`) | `readyQueue`, `currProc`, `processCount`, `softBlock_count` | `dispatch` | highest priority first, round robin; HALT, WAIT, PANIC each when it is right |
| system calls (`phase2/src/syscall.c`) | the above and the semaphores' integers | NSYS1 to NSYS10 | every process in exactly one place; counters exact; termination removes the whole progeny and nobody else |
| exceptions (`phase2/src/exceptions.c`) | - | `exceptionHandler`, `syscallHandler`, `passUpOrDie`, `uTLB_RefillHandler` | a process without a support structure dies with its progeny |
| interrupts (`phase2/src/interrupts.c`) | timers, device registers, `device_semaphores` | local timer, interval timer, devices | no wake-up lost; who waits is woken |
| initialisation (`phase2/src/initial.c`) | everything | `main` | one process, `test`, is dispatched |
| CPU time (`p_time`, `tod_start`) | a counter per PCB | every path that leaves the CPU, NSYS6 | time used is time counted |
| pager (`phase3/src/vmSupport.c`) | `swapPool`, page tables, TLB, `swapSemaphore`, `holdingSwapMutex` | `pager`, `freeSwapFrames`, flash I/O | a frame belongs to one valid page; the mutex is released on every path |
| support system calls (`phase3/src/syscalls.c`, `sysSupport.c`) | terminal semaphores, `shellSemaphore`, `masterSemaphore` | SYS2, 4, 5, 6 | the shell waits for its program and no semaphore is held by the dead |
| instantiator (`phase3/src/initProc.c`, `helpers.c`) | `supportPool` | `test`, `createUProc` | the system halts after the shell exits |
| shell and programs (`testers/`) | buffers on the stack | command loop, `trimSpaces`, `calc` | a program runs when its name is typed and only then; `calc` prints the value |

The parts interact through shared variables only. The kernel runs on one CPU
with interrupts disabled, so a handler is atomic for everybody except the
devices, which finish when they like. Concurrency comes from the order of system
calls, timer ticks and device interrupts, and, in phase 3, from the pager and
the support system calls, which run with interrupts enabled and synchronise
through Nucleus semaphores. The hard behaviours are termination of a process in
whatever state it is, wake-ups racing with termination, the two counters that
decide whether the machine stops, PCB reuse, priority order under Yield, page
replacement interleaved with the termination of the pages' owners, and failure of
a flash device in the middle of a page replacement. They are listed, each at its
line, under "hazards" in PROJECT.json.

## 2. Modules

- **ProcQueue**: process queues as sequences, in the order `list_for_each` visits
  them. `insertProcQ` inserts before the first PCB of lower priority. `Without` is a
  queue that several processes have left at once; it is SelectSeq written without
  recursion, so that it can be proved about.
- **Nucleus**: the whole Nucleus, one variable per global or PCB field.
- **MCNucleus**: the instance TLC checks (symmetry, a fixed first PCB).
- **ProcQueueProofs**, **NucleusProofs**, **NucleusTreeProofs**: lemmas and theorems,
  see section 4.
- **SemaphoreSpec**: what the Nucleus promises about semaphores: a value and a
  FIFO queue each, a V wakes the longest waiter or is counted, nobody overtakes.
  `Leave` lets processes leave the queues at any time, since a termination can come at
  any time; that nobody leaves otherwise is `OnePlace` with `TerminateExact`.
  Nucleus is proved to implement it (`ImplementsSemaphores`), and P, V and
  TERMPROCESS as Support uses them to be steps of it (`UsesSemaphores`). That is
  what connects the two levels, which share no state otherwise.
- **Lists**: `listx.h`, `pcb.c` and `asl.c` pointer by pointer: the free PCBs, the
  ready queue, the ASL, the descriptors and their queues in one heap.
- **QueueSpec**: the same operations on sequences, with the operators of ProcQueue
  that Nucleus uses. Lists is proved to implement it (`ImplementsQueues`), reading
  a list as what `list_for_each` visits.
- **Interrupts**: device I/O and CPU time in the Nucleus: device registers, DOIO,
  the decoding of device interrupts, `p_time` and `tod_start`. It repeats the
  Nucleus actions as far as they move the CPU or the waiters of a device.
- **InterruptsProofs**, **SupportProofs**, **SupportMemoryProofs**, **ListsProofs**,
  **ShellProofs**: see section 4.
- **Support**: the support level of phase 3 over the Nucleus' semaphores, and
  `uTLB_RefillHandler`.
- **Shell**: the shell and the calculator, over the memory READTERMINAL fills.
- **MCSupport**, **MCLists**, **MCInterrupts**, **MCShell**: symmetry, sets of devices
  and of lines.

### Nucleus: state and actions

Variables have the names of the C globals and PCB fields. `semd[s]` is the queue
of the descriptor with key `s`; a semaphore whose queue is empty is not in the
ASL. `semVal[s]` is the integer at the address. `cpu` is what the processor does:

| `cpu` | meaning |
|---|---|
| `run` | `currProc` executes |
| `wait` | `dispatch()` sits in `WAIT()` |
| `halt`, `panic` | the machine has stopped |
| `tick` | the loop of `itInterruptHandler` |
| `term` | inside `terminateProcess`; `term` is its stack of activations |
| `corrupt` | `freePcb` has relinked a PCB that was on `readyQueue` (finding 1); the two circular lists are spliced, and the model stops |

| action | code |
|---|---|
| `nsys1` | NSYS1 with `allocPcb`, `initPcb`, `insertProcQ`, `insertChild` |
| `nsys2`, `passUpOrDie` | enter `terminateProcess` (or return NOPROC; or pass up, which changes no Nucleus state) |
| `terminateChild` | one iteration of its `while`: `removeChild` and the recursive call |
| `terminateSelf` | its rest for one PCB; after the outermost call, `dispatch()` |
| `nsys3`, `nsys4`, `nsys5`, `nsys7`, `nsys10` | P, V, DoIO, WaitForClock, Yield |
| `pltInterruptHandler`, `itInterruptHandler`, `deviceInterruptHandler` | the handlers, the second with one step per waiter |
| `deviceDone` | external: a device finishes its command |

Abstractions. Registers, `p_time` and the addresses inside device registers are
left out (Interrupts has the last two); NSYS6, 8 and 9 change only the caller's
`a0` and have no action. The
free list and the child lists are sets: which free PCB is taken and which child
is removed first is a free choice, which includes the code's LIFO choice.
`p_supportStruct` is whether it is NULL. `doomed` is a history variable: the
progeny of the process being terminated when the termination began.

Two constants choose how processes behave. `KillAny = FALSE` lets a process
terminate itself or an ancestor only, as every program of the repository does;
`TRUE` any pid. `SharedDev = FALSE` lets one process at a time wait for a device,
as the mutexes of `p2test.c` and phase 3 ensure.

### Support: state and actions

Support-level code runs with interrupts enabled, so another process may get the CPU
anywhere. Steps end at the Nucleus calls that block or wake somebody; between two
of them a handler touches only what `swapSemaphore` protects, what it does with
interrupts masked, or fields of its own. `pc` is where each process is, `ret` where
a memory access came from (user code, `writeTerminal` or `readTerminal`).

| variable | code |
|---|---|
| `semVal`, `semQ` | the five semaphores of phase 3 and who waits on them |
| `swapPool`, `fifoCont`, `holdingSwapMutex` | the same names in `vmSupport.c` |
| `pte` | `pte_entryLO` of every page table entry: a frame, or `INVALID` |
| `tlb` | what the TLB caches of it (external): `ABSENT` when it does not |
| `ram`, `flash` | which page's contents a frame or a flash block holds, and whether they are what the program wrote last |

| action | code |
|---|---|
| `touch`, `loadStore` | a memory access, by the program or by SYS4 and SYS5 for it |
| `uTLB_RefillHandler` | a TLB miss; the entry may displace any other (TLBWR) |
| `pagerEnter` ... `pagerGiveUp` | `pager`, cut at P, the two DOIOs and V; `pagerGiveUp` is the branch of a failed read |
| `sys2Enter`, `sys2Signal`, `freeSwapFrames...`, `sys2Term` | SYS2, cut at its Nucleus calls |
| `programTrapHandler` | TERMINATE, traps, unknown calls, bad arguments |
| `terminalEnter`, `terminalLeave` | SYS4 and SYS5 |
| `sys6`, `sys6Join` | SYS6 up to its P, and the P |
| `testWait`, `testEnd` | the instantiator after it has created the shell |

Abstractions. A program is anything: it touches pages and issues system calls in any
order. Contents are reduced to "page e, latest or older" or `JUNK`, which is all
coherence can tell apart. A flash operation is a step that succeeds, or fails where
`ReadFails` or `WriteFails` say it may. TERMPROCESS does what finding 1 says: every
U-proc has been woken at least once, from the DOIO that read its first page, so a
descendant that is ready is taken for a blocked one and freed on the ready queue. It is
a `zombie` then; readyQueue runs into the list of free PCBs, `dispatch()` never finds
it empty again, and the model stops (`Corrupt`). `Reuse` says whether the shell may
execute a program whose previous instance still exists; `FALSE` is what SYS6's documentation promises, `TRUE` what the code allows
(finding 3). `Vpns` may lie outside the page table.

### Interrupts: state and actions

| variable | code |
|---|---|
| `currProc`, `semd`, `device_semaphores`, `tod_start`, `p_time` | the same names |
| `ready` | the members of `readyQueue`; `dispatch()` takes any of them |
| `reg_a0` | the status DOIO has returned to a process, with whose command it is about; forgotten at its next system call |
| `status`, `interrupting` | external: status of every command register, whose command it is, whether another was written meanwhile (`late`), and whether its completion is unacknowledged |
| `tod` | external: the TOD clock, modulo 2^`Width` like `cpu_t` |
| `used` | history: the CPU time a process has used; with `TickForgiven`, without the slices a tick cut short |

| action | code |
|---|---|
| `nsys1`, `nsys2`, `nsys3`, `nsys4`, `nsys7`, `nsys10` | what they do to the CPU, the waiters and the times; whether a P blocks and which processes a termination takes along are free |
| `nsys5`, `writeCommand` | address to semaphore (`semIndex`), charge, block whatever the semaphore counts, write the command; a busy register ignores it (external) |
| `exclusive` | callers of DOIO ask for a device nobody waits for |
| `nsys6` | the value GETTIME returns (an operator) |
| `pltInterruptHandler`, `itInterruptHandler` | the second charges nobody, as the code does |
| `deviceInterruptHandler` | lowest device of the line; for a terminal the transmitter first, then the receiver, otherwise `leavePending`; ACK, wake-up or V, resume or `dispatch()` |
| `deviceDone`, `STCK` | external: a command ends, well or (with `Errors`) badly; the clock ticks |

One process at a time waits for a device half: every caller of DOIO in the repository
holds a mutex for it. A holder that is terminated during its I/O never gives the mutex
back, so nobody asks for a device that still works on the command of a dead process
either. The Nucleus does not see to that, so the model has it all the same: the register
ignores the command and `late` remembers that. A command written over an unacknowledged
completion withdraws it; that happens when the requester of the completion was
terminated.

`TickForgiven = TRUE` takes out of the history what a pseudo-clock tick fails to charge,
so that `TimeAccounted` can say that nothing else is lost; with `FALSE` the history is
the time really used, and the property does not hold (observation 7). `cpu_t` is a signed
int, whose overflow C leaves undefined; `Plus` wraps because the build (gcc, `-O0`,
rv32) adds and subtracts with instructions that do.

### Lists: state and actions

`heap` is `next` and `prev` of every `list_head`; a PCB stands for its `p_list` and a
descriptor for its `s_link`. The operators of `listx.h` map a heap to a heap; the
actions are the functions of `pcb.c` and `asl.c`, called in any order a caller
can call them in: what is inserted or freed is in its hands (`held`). The
child and sibling lists are not here; they use the same operations. What
`list_for_each` visits is a recursive function that follows `next`; `matches` are the
places of the ASL where a search finds a key and `found` is the descriptor in the
first of them. `TablesAssumption` says that table entries, heads and addresses are
different objects.

### Shell: state and actions

`buffer` is the shell's, cell by cell, with whatever earlier lines or the stack left
in it. `shellMain(l)` is one round of the command loop for a typed line `l`: read,
cut the newline, `trimSpaces`, `exit`, search, EXECUTE. `calcMain(l)` is a run of the
calculator, the only program whose run is followed; `executeReturns` ends its EXECUTE.
A string without a NUL makes the shell read behind its buffer, and a line that does not
fit calc's two buffers of ten cells makes calc store behind them; the model shows both
as `pc = "undefined"`. `answer` is the result calc prints; the message it prints for a
line it refuses is left out, and `answer` is empty then.

## 3. Runs

| run | instance | checks |
|---|---|---|
| `nucleus_safety` | 3 PCBs, 4 pids, 1 user semaphore, 1 device, the clock, 2 priorities, PCBs symmetric | `TypeOK`, `OnePlace`, `CountsExact`, `StopsRightly`, `NoWaiterOnOpenSemaphore`, `AslNeverFull`, `ReadySorted`, `TreeConsistent`, `PidsDistinct`, `TerminateExact`, refinement `ImplementsSemaphores` |
| `nucleus_liveness` | 3 PCBs, 2 priorities, 1 device, the clock, no user semaphore, fairness | `ClockWakes`, `DoioWakes`, `TopPriorityRuns` |
| `nucleus_stale_semadd` | as `nucleus_safety` | `FreedLeavesReadyQueue`: violated |
| `lists` | 3 PCBs, 2 descriptors, 3 semaphores, 2 priorities, symmetric | `TypeOK`, `Circular`, `DescriptorsExact`, refinement `ImplementsQueues` |
| `interrupts_io` | 3 processes, a flash device, a terminal, errors, no time, symmetric | `WaitsForCompletion`, `OwnAnswer` |
| `interrupts_time` | 2 processes, a flash device, a terminal, a clock of 2 bits, slices of 2 ticks, `TickForgiven`, fairness | `TypeOK`, `TimeAccounted`, `DoioReturns` |
| `interrupts_terminal_error` | 2 processes, a terminal, errors, fairness | `DoioReturns`: violated |
| `support_safety` | shell and 2 programs, 4 ASIDs with 1 page each, 2 frames, symmetric | `TypeOK`, `OccupiedFrame`, `Coherent`, `NoPanic`, `SwapMutex`, `HoldingRight`, refinement `UsesSemaphores` |
| `support_liveness` | shell and 1 program, 1 page each, one address outside, 1 frame, reads and writes may fail, fairness | `FaultServed`, `ShellResumes`, `ShutsDown` |
| `support_halt` | the same without the address outside and without failures | `SystemHalts`: violated |
| `support_reuse` | shell and 2 programs, 2 pages each, 2 frames, `Reuse` | `Coherent`: violated |
| `shell` | a buffer of 11 characters, 31 lines, 531 expressions | `TypeOK`, `ScansEnd`, `ShellObeys`, `CalcRight` |

Bounds, Nucleus. Three PCBs give a parent with two children or a chain of three, a running,
a ready and a blocked process at once, three waiters on different semaphores
(the ASL at its limit), and an exhausted table; a fourth pid makes a PCB be
reused. `MaxPid` bounds the processes ever created, `MaxSemVal` the value of a
user semaphore; beyond them CREATEPROCESS and V are not offered. The machine
really stops in HALT and PANIC, and the model in `corrupt`, so the runs do not
check for deadlock; `StopsRightly` says instead when it may stop. Most
properties are stated for an `Intact` machine, because finding 1 is reachable in
the same instance: they say the Nucleus is right until that happens. The
liveness run has no user semaphore: nothing promises that a process leaves one.

Bounds, Support. Two frames for three processes make every fault an eviction sooner
or later, let one page be used while another is replaced, make the round robin wrap
and move a page from frame to frame. The third process is what the early wake-up
of the shell allows: a program that starts while another is still inside SYS2. A
fourth ASID makes CREATEPROCESS fail (the PCBs of `Kids` are used up). For liveness
one frame suffices: everybody contends for it. The machine halts when the shell has
ended and the model stops when it is `Corrupt`, so deadlock is not checked; `NoPanic`
says that it does not stop otherwise.

Bounds, Interrupts. The terminal has two completions pending at once, and the third
process asks for a device whose last requester was terminated, before or after its
completion. A second device on a line makes the instance too large; its choice and its
semaphore are covered by the proofs, and by `IndicesAgree`, which TLC evaluates for all
48 sub-devices. `MaxCount` caps the V's nobody waited for:
nsys5 never looks at them. Two bits of clock wrap within one slice and the next.
The machine halts when all processes have ended, so deadlock is not checked.

Bounds, Lists. Three PCBs give a queue with a first, a middle and a last member. The
code has as many descriptors as PCBs, and `AslNeverFull` says they suffice; here there
is one less, so that the branch of `insertBlocked` for an exhausted list is taken too.

Bounds, Shell. The buffer is two longer than the longest name. Every name is typed;
three of them also a letter short, a letter too long and with blanks around them;
blank lines, two words, and lines around the size of the buffer. Each may follow
each, so every tail an earlier line leaves is met. The calculator gets every digit,
operator and digit, every arrangement of up to four blanks, digits and signs, and an
expression followed by blanks or digits up to lengths below, at and above the size of
its buffers. The shell ends with exit or in `undefined`, so deadlock is not checked.

Fairness. `pltInterruptHandler` is weakly fair per process: every dispatch reloads
the timer, so a process that keeps the CPU is interrupted, and nothing is asked of
a CPU that changes hands. The interval timer is periodic and a device interrupt
stays pending until acknowledged, so both are strongly fair: they are taken if
interrupts are enabled again and again. `terminateProcess` and the devices go on.
Nothing is assumed of the system calls a process issues. In Support all processes
have the same priority, so round robin (`TopPriorityRuns`) runs each ready one, and
flash devices finish: the handlers of each process are weakly fair. Nothing is
asked of user code or of the terminal. In Interrupts a device ends its command, and a
pending interrupt that is not masked is taken before the next user instruction: weak
fairness for the handler of each device, strong fairness for each half of a terminal,
since a half that waits while the other is served has its turn again and again.

### Findings

1. `removeBlocked` leaves `p_semAdd`; `terminateProcess` then takes a woken process
   for a blocked one and frees it while it is on the ready queue
   (`nucleus_stale_semadd`).
2. SYS2 of the shell wakes the instantiator before the shell terminates itself. If the
   shell is preempted in between, the instantiator terminates a ready shell, finding 1
   strikes and the machine does not halt, as the documentation says it does
   (`support_halt`). `ShutsDown` is what holds.
3. SYS2 wakes the shell before the program has freed its frames and is terminated,
   so the shell can execute the same program again too early: the new instance uses
   cached translations of the old one, or loses pages the old one frees
   (`support_reuse`).
4. A terminal that reports an error is neither acknowledged nor its waiter woken
   (`interrupts_terminal_error`).

Observations that come with the models and have no run of their own; for those that
name a constant, changing it shows them:

5. With `KillAny`, `OnePlace` and `NobodyLost` do not hold: TERMPROCESS of a process that
   is neither the caller nor an ancestor of it ends in `dispatch()` all the same, which
   forgets the caller (`phase2/src/syscall.c:206`), although `src/README.md:121` speaks of
   the named process and its progeny only.
6. The documentation says that a completion nobody waits for keeps the next process
   that asks for the device from blocking (`documentazione2.tex:111`: "facendo sì, se la
   coda è vuota, che il prossimo non si blocchi"). `deviceInterruptHandler` counts it
   (`interrupts.c:218`), but `nsys5` never looks at the count and always blocks
   (`syscall.c:320`). The code is right: as documented, DOIO would return before its
   own command has ended. That is the mutant `nsys5TakesCount`, which violates
   `OwnAnswer`.
7. A pseudo-clock tick drops the time its victim has used since it was dispatched,
   although the comment (`interrupts.c:68`) calls the code identical to the local
   timer's, which does charge it. With `TickForgiven = FALSE`, `TimeAccounted` does not
   hold; with `TRUE` it says that nothing else is dropped.
8. calc accepts whatever begins with digit operator digit: 7-77 is answered like 7-7,
   although its comment says the format is digit operator digit and anything else
   gives -1 (`testers/calc.c:23-32`). `CalcRight` states what the code does.
9. With `ReadFails`, `OccupiedFrame` does not hold: a failed page read leaves the swap
   pool entry of the page evicted for it, and a later eviction writes the wrong
   contents over that page's block. Nor does `NoPanic`: a process that faults inside
   SYS4 or SYS5 and whose page cannot be read dies with the terminal semaphore taken.
   With `WriteFails`, `Coherent` does not hold.
10. An access outside a program's 32 pages is refilled with another page's entry for
    ever, instead of being a trap (`Vpns` with a number not below `MAXPAGES`).
11. A ready process of lower priority can starve, although the documentation promises
    every ready process its turn; `TopPriorityRuns` is what holds.
12. Who asks for a device that still works on the command of a terminated process is
    given that completion by DOIO, and its own command was never accepted (`DueTo`, the
    second case). Only the mutexes of the callers keep this from happening.
13. A line longer than the shell's buffer leaves it without a NUL and the loops of the
    shell read on behind it; a line of ten characters, or of nine without a space,
    overruns calc's buffers. `ScansEnd` says that nothing shorter does.

## 4. Proofs

For every value of the constants that satisfies the named assumptions.

- `ProcQueueProofs`: what `insertProcQ`, `outProcQ`, Head and Tail, and Append do to
  the elements of a queue, to its order and to the absence of repetitions. The
  argument for `insertProcQ` is that `insertPoint`, a minimum, exists (the naturals
  are well-founded) and splits a sorted queue into those of at least p's
  priority and those of less.
- `NucleusProofs`: `TypeCorrect` and its consequence `TypeSafe` (`TypeOK`).
  `TypeOK` alone is not inductive, since a handler that queues `currProc` needs it
  to be a PCB and not NULL; the inductive invariant adds `SomebodyRuns`.
  `PlaceCorrect`, hence `OnePlaceSafe` (`OnePlace`), `AslSafe`
  (`AslNeverFull`) and `NobodyLostSafe`, all assuming `~KillAny`; without it observation 5
  refutes them. The inductive invariant `PlaceInv` adds to `OnePlace`: `SemAddRight` (who
  is on a semaphore's queue names it in `p_semAdd`, so that `outBlocked` finds the
  terminated process), `IdleCpu` (no current process while the CPU waits or has
  stopped, so that a wake-up cannot queue a running one) and `TermCovers` (a
  termination in progress will reach the caller, so that the final `dispatch()`
  forgets nobody). `TermCovers` needs facts about the tree that `removeChild` cuts:
  what can be reached from a process is reached from it or from the child removed.
  `AslSafe` is a pigeonhole: waiters of different semaphores are different PCBs, and
  the running process is none of them.
  `ReadySortedSafe` (`ReadySorted`, `~KillAny`: Yield's detour through
  an unsorted queue ends sorted because `dispatch()` takes the head it put back), and
  `NoWaiterSafe` (`NoWaiterOnOpenSemaphore`, no assumption).
  `SemaphoresSafe` is the refinement of SemaphoreSpec (`ImplementsSemaphores`,
  `~KillAny`). Every Nucleus step is a P, a V, a tick's wake-up, the removal of one
  process from the queue it is on, or a stutter. `PlaceInv` is what makes
  the removal one: `p_semAdd` of a blocked process names the only queue it is on.
- `NucleusTreeProofs`: `PidsSafe` (`PidsDistinct`) and `TerminateSafe` (`TerminateExact`),
  both without assumptions, and, assuming `~KillAny`, `TreeSafe` (`TreeConsistent`),
  `CountsSafe` (`CountsExact`) and `StopsSafe` (`StopsRightly`). A step is seen by the tree
  in one of five ways (`StepKinds`). Strengthenings: every pid is below `next_pid`
  (`PidsIssued`); during a termination the doomed are those freed already and
  those still below the stack (`DoomedRight`); the stack holds living processes,
  youngest first (`StackRight`); a stopped CPU is in the mode its counters
  ask for (`IdleRight`). The counters are cardinalities: a process that blocks was in no
  queue, one that is woken or terminated was in exactly one (`PlaceInv`).
- `SupportProofs`: `TypeSafe` (`TypeOK`), `SwapMutexSafe` (`SwapMutex`), `HoldingSafe`
  (`HoldingRight`) and the refinement `SemaphoresSafe` (`UsesSemaphores`), without
  assumptions: also when flash operations fail and when ASIDs are reused too early. The
  inductive invariant `SyncInv` says who may wait where (`WaitsRight`), that at most one
  process is behind the P of `swapSemaphore` and then the semaphore is 0 (`OneInside`),
  that one program at a time has not yet signalled the shell (`OneProgram`, which makes
  `holdingSwapMutex` of an ASID unambiguous) and that children die with the shell
  (`Orphans`). `NoPanicSafe` (`NoPanic`) assumes `~ReadFails`, without which observation 9
  refutes it; `HeldInv` adds the converse facts: a closed semaphore has a living
  holder who is not waiting for the next one in a circle.
- `SupportMemoryProofs`: `OccupiedSafe` (`OccupiedFrame`) and `CoherentSafe` (`Coherent`),
  assuming `~ReadFails`, `~WriteFails` (observation 9) and `~Reuse` (finding 3). `MemInv`
  relates swap pool, page tables, TLB, frames and flash: frames in use belong to
  processes that are still there (`FramesOwned`), a frame in use holds the latest contents of its
  page, an invalid page has them on flash unless it is the victim being written
  back (`DiskRight`), the TLB never holds a translation the page table has lost
  (`TlbRight`), and what the pager remembers over a DOIO is still true when it goes on
  (`FaultsOpen`, `VictimRight`, `LoadedRight`), because it holds the mutex (`SyncInv`).
- `InterruptsProofs`, for any processes, devices, errors and any width of the clock:
  `SemaphoresAgree`, `TypeSafe` (`TypeOK`), `WaitsSafe` (`WaitsForCompletion`), `AnswerSafe`
  (`OwnAnswer`) and, assuming `TickForgiven` (observation 7), `TimeSafe`
  (`TimeAccounted`). nsys5 computes a device's semaphore from the
  address of a command register, the interrupt handler from line, number and half;
  both mean the same one for all 48 sub-devices, and no two share one: the lemma
  `SemIndexValue` does the division and remainder. `IOInv` adds that at most one
  process waits for a device, once (`AloneWaiting`: one wake-up empties the queue), that
  the issuer of a command in progress, if it is alive, is the one who waits
  (`BusyOwned`: who asks for a busy device asks for that of a dead process), that a
  register interrupts only when its command has ended, and that a PCB nobody uses holds
  no answer. `TimeKept` is `TimeAccounted` for all PCBs; the steps need that sums modulo 2^Width may
  be reduced at any point (`PlusFacts`).

- `ListsProofs`, for tables of any size: `TypeSafe` (`TypeOK`), `CircularSafe`
  (`Circular`), `DescriptorsSafe` (`DescriptorsExact`) and the refinement `QueuesSafe`
  (`ImplementsQueues`). None of the checked invariants is inductive: `list_del` repairs a
  list only if the node is on a list, and on one. The inductive invariant `ListsInv` says
  that the heap is a set of disjoint circles: there are sequences `Q`, one for each
  head, such that next and prev go around each (`Ring`), no two share a node and nothing else is
  linked (`WellFormed`); PCBs in hand are alone, all others and all descriptors are on
  a list of their kind (`Shape`); active descriptors have keys of their own and waiters,
  free ones have none (`Keyed`). One lemma per function of `listx.h` says that adding is
  InsertAt and deleting RemoveAt on one circle and leaves the others alone; one per
  function of `pcb.c` and `asl.c` says what becomes of `Q`. `ForEach` reads the circle
  back: `list_for_each` visits its members in order and ends, since no circle
  is longer than the table. It needs that the recursive function of `list_for_each`
  exists, which is shown without an induction theorem: a least range for which
  it does not would be one more than a range for which it does (`WalkExists`).
- `ShellProofs`, for every size of the buffer above calc's ten cells, all lines, also
  those that overrun a buffer, and all contents of the buffer: `BufferSafe` (`TypeOK`),
  `ScansSafe` (`ScansEnd`),
  `ObeysSafe` (`ShellObeys`) and `CalculatorSafe` (`CalcRight`). The types alone carry the
  induction; the work is in the operators. `LineStored`: a line that fits becomes a
  string in the buffer (`Holds`), one that does not leaves no NUL in it. `TrimmedStored`:
  `trimSpaces` turns the string into the line without the spaces around it. `SameIsEqual`:
  the comparison of the shell is then equality. `Parsed`: without its spaces calc's
  line keeps the newline as its last character but the NUL, so that a short expression is
  refused (what follows a third character is not looked at, observation 8);
  `ResultPrinted`: two characters suffice for every result.

The assumptions are the choices of section 2: `~KillAny`, `~ReadFails`, `~WriteFails`,
`~Reuse` and `TickForgiven` are values the runs `nucleus_safety`, `support_safety` and
`interrupts_time` use as well, and each has a run or an observation that shows what goes
wrong without it.

Every safety property a passing run checks, refinements included, is thus the
statement of a theorem. Only model-checked: `ClockWakes`, `DoioWakes`,
`TopPriorityRuns`, `DoioReturns`, `FaultServed`, `ShellResumes` and `ShutsDown`, since
fairness is out of the prover's reach; and the four violations, which are
counterexamples.

## 5. Plan

Modelled, checked and proved in this order: Nucleus, Support, the refinements of
SemaphoreSpec, Interrupts, Lists, Shell. What could follow:

1. The child and sibling lists pointer by pointer in Lists, with the lemmas of
   `listx.h` that ListsProofs has.
2. Nucleus stated with the actions of QueueSpec, so that `ImplementsQueues` and
   `ImplementsSemaphores` compose into one refinement from heap to semaphores.

## 6. Not modelled

The phase tests and the user programs that print constants; the debug log; the
uRISCV machine except for the devices' completion, the timers and the TLB. In
phase 3: `initPagetable` of `vmSupport.c`, which nobody calls; the TLB-Mod branch of
`pager`, since the dirty bit is always set; the range check of `readWriteFlashdrive`,
since only pages of the table get there; registers and kernel stacks, so that an old
and a new instance of a program sharing `sup_stackGen` are not seen. The child and
sibling lists are sets in Nucleus and not modelled pointer by pointer; `headProcQ`,
`headBlocked` and the backward macros of `listx.h`, which the kernel does not call, are left
out. The error return of `readTerminal` (`phase3/src/syscalls.c:72`), after which the shell
would index its buffer with a negative length and execute the old line again, is not in
Shell: it needs a DOIO that returns an error of the terminal, which the Nucleus never
delivers (finding 4). Who repairs that finding has to handle the error in the shell too.
Formatting and printing of the programs is left out except for calc's answer.
