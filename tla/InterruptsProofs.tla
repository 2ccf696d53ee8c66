-------------------------- MODULE InterruptsProofs --------------------------
(***************************************************************************)
(* DOIO and the accounting of CPU time, for any number of processes, any   *)
(* devices and any width of the clock: types, DOIO waits for a command     *)
(* that has not been acknowledged and returns no other process's status,   *)
(* every tick is charged once.                                             *)
(***************************************************************************)
EXTENDS Interrupts, ProcQueueProofs, TLAPS

(* The address arithmetic of nsys5: the register of line l, device n and   *)
(* field f selects semaphore 8(l - 3) + n, a transmitter the one eight     *)
(* further on.                                                             *)
LEMMA SemIndexValue ==
    ASSUME NEW l \in Lines, NEW n \in DevNos, NEW f \in {RECV, TRANSM}
    PROVE  semIndex(devAddr(l, n) + f) =
               (l - 3) * 8 + n + IF l = 7 /\ f = TRANSM THEN 8 ELSE 0
  <1> DEFINE offset == devAddr(l, n) + f - START_DEVREG
             regIndex == offset \div 16
  <1>1. /\ offset = 16 * ((l - 3) * 8 + n) + f
        /\ f \in 0..15 /\ (l - 3) * 8 + n \in 0..39
    BY DEF devAddr, START_DEVREG, Lines, DevNos, RECV, TRANSM
  <1>2. regIndex = (l - 3) * 8 + n /\ offset % 16 = f
    <2> HIDE DEF offset
    <2> QED BY <1>1
  <1>3. /\ regIndex \div 8 = l - 3
        /\ regIndex % 8 = n
    <2> HIDE DEF regIndex
    <2> QED BY <1>2 DEF Lines, DevNos
  <1>4. semIndex(devAddr(l, n) + f) =
            (regIndex \div 8) * 8 + (regIndex % 8)
            + IF regIndex \div 8 = 4 /\ offset % 16 = TRANSM THEN 8 ELSE 0
    BY <1>1 DEF semIndex, DEVREGSIZE, DEVPERINT, devAddr, START_DEVREG,
                RECV, TRANSM, Lines, DevNos
  <1> HIDE DEF offset, regIndex
  <1> QED BY <1>2, <1>3, <1>4 DEF Lines, DevNos

(* A command register has a semaphore of its own.                          *)
LEMMA RegisterSem ==
    ASSUME NEW l \in Lines, NEW n \in DevNos, NEW r \in commands(l, n)
    PROVE  \E f \in {RECV, TRANSM} :
               /\ r = devAddr(l, n) + f /\ (f = TRANSM => l = 7)
               /\ semIndex(r) = (l - 3) * 8 + n + IF l = 7 /\ f = TRANSM THEN 8 ELSE 0
               /\ semIndex(r) \in 0..(NSUPPSEM - 1)
<1>1. PICK f \in {RECV, TRANSM} : r = devAddr(l, n) + f /\ (f = TRANSM => l = 7)
  BY DEF commands, RECV, TRANSM
<1>2. semIndex(r) = (l - 3) * 8 + n + IF l = 7 /\ f = TRANSM THEN 8 ELSE 0
  BY <1>1, SemIndexValue
<1>3. semIndex(r) \in 0..(NSUPPSEM - 1)
  BY <1>2 DEF NSUPPSEM, Lines, DevNos
<1>. QED BY <1>1, <1>2, <1>3

LEMMA RegistersApart ==
    ASSUME NEW l \in Lines, NEW n \in DevNos, NEW r \in commands(l, n),
           NEW k \in Lines, NEW m \in DevNos, NEW q \in commands(k, m),
           semIndex(r) = semIndex(q)
    PROVE  r = q
<1>1. PICK f \in {RECV, TRANSM} :
         /\ r = devAddr(l, n) + f /\ (f = TRANSM => l = 7)
         /\ semIndex(r) = (l - 3) * 8 + n + IF l = 7 /\ f = TRANSM THEN 8 ELSE 0
  BY RegisterSem
<1>2. PICK g \in {RECV, TRANSM} :
         /\ q = devAddr(k, m) + g /\ (g = TRANSM => k = 7)
         /\ semIndex(q) = (k - 3) * 8 + m + IF k = 7 /\ g = TRANSM THEN 8 ELSE 0
  BY RegisterSem
<1>3. l = k /\ n = m /\ f = g
  BY <1>1, <1>2 DEF Lines, DevNos, RECV, TRANSM
<1>. QED BY <1>1, <1>2, <1>3

(* DOIO and the interrupt handler mean the same semaphore by every one of  *)
(* the machine's sub-devices, and no two of them share one (nsys5,         *)
(* deviceInterruptHandler).                                                *)
THEOREM SemaphoresAgree == IndicesAgree
<1>. SUFFICES ASSUME NEW l \in Lines, NEW n \in DevNos
              PROVE  /\ semIndex(devAddr(l, n) + RECV) = semaphoreIdx(l, n, FALSE)
                     /\ l = 7 => semIndex(devAddr(l, n) + TRANSM) = semaphoreIdx(l, n, TRUE)
                     /\ \A r \in commands(l, n) :
                          /\ semIndex(r) \in 0..(NSUPPSEM - 1)
                          /\ \A k \in Lines, m \in DevNos : \A q \in commands(k, m) :
                               semIndex(r) = semIndex(q) => r = q
  BY DEF IndicesAgree
<1>1. semIndex(devAddr(l, n) + RECV) = semaphoreIdx(l, n, FALSE)
  BY SemIndexValue DEF semaphoreIdx, DEVPERINT, RECV, TRANSM
<1>2. l = 7 => semIndex(devAddr(l, n) + TRANSM) = semaphoreIdx(l, n, TRUE)
  BY SemIndexValue DEF semaphoreIdx, DEVPERINT
<1>3. \A r \in commands(l, n) : semIndex(r) \in 0..(NSUPPSEM - 1)
  BY RegisterSem
<1>4. ASSUME NEW r \in commands(l, n), NEW k \in Lines, NEW m \in DevNos,
             NEW q \in commands(k, m), semIndex(r) = semIndex(q)
      PROVE  r = q
  BY <1>4, RegistersApart
<1>. QED BY <1>1, <1>2, <1>3, <1>4

(* What the invariants need of it: the registers in use have semaphores of *)
(* their own, which are not the pseudo-clock's nor the users'.             *)
LEMMA DevSemsApart ==
    /\ NSUPPSEM \notin DevSems /\ UserSem \notin DevSems /\ NSUPPSEM # UserSem
    /\ \A r \in CmdRegs : semIndex(r) \in DevSems /\ semIndex(r) \in Sems
    /\ \A q, r \in CmdRegs : semIndex(q) = semIndex(r) => q = r
    /\ \A d \in Devices : /\ d[1] \in Lines /\ d[2] \in DevNos
                         /\ commands(d[1], d[2]) \subseteq CmdRegs
<1>1. \A d \in Devices : d[1] \in Lines /\ d[2] \in DevNos
  BY DevicesAssumption
<1>2. \A d \in Devices : commands(d[1], d[2]) \subseteq CmdRegs
  BY DEF CmdRegs
<1>3. \A r \in CmdRegs : \E d \in Devices : r \in commands(d[1], d[2])
  BY DEF CmdRegs
<1>4. \A r \in CmdRegs : semIndex(r) \in 0..(NSUPPSEM - 1)
  <2>. TAKE r \in CmdRegs
  <2>1. PICK d \in Devices : r \in commands(d[1], d[2])
    BY <1>3
  <2>. DEFINE l == d[1]
              n == d[2]
  <2>2. l \in Lines /\ n \in DevNos /\ r \in commands(l, n)
    BY <1>1, <2>1
  <2>. HIDE DEF l, n
  <2>. QED BY <2>2, RegisterSem
<1>5. \A q, r \in CmdRegs : semIndex(q) = semIndex(r) => q = r
  <2>. SUFFICES ASSUME NEW q \in CmdRegs, NEW r \in CmdRegs, semIndex(q) = semIndex(r)
                PROVE  q = r
    OBVIOUS
  <2>1. PICK d \in Devices : q \in commands(d[1], d[2])
    BY <1>3
  <2>2. PICK e \in Devices : r \in commands(e[1], e[2])
    BY <1>3
  <2>. DEFINE l == d[1]
              n == d[2]
              k == e[1]
              m == e[2]
  <2>3. l \in Lines /\ n \in DevNos /\ k \in Lines /\ m \in DevNos
    BY <1>1
  <2>4. q \in commands(l, n) /\ r \in commands(k, m)
    BY <2>1, <2>2
  <2>. HIDE DEF l, n, k, m
  <2>. QED BY <2>3, <2>4, RegistersApart
<1>6. NSUPPSEM \notin DevSems /\ UserSem \notin DevSems /\ NSUPPSEM # UserSem
  BY <1>4 DEF DevSems, UserSem, NSUPPSEM
<1>7. \A r \in CmdRegs : semIndex(r) \in DevSems /\ semIndex(r) \in Sems
  BY DEF DevSems, Sems
<1>. QED BY <1>1, <1>2, <1>5, <1>6, <1>7

(* The registers of a device, and the semaphores the interrupt handler     *)
(* takes for them.                                                         *)
LEMMA DeviceSems ==
    ASSUME NEW d \in Devices
    PROVE  /\ devAddr(d[1], d[2]) + RECV \in commands(d[1], d[2])
           /\ devAddr(d[1], d[2]) + RECV \in CmdRegs
           /\ semIndex(devAddr(d[1], d[2]) + RECV) = semaphoreIdx(d[1], d[2], FALSE)
           /\ d[1] = 7 =>
                /\ devAddr(d[1], d[2]) + TRANSM \in CmdRegs
                /\ semIndex(devAddr(d[1], d[2]) + TRANSM) = semaphoreIdx(d[1], d[2], TRUE)
                /\ semaphoreIdx(d[1], d[2], TRUE) \in Sems
           /\ semaphoreIdx(d[1], d[2], FALSE) \in Sems
           /\ d[1] # 7 => commands(d[1], d[2]) = {devAddr(d[1], d[2]) + RECV}
<1>. DEFINE l == d[1]
            n == d[2]
<1>1. l \in Lines /\ n \in DevNos /\ commands(l, n) \subseteq CmdRegs
  BY DevSemsApart
<1>. HIDE DEF l, n
<1>2. /\ devAddr(l, n) + RECV \in commands(l, n)
      /\ l = 7 => devAddr(l, n) + TRANSM \in commands(l, n)
      /\ l # 7 => commands(l, n) = {devAddr(l, n) + RECV}
  BY DEF commands
<1>3. /\ semIndex(devAddr(l, n) + RECV) = semaphoreIdx(l, n, FALSE)
      /\ l = 7 => semIndex(devAddr(l, n) + TRANSM) = semaphoreIdx(l, n, TRUE)
  BY <1>1, SemaphoresAgree DEF IndicesAgree
<1>4. \A r \in CmdRegs : semIndex(r) \in Sems
  BY DevSemsApart
<1>. QED BY <1>1, <1>2, <1>3, <1>4 DEF l, n
-----------------------------------------------------------------------------
(***************************************************************************)
(* Arithmetic modulo 2^Width.                                              *)
(***************************************************************************)
LEMMA ModUnique ==
    ASSUME NEW M \in Nat \ {0}, NEW x \in Int, NEW k \in Int, NEW t \in 0..(M - 1),
           x = M * k + t
    PROVE  x % M = t
<1>. DEFINE d == x \div M
            u == x % M
<1>1. d \in Int /\ u \in 0..(M - 1) /\ x = M * d + u
  OBVIOUS
<1>. HIDE DEF d, u
<1>2. ASSUME NEW c \in Int, c >= 1 PROVE M * c >= M
  BY <1>2
<1>3. M * (d - k) = t - u /\ M * (k - d) = u - t
  BY <1>1
<1>4. ~ (d - k >= 1) /\ ~ (k - d >= 1)
  BY <1>1, <1>2, <1>3
<1>5. d = k
  BY <1>1, <1>4
<1>. QED BY <1>1, <1>5 DEF u

LEMMA ModAdd ==
    ASSUME NEW M \in Nat \ {0}, NEW a \in Int, NEW b \in Int
    PROVE  ((a % M) + b) % M = (a + b) % M
<1>. DEFINE q == a \div M
            r == a % M
            s == (r + b) \div M
            t == (r + b) % M
<1>1. q \in Int /\ r \in Int /\ a = M * q + r
  OBVIOUS
<1>. HIDE DEF q, r
<1>2. s \in Int /\ t \in 0..(M - 1) /\ r + b = M * s + t
  BY <1>1
<1>. HIDE DEF s, t
<1>3. a + b = M * (q + s) + t /\ q + s \in Int /\ a + b \in Int
  BY <1>1, <1>2
<1>4. (a + b) % M = t
  BY <1>2, <1>3, ModUnique
<1>. QED BY <1>4 DEF r, t

Clock == 0..(2^Width - 1)

(* Plus stays in range, and a sum may be reduced at any point.             *)
LEMMA PlusFacts ==
    /\ 0 \in Clock /\ Clock \subseteq Int
    /\ \A a, b \in Int : Plus(a, b) \in Clock
    /\ \A a \in Clock : Plus(a, 0) = a
    /\ \A a, b, c \in Int : Plus(Plus(a, b), c) = Plus(a + b, c)
    /\ \A a, b, c \in Int : Plus(c, Plus(a, b)) = Plus(a + b, c)
<1>. DEFINE M == 2^Width
<1>1. M \in Nat \ {0}
  BY TimeAssumption
<1>2. Clock = 0..(M - 1) /\ \A a, b : Plus(a, b) = (a + b) % M
  BY DEF Clock, Plus
<1>. HIDE DEF M
<1>3. \A a, b \in Int : (a + b) % M \in 0..(M - 1)
  BY <1>1
<1>4. \A a \in 0..(M - 1) : (a + 0) % M = a
  BY <1>1
<1>5. \A a, b, c \in Int : (((a + b) % M) + c) % M = ((a + b) + c) % M
  <2>. TAKE a, b, c \in Int
  <2>1. a + b \in Int
    OBVIOUS
  <2>. QED BY <1>1, <2>1, ModAdd
<1>6. \A a, b, c \in Int : c + ((a + b) % M) = ((a + b) % M) + c
  BY <1>1
<1>7. 0 \in 0..(M - 1) /\ 0..(M - 1) \subseteq Int
  BY <1>1
<1>8. \A a, b, c \in Int : Plus(Plus(a, b), c) = Plus(a + b, c) /\ Plus(c, Plus(a, b)) = Plus(a + b, c)
  <2>. TAKE a, b, c \in Int
  <2>1. Plus(Plus(a, b), c) = (((a + b) % M) + c) % M /\ Plus(a + b, c) = ((a + b) + c) % M
    BY <1>2
  <2>2. Plus(c, Plus(a, b)) = (c + ((a + b) % M)) % M
    BY <1>2
  <2>. QED BY <1>5, <1>6, <2>1, <2>2
<1>9. \A a, b \in Int : Plus(a, b) \in Clock
  BY <1>2, <1>3
<1>10. \A a \in Clock : Plus(a, 0) = a
  BY <1>2, <1>4
<1>11. 0 \in Clock /\ Clock \subseteq Int
  BY <1>2, <1>7
<1>. QED BY <1>8, <1>9, <1>10, <1>11
-----------------------------------------------------------------------------
CpuType == currProc \in Procs \cup {NULL} /\ ready \subseteq Procs
SemType ==
    /\ semd \in [Sems -> Seq(Procs)]
    /\ device_semaphores \in [DevSems \cup {NSUPPSEM} -> 0..MaxCount]
StatusType ==
    /\ status \in [CmdRegs -> [code : {READY, BUSY, DEVERROR, CHARRECV},
                               by : Procs \cup {NULL}, late : BOOLEAN]]
    /\ interrupting \subseteq CmdRegs
AnswerType ==
    reg_a0 \in [Procs -> [code : {READY, DEVERROR, CHARRECV},
                             by : Procs \cup {NULL}, late : BOOLEAN] \cup {NULL}]
TimeType ==
    /\ p_time \in [Procs -> Clock] /\ used \in [Procs -> Clock]
    /\ tod \in Clock /\ tod_start \in Clock

LEMMA TypeParts == TypeOK <=> CpuType /\ SemType /\ StatusType /\ AnswerType /\ TimeType
  BY DEF TypeOK, CpuType, SemType, StatusType, AnswerType, TimeType, Clock

(* dispatch() and resume give the CPU to a ready process, or to nobody.    *)
LEMMA DispatchEffect ==
    ASSUME NEW rdy, rdy \subseteq Procs, dispatch(rdy)
    PROVE  /\ CpuType'
           /\ \/ currProc' \in Procs /\ tod_start' = tod
              \/ currProc' = NULL /\ tod_start' = tod_start
<1>1. CASE rdy # {}
  BY <1>1 DEF CpuType, dispatch
<1>2. CASE rdy = {}
  BY <1>2 DEF CpuType, dispatch
<1>. QED BY <1>1, <1>2

LEMMA ResumeEffect ==
    ASSUME CpuType, NEW rdy, rdy \subseteq Procs, resume(rdy)
    PROVE  /\ CpuType'
           /\ \/ currProc' = currProc /\ tod_start' = tod_start
              \/ currProc = NULL /\ currProc' \in Procs /\ tod_start' = tod
<1>1. CASE currProc # NULL
  BY <1>1 DEF CpuType, resume
<1>2. CASE currProc = NULL
  BY <1>2, DispatchEffect DEF resume
<1>. QED BY <1>1, <1>2

(* Reading the clock twice in a row takes no time; a tick is added once;   *)
(* what is forgotten is what had been added.                               *)
LEMMA ClockFacts ==
    ASSUME NEW x \in Clock, NEW t \in Clock, NEW s \in Clock
    PROVE  /\ Plus(x, Plus(t, -t)) = x
           /\ Plus(Plus(x, Plus(t, -s)), 1) = Plus(x, Plus(Plus(t, 1), -s))
           /\ Plus(Plus(x, Plus(t, -s)), -Plus(t, -s)) = x
<1>0. x \in Int /\ t \in Int /\ s \in Int /\ -s \in Int /\ -t \in Int
  BY PlusFacts
<1>1. \A a, b, c, d \in Int : a + b = c + d => Plus(a, b) = Plus(c, d)
  BY DEF Plus
<1>2. Plus(x, Plus(t, -t)) = x
  <2>1. Plus(x, Plus(t, -t)) = Plus(t + (-t), x)
    BY <1>0, PlusFacts
  <2>2. t + (-t) = 0
    BY <1>0
  <2>3. Plus(0, x) = Plus(x, 0)
    BY <1>0, <1>1
  <2>. QED BY <2>1, <2>2, <2>3, PlusFacts
<1>3. Plus(Plus(x, Plus(t, -s)), 1) = Plus(x, Plus(Plus(t, 1), -s))
  <2>0. t + (-s) \in Int /\ t + 1 \in Int /\ (t + 1) + (-s) \in Int
    BY <1>0
  <2>1. Plus(x, Plus(t, -s)) = Plus(t + (-s), x)
    BY <1>0, PlusFacts
  <2>2. Plus(Plus(t + (-s), x), 1) = Plus((t + (-s)) + x, 1)
    BY <1>0, <2>0, PlusFacts
  <2>3. Plus(Plus(t, 1), -s) = Plus(t + 1, -s)
    BY <1>0, PlusFacts
  <2>4. Plus(x, Plus(t + 1, -s)) = Plus((t + 1) + (-s), x)
    BY <1>0, <2>0, PlusFacts
  <2>5. Plus((t + (-s)) + x, 1) = Plus((t + 1) + (-s), x)
    BY <1>0, <1>1
  <2>. QED BY <2>1, <2>2, <2>3, <2>4, <2>5
<1>4. Plus(Plus(x, Plus(t, -s)), -Plus(t, -s)) = x
  <2>. DEFINE e == Plus(t, -s)
  <2>1. e \in Int
    BY <1>0, PlusFacts
  <2>. HIDE DEF e
  <2>2. Plus(Plus(x, e), -e) = Plus(x + e, -e) /\ -e \in Int
    BY <1>0, <2>1, PlusFacts
  <2>3. Plus(x + e, -e) = Plus(x, 0)
    BY <1>0, <1>1, <2>1
  <2>4. Plus(x, 0) = x
    BY PlusFacts
  <2>. QED BY <2>2, <2>3, <2>4 DEF e
<1>. QED BY <1>2, <1>3, <1>4
-----------------------------------------------------------------------------
(***************************************************************************)
(* Time.  The books of the processes that have ended are kept as well, as  *)
(* their PCBs come back with nsys1.                                        *)
(***************************************************************************)
BooksRight == \A p \in Procs : used[p] = IF p = currProc THEN nsys6 ELSE p_time[p]
TimeKept == TickForgiven => BooksRight

(* The processes a handler makes ready are processes.                      *)
LEMMA HeadIsProc ==
    ASSUME SemType, NEW s \in Sems, semd[s] # <<>>
    PROVE  Head(semd[s]) \in Procs
  BY TailOfQueue DEF SemType

LEMMA TimeStep ==
    ASSUME TypeOK, TimeKept, [Next]_vars
    PROVE  CpuType' /\ TimeType' /\ TimeKept'
<1>0. /\ CpuType /\ SemType /\ TimeType /\ NULL \notin Procs
      /\ currProc \in Procs \cup {NULL} /\ ready \subseteq Procs
      /\ p_time \in [Procs -> Clock] /\ used \in [Procs -> Clock]
      /\ tod \in Clock /\ tod_start \in Clock
  BY TypeParts, ProcsAssumption DEF CpuType, TimeType
<1>n. nsys6 = Plus(p_time[currProc], Plus(tod, -tod_start)) /\ elapsed = Plus(tod, -tod_start)
  BY DEF nsys6, elapsed
<1>p. nsys6' = Plus(p_time'[currProc'], Plus(tod', -tod_start'))
  BY DEF nsys6, elapsed
<1>f. \A x \in Clock : Plus(x, Plus(tod, -tod)) = x
  BY <1>0, ClockFacts
<1>r. elapsed \in Clock /\ \A a, b \in Int : Plus(a, b) \in Clock
  <2>1. tod \in Int /\ -tod_start \in Int
    BY <1>0, PlusFacts
  <2>. QED BY <1>n, <2>1, PlusFacts
<1>i. Clock \subseteq Int
  BY PlusFacts
(* A new slice starts with the books in order.                             *)
<1>d. ASSUME TickForgiven => \A p \in Procs : used'[p] = p_time'[p],
             p_time' \in [Procs -> Clock], tod' = tod,
             \/ currProc' \in Procs /\ tod_start' = tod
             \/ currProc' = NULL
      PROVE  TimeKept'
  <2>1. currProc' \in Procs /\ tod_start' = tod => nsys6' = p_time'[currProc']
    BY <1>d, <1>f, <1>p
  <2>. QED BY <1>0, <1>d, <2>1 DEF TimeKept, BooksRight
<1>1. ASSUME currProc # NULL, charge, NEW rdy, rdy \subseteq Procs, dispatch(rdy),
             UNCHANGED <<tod, used>>
      PROVE  CpuType' /\ TimeType' /\ TimeKept'
  <2>1. /\ CpuType'
        /\ \/ currProc' \in Procs /\ tod_start' = tod
           \/ currProc' = NULL /\ tod_start' = tod_start
    BY <1>1, DispatchEffect
  <2>2. /\ currProc \in Procs /\ p_time' = [p_time EXCEPT ![currProc] = Plus(@, elapsed)]
        /\ p_time[currProc] \in Clock
    BY <1>0, <1>1 DEF charge
  <2>3. Plus(p_time[currProc], elapsed) \in Clock
    BY <1>i, <1>r, <2>2
  <2>4. p_time' \in [Procs -> Clock]
    BY <1>0, <2>2, <2>3
  <2>5. TimeType'
    BY <1>0, <1>1, <2>1, <2>4 DEF TimeType
  <2>6. TickForgiven => \A p \in Procs : used'[p] = p_time'[p]
    BY <1>0, <1>1, <1>n, <2>2 DEF TimeKept, BooksRight
  <2>. QED BY <1>1, <1>d, <2>1, <2>4, <2>5, <2>6
<1>2. ASSUME UNCHANGED <<currProc, tod, tod_start, p_time, used>>, ready' \subseteq Procs
      PROVE  CpuType' /\ TimeType' /\ TimeKept'
  BY <1>0, <1>2, <1>n, <1>p DEF CpuType, TimeType, TimeKept, BooksRight
<1>3. ASSUME NEW rdy, rdy \subseteq Procs, resume(rdy), UNCHANGED <<tod, p_time, used>>
      PROVE  CpuType' /\ TimeType' /\ TimeKept'
  <2>1. /\ CpuType'
        /\ \/ currProc' = currProc /\ tod_start' = tod_start
           \/ currProc = NULL /\ currProc' \in Procs /\ tod_start' = tod
    BY <1>0, <1>3, ResumeEffect
  <2>2. CASE currProc' = currProc /\ tod_start' = tod_start
    BY <1>0, <1>2, <1>3, <2>1, <2>2 DEF CpuType
  <2>3. CASE currProc = NULL /\ currProc' \in Procs /\ tod_start' = tod
    <3>1. TimeType'
      BY <1>0, <1>3, <2>3 DEF TimeType
    <3>2. TickForgiven => \A p \in Procs : used'[p] = p_time'[p]
      BY <1>0, <1>3, <2>3 DEF TimeKept, BooksRight
    <3>. QED BY <1>0, <1>3, <1>d, <2>1, <2>3, <3>1, <3>2
  <2>. QED BY <2>1, <2>2, <2>3
<1>4. ASSUME nsys3 \/ nsys7 \/ \E r \in CmdRegs : exclusive(r) /\ nsys5(r)
      PROVE  CpuType' /\ TimeType' /\ TimeKept'
  <2>1. currProc # NULL /\ charge /\ dispatch(ready) /\ UNCHANGED <<tod, used>>
    BY <1>4 DEF nsys3, nsys5, nsys7, block
  <2>. QED BY <1>0, <1>1, <2>1
<1>5. ASSUME nsys10 \/ pltInterruptHandler
      PROVE  CpuType' /\ TimeType' /\ TimeKept'
  <2>1. currProc # NULL /\ charge /\ dispatch(ready \cup {currProc}) /\ UNCHANGED <<tod, used>>
    BY <1>5 DEF nsys10, pltInterruptHandler
  <2>2. ready \cup {currProc} \subseteq Procs
    BY <1>0, <2>1
  <2>. QED BY <1>1, <2>1, <2>2
<1>6. ASSUME NEW p \in Procs, nsys1(p)
      PROVE  CpuType' /\ TimeType' /\ TimeKept'
  BY <1>0, <1>2, <1>6 DEF nsys1
<1>7. ASSUME nsys4
      PROVE  CpuType' /\ TimeType' /\ TimeKept'
  <2>1. Head(semd[UserSem]) \in Procs
    BY <1>0, <1>7, HeadIsProc DEF nsys4, Sems
  <2>. QED BY <1>0, <1>2, <1>7, <2>1 DEF nsys4
<1>8. ASSUME NEW D \in SUBSET Procs, nsys2(D)
      PROVE  CpuType' /\ TimeType' /\ TimeKept'
  <2>. DEFINE dead == D \cup {currProc}
  <2>1. /\ p_time' = [p \in Procs |-> IF p \in dead THEN 0 ELSE p_time[p]]
        /\ used' = [p \in Procs |-> IF p \in dead THEN 0 ELSE used[p]]
        /\ dispatch(ready \ dead) /\ tod' = tod /\ currProc \in dead
    BY <1>8 DEF nsys2
  <2>. HIDE DEF dead
  <2>2. /\ CpuType'
        /\ \/ currProc' \in Procs /\ tod_start' = tod
           \/ currProc' = NULL /\ tod_start' = tod_start
    BY <1>0, <2>1, DispatchEffect
  <2>3. p_time' \in [Procs -> Clock] /\ used' \in [Procs -> Clock]
    BY <1>0, <2>1, PlusFacts
  <2>4. TimeType'
    BY <1>0, <2>1, <2>2, <2>3 DEF TimeType
  <2>5. TickForgiven => \A p \in Procs : used'[p] = p_time'[p]
    BY <2>1 DEF TimeKept, BooksRight
  <2>. QED BY <1>d, <2>1, <2>2, <2>3, <2>4, <2>5
<1>9. ASSUME STCK
      PROVE  CpuType' /\ TimeType' /\ TimeKept'
  <2>1. /\ UNCHANGED <<currProc, ready, tod_start, p_time>> /\ tod' = Plus(tod, 1)
        /\ used' = IF currProc = NULL THEN used ELSE [used EXCEPT ![currProc] = Plus(@, 1)]
    BY <1>9 DEF STCK
  <2>2. tod' \in Clock /\ \A x \in Clock : Plus(x, 1) \in Clock
    BY <1>0, <1>i, <1>r, <2>1
  <2>3. CpuType' /\ TimeType'
    BY <1>0, <2>1, <2>2 DEF CpuType, TimeType
  <2>4. ASSUME TickForgiven PROVE BooksRight'
    <3>0. BooksRight
      BY <2>4 DEF TimeKept
    <3>1. CASE currProc = NULL
      <4>1. \A p \in Procs : used'[p] = p_time'[p] /\ p # currProc'
        BY <1>0, <2>1, <3>0, <3>1 DEF BooksRight
      <4>. QED BY <4>1 DEF BooksRight
    <3>2. CASE currProc # NULL
      <4>1. currProc \in Procs /\ p_time[currProc] \in Clock
        BY <1>0, <3>2
      <4>2. used'[currProc] = Plus(nsys6, 1)
        BY <1>0, <2>1, <3>0, <4>1 DEF BooksRight
      <4>3. nsys6' = Plus(p_time[currProc], Plus(Plus(tod, 1), -tod_start))
        BY <1>p, <2>1
      <4>4. Plus(nsys6, 1) = nsys6'
        BY <1>0, <1>n, <4>1, <4>3, ClockFacts
      <4>5. \A p \in Procs \ {currProc} : used'[p] = p_time'[p]
        BY <1>0, <2>1, <3>0 DEF BooksRight
      <4>. QED BY <2>1, <4>2, <4>4, <4>5 DEF BooksRight
    <3>. QED BY <3>1, <3>2
  <2>. QED BY <2>3, <2>4 DEF TimeKept
<1>10. ASSUME itInterruptHandler
       PROVE  CpuType' /\ TimeType' /\ TimeKept'
  <2>. DEFINE rdy == ready \cup ToSet(semd[NSUPPSEM]) \cup ({currProc} \ {NULL})
  <2>1. /\ UNCHANGED <<tod, p_time>> /\ dispatch(rdy)
        /\ used' = IF TickForgiven /\ currProc # NULL
                   THEN [used EXCEPT ![currProc] = Plus(used[currProc], -elapsed)] ELSE used
    BY <1>0, <1>10 DEF itInterruptHandler
  <2>2. rdy \subseteq Procs
    <3>1. semd[NSUPPSEM] \in Seq(Procs)
      BY <1>0 DEF SemType, Sems
    <3>2. ToSet(semd[NSUPPSEM]) \subseteq Procs
      BY <3>1, ToSetSeq
    <3>. QED BY <1>0, <3>2
  <2>. HIDE DEF rdy
  <2>3. /\ CpuType'
        /\ \/ currProc' \in Procs /\ tod_start' = tod
           \/ currProc' = NULL /\ tod_start' = tod_start
    BY <2>1, <2>2, DispatchEffect
  <2>4. ASSUME TickForgiven PROVE \A p \in Procs : used'[p] = p_time'[p]
    <3>0. BooksRight
      BY <2>4 DEF TimeKept
    <3>1. CASE currProc = NULL
      BY <1>0, <2>1, <3>0, <3>1 DEF BooksRight
    <3>2. CASE currProc # NULL
      <4>1. currProc \in Procs /\ p_time[currProc] \in Clock
        BY <1>0, <3>2
      <4>2. used'[currProc] = Plus(nsys6, -elapsed)
        BY <1>0, <2>1, <2>4, <3>0, <3>2, <4>1 DEF BooksRight
      <4>3. Plus(nsys6, -elapsed) = p_time[currProc]
        BY <1>0, <1>n, <4>1, ClockFacts
      <4>4. \A p \in Procs \ {currProc} : used'[p] = p_time'[p]
        BY <1>0, <2>1, <3>0 DEF BooksRight
      <4>. QED BY <2>1, <4>2, <4>3, <4>4
    <3>. QED BY <3>1, <3>2
  <2>5. used' \in [Procs -> Clock]
    <3>1. CASE TickForgiven /\ currProc # NULL
      <4>0. currProc \in Procs /\ elapsed \in Int
        BY <1>0, <1>i, <1>r, <3>1
      <4>1. used[currProc] \in Int
        BY <1>0, <1>i, <4>0
      <4>e. -elapsed \in Int
        BY <4>0
      <4>2. Plus(used[currProc], -elapsed) \in Clock
        BY <1>r, <4>1, <4>e
      <4>. QED BY <1>0, <2>1, <3>1, <4>0, <4>2
    <3>2. CASE ~(TickForgiven /\ currProc # NULL)
      BY <1>0, <2>1, <3>2
    <3>. QED BY <3>1, <3>2
  <2>6. TimeType'
    BY <1>0, <2>1, <2>3, <2>5 DEF TimeType
  <2>. QED BY <1>0, <1>d, <2>1, <2>3, <2>4, <2>6
<1>11. ASSUME NEW d \in Devices, deviceInterruptHandler(d[1], d[2])
       PROVE  CpuType' /\ TimeType' /\ TimeKept'
  <2>1. UNCHANGED <<tod, p_time, used>>
    BY <1>11 DEF deviceInterruptHandler
  <2>2. \A st : \A s \in Sems : deliver(s, st) => \E rdy \in SUBSET Procs : resume(rdy)
    <3>. TAKE st
    <3>. TAKE s \in Sems
    <3>1. CASE semd[s] # <<>>
      <4>1. ready \cup {Head(semd[s])} \in SUBSET Procs
        BY <1>0, <3>1, HeadIsProc
      <4>. QED BY <3>1, <4>1 DEF deliver
    <3>2. CASE semd[s] = <<>>
      BY <1>0, <3>2 DEF deliver
    <3>. QED BY <3>1, <3>2
  <2>3. /\ semaphoreIdx(d[1], d[2], FALSE) \in Sems
        /\ d[1] = 7 => semaphoreIdx(d[1], d[2], TRUE) \in Sems
    BY DeviceSems
  <2>4. \E rdy \in SUBSET Procs : resume(rdy)
    BY <1>0, <1>11, <2>2, <2>3 DEF deviceInterruptHandler, leavePending
  <2>. QED BY <1>3, <2>1, <2>4
<1>12. ASSUME (\E r \in CmdRegs : deviceDone(r)) \/ UNCHANGED vars
       PROVE  CpuType' /\ TimeType' /\ TimeKept'
  BY <1>0, <1>2, <1>12 DEF deviceDone, vars
<1>. QED
  BY <1>4, <1>5, <1>6, <1>7, <1>8, <1>9, <1>10, <1>11, <1>12
  DEF Next, syscallHandler, interruptHandler
-----------------------------------------------------------------------------
(***************************************************************************)
(* Device I/O.  At most one process waits for a device; a register        *)
(* interrupts only when its command has ended, and one that is busy is     *)
(* busy for the process that waits or for one that has been terminated;    *)
(* what a register of a process that has ended holds is gone, so that      *)
(* OwnAnswer holds of all PCBs.                                            *)
(***************************************************************************)
AloneWaiting ==
    \A s \in DevSems : IsInjective(semd[s]) /\ \A p, q \in ToSet(semd[s]) : p = q
BusyOwned ==
    \A r \in CmdRegs : status[r].code = BUSY /\ status[r].by # NULL
                        => status[r].by \in ToSet(semd[semIndex(r)])
PendingDone == \A r \in interrupting : status[r].code # BUSY
AnswersRight ==
    \A p \in Procs : reg_a0[p] # NULL => DueTo(reg_a0[p], p) /\ reg_a0[p].code # BUSY

WaitInv == WaitsForCompletion /\ AloneWaiting /\ BusyOwned
IOInv == /\ SemType /\ StatusType /\ AnswerType
         /\ WaitInv /\ PendingDone /\ AnswersRight

(* A step on a semaphore that is no device's leaves the waits for devices  *)
(* alone.                                                                  *)
LEMMA OtherSemaphore ==
    ASSUME IOInv, NEW s \in Sems \ DevSems, NEW q \in Seq(Procs),
           semd' = [semd EXCEPT ![s] = q], UNCHANGED <<status, interrupting>>
    PROVE  semd' \in [Sems -> Seq(Procs)] /\ StatusType' /\ WaitInv' /\ PendingDone'
<1>1. semd \in [Sems -> Seq(Procs)] /\ semd' \in [Sems -> Seq(Procs)]
  BY DEF IOInv, SemType
<1>2. \A t \in DevSems : semd'[t] = semd[t]
  BY <1>1 DEF Sems
<1>3. \A r \in CmdRegs : semIndex(r) \in DevSems
  BY DevSemsApart
<1>4. WaitsForCompletion' /\ BusyOwned'
  <2>1. \A r \in CmdRegs : semd'[semIndex(r)] = semd[semIndex(r)]
    BY <1>2, <1>3
  <2>2. WaitsForCompletion'
    BY <2>1 DEF WaitsForCompletion, IOInv, WaitInv, DueTo
  <2>3. BusyOwned'
    BY <2>1 DEF BusyOwned, IOInv, WaitInv
  <2>. QED BY <2>2, <2>3
<1>5. AloneWaiting'
  BY <1>2 DEF AloneWaiting, IOInv, WaitInv
<1>6. StatusType' /\ PendingDone'
  BY DEF IOInv, StatusType, PendingDone
<1>. QED BY <1>1, <1>4, <1>5, <1>6 DEF WaitInv

(* A register that is cleared keeps the answers right.                     *)
LEMMA AnswerGone ==
    ASSUME IOInv, NEW p \in Procs, reg_a0' = [reg_a0 EXCEPT ![p] = NULL]
    PROVE  AnswerType' /\ AnswersRight'
<1>1. AnswerType'
  BY DEF IOInv, AnswerType
<1>2. \A q \in Procs : reg_a0'[q] = NULL \/ reg_a0'[q] = reg_a0[q]
  BY DEF IOInv, AnswerType
<1>. QED BY <1>1, <1>2 DEF IOInv, AnswersRight, DueTo

(* The V on the semaphore of a command that has ended: its issuer gets its *)
(* status, and nobody is left waiting.                                     *)
LEMMA DeliverStep ==
    ASSUME IOInv, NEW r \in CmdRegs, status[r].code # BUSY,
           deliver(semIndex(r), status[r]), acknowledge(r)
    PROVE  IOInv'
<1>. DEFINE s == semIndex(r)
            q == semd[s]
<1>0. /\ s \in DevSems /\ s \in Sems
      /\ \A t \in CmdRegs : semIndex(t) \in DevSems
      /\ \A t \in CmdRegs : semIndex(t) = s => t = r
  BY DevSemsApart
<1>1. /\ semd \in [Sems -> Seq(Procs)] /\ q \in Seq(Procs) /\ IsInjective(q)
      /\ device_semaphores \in [DevSems \cup {NSUPPSEM} -> 0..MaxCount]
      /\ status \in [CmdRegs -> [code : {READY, BUSY, DEVERROR, CHARRECV},
                                 by : Procs \cup {NULL}, late : BOOLEAN]]
      /\ interrupting \subseteq CmdRegs
      /\ reg_a0 \in [Procs -> [code : {READY, DEVERROR, CHARRECV},
                             by : Procs \cup {NULL}, late : BOOLEAN] \cup {NULL}]
  BY <1>0 DEF IOInv, SemType, StatusType, AnswerType, WaitInv, AloneWaiting
<1>2. /\ \A p \in ToSet(q) : DueTo(status[r], p)
      /\ \A p, o \in ToSet(q) : p = o
  BY <1>0 DEF IOInv, WaitInv, WaitsForCompletion, AloneWaiting
<1>3. /\ status' = [status EXCEPT ![r] = atRest]
      /\ interrupting' = interrupting \ {r}
  BY DEF acknowledge
<1>4. StatusType' /\ PendingDone'
  <2>1. atRest \in
            [code : {READY, BUSY, DEVERROR, CHARRECV}, by : Procs \cup {NULL}, late : BOOLEAN]
    BY DEF atRest
  <2>2. StatusType'
    BY <1>1, <1>3, <2>1 DEF StatusType
  <2>3. \A t \in interrupting' : t \in interrupting /\ status'[t] = status[t]
    BY <1>1, <1>3
  <2>. QED BY <2>2, <2>3 DEF IOInv, PendingDone
<1>5. ASSUME NEW u \in Seq(Procs), ToSet(u) = {}, IsInjective(u),
             semd' = [semd EXCEPT ![s] = u]
      PROVE  WaitInv'
  <2>1. \A t \in Sems : semd'[t] = IF t = s THEN u ELSE semd[t]
    BY <1>1, <1>5
  <2>2. AloneWaiting'
    BY <1>5, <2>1 DEF AloneWaiting, IOInv, WaitInv, Sems
  <2>3. ASSUME NEW t \in CmdRegs, t # r
        PROVE  /\ semd'[semIndex(t)] = semd[semIndex(t)] /\ status'[t] = status[t]
               /\ t \in interrupting' <=> t \in interrupting
    <3>1. semIndex(t) \in Sems /\ semIndex(t) # s
      BY <1>0, <2>3 DEF Sems
    <3>. QED BY <1>1, <1>3, <2>1, <2>3, <3>1
  <2>4. semd'[semIndex(r)] = u /\ status'[r].code # BUSY
    BY <1>0, <1>1, <1>3, <2>1 DEF s, atRest, READY, BUSY
  <2>5. WaitsForCompletion'
    <3>. SUFFICES ASSUME NEW t \in CmdRegs, NEW p \in ToSet(semd'[semIndex(t)])
                  PROVE  /\ DueTo(status'[t], p)
                         /\ status'[t].code = BUSY \/ t \in interrupting'
      BY DEF WaitsForCompletion, DueTo
    <3>1. t # r
      BY <1>5, <2>4
    <3>2. /\ p \in ToSet(semd[semIndex(t)]) /\ status'[t] = status[t]
          /\ t \in interrupting => t \in interrupting'
      BY <2>3, <3>1
    <3>3. DueTo(status[t], p) /\ (status[t].code = BUSY \/ t \in interrupting)
      BY <3>2 DEF IOInv, WaitInv, WaitsForCompletion
    <3>. QED BY <3>2, <3>3
  <2>6. BusyOwned'
    <3>. SUFFICES ASSUME NEW t \in CmdRegs, status'[t].code = BUSY, status'[t].by # NULL
                  PROVE  status'[t].by \in ToSet(semd'[semIndex(t)])
      BY DEF BusyOwned
    <3>1. t # r
      BY <2>4
    <3>2. semd'[semIndex(t)] = semd[semIndex(t)] /\ status'[t] = status[t]
      BY <2>3, <3>1
    <3>. QED BY <3>2 DEF IOInv, WaitInv, BusyOwned
  <2>. QED BY <2>2, <2>5, <2>6 DEF WaitInv
<1>6. CASE q # <<>>
  <2>1. /\ semd' = [semd EXCEPT ![s] = Tail(q)]
        /\ reg_a0' = [reg_a0 EXCEPT ![Head(q)] = status[r]]
        /\ UNCHANGED device_semaphores
    BY <1>1, <1>6 DEF deliver
  <2>2. /\ Head(q) \in Procs /\ Head(q) \in ToSet(q) /\ Tail(q) \in Seq(Procs)
        /\ ToSet(q) = ToSet(Tail(q)) \cup {Head(q)}
        /\ IsInjective(Tail(q)) /\ Head(q) \notin ToSet(Tail(q))
    <3>. HIDE DEF q
    <3>. QED BY <1>1, <1>6, TailOfQueue
  <2>3. DueTo(status[r], Head(q)) /\ ToSet(Tail(q)) = {}
    <3>. HIDE DEF q
    <3>. QED BY <1>2, <2>2
  <2>4. WaitInv'
    BY <1>5, <2>1, <2>2, <2>3
  <2>5. SemType'
    BY <1>1, <2>1, <2>2 DEF SemType
  <2>6. status[r] \in [code : {READY, DEVERROR, CHARRECV},
                       by : Procs \cup {NULL}, late : BOOLEAN]
    <3>1. status[r] \in [code : {READY, BUSY, DEVERROR, CHARRECV},
                         by : Procs \cup {NULL}, late : BOOLEAN]
      BY <1>1
    <3>. QED BY <3>1
  <2>7. AnswerType'
    BY <1>1, <2>1, <2>2, <2>6 DEF AnswerType
  <2>8. \A p \in Procs : reg_a0'[p] = IF p = Head(q) THEN status[r] ELSE reg_a0[p]
    BY <1>1, <2>1
  <2>9. AnswersRight'
    BY <2>3, <2>8 DEF IOInv, AnswersRight
  <2>. QED BY <1>4, <2>4, <2>5, <2>7, <2>9 DEF IOInv
<1>7. CASE q = <<>>
  <2>1. /\ UNCHANGED <<semd, reg_a0>>
        /\ device_semaphores' =
             [device_semaphores EXCEPT ![s] = Min({device_semaphores[s] + 1, MaxCount})]
    BY <1>0, <1>1, <1>7 DEF deliver
  <2>2. Min({device_semaphores[s] + 1, MaxCount}) \in 0..MaxCount
    <3>. DEFINE x == device_semaphores[s]
                T == {x + 1, MaxCount}
    <3>1. x \in 0..MaxCount /\ MaxCount \in Nat
      BY <1>0, <1>1, TimeAssumption
    <3>. HIDE DEF x
    <3>2. T \subseteq Nat /\ T # {} /\ MaxCount \in T
      BY <3>1
    <3>. HIDE DEF T
    <3>. DEFINE m == Min(T)
    <3>3. m \in T /\ m <= MaxCount
      BY <3>2, MinOfNaturals
    <3>. HIDE DEF m
    <3>4. m \in Nat
      BY <3>2, <3>3
    <3>5. m \in 0..MaxCount
      BY <3>1, <3>3, <3>4
    <3>. QED BY <3>5 DEF m, x, T
  <2>3. SemType'
    BY <1>1, <2>1, <2>2 DEF SemType
  <2>4. ToSet(q) = {}
    BY <1>7 DEF ToSet
  <2>5. semd' = [semd EXCEPT ![s] = q]
    BY <1>1, <2>1
  <2>6. WaitInv'
    BY <1>1, <1>5, <2>4, <2>5
  <2>7. AnswerType' /\ AnswersRight'
    BY <2>1 DEF IOInv, AnswerType, AnswersRight, DueTo
  <2>. QED BY <1>4, <2>3, <2>6, <2>7 DEF IOInv
<1>. QED BY <1>6, <1>7

LEMMA IOStep ==
    ASSUME TypeOK, IOInv, [Next]_vars
    PROVE  IOInv'
<1>0. /\ currProc \in Procs \cup {NULL} /\ NULL \notin Procs
      /\ semd \in [Sems -> Seq(Procs)]
      /\ device_semaphores \in [DevSems \cup {NSUPPSEM} -> 0..MaxCount]
      /\ status \in [CmdRegs -> [code : {READY, BUSY, DEVERROR, CHARRECV},
                                 by : Procs \cup {NULL}, late : BOOLEAN]]
      /\ interrupting \subseteq CmdRegs
      /\ reg_a0 \in [Procs -> [code : {READY, DEVERROR, CHARRECV},
                             by : Procs \cup {NULL}, late : BOOLEAN] \cup {NULL}]
  BY ProcsAssumption DEF TypeOK
<1>s. /\ NSUPPSEM \in Sems \ DevSems /\ UserSem \in Sems \ DevSems
      /\ \A r \in CmdRegs : semIndex(r) \in DevSems /\ semIndex(r) \in Sems
      /\ \A q, r \in CmdRegs : semIndex(q) = semIndex(r) => q = r
  BY DevSemsApart DEF Sems
<1>u. ASSUME UNCHANGED io PROVE IOInv'
  BY <1>u DEF io, IOInv, SemType, StatusType, AnswerType, WaitInv, WaitsForCompletion,
              AloneWaiting, BusyOwned, PendingDone, AnswersRight, DueTo
<1>1. ASSUME nsys3 \/ nsys7 PROVE IOInv'
  <2>1. PICK s \in {UserSem, NSUPPSEM} :
          /\ currProc # NULL
          /\ semd' = [semd EXCEPT ![s] = Append(semd[s], currProc)]
          /\ reg_a0' = [reg_a0 EXCEPT ![currProc] = NULL]
          /\ UNCHANGED <<device_semaphores, status, interrupting>>
    BY <1>0, <1>1 DEF nsys3, nsys7, block
  <2>2. s \in Sems \ DevSems /\ semd[s] \in Seq(Procs) /\ currProc \in Procs
    BY <1>0, <1>s, <2>1
  <2>3. Append(semd[s], currProc) \in Seq(Procs)
    BY <2>2
  <2>4. semd' \in [Sems -> Seq(Procs)] /\ StatusType' /\ WaitInv' /\ PendingDone'
    BY <2>1, <2>2, <2>3, OtherSemaphore
  <2>5. AnswerType' /\ AnswersRight'
    BY <2>1, <2>2, AnswerGone
  <2>6. SemType'
    BY <1>0, <2>1, <2>4 DEF SemType
  <2>. QED BY <2>4, <2>5, <2>6 DEF IOInv
<1>2. ASSUME nsys4 PROVE IOInv'
  <2>1. /\ currProc \in Procs /\ semd[UserSem] # <<>> /\ semd[UserSem] \in Seq(Procs)
        /\ semd' = [semd EXCEPT ![UserSem] = Tail(semd[UserSem])]
        /\ reg_a0' = [reg_a0 EXCEPT ![currProc] = NULL]
        /\ UNCHANGED <<device_semaphores, status, interrupting>>
    BY <1>0, <1>2, <1>s DEF nsys4
  <2>2. Tail(semd[UserSem]) \in Seq(Procs)
    BY <2>1
  <2>3. semd' \in [Sems -> Seq(Procs)] /\ StatusType' /\ WaitInv' /\ PendingDone'
    BY <1>s, <2>1, <2>2, OtherSemaphore
  <2>4. AnswerType' /\ AnswersRight'
    BY <2>1, AnswerGone
  <2>5. SemType'
    BY <1>0, <2>1, <2>3 DEF SemType
  <2>. QED BY <2>3, <2>4, <2>5 DEF IOInv
<1>3. ASSUME itInterruptHandler PROVE IOInv'
  <2>1. /\ semd' = [semd EXCEPT ![NSUPPSEM] = <<>>]
        /\ device_semaphores' = [device_semaphores EXCEPT ![NSUPPSEM] = 0]
        /\ UNCHANGED <<reg_a0, status, interrupting>>
    BY <1>3 DEF itInterruptHandler
  <2>2. semd' \in [Sems -> Seq(Procs)] /\ StatusType' /\ WaitInv' /\ PendingDone'
    <3>1. <<>> \in Seq(Procs)
      OBVIOUS
    <3>. QED BY <1>s, <2>1, <3>1, OtherSemaphore
  <2>3. 0 \in 0..MaxCount
    BY TimeAssumption
  <2>4. SemType'
    BY <1>0, <2>1, <2>2, <2>3 DEF SemType
  <2>5. AnswerType' /\ AnswersRight'
    BY <2>1 DEF IOInv, AnswerType, AnswersRight, DueTo
  <2>. QED BY <2>2, <2>4, <2>5 DEF IOInv
<1>4. ASSUME nsys10 \/ \E p \in Procs : nsys1(p) PROVE IOInv'
  <2>1. /\ currProc \in Procs /\ reg_a0' = [reg_a0 EXCEPT ![currProc] = NULL]
        /\ UNCHANGED <<semd, device_semaphores, status, interrupting>>
    BY <1>0, <1>4 DEF nsys1, nsys10
  <2>2. AnswerType' /\ AnswersRight'
    BY <2>1, AnswerGone
  <2>. QED BY <2>1, <2>2 DEF IOInv, SemType, StatusType, WaitInv, WaitsForCompletion,
                             AloneWaiting, BusyOwned, PendingDone, DueTo
<1>5. ASSUME NEW a \in CmdRegs, exclusive(a), nsys5(a) PROVE IOInv'
  <2>. DEFINE s == semIndex(a)
  <2>1. /\ currProc \in Procs /\ semd[s] = <<>>
        /\ semd' = [semd EXCEPT ![s] = Append(semd[s], currProc)]
        /\ reg_a0' = [reg_a0 EXCEPT ![currProc] = NULL]
        /\ UNCHANGED device_semaphores
    BY <1>0, <1>5 DEF nsys5, block, exclusive
  <2>2. /\ s \in DevSems /\ s \in Sems
        /\ \A r \in CmdRegs : semIndex(r) \in Sems /\ (semIndex(r) = s => r = a)
    BY <1>s
  <2>. DEFINE u == Append(semd[s], currProc)
  <2>3. u \in Seq(Procs) /\ ToSet(u) = {currProc} /\ IsInjective(u)
    <3>1. semd[s] \in Seq(Procs) /\ ToSet(semd[s]) = {} /\ IsInjective(semd[s])
      BY <1>0, <2>1, <2>2 DEF ToSet, IsInjective
    <3>. DEFINE e == semd[s]
    <3>. HIDE DEF e
    <3>2. /\ Append(e, currProc) \in Seq(Procs)
          /\ ToSet(Append(e, currProc)) = ToSet(e) \cup {currProc}
          /\ IsInjective(e) /\ currProc \notin ToSet(e) => IsInjective(Append(e, currProc))
      <4>1. e \in Seq(Procs) /\ currProc \in Procs
        BY <2>1, <3>1 DEF e
      <4>. QED BY <4>1, AppendToQueue
    <3>. QED BY <3>1, <3>2 DEF e
  <2>. HIDE DEF s, u
  <2>4. \A t \in Sems : semd'[t] = IF t = s THEN u ELSE semd[t]
    BY <1>0, <2>1 DEF u
  <2>5. SemType'
    BY <1>0, <2>1, <2>2, <2>3 DEF SemType, u
  <2>6. AnswerType' /\ AnswersRight'
    BY <2>1, AnswerGone
  <2>7. /\ StatusType' /\ PendingDone'
        /\ \A r \in CmdRegs :
             r # a => status'[r] = status[r] /\ (r \in interrupting' <=> r \in interrupting)
        /\ status'[a].code = BUSY /\ DueTo(status'[a], currProc)
    <3>1. CASE status[a].code = BUSY
      <4>1. status' = [status EXCEPT ![a].late = TRUE] /\ UNCHANGED interrupting
        BY <1>5, <3>1 DEF nsys5, writeCommand
      <4>2. ToSet(semd[semIndex(a)]) = {}
        BY <2>1 DEF ToSet, s
      <4>3. status[a].by = NULL
        BY <3>1, <4>2 DEF IOInv, WaitInv, BusyOwned
      <4>4. status[a] \in [code : {READY, BUSY, DEVERROR, CHARRECV},
                           by : Procs \cup {NULL}, late : BOOLEAN]
        BY <1>0
      <4>5. /\ \A r \in CmdRegs : r # a => status'[r] = status[r]
            /\ status'[a] = [status[a] EXCEPT !.late = TRUE]
        BY <1>0, <4>1
      <4>6. /\ status'[a].code = BUSY /\ status'[a].by = NULL /\ status'[a].late
            /\ status'[a] \in [code : {READY, BUSY, DEVERROR, CHARRECV},
                               by : Procs \cup {NULL}, late : BOOLEAN]
        BY <3>1, <4>3, <4>4, <4>5
      <4>7. StatusType'
        <5>1. status' = [r \in CmdRegs |-> status'[r]]
          BY <1>0, <4>1
        <5>. QED BY <1>0, <4>1, <4>5, <4>6, <5>1 DEF StatusType
      <4>8. PendingDone'
        BY <1>0, <3>1, <4>1, <4>5 DEF IOInv, PendingDone
      <4>. QED BY <4>1, <4>5, <4>6, <4>7, <4>8 DEF DueTo
    <3>2. CASE status[a].code # BUSY
      <4>1. /\ status' = [status EXCEPT ![a] = command(currProc)]
            /\ interrupting' = interrupting \ {a}
        BY <1>5, <3>2 DEF nsys5, writeCommand
      <4>2. /\ command(currProc) \in [code : {READY, BUSY, DEVERROR, CHARRECV},
                                      by : Procs \cup {NULL}, late : BOOLEAN]
            /\ command(currProc).code = BUSY /\ command(currProc).by = currProc
        BY <2>1 DEF command
      <4>3. StatusType' /\ \A r \in CmdRegs : status'[r] =
              IF r = a THEN command(currProc) ELSE status[r]
        BY <1>0, <4>1, <4>2 DEF StatusType
      <4>4. PendingDone'
        BY <1>0, <4>1, <4>3 DEF IOInv, PendingDone
      <4>. QED BY <4>1, <4>2, <4>3, <4>4 DEF DueTo
    <3>. QED BY <3>1, <3>2
  <2>8. \A r \in CmdRegs : r # a => semd'[semIndex(r)] = semd[semIndex(r)]
    BY <2>2, <2>4
  <2>9. semd'[semIndex(a)] = u
    BY <2>2, <2>4 DEF s
  <2>10. AloneWaiting'
    <3>. SUFFICES ASSUME NEW t \in DevSems
                  PROVE  IsInjective(semd'[t]) /\ \A p, q \in ToSet(semd'[t]) : p = q
      BY DEF AloneWaiting
    <3>1. semd'[t] = u \/ semd'[t] = semd[t]
      BY <2>4 DEF Sems
    <3>2. IsInjective(u) /\ \A p, q \in ToSet(u) : p = q
      BY <2>3
    <3>3. IsInjective(semd[t]) /\ \A p, q \in ToSet(semd[t]) : p = q
      BY DEF AloneWaiting, IOInv, WaitInv
    <3>. QED BY <3>1, <3>2, <3>3
  <2>11. WaitsForCompletion'
    <3>. SUFFICES ASSUME NEW r \in CmdRegs, NEW p \in ToSet(semd'[semIndex(r)])
                  PROVE  /\ DueTo(status'[r], p)
                         /\ status'[r].code = BUSY \/ r \in interrupting'
      BY DEF WaitsForCompletion, DueTo
    <3>1. CASE r = a
      <4>1. p = currProc
        BY <2>3, <2>9, <3>1
      <4>. QED BY <2>7, <3>1, <4>1
    <3>2. CASE r # a
      <4>1. /\ p \in ToSet(semd[semIndex(r)]) /\ status'[r] = status[r]
            /\ r \in interrupting => r \in interrupting'
        BY <2>7, <2>8, <3>2
      <4>2. DueTo(status[r], p) /\ (status[r].code = BUSY \/ r \in interrupting)
        BY <4>1 DEF IOInv, WaitInv, WaitsForCompletion
      <4>. QED BY <4>1, <4>2
    <3>. QED BY <3>1, <3>2
  <2>12. BusyOwned'
    <3>. SUFFICES ASSUME NEW r \in CmdRegs, status'[r].code = BUSY, status'[r].by # NULL
                  PROVE  status'[r].by \in ToSet(semd'[semIndex(r)])
      BY DEF BusyOwned
    <3>1. CASE r = a
      BY <2>3, <2>7, <2>9, <3>1 DEF DueTo
    <3>2. CASE r # a
      <4>1. semd'[semIndex(r)] = semd[semIndex(r)] /\ status'[r] = status[r]
        BY <2>7, <2>8, <3>2
      <4>. QED BY <4>1 DEF IOInv, WaitInv, BusyOwned
    <3>. QED BY <3>1, <3>2
  <2>. QED BY <2>5, <2>6, <2>7, <2>10, <2>11, <2>12 DEF IOInv, WaitInv
<1>6. ASSUME NEW D \in SUBSET Procs, nsys2(D) PROVE IOInv'
  <2>. DEFINE dead == D \cup {currProc}
  <2>1. /\ semd' = [s \in Sems |-> Without(semd[s], dead)]
        /\ status' = [r \in CmdRegs |-> IF status[r].by \in dead
                                        THEN [status[r] EXCEPT !.by = NULL]
                                        ELSE status[r]]
        /\ reg_a0' = [p \in Procs |-> IF p \in dead THEN NULL ELSE reg_a0[p]]
        /\ UNCHANGED <<device_semaphores, interrupting>>
    BY <1>6 DEF nsys2
  <2>. HIDE DEF dead
  <2>2. \A s \in Sems : /\ Without(semd[s], dead) \in Seq(Procs)
                        /\ ToSet(Without(semd[s], dead)) = ToSet(semd[s]) \ dead
                        /\ IsInjective(semd[s]) => IsInjective(Without(semd[s], dead))
    <3>. TAKE s \in Sems
    <3>1. semd[s] \in Seq(Procs)
      BY <1>0
    <3>. QED BY <3>1, WithoutMembers
  <2>3. SemType'
    BY <1>0, <2>1, <2>2 DEF SemType
  <2>4. \A r \in CmdRegs : /\ status'[r].code = status[r].code
                           /\ status[r].by \notin dead => status'[r].by = status[r].by
                           /\ status[r].by \in dead => status'[r].by = NULL
                           /\ status'[r].late = status[r].late
                           /\ status'[r] \in [code : {READY, BUSY, DEVERROR, CHARRECV},
                                              by : Procs \cup {NULL}, late : BOOLEAN]
    <3>. TAKE r \in CmdRegs
    <3>1. status[r] \in [code : {READY, BUSY, DEVERROR, CHARRECV},
                         by : Procs \cup {NULL}, late : BOOLEAN]
      BY <1>0
    <3>. QED BY <2>1, <3>1
  <2>5. StatusType'
    BY <1>0, <2>1, <2>4 DEF StatusType
  <2>6. PendingDone'
    BY <1>0, <2>1, <2>4 DEF IOInv, PendingDone
  <2>7. AnswerType' /\ AnswersRight'
    <3>1. AnswerType'
      BY <1>0, <2>1 DEF AnswerType
    <3>2. \A p \in Procs : reg_a0'[p] = NULL \/ reg_a0'[p] = reg_a0[p]
      BY <2>1
    <3>3. AnswersRight'
      BY <3>2 DEF IOInv, AnswersRight, DueTo
    <3>. QED BY <3>1, <3>3
  <2>8. AloneWaiting'
    BY <2>1, <2>2 DEF AloneWaiting, IOInv, WaitInv, Sems
  <2>9. \A r \in CmdRegs : ToSet(semd'[semIndex(r)]) = ToSet(semd[semIndex(r)]) \ dead
    BY <1>s, <2>1, <2>2, ZenonT(60)
  <2>10. WaitsForCompletion'
    <3>. SUFFICES ASSUME NEW r \in CmdRegs, NEW p \in ToSet(semd'[semIndex(r)])
                  PROVE  /\ DueTo(status'[r], p)
                         /\ status'[r].code = BUSY \/ r \in interrupting'
      BY DEF WaitsForCompletion, DueTo
    <3>1. p \in ToSet(semd[semIndex(r)]) /\ p \notin dead
      BY <2>9
    <3>2. DueTo(status[r], p) /\ (status[r].code = BUSY \/ r \in interrupting)
      BY <3>1 DEF IOInv, WaitInv, WaitsForCompletion
    <3>3. DueTo(status'[r], p)
      BY <2>4, <3>1, <3>2 DEF DueTo
    <3>. QED BY <2>1, <2>4, <3>2, <3>3
  <2>11. BusyOwned'
    <3>. SUFFICES ASSUME NEW r \in CmdRegs, status'[r].code = BUSY, status'[r].by # NULL
                  PROVE  status'[r].by \in ToSet(semd'[semIndex(r)])
      BY DEF BusyOwned
    <3>1. status[r].by \notin dead /\ status'[r].by = status[r].by /\ status[r].code = BUSY
      BY <2>4
    <3>. QED BY <2>9, <3>1 DEF IOInv, WaitInv, BusyOwned
  <2>. QED BY <2>3, <2>5, <2>6, <2>7, <2>8, <2>10, <2>11 DEF IOInv, WaitInv
<1>7. ASSUME NEW a \in CmdRegs, deviceDone(a) PROVE IOInv'
  <2>1. PICK c \in endCodes(a) : status' = [status EXCEPT ![a].code = c]
    BY <1>7 DEF deviceDone
  <2>2. c \in {READY, DEVERROR, CHARRECV} /\ c # BUSY
    BY DEF endCodes, READY, DEVERROR, CHARRECV, BUSY
  <2>3. /\ interrupting' = interrupting \cup {a}
        /\ UNCHANGED <<semd, device_semaphores, reg_a0>>
    BY <1>7 DEF deviceDone
  <2>4. \A r \in CmdRegs : /\ status'[r].by = status[r].by
                           /\ status'[r].late = status[r].late
                           /\ status'[r].code = IF r = a THEN c ELSE status[r].code
                           /\ status'[r] \in [code : {READY, BUSY, DEVERROR, CHARRECV},
                                              by : Procs \cup {NULL}, late : BOOLEAN]
    <3>. TAKE r \in CmdRegs
    <3>1. status[r] \in [code : {READY, BUSY, DEVERROR, CHARRECV},
                         by : Procs \cup {NULL}, late : BOOLEAN]
      BY <1>0
    <3>. QED BY <1>0, <2>1, <2>2, <3>1
  <2>5. StatusType'
    <3>1. status' = [r \in CmdRegs |-> status'[r]]
      BY <1>0, <2>1
    <3>. QED BY <1>0, <2>3, <2>4, <3>1 DEF StatusType
  <2>6. PendingDone'
    BY <1>0, <2>2, <2>3, <2>4 DEF IOInv, PendingDone
  <2>7. WaitsForCompletion'
    BY <2>3, <2>4 DEF IOInv, WaitInv, WaitsForCompletion, DueTo
  <2>8. BusyOwned'
    BY <2>2, <2>3, <2>4 DEF IOInv, WaitInv, BusyOwned
  <2>. QED BY <2>3, <2>5, <2>6, <2>7, <2>8
       DEF IOInv, WaitInv, AloneWaiting, SemType, AnswerType, AnswersRight, DueTo
<1>8. ASSUME NEW d \in Devices, deviceInterruptHandler(d[1], d[2]) PROVE IOInv'
  <2>. DEFINE l == d[1]
              n == d[2]
              recv == devAddr(l, n) + RECV
              transm == devAddr(l, n) + TRANSM
  <2>1. /\ recv \in CmdRegs /\ semIndex(recv) = semaphoreIdx(l, n, FALSE)
        /\ l = 7 => transm \in CmdRegs /\ semIndex(transm) = semaphoreIdx(l, n, TRUE)
        /\ l # 7 => commands(l, n) = {recv}
    BY DeviceSems
  <2>2. /\ bitmap(l) # {} /\ n = Min(bitmap(l))
        /\ \/ /\ l = 7 /\ transmitted(status[transm])
              /\ deliver(semaphoreIdx(l, n, TRUE), status[transm]) /\ acknowledge(transm)
           \/ /\ l = 7 /\ received(status[recv])
              /\ deliver(semaphoreIdx(l, n, FALSE), status[recv]) /\ acknowledge(recv)
           \/ UNCHANGED io
           \/ /\ l # 7
              /\ deliver(semaphoreIdx(l, n, FALSE), status[recv]) /\ acknowledge(recv)
    BY <1>8 DEF deviceInterruptHandler, leavePending
  <2>. HIDE DEF l, n, recv, transm
  <2>3. CASE l = 7 /\ transmitted(status[transm])
              /\ deliver(semaphoreIdx(l, n, TRUE), status[transm]) /\ acknowledge(transm)
    <3>1. status[transm].code # BUSY
      BY <2>3 DEF transmitted, OKCHARTRANS, BUSY
    <3>. QED BY <2>1, <2>3, <3>1, DeliverStep
  <2>4. CASE l = 7 /\ received(status[recv])
              /\ deliver(semaphoreIdx(l, n, FALSE), status[recv]) /\ acknowledge(recv)
    <3>1. status[recv].code # BUSY
      BY <2>4 DEF received, CHARRECV, BUSY
    <3>. QED BY <2>1, <2>4, <3>1, DeliverStep
  <2>5. CASE l # 7
              /\ deliver(semaphoreIdx(l, n, FALSE), status[recv]) /\ acknowledge(recv)
    <3>1. bitmap(l) \subseteq Nat
      BY DEF bitmap, DevNos
    <3>2. n \in bitmap(l)
      BY <2>2, <3>1, MinOfNaturals
    <3>3. recv \in interrupting
      BY <2>1, <2>5, <3>2 DEF bitmap
    <3>4. status[recv].code # BUSY
      BY <3>3 DEF IOInv, PendingDone
    <3>. QED BY <2>1, <2>5, <3>4, DeliverStep
  <2>. QED BY <1>u, <2>2, <2>3, <2>4, <2>5
<1>9. ASSUME STCK \/ pltInterruptHandler \/ UNCHANGED vars PROVE IOInv'
  BY <1>9, <1>u DEF STCK, pltInterruptHandler, vars, io
<1>. QED
  BY <1>1, <1>2, <1>3, <1>4, <1>5, <1>6, <1>7, <1>8, <1>9
  DEF Next, syscallHandler, interruptHandler
-----------------------------------------------------------------------------
(***************************************************************************)
(* The invariant holds at the start and is kept by every step.             *)
(***************************************************************************)
LEMMA InitCorrect ==
    ASSUME Init
    PROVE  TypeOK /\ TimeKept /\ IOInv
<1>0. /\ currProc \in Procs /\ ready \subseteq Procs
      /\ semd = [s \in Sems |-> <<>>]
      /\ device_semaphores = [s \in DevSems \cup {NSUPPSEM} |-> 0]
      /\ reg_a0 = [p \in Procs |-> NULL]
      /\ status = [r \in CmdRegs |-> atRest]
      /\ interrupting = {} /\ tod = 0 /\ tod_start = 0
      /\ p_time = [p \in Procs |-> 0] /\ used = [p \in Procs |-> 0]
  BY DEF Init
<1>1. CpuType
  BY <1>0 DEF CpuType
<1>2. SemType
  <2>1. 0 \in 0..MaxCount
    BY TimeAssumption
  <2>. QED BY <1>0, <2>1 DEF SemType
<1>3. StatusType
  <2>1. atRest \in [code : {READY, BUSY, DEVERROR, CHARRECV},
                    by : Procs \cup {NULL}, late : BOOLEAN]
    BY DEF atRest
  <2>. QED BY <1>0, <2>1 DEF StatusType
<1>4. AnswerType
  BY <1>0 DEF AnswerType
<1>5. TimeType
  BY <1>0, PlusFacts DEF TimeType
<1>6. TimeKept
  <2>1. Plus(0, Plus(0, -0)) = 0
    BY PlusFacts, ClockFacts
  <2>2. nsys6 = Plus(p_time[currProc], Plus(tod, -tod_start))
    BY DEF nsys6, elapsed
  <2>. QED BY <1>0, <2>1, <2>2 DEF TimeKept, BooksRight
<1>7. WaitsForCompletion /\ AloneWaiting
  <2>1. \A s \in Sems : semd[s] = <<>>
    BY <1>0
  <2>2. IsInjective(<<>>) /\ ToSet(<<>>) = {}
    BY DEF IsInjective, ToSet
  <2>3. \A r \in CmdRegs : semIndex(r) \in Sems
    BY DevSemsApart
  <2>4. DevSems \subseteq Sems
    BY DEF Sems
  <2>. QED BY <2>1, <2>2, <2>3, <2>4 DEF WaitsForCompletion, AloneWaiting
<1>8. PendingDone /\ AnswersRight /\ BusyOwned
  BY <1>0 DEF PendingDone, AnswersRight, BusyOwned, atRest
<1>. QED BY <1>1, <1>2, <1>3, <1>4, <1>5, <1>6, <1>7, <1>8, TypeParts DEF IOInv, WaitInv

LEMMA NextCorrect ==
    ASSUME TypeOK, TimeKept, IOInv, [Next]_vars
    PROVE  TypeOK' /\ TimeKept' /\ IOInv'
<1>1. CpuType' /\ TimeType' /\ TimeKept'
  BY TimeStep
<1>2. IOInv'
  BY IOStep
<1>3. TypeOK'
  BY <1>1, <1>2, TypeParts
     DEF IOInv, TypeOK, CpuType, SemType, StatusType, AnswerType, TimeType, Clock
<1>. QED BY <1>1, <1>2, <1>3

LEMMA InvariantHolds == Spec => [](TypeOK /\ TimeKept /\ IOInv)
<1>1. Init => TypeOK /\ TimeKept /\ IOInv
  BY InitCorrect
<1>2. TypeOK /\ TimeKept /\ IOInv /\ [Next]_vars => (TypeOK /\ TimeKept /\ IOInv)'
  BY NextCorrect
<1>. QED BY <1>1, <1>2, PTL DEF Spec

LEMMA LiveAreProcs ==
    ASSUME TypeOK
    PROVE  Live \subseteq Procs
<1>1. \A s \in Sems : ToSet(semd[s]) \subseteq Procs
  <2>. TAKE s \in Sems
  <2>1. semd[s] \in Seq(Procs)
    BY DEF TypeOK
  <2>. QED BY <2>1, ToSetSeq
<1>. QED BY <1>1 DEF TypeOK, Live, Blocked

(* Every variable keeps its kind: the semaphore nsys5 and the interrupt    *)
(* handler compute is one that exists, DOIO returns no status of a command *)
(* that is still running, and cpu_t stays in its range.                    *)
THEOREM TypeSafe == Spec => []TypeOK
  BY InvariantHolds, PTL

(* nsys5, nsys2 and deviceInterruptHandler: whatever processes end,        *)
(* whichever completions arrive and whether or not a device still works on *)
(* the command of a process that has ended, who waits for it waits for a   *)
(* completion that is still to be delivered.                               *)
THEOREM WaitsSafe == Spec => []WaitsForCompletion
<1>1. IOInv => WaitsForCompletion
  BY DEF IOInv, WaitInv
<1>. QED BY <1>1, InvariantHolds, PTL

(* deviceInterruptHandler hands the status of a completed command to the   *)
(* process that issued it, or, if that one was terminated, to one whose    *)
(* command the device ignored meanwhile; a completion that nobody waited   *)
(* for is handed to nobody.                                                *)
THEOREM AnswerSafe == Spec => []OwnAnswer
<1>1. TypeOK /\ IOInv => OwnAnswer
  <2>. SUFFICES ASSUME TypeOK, IOInv, NEW p \in Live, reg_a0[p] # NULL
                PROVE  DueTo(reg_a0[p], p) /\ reg_a0[p].code # BUSY
    BY DEF OwnAnswer
  <2>1. p \in Procs
    BY LiveAreProcs
  <2>. QED BY <2>1 DEF IOInv, AnswersRight, DueTo
<1>. QED BY <1>1, InvariantHolds, PTL

(* The charges of nsys3, nsys5, nsys7, nsys10 and of the local timer, over *)
(* every schedule and across the wrap of the clock: but for the part of a  *)
(* slice that a pseudo-clock tick cuts short, which itInterruptHandler     *)
(* never charges, p_time is the CPU time used, and GETTIME returns it.     *)
THEOREM TimeSafe ==
    ASSUME TickForgiven
    PROVE  Spec => []TimeAccounted
<1>1. TypeOK /\ TimeKept => TimeAccounted
  <2>. SUFFICES ASSUME TypeOK, TimeKept, NEW p \in Live
                PROVE  used[p] = IF p = currProc THEN nsys6 ELSE p_time[p]
    BY DEF TimeAccounted
  <2>1. p \in Procs
    BY LiveAreProcs
  <2>. QED BY <2>1 DEF TimeKept, BooksRight
<1>. QED BY <1>1, InvariantHolds, PTL
=============================================================================
