SPECIFICATION Spec
CONSTANTS
    Pcbs = {p1, p2, p3}
    NULL = NULL
    UserSems = {s1}
    DevSems = {d1}
    ClockSem = clock
    Prios = {0, 1}
    Supports = {FALSE, TRUE}
    KillAny = FALSE
    SharedDev = TRUE
    MaxPid = 4
    MaxSemVal = 1
SYMMETRY Symmetry
CHECK_DEADLOCK FALSE
INVARIANTS
    FreedLeavesReadyQueue
