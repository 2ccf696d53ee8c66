SPECIFICATION FairSpecFirst
CONSTANTS
    Pcbs = {p1, p2, p3}
    NULL = NULL
    UserSems = {}
    DevSems = {d1}
    ClockSem = clock
    Prios = {0, 1}
    Supports = {FALSE}
    KillAny = FALSE
    SharedDev = FALSE
    MaxPid = 3
    MaxSemVal = 1
CHECK_DEADLOCK FALSE
PROPERTIES
    ClockWakes
    DoioWakes
    TopPriorityRuns
