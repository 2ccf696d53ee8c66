SPECIFICATION Spec
CONSTANTS
    Inst = inst
    Shell = shell
    Kids = {k1, k2}
    Asids = {a1, a2, a3, a4}
    SHELL_ASID = a1
    MAXPAGES = 1
    Vpns = {0}
    POOLSIZE = 2
    ReadFails = FALSE
    WriteFails = FALSE
    Reuse = FALSE
    FREE = FREE
    INVALID = INVALID
    ABSENT = ABSENT
    JUNK = JUNK
SYMMETRY Symmetry
INVARIANTS
    TypeOK
    OccupiedFrame
    Coherent
    NoPanic
    SwapMutex
    HoldingRight
PROPERTIES
    UsesSemaphores
CHECK_DEADLOCK FALSE
