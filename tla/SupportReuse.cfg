SPECIFICATION Spec
CONSTANTS
    Inst = inst
    Shell = shell
    Kids = {k1, k2}
    Asids = {1, 2}
    SHELL_ASID = 1
    MAXPAGES = 2
    Vpns = {0, 1}
    POOLSIZE = 2
    ReadFails = FALSE
    WriteFails = FALSE
    Reuse = TRUE
    FREE = FREE
    INVALID = INVALID
    ABSENT = ABSENT
    JUNK = JUNK
INVARIANTS
    Coherent
CHECK_DEADLOCK FALSE
