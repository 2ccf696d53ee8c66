SPECIFICATION FairSpec
CONSTANTS
    Inst = inst
    Shell = shell
    Kids = {k1}
    Asids = {1, 2}
    SHELL_ASID = 1
    MAXPAGES = 1
    Vpns = {0, 1}
    POOLSIZE = 1
    ReadFails = TRUE
    WriteFails = TRUE
    Reuse = FALSE
    FREE = FREE
    INVALID = INVALID
    ABSENT = ABSENT
    JUNK = JUNK
PROPERTIES
    FaultServed
    ShellResumes
    ShutsDown
CHECK_DEADLOCK FALSE
