SPECIFICATION FairSpec
CONSTANTS
    Procs = {p1, p2}
    NULL = NULL
    Devices <- FlashAndTerminal
    Errors = FALSE
    TickForgiven = TRUE
    Width = 2
    TIMESLICE = 2
    MaxCount = 1
CHECK_DEADLOCK FALSE
INVARIANTS
    TypeOK
    TimeAccounted
PROPERTIES
    DoioReturns
