SPECIFICATION FairSpec
CONSTANTS
    Procs = {p1, p2}
    NULL = NULL
    Devices <- Terminal
    Errors = TRUE
    TickForgiven = TRUE
    Width = 0
    TIMESLICE = 0
    MaxCount = 1
CHECK_DEADLOCK FALSE
PROPERTIES
    DoioReturns
