SPECIFICATION Spec
CONSTANTS
    Procs = {p1, p2, p3}
    NULL = NULL
    Devices <- FlashAndTerminal
    Errors = TRUE
    TickForgiven = TRUE
    Width = 0
    TIMESLICE = 0
    MaxCount = 1
CHECK_DEADLOCK FALSE
SYMMETRY Symmetry
INVARIANTS
    WaitsForCompletion
    OwnAnswer
