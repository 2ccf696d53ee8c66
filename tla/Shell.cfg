SPECIFICATION Spec
CONSTANTS
    MAXSTRLENG = 11
    ShellLines <- LinesTyped
    CalcLines <- Expressions
CHECK_DEADLOCK FALSE
INVARIANTS
    TypeOK
    ScansEnd
    ShellObeys
    CalcRight
