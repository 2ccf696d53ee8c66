SPECIFICATION Spec
CONSTANTS
    Pcbs = {p1, p2, p3}
    Descs = {d1, d2}
    Sems = {s1, s2, s3}
    Prios = {0, 1}
    NULL = NULL
SYMMETRY Symmetry
INVARIANTS
    TypeOK
    Circular
    DescriptorsExact
PROPERTIES
    ImplementsQueues
