SPECIFICATION Spec
CONSTANTS
    Procs = {p1, p2}
    MaxVersion = 4
SYMMETRY ProcSymmetry
CHECK_DEADLOCK FALSE
INVARIANT AlwaysExclusive
