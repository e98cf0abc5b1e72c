SPECIFICATION FairSpec
CONSTANTS
    Procs = {p1, p2, p3}
    MaxVersion = 2
CHECK_DEADLOCK FALSE
INVARIANTS TypeOK LockExcludes HolderIsCurrent
PROPERTY AttemptEnds
