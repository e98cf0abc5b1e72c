SPECIFICATION FairOpenSpec
CONSTANTS
    Docs = {d1}
    Format = "plain"
    MaxBufferedDocs = 1
    MergeFactor = 2
    MaxMergeDocs = 4
    ReaderOps = {"delete"}
    CrashPhases = {"write", "purge"}
    MaxGen = 4
    MaxSeg = 2
    Readers = {r1}
    LookAhead = 1
CHECK_DEADLOCK FALSE
PROPERTIES OpenTerminates ForwardProgress
INVARIANT OpenIsFresh
