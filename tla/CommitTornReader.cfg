SPECIFICATION Spec
CONSTANTS
    Docs = {d1}
    Format = "compound"
    MaxBufferedDocs = 1
    MergeFactor = 2
    MaxMergeDocs = 4
    ReaderOps = {"delete", "undelete", "norm"}
    CrashPhases = {"torn", "drop"}
    MaxGen = 4
    MaxSeg = 3
CHECK_DEADLOCK FALSE
PROPERTY ReaderCommitStays
