SPECIFICATION OpenSpec
CONSTANTS
    Docs = {d1}
    Format = "plain"
    MaxBufferedDocs = 1
    MergeFactor = 2
    MaxMergeDocs = 4
    ReaderOps = {"delete", "norm"}
    CrashPhases = {"write", "drop"}
    MaxGen = 3
    MaxSeg = 2
    Readers = {r1}
    LookAhead = 1
INVARIANTS OpenTypeOK
PROPERTIES ImplementsSnapshots
