SPECIFICATION FairSpec
CONSTANTS
    Docs = {d1, d2, d3}
    Format = "plain"
    MaxBufferedDocs = 2
    MergeFactor = 2
    MaxMergeDocs = 4
    ReaderOps = {"delete", "norm"}
    CrashPhases = {"purge"}
    MaxGen = 3
    MaxSeg = 3
INVARIANTS CommittedIntact QueueSafe OnlyDelOrphans
PROPERTY OperationEnds
