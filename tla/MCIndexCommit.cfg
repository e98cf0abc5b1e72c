SPECIFICATION Spec
CONSTANTS
    Docs = {d1, d2}
    Format = "compound"
    MaxBufferedDocs = 2
    MergeFactor = 2
    MaxMergeDocs = 4
    ReaderOps = {"delete", "undelete", "norm"}
    CrashPhases = {"idle", "write", "gen", "drop", "dropcurr", "purge", "merge"}
    MaxGen = 3
    MaxSeg = 3
SYMMETRY DocSymmetry
INVARIANTS TypeOK CommittedIntact CommitReadable Recoverable QueueSafe OnlyDelOrphans
