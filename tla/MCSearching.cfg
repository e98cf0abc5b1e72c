SPECIFICATION Spec
CONSTANTS
  Leaves = {1, 2, 3}
  MaxDoc = 3
  Layouts <- MCLayouts
  Queries <- MCQueries
  Corpora <- MCCorpora
  Searches <- MCSearches
  Limits = {2}
  MaxCalls <- MCMaxCalls
  MaxDeletes = 1
INVARIANTS TypeOK SearchIsExact ScanIsExact HitsResolve
CHECK_DEADLOCK FALSE
