SPECIFICATION Spec
CONSTANTS
  Leaves = {1, 2, 3}
  MaxDoc = 3
  Layouts <- MCLayouts
  Queries <- MCAnd
  Corpora <- MCCorpora
  Searches <- MCSearches
  Limits = {2}
  MaxCalls <- MCMaxCalls
  MaxDeletes = 1
INVARIANT ConjunctionsAreExact
CHECK_DEADLOCK FALSE
