SPECIFICATION Spec
CONSTANTS
  NumTerms = 3
  NumFields = 2
  SkipInterval = 3
  IndexInterval = 2
  Indexes <- MCIndexes
  Added <- MCAdded
  Phrases <- MCPhrases
  Threads = {t1, t2}
  Extra = {}
INVARIANT TermsAreExact
