SPECIFICATION FairSpec
CONSTANTS
  NULL = NULL
  Handlers = {h1, h2, h3}
  PoolSize = 2
CHECK_DEADLOCK FALSE
INVARIANT PoolTypeOK
INVARIANT StallNeedsNesting
PROPERTY AnsweredUnlessStalled
