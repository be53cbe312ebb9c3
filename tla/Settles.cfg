SPECIFICATION ServerFairSpec
CONSTANTS
  a1 = a1
  a2 = a2
  p1 = p1
  p2 = p2
  g1 = g1
  g2 = g2
  cap = cap
  NULL = NULL
  Agents = {a1}
  Calls = {c1}
  MaxTasks = 2
  Requests <- MixedRequests
  Subscriptions <- TwoGroupSubs
  Capabilities <- NoCaps
  MaxConcurrency <- One
  VisibilityTimeout = 1
  BackoffBase = 1
  BackoffCap = 1
  NodeClockAhead = 0
  Checkpoints = {}
  OperatorCalls = {"stop", "pause", "topic pause"}
PROPERTY EveryTaskSettles
PROPERTY AbandonedLeaseReclaimed
PROPERTY RestTakesEffect
