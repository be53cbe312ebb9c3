SPECIFICATION Spec
CONSTANTS
  a1 = a1
  a2 = a2
  p1 = p1
  p2 = p2
  g1 = g1
  g2 = g2
  cap = cap
  NULL = NULL
  Agents = {a1}
  Calls = {c1, c2}
  MaxTasks = 2
  Requests <- PlainRequests
  Subscriptions <- OneAgentSubs
  Capabilities <- NoCaps
  MaxConcurrency <- One
  VisibilityTimeout = 1
  BackoffBase = 1
  BackoffCap = 1
  NodeClockAhead = 0
  Checkpoints = {}
  OperatorCalls = {}
INVARIANT InflightWithinLimit
