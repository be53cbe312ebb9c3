SPECIFICATION Spec
CONSTANTS
  a1 = a1
  a2 = a2
  p1 = p1
  p2 = p2
  g1 = g1
  g2 = g2
  cap = cap
  NULL = NULL
  Agents = {a1, a2}
  Calls = {c1, c2}
  MaxTasks = 1
  Requests <- RoutedRequests
  Subscriptions <- TwoAgentSubs
  Capabilities <- CapsOfA1
  MaxConcurrency <- One
  VisibilityTimeout = 2
  BackoffBase = 2
  BackoffCap = 3
  NodeClockAhead <- MinusOne
  Checkpoints = {s1}
  OperatorCalls = {"requeue", "cancel", "stop", "reassign"}
SYMMETRY Symmetry
INVARIANT TypeOK
 
INVARIANT ClaimsSound
 
INVARIANT ResultsMatchStatus
INVARIANT RetriesWithinBudget
 
PROPERTY EveryAttemptAccounted
PROPERTY LiveLeaseNeverReclaimed
PROPERTY CheckpointSurvives
