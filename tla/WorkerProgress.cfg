SPECIFICATION FairWorkerSpec
CONSTANTS
  w = w
  v = v
  p = p
  g = g
  NULL = NULL
  Agents = {w, v}
  Me = w
  Runs = {r1}
  Concurrency = 2
  MaxUnheard = 1
  Calls = {c1}
  MaxTasks = 1
  Requests <- OneRequest
  Subscriptions <- Subs
  Capabilities <- NoCaps
  MaxConcurrency <- Many
  VisibilityTimeout = 2
  BackoffBase = 0
  BackoffCap = 0
  NodeClockAhead = 0
  Checkpoints = {}
  OperatorCalls = {"pause"}
PROPERTY HeldTaskReleased
