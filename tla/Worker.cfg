SPECIFICATION WorkerSpec
CONSTANTS
  w = w
  v = v
  p = p
  g = g
  NULL = NULL
  Agents = {w}
  Me = w
  Runs = {r1, r2}
  Concurrency = 2
  MaxUnheard = 1
  Calls = {c1}
  MaxTasks = 1
  Requests <- OneRequest
  Subscriptions <- Subs
  Capabilities <- NoCaps
  MaxConcurrency <- Many
  VisibilityTimeout = 1
  BackoffBase = 0
  BackoffCap = 0
  NodeClockAhead = 0
  Checkpoints = {}
  OperatorCalls = {}
SYMMETRY Symmetry
INVARIANT WorkerTypeOK
INVARIANT AckedSuccessIsFinal
PROPERTY LostRunIsSilent
PROPERTY ImplementsTaskQueue
