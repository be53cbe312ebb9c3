SPECIFICATION Spec
CONSTANTS
  NULL = NULL
  Dirs = {"root", "home", "work"}
  Home = "home"
  Root = "root"
  Users = {u1, u2}
  Agents = {a1, a2}
  Polls <- LifecyclePolls
  Intervals <- TurningPoints
  Procs = {x1, x2}
  MaxCommands = 4
  MaxFailures = 1
CHECK_DEADLOCK FALSE
INVARIANT CliTypeOK
 
