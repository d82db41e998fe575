CONSTANTS
  c1 = c1
  c2 = c2
  wk = wk
  x1 = x1
  x2 = x2
  Procs <- OneProcs
  Clients <- OneClient
  Worker = wk
  Writes <- OneWrite
  None = None
  FirstCap = 1
  Explicit = {}
  DefaultLevel = "ser"
  MaxFaults = 1
  MaxVerbs = 6
  MaxNest = 2
SPECIFICATION Spec
PROPERTY CommitMeansDurable
CHECK_DEADLOCK FALSE
