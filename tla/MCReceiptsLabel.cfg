SPECIFICATION Spec
CONSTANTS
  Workspaces = {w1}
  Versions = {0, 1, 2}
  None = None
  Limit = 1
  MaxOps = 1
  MaxEdits = 2
  MaxFaults = 0
CHECK_DEADLOCK FALSE
INVARIANTS VersionIsCode
