SPECIFICATION FairSpec
CONSTANTS
  Workspaces = {w1}
  Versions = {0, 1}
  None = None
  Limit = 1
  MaxOps = 2
  MaxEdits = 2
  MaxFaults = 2
CHECK_DEADLOCK FALSE
INVARIANTS TypeOK ClosedTrue Journalled ReceiptsTrue
PROPERTY PendingSettles
