CONSTANTS
  p1 = p1
  p2 = p2
  p3 = p3
  Callers <- TwoCallers
  None = None
  Ping = Ping
  MaxConns = 1
  MaxQueue = 0
  MaxOpened = 1
  MaxNest = 1
  MaxVerbs = 2
  MaxErrors = 0
  MaxLapses = 1
  MaxTicks = 0
SPECIFICATION Spec
INVARIANT NoForeignTx
CHECK_DEADLOCK FALSE
