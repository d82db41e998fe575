CONSTANTS
  p1 = p1
  p2 = p2
  p3 = p3
  Callers <- ThreeCallers
  None = None
  Ping = Ping
  MaxConns = 1
  MaxQueue = 2
  MaxOpened = 2
  MaxNest = 2
  MaxVerbs = 3
  MaxErrors = 1
  MaxLapses = 1
  MaxTicks = 1
SPECIFICATION FairSpec
INVARIANTS TypeOK OneBorrower Accounted WithinMax WaitsForAReason ReturnedClean
PROPERTIES RoomIsOffered CheckoutEnds
CHECK_DEADLOCK FALSE
