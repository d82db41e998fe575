SPECIFICATION FairSpec
CONSTANTS
  Actors = {a1, a2}
  Born = {}
  Legacy = {}
  Changed = {a1}
  None = None
  MaxVersion = 1
  MaxFaults = 1
PROPERTIES StartsEnd SuspensionEnds ReloadEnds
CHECK_DEADLOCK FALSE
