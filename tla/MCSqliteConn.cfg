CONSTANTS
  c1 = c1
  c2 = c2
  wk = wk
  x1 = x1
  x2 = x2
  Procs <- TwoProcs
  Clients <- TwoClients
  Worker = wk
  Writes <- TwoWrites
  None = None
  FirstCap = 1
  Explicit = {"ser"}
  DefaultLevel = "ru"
  MaxFaults = 1
  MaxVerbs = 5
  MaxNest = 2
SPECIFICATION Spec
INVARIANTS ConnTypeOK HandleHeld NothingLeaks RelaxedOnlyInTx InStepAtomic
PROPERTY ImplementsNestedTx
CHECK_DEADLOCK FALSE
SYMMETRY Symmetric
