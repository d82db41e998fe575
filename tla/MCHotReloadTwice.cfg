SPECIFICATION Spec
CONSTANTS
  Actors = {a1, a2, a3}
  Born = {a1, a2}
  Legacy = {a2}
  Changed = {a1}
  None = None
  MaxVersion = 2
  MaxFaults = 2
INVARIANTS TypeOK NoStaleExecution UnfencedIsWhole AnswersAreTrue OwnerAssertions ParkedArgsMigrated
PROPERTIES SwapAlone ImplementsPromise
CHECK_DEADLOCK FALSE
