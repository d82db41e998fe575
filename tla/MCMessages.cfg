CONSTANTS
  s1 = s1
  s2 = s2
  Senders <- TwoSenders
  Askers <- OneAsker
  Policy = "error"
  Cap = 1
  Edges <- WithGap
  None = None
  MaxVersion = 3
  MaxSends = 3
  MaxDeaths = 1
SPECIFICATION FairSpec
INVARIANTS TypeOK HandlersSeeCurrent SoftBound
PROPERTIES OnlyGapsDropped AsksEnd
CHECK_DEADLOCK FALSE
