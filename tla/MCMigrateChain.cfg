SPECIFICATION Spec
CONSTANTS
  Shapes <- Declared
  EdgeKinds = {"current", "older"}
  MaxReloads = 2
INVARIANTS TypeOK WellShaped ValuesKept PlainSurvives ThroughHook
