SPECIFICATION Spec
CONSTANTS
  Shapes <- WithStateless
  EdgeKinds = {}
  MaxReloads = 2
INVARIANTS DeclaredTypes
