CONSTANTS
  a = a
  b = b
  u = u
  v = v
  NoSession = NoSession
  NoWeights = NoWeights
  Sessions <- TwoSessions
  Vars <- TwoVars
  Values <- TwoValues
  ConnectionType = "OnDemand"
  May <- Anything
SPECIFICATION Spec
INVARIANTS TypeOK  TrainsUnlessReloaded
