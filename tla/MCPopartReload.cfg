CONSTANTS
  a = a
  b = b
  u = u
  v = v
  NoSession = NoSession
  NoWeights = NoWeights
  Sessions <- OneSession
  Vars <- TwoVars
  Values <- TwoValues
  ConnectionType = "Always"
  May <- Reloads
SPECIFICATION Spec
INVARIANTS TrainsOnWeights
