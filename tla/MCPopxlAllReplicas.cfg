CONSTANTS
  a = a
  b = b
  u = u
  v = v
  NoSession = NoSession
  NoWeights = NoWeights
  Sessions <- OneSession
  Vars <- TwoVars
  Values <- TwoValues
  AllReplicas <- TwoVars
  MaxDepth = 3
  May <- None
SPECIFICATION Spec
INVARIANTS GetReturnsDeviceData
