CONSTANTS
  a = a
  b = b
  u = u
  v = v
  NoSession = NoSession
  NoWeights = NoWeights
  Sessions <- TwoSessions
  Vars <- OneVar
  Values <- TwoValues
  AllReplicas <- None
  MaxDepth = 2
  May <- OwnDevice
SPECIFICATION Spec
INVARIANTS TypeOK HostIsCache
