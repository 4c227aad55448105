CONSTANTS
  a = a
  b = b
  u = u
  v = v
  NoSession = NoSession
  NoWeights = NoWeights
  Sessions <- OneSession
  Vars <- OneVar
  Values <- TwoValues
  AllReplicas <- None
  MaxDepth = 2
  May <- Teardowns
SPECIFICATION Spec
INVARIANTS AttachedInContext
