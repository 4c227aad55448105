CONSTANTS
  a = a
  b = b
  u = u
  v = v
  NoSession = NoSession
  NoWeights = NoWeights
  Sessions <- OneSession
  Vars <- TwoVars
  Values <- TwoValues
  AllReplicas <- None
  MaxDepth = 3
  May <- Failures
SPECIFICATION Spec
INVARIANTS GivenBack ContextIsReady HostSurvives EngineIsWhereClaimed
PROPERTIES ExitSaves
