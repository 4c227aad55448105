CONSTANTS
  R = 3
  Directions <- In
  MaxFetches <- TwoIn
  Adapters <- AllReplicas
  Streamed <- AllReplicas
SPECIFICATION FairSpec
INVARIANTS TypeOK InOrder ReleasedInOrder WithinStep StepEndsClean
PROPERTIES FailsOnlyWhenStarved StepEnds ImplementsReplicaStreams
