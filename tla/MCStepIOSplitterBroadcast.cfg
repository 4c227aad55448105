CONSTANTS
  R = 2
  Directions <- In
  MaxFetches <- TwoIn
  Adapters <- BroadcastAdapters
  Streamed <- BroadcastStreamed
SPECIFICATION Spec
INVARIANTS BroadcastIgnoresReplication
