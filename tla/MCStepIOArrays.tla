--------------------------- MODULE MCStepIOArrays ---------------------------
(* The instance of StepIOArrays for TLC. *)
EXTENDS StepIOArrays

\* Two batches of two micro-batches on two replicas; the anchor is returned for
\* the second batch.
EverySecond ==
  [ batchesPerStep |-> 2, art |-> "EveryN", rp |-> 2,
    enableGradientAccumulation |-> TRUE, accumulationFactor |-> 2,
    enableReplicatedGraphs |-> TRUE, replicatedGraphCount |-> 2,
    implicitPipelining |-> FALSE, broadcast |-> FALSE, nelms |-> 2 ]

UpToTwenty == 1 .. 20

SmallFlows ==
  [ batchesPerStep : 0 .. 4, art : AnchorReturnTypeIds, rp : 0 .. 5,
    enableGradientAccumulation : BOOLEAN, accumulationFactor : 1 .. 2,
    enableReplicatedGraphs : BOOLEAN, replicatedGraphCount : 1 .. 3,
    implicitPipelining : BOOLEAN, broadcast : BOOLEAN, nelms : {1, 3} ]
=============================================================================
