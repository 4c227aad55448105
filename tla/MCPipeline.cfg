CONSTANTS
    Pipelines <- AllPipelines
    MaxSteps = 3
SPECIFICATION Spec
INVARIANTS TypeOK SameMicroBatch EachMicroBatchOnce AnchorsInOrder DepthCheckSuffices
CHECK_DEADLOCK FALSE
