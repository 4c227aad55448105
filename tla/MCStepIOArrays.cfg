CONSTANTS
  Flow <- EverySecond
  Sizes <- UpToTwenty
  SomeFlows <- SmallFlows
SPECIFICATION FairSpec
INVARIANTS SizesMatchFetches BuffersAreSlices StepsStartAtZero
PROPERTIES EveryStepEnds
