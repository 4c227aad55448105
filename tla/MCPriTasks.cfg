CONSTANTS
    Tasks <- AllTasks
    Lowerings <- AllLowerings
SPECIFICATION FairSpec
INVARIANTS TypeOK SchedulesCorrect FailsOnlyIfImpossible ReplacedOnlyIfStuck SubgraphBeforeCaller ProgramInOrder
PROPERTIES Terminates
CHECK_DEADLOCK FALSE
