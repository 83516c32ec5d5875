CONSTANTS
    MaxVms = 2
    MaxLog = 2
    MaxTasks = 3
SPECIFICATION FairSpec
CHECK_DEADLOCK FALSE
PROPERTIES LogCatchesUp CancelledEnds
