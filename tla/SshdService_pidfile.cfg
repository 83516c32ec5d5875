SPECIFICATION FairSpec
CONSTANTS
    Pid = {p1,p2}
    Instance = {i1,i2}
    None = None
    MIN_DURATION_MS = 1
    NanosPerMilli = 2
    Epoch = 0
    MaxClock = 1
    MaxRequests = 1
    MaxFailures = 1
    MaxCallFailures = 0
    MaxDeaths = 1
    Overlap = TRUE
PROPERTIES StickyServiceReturns
CHECK_DEADLOCK FALSE
