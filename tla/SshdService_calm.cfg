SPECIFICATION FairSpec
CONSTANTS
    Pid = {p1, p2, p3}
    Instance = {i1, i2, i3}
    None = None
    MIN_DURATION_MS = 1
    NanosPerMilli = 2
    Epoch = 0
    MaxClock = 2
    MaxRequests = 3
    MaxFailures = 1
    MaxCallFailures = 0
    MaxDeaths = 1
    Overlap = FALSE
INVARIANTS OneDaemon
PROPERTIES DeadDaemonNoticed StickyServiceReturns StartedServiceServes StoppedServiceIsGone
CHECK_DEADLOCK FALSE
