SPECIFICATION Spec
CONSTANTS
    Pid = {p1, p2, p3}
    Instance = {i1, i2}
    None = None
    MIN_DURATION_MS = 2
    NanosPerMilli = 2
    Epoch = 0
    MaxClock = 4
    MaxRequests = 1
    MaxFailures = 2
    MaxCallFailures = 0
    MaxDeaths = 0
    Overlap = TRUE
PROPERTIES CrashLoopStops
CHECK_DEADLOCK FALSE
