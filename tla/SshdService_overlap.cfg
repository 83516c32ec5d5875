SPECIFICATION Spec
CONSTANTS
    Pid = {p1, p2, p3}
    Instance = {i1, i2}
    None = None
    MIN_DURATION_MS = 2
    NanosPerMilli = 2
    Epoch = 0
    MaxClock = 2
    MaxRequests = 3
    MaxFailures = 2
    MaxCallFailures = 1
    MaxDeaths = 1
    Overlap = TRUE
SYMMETRY Symmetry
INVARIANTS TypeOK EveryChildWatched WaitpidHasChild TrackedIsWatched PidFileNamesServer
CHECK_DEADLOCK FALSE
