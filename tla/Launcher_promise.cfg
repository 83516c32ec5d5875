SPECIFICATION Spec
CONSTANTS
    Togglable = {"foreground", "intent"}
    MaxMsgs = 6
    MaxDeaths = 0
INVARIANTS ForegroundPromiseKept
CHECK_DEADLOCK FALSE
