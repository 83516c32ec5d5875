CONSTANTS
    Session = {s1, s2, s3}
    Addr = {a1, a2, a3}
    None = None
    NSock = 1
    MAX_UNAUTH_CLIENTS = 2
    MAX_UNAUTH_PER_IP = 1
    MaxBacklog = 1
    MaxConnects = 3
    MaxAcceptFailures = 1
    MaxForkFailures = 1
    MaxFds = 5
SPECIFICATION FairSpec
CHECK_DEADLOCK FALSE
INVARIANTS SlotOwned DescriptorsAccounted
PROPERTIES LimitsKept SlotReclaimed ConnectionDecided SigtermNoticed
