CONSTANTS
    ServerWindow = 2
    ClientWindow = 2
    MaxPacket = 2
    SockBuf = 1
    QueueLimit = 1
    MaxIn = 1
    MaxOut = 3
    MaxErr = 1
SPECIFICATION FairSpec
CHECK_DEADLOCK FALSE
INVARIANTS NoneDies WindowsAgree OutputComplete EofAfterInput
PROPERTIES SessionEnds
