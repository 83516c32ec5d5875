SPECIFICATION FairSpec
CONSTANTS
    Togglable = {"boot", "foreground", "onOpen", "intent", "keep"}
    MaxMsgs = 6
    MaxDeaths = 1
PROPERTIES UserServiceEndsWithUi StopEndsService
CHECK_DEADLOCK FALSE
