CONSTANTS
    Part = {alice, bob}
    Blank = Blank
    Password = {pw1, pw2}
    Null = Null
    OtherAuth = FALSE
    MaxParts = 2
    MaxSaves = 4
    MaxFaults = 2
SPECIFICATION Spec
CHECK_DEADLOCK FALSE
INVARIANTS NativeReadsSaved KeysNeverTorn
PROPERTIES SilentExitIsUsable
