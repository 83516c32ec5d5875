CONSTANTS
    SigAlgs <- TwoAlgs
    KexGuess2 = TRUE
    None = None
    MaxData = 2
    MaxRekeys = 1
SPECIFICATION FairSpec
CHECK_DEADLOCK FALSE
INVARIANTS NoProtocolExit QuietDuringKex SessionIdAgrees
PROPERTIES NonceNeverReused RekeyCompletes ImplementsTransport
