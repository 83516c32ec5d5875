CONSTANTS
    User = {u1, u2, long}
    LongUser = {long}
    None = None
    maxauthtries = 2
    MAX_PUBKEY_QUERIES = 3
    MaxRequests = 6
SPECIFICATION Spec
CHECK_DEADLOCK FALSE
INVARIANTS AuthenticatedProperly FailuresBounded 
