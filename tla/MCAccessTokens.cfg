CONSTANTS
    Calls = {c1, c2}
    NoCall = NoCall
    Empty = Empty
    Headers <- MCHeaders
    Signatures <- MCSignatures
    KeyIds <- MCKeyIds
    KeyMaps <- MCKeyMaps
    EpochLen = 2
    TTL = 2
    Backoff = 1
    FetchTimeout = 1
    MaxTime = 6
SPECIFICATION AuthSpec
PROPERTIES
    AdmissionIsEarned
    RefreshIsDisciplined
    EveryRequestDecided
CHECK_DEADLOCK FALSE
