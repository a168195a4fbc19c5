CONSTANTS
    Calls = {c1, c2, c3, c4}
    Requests <- MCRequests
    NoCall = NoCall
    TTL = 1
    SWR = 1
    FetchTimeout = 2
    MaxEntries = 1
    MaxTime = 5
SPECIFICATION Spec
INVARIANTS
    ServedAsAsked
    StalenessBounded
    SingleFlight
SYMMETRY CallSymmetry
CHECK_DEADLOCK FALSE
