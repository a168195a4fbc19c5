CONSTANTS
    d1 = d1
    d2 = d2
    k1 = k1
    k2 = k2
    Devices = {d1, d2}
    PublicKeys = {k1, k2}
    NoKey = NoKey
    MaxEpoch = 2
    Quota = 2
    Requests = {q1, q2, q3}
    NoCommit = NoCommit
    Inputs <- MCInputs
    Backends = {"azure", "memory"}
    MaxAttempts = 2
    MaxKeys = 1
    Counters = {1}
    BatchSizes = {1, 2}
SPECIFICATION Spec
INVARIANTS
    ChargesAreTrue
    QuotaHolds
    RowsStayReadable
    ConflictsMeanProgress
PROPERTIES
    ImplementsLedger
SYMMETRY CallSymmetry
CHECK_DEADLOCK FALSE
