CONSTANTS
    q1 = q1
    q2 = q2
    q3 = q3
    p1 = p1
    p2 = p2
    Devices = {d1}
    PublicKeys = {k1}
    NoKey = NoKey
    MaxEpoch = 0
    Quota = 1
    Requests = {q1, q2, q3}
    NoCommit = NoCommit
    Inputs <- MCInputs
    Backends = {"azure"}
    MaxAttempts = 1
    MaxKeys = 1
    Replicas = {p1, p2}
    Salts = {s1, s2}
    NoSalt = NoSalt
    Host <- MCHost
SPECIFICATION ReplicasSpec
INVARIANTS
    OneSalt
PROPERTIES
    RecoversFromFailure
    EveryCallReturns
CHECK_DEADLOCK FALSE
