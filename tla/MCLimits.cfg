CONSTANTS
    Addresses = {ip1, ip2, ip3}
    Proxy = Proxy
    NoAddress = NoAddress
    Rpm = 2
    Window = 3
    MaxKeys = 2
    MaxTime = 5
    MaxRequests = 7
    Forwards = {r1, r2, r3, r4}
    Targets = {t1, t2}
    Allowed = {t1}
    Qpm = 2
    Minute = 3
    Timeout = 2
    MaxHops = 2
    MaxClock = 6
SPECIFICATION LimitsSpec
INVARIANTS
    SlidingBound
    WindowBound
    RetryHintSuffices
PROPERTIES
    RefusedOnlyOverBudget
SYMMETRY ClientSymmetry
CHECK_DEADLOCK FALSE
