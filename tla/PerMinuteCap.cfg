CONSTANTS
    Forwards = {r1, r2, r3}
    Targets = {t1}
    Allowed = {t1}
    Qpm = 2
    Minute = 3
    Timeout = 2
    MaxHops = 1
    MaxClock = 3
SPECIFICATION OutboundSpec
INVARIANTS
    PerMinuteCap
CHECK_DEADLOCK FALSE
