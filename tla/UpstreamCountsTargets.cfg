CONSTANTS
    Requests = {r1}
    Methods = {"POST", "upstream"}
    TargetStatuses = {"200"}
SPECIFICATION Spec
INVARIANTS
    UpstreamCountsTargets
CHECK_DEADLOCK FALSE
