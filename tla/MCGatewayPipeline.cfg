CONSTANTS
    Requests = {r1, r2}
    Methods = {"POST", "GET", "upstream", "gateway_payload"}
    TargetStatuses = {"200", "403"}
SPECIFICATION Spec
INVARIANTS
    SummaryIsTrue
    FailuresAreAttributed
PROPERTIES
    EveryRequestAnswered
CHECK_DEADLOCK FALSE
