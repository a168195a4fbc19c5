CONSTANTS
    Requests = {r1, r2, r3}
    Clients = {a, b}
    MaxInflight = 2
    MaxClientInflight = 1
    Callers = {c1, c2, c3}
    NoFlight = NoFlight
    Claims = {d1, d2, d3}
    Tokens = {t1, t2}
    Relays = {p1, p2}
    NoClaim = NoClaim
SPECIFICATION RelaySpec
INVARIANTS
    SlotsAccounted
    WorkHoldsSlot
    CleanExitIsIdle
    FlightsAreShared
    OneOutcome
    SpentAtMostOnce
PROPERTIES
    DrainEnds
    OthersNeverCancel
    EveryCallerReleased
    ImplementsSpendOnce
    EveryCallReturns
CHECK_DEADLOCK FALSE
