CONSTANTS
    Devices = {d1}
    PublicKeys = {k1}
    NoKey = NoKey
    MaxEpoch = 3
    Quota = 1
    Requests = {q1}
    Publishers = {p1}
    NoEpoch = NoEpoch
    Material = {m1, m2, bad}
    Unusable = {bad}
    NoMaterial = NoMaterial
    Inputs <- MCInputs
    FirstEpoch = 1
    RequireBinding = TRUE
SPECIFICATION Spec
INVARIANTS
    IssuanceIsSound
    CleanExitIsIdle
PROPERTIES
    PublicationIsCurrent
    DrainEnds
CHECK_DEADLOCK FALSE
