CONSTANTS
    d1 = d1
    d2 = d2
    d3 = d3
    d4 = d4
    x = x
    rootKey = rootKey
    caKey = caKey
    OtherApp = OtherApp
    Develop = Develop
    h1 = h1
    h2 = h2
    free = free
    other = other
    ThisApp = ThisApp
    Environment = Environment
    NoKey = NoKey
    None = None
    MaxEpoch = 0
    Quota = 2
    Now = 5
    Skew = 1
    Devices <- MCDevices
    PublicKeys <- MCDevices
    Hashes = {h1, h2}
    AppleKeys = {rootKey, caKey}
    Certs <- MCCerts
    Signatures <- MCSignatures
    Root <- MCRoot
    Hardware <- MCHardware
    Home <- MCHome
    Enrolled = {d1}
    Requests <- MCRequests
    Workloads <- MCWorkloads
SPECIFICATION Spec
INVARIANTS
    AccountsAreGenuine
    ChargedForOwnRequest
    AssertionChargedOnce
    ProperIsServed
CHECK_DEADLOCK FALSE
