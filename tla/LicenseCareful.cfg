SPECIFICATION Spec
CONSTANTS
    d1 = d1
    d2 = d2
    Device = {d1, d2}
    Key = {k1, k2}
    NoKey = NoKey
    Cpu <- MCCpu
    Tree <- MCTree
    Mac <- MCMac
    DummyMac = {5}
    TrialDays = 1
    Overlap = FALSE
    MaxEvents = 4
INVARIANTS
    LicenseStaysOnItsBoard
    ActiveUntilRevoked
    DeactivatedStaysLocked
PROPERTY RevocationReachesDevices
CHECK_DEADLOCK FALSE
