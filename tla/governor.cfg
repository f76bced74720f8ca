SPECIFICATION Spec
CONSTANTS
    Resources = {"gpu"}
    Top = 2
    EmergencyStep = 1
    InterventionStep = 1
    RecoveryStep = 1
    Dwell <- MCDwell
    MaxFlips = 1
    Stabilization = 1
    Grace = 1
    Observation = 3
    MapGuard = 1
    MixedGuard = 1
    Interval <- MCInterval
    Samples <- MCSamples
    MaxRough = 1
INVARIANTS
    NothingUnjudged
PROPERTIES
    EvidenceIsOwn
    CalmRecovers
