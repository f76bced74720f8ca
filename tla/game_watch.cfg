SPECIFICATION WatchSpec
CONSTANTS
    None = None
    Targets = {report, other}
    Retained = 2
    MaxTickets = 4
    MaxFaults = 1
    Threads = {t1, t2}
    Addresses = {a1, a2}
    Capacities = {1}
    Maps = {m1, m2}
    Chains = {c1, c2, c3}
    Slots = 1
    Attempts = 2
    MaxSequence = 6
    MaxWorlds = 2
    MaxLines = 4
    EntityMax = 1
    Freshness = 1
    MaxStreams = 2
    Capacity = 2
    Lifetime = 2
    MaxRestarts = 1
    MaxCalls = 3
    MaxTrace = 2
    CaptureChanges = 1
    MaxPresents = 3
    DrainChanges = 3
    EventCapacity = 2
    Ordinary = {tick}
    Audit = {applied, restored}
    NoLog = NoLog
    EventChanges = 3
    EventFailures = 1
    Sessions = {s1, s2}
    Adapters = {g1}
    QueueLimit = 1
    MaxGrowth = 2
    MaxGeneration = 3
    WorkerFaults = 1
INVARIANTS
    TrackingIsExact
    ShownBelongsTogether
    CertifiedMissesNothing
    SavedIsOnDisk
    NothingForgotten
    FlushIsTruthful
    HealthyExitDrains
    HandOffIsExact
PROPERTIES
    AcceptedIsPublished
SYMMETRY Symmetry
CHECK_DEADLOCK FALSE
