CONSTANTS
    Files = {"exe", "dll"}
    Exe = "exe"
    Versions = {1, 2}
    RetryInitial = 2
    RetryMaximum = 3
    CheckInterval = 3
    MaxTime = 3
    MaxBoots = 2
    MaxFaults = 1
    MaxWishes = 2

SPECIFICATION Spec

INVARIANTS
    OneMaintainer
    ConsentHonoured

PROPERTIES
    FailureIsContained
    CloseHonoured
CHECK_DEADLOCK FALSE
