SPECIFICATION Spec
CONSTANTS
    NumFiles = 2
    MaxApps = 5
    MaxStarts = 2
    MaxFaults = 2
    MaxCrashes = 2
INVARIANTS
    TornIsSafe
    FilesAreThere
    OutcomeIsTrue
PROPERTIES
    HelperEnds
CHECK_DEADLOCK FALSE
