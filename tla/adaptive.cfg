SPECIFICATION Spec
CONSTANTS
    Top = 1
    MaxProcesses = 2
    MaxWorlds = 2
    MaxToggles = 2
    MaxFaults = 1
INVARIANTS
    QualityIsAccounted
PROPERTIES
    DebtIsPaid
    SessionSettles
CHECK_DEADLOCK FALSE
