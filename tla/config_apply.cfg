SPECIFICATION Spec
CONSTANTS
    NumFiles = 2
    Bytes = {b1, b2, b3}
    NoBytes = NoBytes
    NoBackup = NoBackup
    KeepLatest = 1
    MaxTransactions = 2
    MaxEdits = 1
    MaxFaults = 1
    MaxCrashes = 1
INVARIANTS
    ChangeCanBeUndone
    BackupChain
    PendingIsVisible
    EditSurvives
PROPERTIES AllOrNothing
SYMMETRY BytesSymmetry
