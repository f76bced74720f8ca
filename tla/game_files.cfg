SPECIFICATION FilesSpec
CONSTANTS
    Settings = {count, wave}
    Targets = {60, 90}
    MaxEdits = 1
    MaxFaults = 2
    MaxCrashes = 1
    Foreign = Foreign
    None = None
    Odd = Odd
    StagingFaults = 1
    StagingEdits = 2
    Menus <- MCMenus
    MaxChanges = 3
    MaxForeign = 1
INVARIANTS
    RuntimeIsWhole
    StagingIsReversible
    HalfIsOwed
    ShownIsThere
PROPERTIES
    SavedIsAsked
    ForeignWritesKept
