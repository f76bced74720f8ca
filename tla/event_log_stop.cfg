SPECIFICATION Spec
CONSTANTS
    Capacity = 2
    Ordinary = {tick}
    Audit = {applied, restored}
    NoLog = NoLog
    MaxChanges = 3
    MaxFailures = 1
PROPERTY StopEnds
CHECK_DEADLOCK FALSE
