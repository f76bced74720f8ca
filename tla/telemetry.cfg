SPECIFICATION Spec
CONSTANTS
    Sessions = {s1, s2}
    Adapters = {a1}
    QueueLimit = 1
    MaxLines = 2
    MaxGeneration = 3
    MaxFaults = 1
PROPERTIES
    LinesArrive
CHECK_DEADLOCK FALSE
