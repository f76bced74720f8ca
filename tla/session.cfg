SPECIFICATION Spec
CONSTANTS
    Files = {engine, game}
    VideoFile = engine
    Values = {low, high}
    NoValue = NoValue
CONSTRAINT NotOvertaken
INVARIANTS
    SessionIsCovered
    NothingIsHidden
PROPERTIES
    RecordsServeTheirTime
    SessionSettles
CHECK_DEADLOCK FALSE
