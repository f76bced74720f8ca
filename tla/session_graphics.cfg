SPECIFICATION HSpec
CONSTANTS
    Files = {engine}
    VideoFile = engine
    Values = {low, high}
    NoValue = NoValue
INVARIANT ConfirmedChangeKept
