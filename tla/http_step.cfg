\* Servers that honour Range, that do not, and that do not tell the length; the
\* size that was announced may be too small.  Bounds: two failures, pauses or
\* crashes, three subworkers in the list.
SPECIFICATION FairSpec
CONSTANTS
    Size = 4
    Announced = {3, 4}
    Servers <- AllServers
    Count = 2
    MinSplit = 2
    Boosts = 2
    MaxList = 3
    MaxTrouble = 2
CHECK_DEADLOCK FALSE
INVARIANTS
    DoneIsWholeUnlessMisled
    RangesAreWhole
    RecordListsMissing
    GivenUpIsTakenOver
    TakenOverIsLeft
PROPERTIES
    StepEnds
