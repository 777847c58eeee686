\* The queue: slots change, tasks are paused, reordered, added, replaced and begun again.
SPECIFICATION Spec
CONSTANTS
    TaskCount = 2
    Saved = {1}
    Seedable = {}
    Filed = {}
    Fixed = {2}
    MaxSlots = 2
    MaxWorks = 3
    Ops = {"slots", "moveToFront", "add", "redownload", "startAll", "pause"}
    Observed = {1}
    SameThread = TRUE
CHECK_DEADLOCK FALSE
INVARIANTS
    TypeOK
    PauseHolds
    SlotsRespected
PROPERTIES
    NoSlotGoesIdle
    OnlyStoredTasksStart
