\* One task, every command, with the two threads anywhere.
SPECIFICATION FairSpec
CONSTANTS
    TaskCount = 1
    Saved = {1}
    Seedable = {1}
    Filed = {1}
    Fixed = {}
    MaxSlots = 1
    MaxWorks = 2
    Ops = {"start", "pause", "delete", "redownload", "edit", "revive", "seed", "watch", "pauseAll", "startAll"}
    Observed = {}
    SameThread = FALSE
CHECK_DEADLOCK FALSE
INVARIANTS
    SlotHeldByLiveWork
    ShownSeedingIsLive
PROPERTIES
    StopIsFollowedUp
