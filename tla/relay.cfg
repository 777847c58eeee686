\* Two tasks, so that their enqueues cross each other and a flush.
SPECIFICATION FairSpec
CONSTANTS
    Tasks = {t1, t2}
    NoTask = none
    MaxConnects = 2
    MaxRestarts = 1
CHECK_DEADLOCK FALSE
INVARIANTS
    QueuedIsKept
    CreatedOnce
PROPERTIES
    QueueIsFlushed
