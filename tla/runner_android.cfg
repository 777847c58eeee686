\* Android: the dispatcher is the loop's own thread.
SPECIFICATION Spec
CONSTANTS
    Work = {w1, w2}
    SameThread = TRUE
CHECK_DEADLOCK FALSE
INVARIANTS
    FinishedMeansOver
    CancelReachesBody
PROPERTIES
    ImplementsContract
