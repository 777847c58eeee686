\* Desktop: cancel between schedule's look at _pending and its create_task.
SPECIFICATION Spec
CONSTANTS
    Work = {w1}
    SameThread = FALSE
CHECK_DEADLOCK FALSE
INVARIANTS
    NotRunningAfterFinished
