\* A run ends as the task is downloaded again.
SPECIFICATION Spec
CONSTANTS
    TaskCount = 1
    Saved = {1}
    Seedable = {}
    Filed = {}
    Fixed = {}
    MaxSlots = 1
    MaxWorks = 4
    Ops = {"redownload"}
    Observed = {}
    SameThread = TRUE
CHECK_DEADLOCK FALSE
INVARIANTS
    AtMostOneTaskRun
