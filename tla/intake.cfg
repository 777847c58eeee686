\* Two links and two tasks that want one name, with a file of the user there or not.
SPECIFICATION Spec
CONSTANTS
    Url = {1, 2}
    ItemCount = 2
    TaskCount = 2
    PathCount = 3
    UserFiles = {1}
    MaxEvents = 2
CHECK_DEADLOCK FALSE
INVARIANTS
    DraftIsWhole
    NothingIsForgotten
    PlaceholdersAreKept
