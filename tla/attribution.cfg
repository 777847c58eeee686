SPECIFICATION Spec
CONSTANTS
    e1 = e1
    e2 = e2
    u1 = u1
    u2 = u2
    h1 = h1
    b1 = b1
    b2 = b2
    Elements = {e1, e2}
    Blobs = {b1, b2}
    Urls = {u1, u2}
    NoUrl = none
    Sources = {b1, b2, u2}
    Hints = {h1}
    UrlHints <- MCUrlHints
    PosterHints <- MCPosterHints
    MaxSessions = 2
    FetchesCap = 2
CHECK_DEADLOCK FALSE
INVARIANTS
    LedgerAgrees
PROPERTIES
    WaitingClickIsHeard
    OwnershipMovesByLock
