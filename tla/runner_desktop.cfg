\* Desktop: Qt's main thread dispatches, the loop has a thread of its own.
SPECIFICATION FairSpec
CONSTANTS
    Work = {w1, w2}
    SameThread = FALSE
CHECK_DEADLOCK FALSE
INVARIANTS
    TypeOK
    AnsweredOnce
    UncancelledIsPending
    OverIsForgotten
PROPERTIES
    NothingPostedAfterCancel
    CancelIsAnswered
    ResultIsDelivered
