CONSTANTS
    LoopThread = L1
    Creator = C
    Functors = {f1, f2}
    wakeupChannel_ = wake
    IOChannels = {io}
    QueueBeforeLoop = TRUE
    EarlyDestroy = FALSE
SPECIFICATION FairSpec
INVARIANTS TypeOK ReturnedLoopLives NoCallbackAfterGone
PROPERTIES StartLoopReturns DestructorReturns
CHECK_DEADLOCK FALSE
