CONSTANTS
    LoopThread = L1
    Creator = C
    Functors = {f1, f2}
    wakeupChannel_ = wake
    IOChannels = {io}
    QueueBeforeLoop = TRUE
    EarlyDestroy = TRUE
SPECIFICATION FairSpec
PROPERTY DestructorReturns
CHECK_DEADLOCK FALSE
