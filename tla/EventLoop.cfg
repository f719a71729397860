CONSTANTS
    LoopThread = L
    Callers = {t1, t2}
    Functors = {f1, f2, f3}
    wakeupChannel_ = wake
    IOChannels = {io}
    QueueBeforeLoop = FALSE
    MaxQuits = 2
SPECIFICATION FairSpec
INVARIANTS TypeOK NoLostWakeup WakeupInv
PROPERTIES ImplementsExecutor QueuedIsRun QuitStopsRunningLoop
CHECK_DEADLOCK FALSE
