CONSTANTS
    LoopThread = L
    Callers = {t1}
    Functors = {f1, f2}
    wakeupChannel_ = wake
    IOChannels = {io}
    QueueBeforeLoop = TRUE
    MaxQuits = 1
SPECIFICATION Spec
INVARIANT NoLostWakeup
CHECK_DEADLOCK FALSE
