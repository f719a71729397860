\* A server without and with two loop threads, descriptors for one or for two,
\* and two clients, or one with three sends.
SPECIFICATION FairSpec
CONSTANTS
    ThreadNums = {0, 2}
    FdLimits = {1, 2}
    MaxConns = 2
    MaxCloses = 1
    MaxWork = 6
    ClientWork = 3
INVARIANTS TypeOK NoDeadChannel EstablishedFirst FreedWasDown BalancedLoad
PROPERTIES StartListens AcceptedComesUp ClosedIsFreed WaitingIsAccepted
CHECK_DEADLOCK FALSE
