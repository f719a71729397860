CONSTANTS
    c1 = c1
    c2 = c2
    c3 = c3
    Channels = {c1, c2, c3}
    Fds = {1, 2}
    fd <- FdReused
    None = None
    KIntEventListSize = 1
SPECIFICATION FairSpec
INVARIANTS TypeOK RegistrationAgrees EpollCtlSucceeds NoDanglingChannel RegistrationInv EventListBounded
PROPERTY NoStarvation
