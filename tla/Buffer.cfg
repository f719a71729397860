CONSTANTS
    Bytes = {0, 1}
    kCheapPrepend = 1
    kInitialSize = 2
    ExtraBufSize = 2
    MaxChunk = 2
    MaxReadable = 4
SPECIFICATION Spec
INVARIANTS TypeOK IndexesOrdered StorageBounded
PROPERTY ImplementsByteQueue
