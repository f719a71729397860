CONSTANTS
    OtherCalls = {"send", "shutdown"}
    highWaterMark_ = 1
    SendBufferSize = 1
    MaxChunk = 2
    MaxBytes = 3
    MaxCloses = 1
SPECIFICATION FairSpec
INVARIANTS TypeOK InOrder WritingWhileBuffered ShutdownAfterFlush
PROPERTIES BufferedIsWritten ShutdownCompletes ClosedIsRemoved
