CONSTANTS
    OtherCalls = {}
    highWaterMark_ = 1
    SendBufferSize = 1
    MaxChunk = 2
    MaxBytes = 2
    MaxCloses = 1
SPECIFICATION FairSpec
PROPERTY NothingLost
