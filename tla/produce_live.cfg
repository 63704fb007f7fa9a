SPECIFICATION FairSpec
CONSTANTS
    FrameSize = 2
    InitialSettings <- MCInitialSettings
    QueueDepth = 1
    PRODUCER_QUEUE_SIZE = 1
    ChunkSizes = {3}
    SettingValues <- MCSettingValues
    Faults = {"start", "open", "write", "throw"}
    MaxSamples = 6
    MaxControl = 1
PROPERTIES
    EventuallyResolved
    WaitingWriterWoken
