SPECIFICATION Spec
CONSTANTS
    FrameSize = 2
    InitialSettings <- MCInitialSettings
    QueueDepth = 2
    PRODUCER_QUEUE_SIZE = 2
    ChunkSizes = {2}
    SettingValues <- NoSettingValues
    Faults = {}
    MaxSamples = 4
    MaxControl = 1
INVARIANT AbortIsImmediate
