SPECIFICATION Spec
CONSTANTS
    FrameSize = 2
    InitialSettings <- MCInitialSettings
    QueueDepth = 1
    PRODUCER_QUEUE_SIZE = 2
    ChunkSizes = {1, 3}
    SettingValues <- NoSettingValues
    Faults = {}
    MaxSamples = 4
    MaxControl = 1
INVARIANT EndSegmentCutsFrames
