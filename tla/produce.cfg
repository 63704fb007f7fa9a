SPECIFICATION Spec
CONSTANTS
    FrameSize = 2
    InitialSettings <- MCInitialSettings
    QueueDepth = 2
    PRODUCER_QUEUE_SIZE = 1
    ChunkSizes = {1, 3}
    SettingValues <- NoSettingValues
    Faults = {"start", "opus", "encode", "write", "throw"}
    MaxSamples = 4
    MaxControl = 2
INVARIANTS
    TypeOK
    FramesFollowCalls
    TimestampsFollowSegments
    GracefulEnd
    AbortDiscardsQueuedAudio
    ShutdownOrder
    WriterNotForgotten
    OnlyCallerIsAwaited
PROPERTY
    ImplementsAudioStream
