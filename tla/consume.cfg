SPECIFICATION Spec
CONSTANTS
    Stream <- MCStream
    DEFAULT_MESSAGE_QUEUE_SIZE = 2
    CALLBACK_QUEUE_SIZE = 2
    Faults = {"start", "open", "opus", "throw"}
    MaxReads = 3
INVARIANTS
    TypeOK
    TimelineKept
    PacketsFollowParameters
    DoneAfterLastFrame
    CallbackAlive
    ShutdownOrder
    FramesAreAnnounced
    OnlyNetworkIsAwaited
PROPERTY ImplementsAudioSink
