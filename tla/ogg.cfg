SPECIFICATION FairSpec
CHECK_DEADLOCK FALSE
CONSTANTS
    FILE_DEMUXER_MESSAGE_QUEUE_SIZE = 2
    PRODUCER_MESSAGE_QUEUE_SIZE = 1
    MaxStreams = 3
    FirstPts <- MCFirstPts
    MaxPages = 4
    Faults = {"toolarge", "open", "send"}
INVARIANTS
    TypeOK
    TimelineContinues
    EverythingSent
    SentInOrder
    QueueAlive
    NoReferenceLeaks
    OnlyCallerIsAwaited
PROPERTY EventuallySettled
