SPECIFICATION FairSpec
CONSTANTS
    Stream <- MCStream
    DEFAULT_MESSAGE_QUEUE_SIZE = 1
    CALLBACK_QUEUE_SIZE = 1
    Faults = {"open", "opus", "decode", "throw"}
    MaxReads = 2
PROPERTY EventuallyResolved
