SPECIFICATION Spec
CONSTANTS
    Waits <- MCWaits
    Oversleeps <- MCOversleeps
    MaxPackets = 8
INVARIANTS
    TypeOK
    NothingDropped
    BoundedFuture
    SleepsOneFrame
    SegmentStartsAtClock
PROPERTY
    NeverBackwards
