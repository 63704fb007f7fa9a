SPECIFICATION Spec
CONSTANTS
    Waits <- MCWaits
    Oversleeps <- MCOversleeps
    MaxPackets = 10
INVARIANT RealTimeSpeed
