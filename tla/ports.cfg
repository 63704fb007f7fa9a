SPECIFICATION FairSpec
CONSTANTS
    Caller = {c1, c2}
    minPort = 10000
    maxPort = 10007
    maxAttempts = 3
INVARIANTS
    TypeOK
    EachPairOnce
    ProbesMeetOnlyOthers
    NoRepeatBeforeAll
PROPERTY Implements
