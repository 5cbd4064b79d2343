SPECIFICATION RFairSpec
CONSTANTS
    Request = {r1, r2}
    Probe = {p1}
    PoolSize = 1
    MaxOverflow = 1
    StatementTimeout = TRUE
    None = None
INVARIANTS
    RTypeOK
    SlotsAddUp
    OldOutagesAreForgotten
PROPERTIES
    EveryProbeIsAnswered
    EveryRequestEnds
    OutageEndsRotation
    BackInRotation
