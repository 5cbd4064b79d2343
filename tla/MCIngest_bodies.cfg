CONSTANTS
    a1 = a1
    a2 = a2
    a3 = a3
    Attempt = {a1, a2}
    RawKey <- MCRawKey
    Key <- MCKey
    Strip <- MCStrip
    Blank = Blank
    NoKey = NoKey
    Naive = Naive
    None = None
    Time <- TwoInstants
    Body <- EveryBody
    StatementTimeout = TRUE
SPECIFICATION FairSpec
INVARIANTS
    TypeOK
    IInv
    LagIsNotNegative
PROPERTIES
    RefinesEventLog
    EveryRequestIsAnswered
CHECK_DEADLOCK FALSE
