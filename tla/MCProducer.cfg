CONSTANTS
    p1 = p1
    p2 = p2
    Attempt = {a1, a2, a3}
    Producer = {p1, p2}
    BodyOf <- MCBodyOf
    RawKey <- MCRawKey
    Key <- MCKey
    Strip <- MCStrip
    Blank = Blank
    NoKey = NoKey
    Naive = Naive
    None = None
    Time <- MCTime
    Body <- MCBody
    StatementTimeout = FALSE
    MaxFaults = 1
SPECIFICATION PFairSpec
INVARIANTS
    PTypeOK
    HeardIsOwn
PROPERTIES
    RefinesDelivery
CHECK_DEADLOCK FALSE
