CONSTANTS
    a1 = a1
    a2 = a2
    a3 = a3
    Attempt = {a1, a2, a3}
    RawKey <- MCRawKey
    Key <- MCKey
    Strip <- MCStrip
    Blank = Blank
    NoKey = NoKey
    Naive = Naive
    None = None
    Time <- TwoInstants
    Body <- Retries
    StatementTimeout = TRUE
SPECIFICATION Spec
SYMMETRY Symmetry
INVARIANTS
    OneEventPerKey
    ConflictIsRecovered
    RetryIsSafe
    AcknowledgedIsDurable
    AnswerIsFinal
CHECK_DEADLOCK FALSE
