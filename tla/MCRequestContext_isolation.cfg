CONSTANTS
    good = good
    bad = bad
    None = None
    Request = {r1, r2}
    Inbound = {good, bad}
    Sanitise <- MCSanitise
    CorsOrigins = TRUE
SPECIFICATION Spec
INVARIANTS
    TypeOK
    LinesCarryOwnId
    ProblemQuotesHeader
    OutcomesAreLogged
CHECK_DEADLOCK FALSE
