CONSTANTS
    good = good
    bad = bad
    None = None
    Request = {r1, r2}
    Inbound = {good, bad}
    Sanitise <- MCSanitise
    CorsOrigins = TRUE
SPECIFICATION Spec
INVARIANT EveryResponseCarriesId
CHECK_DEADLOCK FALSE
