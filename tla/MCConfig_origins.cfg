SPECIFICATION Spec
CONSTANTS
    empty = empty
    one = one
    two = two
    array = array
    quoted = quoted
    a = a
    b = b
    Text = {empty, one, two, array, quoted}
    Blank = Blank
    Decoded <- MCDecoded
    Meant <- MCMeant
    Scheme = {asyncpg, psycopg}
    AsyncDriver = asyncpg
    None = None
INVARIANT OriginsAreListedWithCommas
CHECK_DEADLOCK FALSE
