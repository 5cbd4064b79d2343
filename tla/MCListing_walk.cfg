CONSTANTS
    Naive = Naive
    None = None
    Row <- MCRow
    Filter <- MCFilter
    Limit <- MCLimit
SPECIFICATION FairSpec
INVARIANTS
    TypeOK
    NothingIsRepeated
    NothingIsSkipped
    CursorLeadsSomewhere
PROPERTIES
    RefinesWalk
    WalkAdvances
    WalkEnds
CHECK_DEADLOCK FALSE
