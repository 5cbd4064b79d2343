CONSTANTS
    Naive = Naive
    None = None
    Row <- MCRow
    Filter <- MCFilter
    Limit <- MCLimit
SPECIFICATION Spec
INVARIANT AdjacentWindowsTile
CHECK_DEADLOCK FALSE
