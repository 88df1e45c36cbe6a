SPECIFICATION Spec
CONSTANTS
    MinLen = 2
    MaxLen = 3
    MaxSuffix = 15
    Radix = 3
    Raws <- MCRaws
    Documents <- MCDocuments
    Limits = {0, 1}
    DefaultLimit = 2
    MaxRows = 8
INVARIANTS
    PagesAreComplete
    RowsReadBack
    PathFindsItsState
CHECK_DEADLOCK FALSE
