SPECIFICATION MCSpec
CONSTANTS
    Ids <- MCIds
    Key <- MCKey
    MaxLength = 5
INVARIANTS TypeOK SearchIsExact InsertKeepsOrder
PROPERTY InsertReturns
CHECK_DEADLOCK FALSE
