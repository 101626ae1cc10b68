CONSTANTS
    null = null
    Null <- null
    RowDomain <- MCRowDomain
SPECIFICATION Spec
INVARIANT GroupIsBand
CHECK_DEADLOCK FALSE
