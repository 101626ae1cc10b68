CONSTANTS
    null = null
    absent = absent
    Null <- null
    Absent <- absent
    RowDomain <- MCRowDomain
SPECIFICATION Spec
INVARIANT DelayedListed
CHECK_DEADLOCK FALSE
