CONSTANTS
    null = null
    absent = absent
    Null <- null
    Absent <- absent
    RowDomain <- MCRowDomain
SPECIFICATION Spec
INVARIANT EveryYearReported
CHECK_DEADLOCK FALSE
