CONSTANTS
    N = 4
    MaxRuns = 4
SPECIFICATION Spec
INVARIANT TypeOK
PROPERTY CompletedRunKeepsRows
CHECK_DEADLOCK FALSE
