CONSTANTS
    load = load  decompose = decompose
    Phases <- MCPhases
    LogLines <- MCLogLines
    L = 5
SPECIFICATION Spec
INVARIANT OutputIsReference
CHECK_DEADLOCK FALSE
