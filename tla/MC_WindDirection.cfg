CONSTANTS
    null = null
    Null <- null
    Directions <- MCDirections
SPECIFICATION Spec
INVARIANT WindNormalised
CHECK_DEADLOCK FALSE
