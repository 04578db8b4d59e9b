CONSTANTS
    Terms <- MCTerms
    Size <- MCSize
    Bodies <- MCLoopBodies
    MaxTurns = 2
SPECIFICATION Spec
INVARIANT ExactlyOnce
CHECK_DEADLOCK FALSE
