CONSTANTS
    Terms <- MCTerms
    Size <- MCSize
    Bodies <- MCBodies
    MaxTurns = 2
SPECIFICATION Spec
INVARIANTS
    NeverTwice
    NothingLeft
CHECK_DEADLOCK FALSE
