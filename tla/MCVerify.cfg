SPECIFICATION Spec
CONSTANTS
    Width = 3
    Narrow = 2
    MaxRounds = 9
    MaxItems = 2
    Elements <- MCSolverElements
    Unspecified <- MCUnspecified
    Structs <- MCStructs
    Enums <- MCEnums
    Rets <- MCRets
    Programs <- MCPrograms
    Source <- MCSource
    Arguments <- MCArguments
INVARIANTS
    ProvedSound
    CounterexampleReal
CHECK_DEADLOCK FALSE
