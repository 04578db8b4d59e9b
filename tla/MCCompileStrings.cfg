SPECIFICATION Spec
CONSTANTS
    Width = 5
    Narrow = 3
    MaxRounds = 6
    Structs <- MCStructs
    Enums <- MCEnums
    Rets <- MCRets
    Programs <- StringLoops
    Source <- MCSource
    Arguments <- MCArguments
    Scratch <- MCScratch
INVARIANTS
    CraneliftAgrees
CHECK_DEADLOCK FALSE
