SPECIFICATION Spec
CONSTANTS
    Width = 5
    Narrow = 3
    MaxRounds = 6
    Structs <- MCStructs
    Enums <- MCEnums
    Rets <- MCRets
    Programs <- MCPrograms
    Source <- MCSource
    Arguments <- MCArguments
    Scratch <- MCScratch
INVARIANTS
    Faithful
    EnsuresReported
    CraneliftAgrees
    LlvmAgrees
    WasmAgrees
    ScratchReclaimed
CHECK_DEADLOCK FALSE
