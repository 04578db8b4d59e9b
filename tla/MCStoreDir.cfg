CONSTANTS
    Batches <- MCBatches
    Torn = Torn
    MaxCommands = 4
SPECIFICATION Spec
INVARIANTS
    LoadedClosed
    LoadedAudited
PROPERTIES
    AtomicCommands
CHECK_DEADLOCK FALSE
