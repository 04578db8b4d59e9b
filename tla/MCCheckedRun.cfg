CONSTANTS
    Caps <- MCCaps
    Plain = "Plain"
    Ops <- MCOps
    Programs <- MCPrograms
    Entry = "main"
    MaxDepth = 4
SPECIFICATION Spec
INVARIANTS
    TypeOK
    EffectsDeclared
    EffectsGranted
    NeverStuck
    PropagationExact
    ErrorsContained
PROPERTY PropagationEnds
CHECK_DEADLOCK FALSE
