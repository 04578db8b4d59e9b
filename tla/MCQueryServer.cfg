CONSTANTS
    Paths <- MCPaths
    Texts <- MCTexts
    Unparsable <- MCUnparsable
    Defs <- MCDefs
    Canonical <- MCCanonical
    Faulty <- MCFaulty
    Repaired <- MCRepaired
    NoFix = "none"
    Openings <- MCOpenings
    MaxRequests = 4
    Bytes <- MCBytes
    Buffers <- MCBuffers
    Continuation <- MCContinuation
    EditLists <- MCEditLists
SPECIFICATION MCSpec
INVARIANTS
    AnswersMatchSnapshot
    StoreClosed
    AcyclicCommitsSettle
    DisjointEditsApply
    FixesNeverPanic
PROPERTIES
    IdsDenoteForever
    InOrderIdempotent
CHECK_DEADLOCK FALSE
