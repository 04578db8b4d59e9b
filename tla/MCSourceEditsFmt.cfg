CONSTANTS
    Sources <- MCPrefixSources
    Locked <- MCLocked
    Fresh = {"x"}
    NewTags <- MCNewTags
    Names <- MCNames
    Numbers = {"1"}
    Styles = {"fmt", "draft"}
    Printed <- FnText
    Read <- ParseFn
    MaxEdits = 2
SPECIFICATION Spec
PROPERTY
    FormatKeepsHashes
CHECK_DEADLOCK FALSE
