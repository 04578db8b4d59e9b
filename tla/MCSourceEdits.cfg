CONSTANTS
    Sources <- MCSources
    Locked <- MCLocked
    Fresh = {"x"}
    NewTags <- MCNewTags
    Names <- MCNames
    Numbers = {"1"}
    Styles = {"fmt", "draft"}
    Printed <- FnText
    Read <- ParseFn
    MaxEdits = 2
SPECIFICATION Spec
PROPERTIES
    NameAndOrderFree
    ChangePropagates
    LayoutFree
CHECK_DEADLOCK FALSE
