SPECIFICATION Spec
CONSTANTS
    FileAnnots <- MCFileAnnots
    FileNumbers = 2
    Styles = {"plain", "bold"}
    Plain = "plain"
    Jobs = {j1}
    MaxFresh = 5
    MaxOps = 1
    MaxGestures = 1
CONSTRAINT Untangled
INVARIANTS TypeOK StrokeInOnePlace
PROPERTIES StrokesKept InkUndoExact TextHistory
CHECK_DEADLOCK FALSE
