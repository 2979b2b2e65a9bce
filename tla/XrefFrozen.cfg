SPECIFICATION Spec
CONSTANTS
    MaxNum = 3
    FileEdits = 1
    MaxEdits = 4
    MaxSections = 5
    Cells = {1, 2, 3, 4, 5, 6}
    Starts <- MCStarts
    None = None
CHECK_DEADLOCK FALSE
PROPERTIES EditsReachFile
