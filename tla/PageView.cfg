SPECIFICATION FairSpec
CONSTANTS
    Pages = {p, q}
    First = p
    Places = {l}
    MaxEdits = 1
    MaxJobs = 1
    MaxRunning = 2
    None = None
INVARIANTS TypeOK SettlesRight
PROPERTIES PageAppears
CHECK_DEADLOCK FALSE
