SPECIFICATION MCSpec
CONSTANTS
    Threads = {t1, t2}
    PosUsers = {t1}
    Keys <- MCKeys
    Vals = {v}
    HashValues = {5, 10}
    InitSize = 6
    MaxSize = 12
    None = none
INVARIANTS TypeOK ProbesEnd EntriesReachable
PROPERTIES IsMap FastRemovesItsKey
