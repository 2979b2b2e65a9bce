SPECIFICATION Spec
CONSTANTS
    Threads = {t1, t2}
    Keys = {k1, k2}
    HashKeys = {k1}
    Items = {i1, i2, i3}
    v1 = v1
    v2 = v2
    v3 = v3
    Vals <- MCVals
    ValSize <- Sizes
    Phases = 2
    Percents = {50}
    Setups <- MCSetups
    Requests = {1, 7}
    Word = 8
    None = none
SYMMETRY MCSymmetry
INVARIANTS TypeOK RefsExact NoDanglingItem SizeExact HashMatchesList
