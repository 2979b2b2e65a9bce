SPECIFICATION FairSpec
CONSTANTS
    Threads = {t1, t2}
    Keys = {k1, k2}
    HashKeys = {k1}
    Items = {i1, i2}
    v1 = v1
    v2 = v2
    v3 = v3
    Vals <- LiveVals
    ValSize <- LiveSizes
    Phases = 2
    Percents = {50}
    Setups <- LiveSetups
    Requests = {1, 3}
    Word = 4
    None = none
PROPERTY CallsReturn
