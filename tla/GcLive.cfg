SPECIFICATION FairSpec
CONSTANTS
    Ids = {i1, i2}
    Writers = {w1}
    Retention = 4  SessionMax = 1  MarkMax = 1
    ReuseAges = {}
    Modes = {"both"}
    CollectorFails = FALSE
PROPERTIES GarbageCollected
