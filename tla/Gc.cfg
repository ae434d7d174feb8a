SPECIFICATION Spec
CONSTANTS
    Ids = {i1, i2, i3}
    Writers = {w1}
    Retention = 4  SessionMax = 1  MarkMax = 1
    ReuseAges <- MCReuseAges
    Modes = {"both", "mark", "sweep"}
    CollectorFails = TRUE
SYMMETRY Symmetry
INVARIANTS TypeOK  
PROPERTIES  SweptRecordsUnmarked DroppedKeptForRetention
