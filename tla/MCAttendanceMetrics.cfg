\* Two writers beside one reader, two days; the cache is the database store.
CONSTANTS
    w1 = w1
    w2 = w2
    x1 = x1
    Writers = {w1, w2}
    Readers = {x1}
    MaxDay = 2
    MaxWrites = 3
    SharedStore = TRUE
SPECIFICATION Spec
CHECK_DEADLOCK FALSE
INVARIANTS
    TypeOK
    StaleIsExplained
PROPERTIES
    ScanFailsForAReason
