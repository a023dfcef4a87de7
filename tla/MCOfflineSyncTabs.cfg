\* Two sync runs at once, two forms saving at once, one fault.
CONSTANTS
    o1 = o1
    o2 = o2
    s1 = s1
    s2 = s2
    Ops = {o1, o2}
    Submits = {o2}
    Uncaught = {o1}
    Syncs = {s1, s2}
    NoOp = NoOp
    MaxBatch = 2
    MaxOutbox = 2
    MaxWriters = 2
    MaxFaults = 1
SPECIFICATION Spec
SYMMETRY Interchangeable
INVARIANTS
    TypeOK
    AtMostOnce
    OrphanNeedsFault
PROPERTIES
    NoLostOperation
    AppliedInOrder
    KeepsContract
