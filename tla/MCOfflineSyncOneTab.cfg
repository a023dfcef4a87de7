\* One tab, one sync run at a time, every batch within the limit of the request.
CONSTANTS
    o1 = o1
    o2 = o2
    s1 = s1
    Ops = {o1, o2}
    Submits = {o2}
    Uncaught = {o1}
    Syncs = {s1}
    NoOp = NoOp
    MaxBatch = 2
    MaxOutbox = 2
    MaxWriters = 1
    MaxFaults = 2
SPECIFICATION LiveSpec
PROPERTIES
    EveryQueuedRowIsAnswered
