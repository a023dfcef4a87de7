\* Two submissions of two values and new assignings over three seconds.
CONSTANTS
    r1 = r1
    r2 = r2
    v1 = v1
    v2 = v2
    Requests = {r1, r2}
    Values = {v1, v2}
    MaxSecond = 3
    MaxVersions = 4
SPECIFICATION WorksheetSpec
SYMMETRY Interchangeable
CHECK_DEADLOCK FALSE
INVARIANTS
    WorksheetTypeOK
    UnseenIsKept
    SentIsStored
