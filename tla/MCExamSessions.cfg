\* Two requests in flight besides the awaited one; a question that is edited away.
CONSTANTS
    q1 = q1
    NoQuestion = NoQuestion
    v1 = v1
    NoValue = NoValue
    c1 = c1
    c2 = c2
    Awaited = Awaited
    Questions = {q1}
    Values = {v1}
    Calls = {c1, c2}
    MaxLosses = 2
    MaxTime = 1
SPECIFICATION LiveSpec
INVARIANTS
    TypeOK
    RowAccountsForTheWork
    StoredIsShown
PROPERTIES
    StatusStepsAreExplained
    OpenExamIsHandedIn
