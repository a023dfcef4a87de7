\* Two users, two tabs, two logins, one entry, two calls at a time.
CONSTANTS
    u1 = u1
    u2 = u2
    t1 = t1
    t2 = t2
    l1 = l1
    l2 = l2
    j1 = j1
    j2 = j2
    o1 = o1
    Users = {u1, u2}
    Tabs = {t1, t2}
    Logins = {l1, l2}
    Ops = {o1}
    Jobs = {j1, j2}
    Nil = Nil
SPECIFICATION Spec
SYMMETRY Interchangeable

INVARIANTS
    TypeOK
    RecordedForAuthor
    StoreIsApart
PROPERTIES
    RowsWaitForAuthor
