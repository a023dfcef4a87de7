\* Two orders, four payment rows, three requests at once.
CONSTANTS
    a1 = a1
    a2 = a2
    p1 = p1
    p2 = p2
    p3 = p3
    p4 = p4
    r1 = r1
    r2 = r2
    r3 = r3
    f1 = f1
    f2 = f2
    Orders = {a1, a2}
    Payments = {p1, p2, p3, p4}
    Requests = {r1, r2, r3}
    References = {f1, f2}
    Nil = Nil
SPECIFICATION Spec
SYMMETRY Interchangeable
INVARIANTS
    TypeOK
    EntitlementsMatchApprovals
    OpenPaymentsAreFew
