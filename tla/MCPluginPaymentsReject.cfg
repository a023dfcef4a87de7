\* One order, one payment, one administrator rejecting while another approves.
CONSTANTS
    a1 = a1
    p1 = p1
    r1 = r1
    f1 = f1
    Orders = {a1}
    Payments = {p1}
    Requests = {r1}
    References = {f1}
    Nil = Nil
SPECIFICATION Spec
INVARIANTS
    RejectedGrantsNothing
