\* Two tenants, two requests, one process that dies.
CONSTANTS
    r1 = r1
    r2 = r2
    t1 = t1
    t2 = t2
    Tenants = {t1, t2}
    CustomDomains = {}
    NoDomain = NoDomain
    NoTenant = NoTenant
    Requests = {r1, r2}
    MaxFaults = 1
SPECIFICATION Spec
SYMMETRY Symmetry
INVARIANTS
    TypeOK
    ProvisioningIsAttended
PROPERTY
    KeepsLifecycle
