\* Two requests beside each other, four in all, over two seconds.
CONSTANTS
    i1 = i1
    i2 = i2
    one = one
    two = two
    shipped = shipped
    Installs = {i1, i2}
    Versions = {one, two}
    Shipped = shipped
    MaxSecond = 2
    MaxStarts = 4
SPECIFICATION InstallerSpec
SYMMETRY Interchangeable
CHECK_DEADLOCK FALSE
INVARIANTS
    InstallerTypeOK
    RowMatchesModule
PROPERTIES
    FailureIsUndone
