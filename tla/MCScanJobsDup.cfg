SPECIFICATION Spec
CONSTANTS
    Jobs = {j1, j2}
    Domains = {d1, d2}
    Clients = {c1, c2}
    MaxRuntime = 1
    Retention = 1
    Total = 1
    None = None
INVARIANT OneScanPerDomain
SYMMETRY Symmetry
CHECK_DEADLOCK TRUE
