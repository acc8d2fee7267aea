\* Three jobs of one domain and two request threads: two started at once, an
\* abandoned one among them, and one after them.  No symmetry: the run checks
\* liveness.
SPECIFICATION LiveSpec
CONSTANTS
    Jobs = {j1, j2, j3}
    Domains = {d1}
    Clients = {c1, c2}
    MaxRuntime = 1
    Retention = 1
    Total = 1
    None = None
INVARIANTS ConcurrentScansBounded ReportedIsSo
PROPERTIES Settled KeptForRetention HungScanReleasesDomain EndIsReported
CHECK_DEADLOCK TRUE
