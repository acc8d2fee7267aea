SPECIFICATION MCSpec
CONSTANTS
    Parts = {"history", "alerts", "audit", "risk", "ownership", "accounts", "units", "watch"}
    Monitors = {m1}
    Workers = {w1, w2}
    States = {a, b}
    Bad = {b}
    Unmeasured = u
    MaxScans = 2
    MaxDays = 1
    OneState = a
    Shown = {a}
    Cves = {c}
    Writers = {"r1", "r2", "retention"}
    Retention = "retention"
    KeepDays = 1
    PurgeEvery = 1
    MaxEntries = 4
    MaxToday = 2
    MaxTampers = 1
    Readers = {"r1", "r2"}
    Deciders = {"d1"}
    Hosts = {"apex", "www"}
    Apex = "apex"
    Keys = {"spf", "tls"}
    ZoneKeys = {"spf"}
    MaxDuration = 1
    MaxAcceptances = 2
    MaxDate = 1
    Zones = {"apex", "www"}
    Below <- MCBelow
    Checkers = {"c1"}
    MaxAge = 1
    MaxTokens = 2
    MaxYears = 2
    Ids = {1}
    Browsers = {b1, b2}
    Roles = {"viewer", "admin"}
    Codes = {"k"}
    MaxFailed = 1
    MfaRequired = FALSE
    Jit = TRUE
    MaxSecrets = 2
    MaxStamps = 3
    Units = {1, 2, 3}
    UnitNames = {n, o}
    Domains = {"d"}
    Editors = {e1, e2}
    MaxFold = 12
    Watched = {"d"}
    Decisions = {"keep", "cancel"}
    RegistryPhases = {"registered", "not_registered"}
    WarnDays = {1, 2}
    Terms = {2, 3}
    MaxRows = 1
    MaxDay = 1
CONSTRAINT MCBound
CHECK_DEADLOCK FALSE
INVARIANTS
    ReportsFollowBaseline KnownWasTold AcceptedIsDecided ProbedOnProof OldSessionsEnd RoleAsSaid
    TreeKept ToldIsStored WarnedOncePerTerm
PROPERTIES
    PurgeKeepsBaselines ToldOnce ChainTells ReplacedOnProof
