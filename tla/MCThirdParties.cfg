\* Two slots in a minute of three ticks, five in a day of seven: a thread can sleep
\* twice, be overtaken, meet midnight, and use up the day.
SPECIFICATION MCSpec
CONSTANTS
    Parts = {"limits", "feed", "batch", "verdicts", "advisories"}
    t1 = t1
    t2 = t2
    t3 = t3
    Threads = {t1, t2}
    PerMinute = 2
    PerDay = 5
    MaxWait = 6
    Window = 3
    DayLength = 7
    RetryAfter = {1, 5}
    None = None
    Products = {"php"}
    Records = {1, 2}
    Callers = {"scheduler", "button"}
    MinInterval = 1
    SyncInterval = 2
    MaxIncrement = 2
    Overlap = 1
    MaxRevision = 2
    MaxClock = 3
    Batches = {"b1", "b2"}
    Names = {1, 2}
    RdapServer <- MCRdapServer
    WhoisServer = "whois:nl"
    Interval = 1
    RetryAfters = {0, 2}
    MaxBatches = 1
    MaxSeconds = 3
    Selections <- MCSelections
    RuleIds = {"r1", "r2"}
    BuiltinRules <- MCBuiltinRules
    RawRules <- MCRawRules
    Admins = {a1, a2}
    a1 = a1
    a2 = a2
    MaxRules = 1
    Hosts = {"own", "www", "other"}
    Site <- MCSite
    Candidates <- MCCandidates
    Builds <- MCBuilds
    MaxHops = 2
    MaxChanges = 3
    NoRule = NoRule
    NoVersion = NoVersion
CONSTRAINT MCBound
CHECK_DEADLOCK FALSE
INVARIANTS WithinMinute FeedComplete PacedAndComplete SilenceAddsNothing SameReadsSame SilentIsClean ChangesAreLogged
PROPERTIES AcquireReturns AskedSparingly
