SPECIFICATION MCSpec
CONSTANTS
    m1 = m1
    m2 = m2
    m3 = m3
    loop = loop
    api = api
    Monitors = {m1, m2, m3}
    Few = {m1, m2}
    Callers = {loop, api}
    Broken = {m1}
    Loop = loop
    None = None
    Limit = 2
    Concurrency = 2
    Interval = 1
    Retry = 1
    BackoffTicks = 1
    MaxFailures = 2
    MaxRetries = 2
    Outages = 1
INVARIANTS OneRunPerMonitor BackoffEarned
PROPERTIES AlarmEarned LockFreed 
CHECK_DEADLOCK FALSE
