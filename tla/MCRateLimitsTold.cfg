SPECIFICATION Spec
CONSTANTS
    t1 = t1
    t2 = t2
    t3 = t3
    Threads = {t1, t2, t3}
    PerMinute = 2
    PerDay = 4
    MaxWait = 4
    Window = 3
    DayLength = 7
    RetryAfter = {1, 5}
    None = None
PROPERTY NotAskedTooSoon
SYMMETRY Alike
