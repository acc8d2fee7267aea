SPECIFICATION FairSpec
CONSTANTS
    c1 = c1
    c2 = c2
    f1 = f1
    f2 = f2
    Callers = {c1, c2}
    Flights = {f1, f2}
    MaxTimeout = 2
    MaxAttempts = 2
    None = None
INVARIANTS OneAsks SomebodyWakes
PROPERTIES PromiseKept EveryCallReturns
