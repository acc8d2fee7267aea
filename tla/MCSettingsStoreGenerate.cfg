SPECIFICATION Spec
CONSTANTS
    t1 = t1
    t2 = t2
    Threads = {t1}
    s0 = s0
    s1 = s1
    s2 = s2
    s3 = s3
    Stores = {s0, s1, s2, s3}
    First = s0
    Ops = {"read", "form", "patch", "generate", "key"}
    MaxSaves = 2
    MaxKeys = 1
    None = None
INVARIANT EveryWriteSeen
SYMMETRY Alike
