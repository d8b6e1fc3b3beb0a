CONSTANTS
    k1 = k1
    k2 = k2
    k3 = k3
    v1 = v1
    v2 = v2
    t1 = t1
    t2 = t2
    Loop = Loop
    Keys = {k1, k2, k3}
    Values = {v1, v2}
    MaxFacts = 2
    Threads = {t1, t2}
    Requests = {"remember", "forget", "on", "off", "delete"}
    MaxRequests = 6
SYMMETRY Symmetry
SPECIFICATION MemorySpec
INVARIANT ErasedStaysErased
CHECK_DEADLOCK FALSE
