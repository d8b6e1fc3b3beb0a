CONSTANTS
    c1 = c1
    c2 = c2
    c3 = c3
    f1 = f1
    alice = alice
    bob = bob
    t1 = t1
    t2 = t2
    NoId = NoId
    Ids = {c1, c2, c3, f1}
    Foreign = {f1}
    Clients = {alice, bob}
    Threads = {t1, t2}
    MaxConversations = 1
    IdleSeconds = 0
    Times = {0, 1}
    MaxHistory = 2
    MaxTurns = 3
SYMMETRY Symmetry
SPECIFICATION Spec
CHECK_DEADLOCK FALSE
INVARIANTS
    HistoryBounded
    OwnHistoryOnly
    HonestTruncation
    ResetIsFinal
    SideStateBounded
