CONSTANTS
    t1 = t1
    t2 = t2
    a = a
    NoUser = NoUser
    Conversations = {a}
    Users = {}
    Runners = {t1, t2}
    Kinds = {"allow", "deny", "yes", "no", "question"}
    Legacy = {FALSE, TRUE}
    HasProvider = TRUE
    TTL = 0
    Moments = {0, 1}
    MaxTurns = 3
    MaxPosts = 1
    Workers = {t1, t2}
    Sayings = {"teach", "save", "cancel", "restart", "check", "verify", "exit"}
    MaxTalks = 4
    MaxOverlaps = 1
    MaxRouted = 1
    k1 = k1
    k2 = k2
    k3 = k3
    v1 = v1
    v2 = v2
    Loop = Loop
    Keys = {k1, k2, k3}
    Values = {v1, v2}
    MaxFacts = 2
    Threads = {t1, t2}
    Requests = {"remember", "forget", "on", "off", "delete"}
    MaxRequests = 5
SYMMETRY Symmetry
SPECIFICATION HandlersSpec
CHECK_DEADLOCK FALSE
INVARIANTS
    OnlyWithPermission
    SearchedAtMostOnce
    ApprovalSearchesTheQuestion
    SavesOnlyInSession
    DiscardedStaysUnsaved
    SavedAsPreviewed
    UpdatesTheSubject
    FactsStay
