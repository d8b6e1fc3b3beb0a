CONSTANTS
    a = a
    alice = alice
    t1 = t1
    NoUser = NoUser
    Conversations = {a}
    Users = {}
    Runners = {t1}
    Kinds = {"yes", "question"}
    Legacy = {FALSE}
    HasProvider = TRUE
    TTL = 0
    Moments = {0}
    MaxTurns = 3
    MaxPosts = 1
SPECIFICATION PolicySpec
CHECK_DEADLOCK FALSE
INVARIANT DenyNeverSearches
