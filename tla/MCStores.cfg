CONSTANTS
    ca = ca
    cb = cb
    cc = cc
    cd = cd
    p = p
    q = q
    w1 = w1
    w2 = w2
    Never = Never
    Ids = {ca, cb, cc, cd}
    MaxConversations = 2
    IdleSeconds = 2
    Times = {0, 1, 2, 3, 4, 5}
    Clients = {p, q}
    PerClient = 2
    GlobalLimit = 3
    Window = 3
    KeysLimit = 1
    Readings = {0, 1, 2, 3, 4, 5, 6}
    Talks = {"talk"}
    Addresses = {"address"}
    Workers = {w1, w2}
    IdleLimit = 1
    MaxSession = 2
    MaxFailures = 2
    FailureWindow = 2
    Lockout = 2
    MaxVisits = 4
    MaxWall = 3
    n1 = n1
    n2 = n2
    Name = {n1, n2}
    RecordIds = {1, 2}
    MaxEdits = 2
    MaxRows = 2
    DocIds = {1, 2}
    MaxWrites = 3
    DocCrashes = 1
    PageRecords = {"a"}
    UploadFiles = {"f1", "f2"}
    MaxClicks = 3
    ChunkTexts <- ShortTexts
    ChunkSize = 5
    Overlaps = {0, 2, 4, 5}
    Terms = {"consent", "strip", "reveal"}
    Dances = {"locking"}
    Generals = {"full consent"}
    Within <- WithinPairs
    Misspelt <- Typos
    CommonNames = {"locking"}
    NoName = "none"
    NoLanguage = NoLanguage
    TopicMessages <- ChatMessages
    c1 = c1
    c2 = c2
    Chats = {c1, c2}
    MaxAsked = 3
    MaxSwitched = 2
    WebAnswers <- Pages
    q1 = q1
    q2 = q2
    WebQueries = {q1, q2}
    MaxResults = 3
    CacheTime = 2
    MaxTime = 4
    IndexAnswers <- Hits
    TopK = 3
    MinScore = 72
    Margin = 4
    k1 = k1
    k2 = k2
    v1 = v1
    v2 = v2
    t1 = t1
    t2 = t2
    Loop = Loop
    k3 = k3
    Keys = {k1, k2, k3}
    Values = {v1, v2}
    MaxFacts = 2
    Threads = {t1, t2}
    Requests = {"remember", "on", "off", "delete"}
    MaxRequests = 5
SPECIFICATION StoresSpec
CHECK_DEADLOCK FALSE
INVARIANTS
    StoreInv
    NoEarlyLoss
    LimiterInv
    WindowLimits
    NamesUnique
    SavedIsServed
    DocumentsKept
    PagesSendWhatTheyShow
    BestEvidenceOnly
PROPERTIES
    NothingIdleAfterUse
    RefusedOnlyWhenFull
    WaitIsEnough
    OwnerGuarded
    TurnsFollowOn
    ChunkingEnds
    AtomicSpec
