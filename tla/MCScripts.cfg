CONSTANTS
    w1 = w1
    t1 = t1
    r1 = r1
    NoFile = NoFile
    NoReply = NoReply
    Numbers = {1, 2}
    Texts = {t1}
    StrongTexts = {}
    CarriedNumbers = {1}
    Lessons = {w1}
    MaxCommands = 5
    Faults = {"generic", "therapy", "formal", "attribution", "fact", "statistic", "emojis"}
    MaxFaults = 2
    MaxOthers = 1
    GateReplies = 2
    GateGroup = 1
    PhraseWarn = 40
    PhraseBlock = 60
    OpeningWarn = 60
    OpeningBlock = 80
    OpenerLimit = 2
    SplitRecords = {1, 2, 3, 4}
    Languages = {"bn", "en"}
    TrainPercent = 60
    ValidationPercent = 20
    Records = {r1}
    Replies <- SampleReplies
    Written <- Plain
    MaxReviews = 6
    Conversations <- WrittenCorpus
    FirstSources <- StartingCorpus
    Slice <- EvalSlices
    Copies = 2
    HoldoutPercent = 10
    QuestionLimit = 40
    ShortTurns = {"ok"}
    Benchmarks = {"bench"}
    Rewrites = {3}
    Servings = {1, 2}
    MaxEdits = 1
    Checkpoints = 2
    Losses = {1, 2}
    Outcomes <- Measurements
    MinTermRate = 80
    MinLiveScripts = 9
    MaxRuns = 2
    MaxEvaluations = 2
    Releases = {"rupsaa-v0.2", "gemma-final"}
    PinnedReleases = {"gemma-final"}
    ImpliedPrompt <- PromptByName
    MaxBuilds = 2
    MaxDeaths = 1
    MaxScripts = 4
    EvalRecords = {1, 2}
    Wordings = {"said", "said_otherwise"}
    Words = {"whale"}
    Missing = Missing
    MaxStoreEdits = 1
    Jobs <- MeasuredJobs
    ModelReplies <- PossibleReplies
    NoReport = NoReport
    MaxChanges = 2
    MaxPreflights = 2
SPECIFICATION WorkSpec
CHECK_DEADLOCK FALSE
INVARIANTS
    JudgedOnUnseen
    TrainedOnSound
PROPERTIES
    VerdictIsJust
    FinishedStays
    ReviewsCount
    OnlyApprovedServes
