CONSTANTS
    DocIds = {1, 2}
    MaxWrites = 3
    DocCrashes = 1
SPECIFICATION DocumentsSpec
CHECK_DEADLOCK FALSE
INVARIANT ReindexReachesChat
