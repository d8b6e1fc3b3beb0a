CONSTANTS
    Launches = {1}
    MaxServerDeaths = 0
SPECIFICATION LauncherSpec
CHECK_DEADLOCK FALSE
INVARIANT NothingRunsAfterStop
