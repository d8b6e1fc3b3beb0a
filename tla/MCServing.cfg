CONSTANTS
    MaxTexts = 2
    MaxSends = 2
    MaxIncidents = 1
    MaxResets = 1
    Launches = {1, 2}
    MaxServerDeaths = 1
SPECIFICATION RunningSpec
CHECK_DEADLOCK FALSE
INVARIANTS
    EngineIsRight
    PageIsTrue
    StopWorks
PROPERTIES
    NobodyWaitsForEver
    NoHalfService
