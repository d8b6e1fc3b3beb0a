CONSTANTS
    MaxTexts = 1
    MaxSends = 1
    MaxIncidents = 1
    MaxResets = 0
SPECIFICATION ServingSpec
CHECK_DEADLOCK FALSE
PROPERTY RefusalsEnd
