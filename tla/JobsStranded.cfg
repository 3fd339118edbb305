CONSTANTS
    Jobs = {j1}
    Ids = {i1, i2}
    Polls = {p}
    Awaits = {}
    None = None
    MaxRunning = 2
    Races <- StrandingRaces
SPECIFICATION FairSpec
CHECK_DEADLOCK FALSE
PROPERTIES
    DeliveredAutomatically
