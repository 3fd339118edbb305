CONSTANTS
    Jobs = {j1}
    Ids = {i1, i2}
    Polls = {p}
    Awaits = {w}
    None = None
    MaxRunning = 2
    Races = {}
SPECIFICATION AttendedSpec
CHECK_DEADLOCK FALSE
PROPERTIES
    DeliveredAutomatically
