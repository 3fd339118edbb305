CONSTANTS
    Jobs = {j1, j2}
    Ids = {i1, i2}
    Polls = {p}
    Awaits = {w}
    None = None
    MaxRunning = 2
    Races <- AttendedRaces
SPECIFICATION AttendedSpec
CHECK_DEADLOCK FALSE
INVARIANTS
    TypeOK
    InjectedAtMostOnce
    LostOnlyToAwaits
    RunningAreTracked
PROPERTIES
    NotInjectedAfterReturn
    ResultSpec
    ResultsArrive
