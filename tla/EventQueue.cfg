\* Two deliveries for one issue, one slot, a retry, a restart and a replay.
CONSTANTS
    Deliveries = {d1, d2}
    Keys = {k1}
    KeyOf <- OneIssue
    Slots = {s1}
    None = None
    d1 = d1
    d2 = d2
    k1 = k1
    MaxRetries = 1
    MaxLives = 2
    MaxReplays = 1
    Faults = {"crash", "stop"}
SPECIFICATION FairSpec
INVARIANTS
    TypeOK
    RunningIsHandled
    OneTaskPerIssue
    AgentsAreOwned
    CancelHonoured
PROPERTIES EverySettles
\* All deliveries may have been dealt with, and the last process may be gone.
CHECK_DEADLOCK FALSE
