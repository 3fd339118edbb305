CONSTANTS
    c1 = c1
    c2 = c2
    c3 = c3
    p1 = p1
    p2 = p2
    Clients = {c1, c2, c3}
    Procs = {p1, p2}
    ProcOf <- TwoProcs
    None = None
    Paths = {k1, k2}
    MaxSets = 2
    LockRaces = {}
    Races = {"overlap"}
SPECIFICATION Spec
CHECK_DEADLOCK FALSE
INVARIANTS
    NothingDropped
