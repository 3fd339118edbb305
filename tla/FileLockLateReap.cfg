CONSTANTS
    c1 = c1
    c2 = c2
    c3 = c3
    p1 = p1
    p2 = p2
    p3 = p3
    Clients = {c1, c2, c3}
    Procs = {p1, p2, p3}
    ProcOf <- ThreeProcs
    None = None
    LockRaces = {"lateReap"}
SPECIFICATION LockSpec
CHECK_DEADLOCK FALSE
INVARIANTS
    MutualExclusion
