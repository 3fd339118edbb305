CONSTANTS
    Clients = {c1, c2, c3, c4}
    Limits <- SmallLimits
SPECIFICATION FairSpec
INVARIANTS
    TypeOK
    SlotAccounting
    NoIdleSlot
    QueueIsWaiters
PROPERTIES
    FirstComeFirstServed
    PoolSpec
    EveryWaitEnds
