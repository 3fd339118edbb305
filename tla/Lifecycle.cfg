CONSTANTS
    Agents = {a1, a2}
    Slots = {s1, s2, s3}
    None = None
    TtlEnabled = TRUE
    Outcomes <- AllOutcomes
    Races <- BenignRaces
SPECIFICATION FairSpec
CHECK_DEADLOCK FALSE
INVARIANTS
    TypeOK
    AdoptedAreRegistered
    IdleAgentsAreTimed
    NoDeadSessions
    OneWriter
    NoOrphans
    StatusMatchesSession
PROPERTIES
    ParkKeepsTheAgent
    NeverParksMidTurn
    IdleIsTemporary
