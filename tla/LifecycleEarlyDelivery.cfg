CONSTANTS
    Agents = {a1}
    Slots = {s1, s2, s3}
    None = None
    TtlEnabled = TRUE
    Outcomes <- AllOutcomes
    Races = {"earlyDelivery"}
SPECIFICATION Spec
CHECK_DEADLOCK FALSE
PROPERTIES
    NeverParksMidTurn
