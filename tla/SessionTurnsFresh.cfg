\* A steer reaches a conversation that has no messages yet.
CONSTANTS
    Prompts = {p1}
    Drains = {t1}
    Wakes = {w1}
    None = None
    OneAtATime = {"steer", "followUp"}
    MaxMessages <- OneSteer
    MaxAborts = 0
    Fresh = TRUE
SPECIFICATION FairSpec
PROPERTY EveryoneIsHeard
CHECK_DEADLOCK FALSE
