\* One prompt, two steers, a follow-up, an IRC record and an abort.
CONSTANTS
    Prompts = {p1}
    Drains = {t1, t2, t3}
    Wakes = {w1, w2}
    None = None
    OneAtATime = {"steer", "followUp"}
    MaxMessages <- Few
    MaxAborts = 1
    Fresh = FALSE
SPECIFICATION FairSpec
INVARIANTS
    TypeOK
    InOnePlace
    OneSteerPerAnswer
PROPERTY EveryoneIsHeard
\* The messages may all have been said.
CHECK_DEADLOCK FALSE
