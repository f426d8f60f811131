SPECIFICATION FairSpec
CONSTANTS
    Calls = {c1, c2, c3}
    Ids = {i1, i2}
    NoCall = NoCall
    MaxFastFailures = 3
    BackoffBase = 1
    MaxBackoff = 2
INVARIANTS NobodyStranded
PROPERTIES AnswersMatch Respawns
CHECK_DEADLOCK FALSE
