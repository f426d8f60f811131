SPECIFICATION FairSpec
CONSTANTS
    Server = {s1}
    Worker = {w1, w2}
    Tool = {t}
    Strategy = "prefix"
    MaxCopies = 2
    MaxSeen = 1000
    None = None
INVARIANTS RoutesLead OneOwner
PROPERTIES ReloadApplied Converges
CHECK_DEADLOCK FALSE
