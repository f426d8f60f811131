SPECIFICATION ClientFairSpec
CONSTANTS
    FailureThreshold = 2
    ResetTimeout = 2
    HalfOpenMax = 2
    SuccessThreshold = 3
    Calls = {c1, c2, c3, c4}
INVARIANTS ClientTypeOK SlotsHeld EvidenceScoped
PROPERTIES Recoverable ImplementsContract
