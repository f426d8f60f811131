SPECIFICATION FairSpec
CONSTANTS
    FailureThreshold = 1
    ResetTimeout = 1
    HalfOpenMax = 1
    SuccessThreshold = 1
    NumReplicas = 2
    Requests = {q1}
    UnhealthyThreshold = 1
    HealthyThreshold = 1
    Transports = {"http", "stdio"}
    Strategies = {"round-robin", "least-connections"}
    MaxChecks = 2
    CounterPeriod = 2
PROPERTIES RotationFair NoBlindForward ImplementsContracts Recovers
