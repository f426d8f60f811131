SPECIFICATION Spec
CONSTANTS
    ann = ann
    bob = bob
    w1 = w1
    w2 = w2
    plain = plain
    risky = risky
    Clients = {ann, bob}
    Workspaces = {w1, w2}
    Args = {plain, risky}
    WorkspaceOf <- TwoWorkspaces
    Calls = {q1, q2}
    Ids = {i1, i2}
    NoId = NoId
    NoClient = NoClient
    Ttl = 1
    Configs <- ThreeConfigs
    AuthOn = TRUE
SYMMETRY Interchangeable
INVARIANTS
    TypeOK
    ApprovedProperly
    OnePending
PROPERTIES
    DecisionsFinal
