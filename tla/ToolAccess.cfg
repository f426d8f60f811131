SPECIFICATION Spec
CONSTANTS
    None = None
    c1 = c1  c2 = c2  c3 = c3  a = a  b = b  x = x  y = y
    Client = {c1, c2, c3}
    Server = {a, b}
    Tool = {x, y}
    TenantOf <- TwoTenants
    Scenes <- MCScenes
    MaxRows = 2
INVARIANTS ListedIsCallable  PreflightHonest
PROPERTIES ReplacementWins
