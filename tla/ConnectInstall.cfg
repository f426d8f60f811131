SPECIFICATION Spec
CONSTANTS
    p1 = p1  p2 = p2  i1 = i1  i2 = i2
    s = s  t = t  json = json  toml = toml
    one = one  two = two  own = own
    None = None  User = User  Torn = Torn
    Process = {p1, p2}
    Id = {i1, i2}
    File = {json, toml}
    Toml = {toml}
    Server = {s, t}
    Alias = {one, two, own}
    Own = own
    MaxFaults = 2
    Bundle <- MCBundle
    AliasIn <- MCAliasIn
\* The ids run out, and the faults: nothing is left to do.
CHECK_DEADLOCK FALSE
SYMMETRY Symmetry
INVARIANTS UserKept EntriesLead
PROPERTIES Delivered
