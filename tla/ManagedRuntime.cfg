SPECIFICATION Spec
CONSTANTS
    Release = {r1, r2, r3}
    Files <- MCFiles
    ImportGate = "rollback"
    Request = {q1, q2}
    MaxEntries = 2
    None = None
SYMMETRY Symmetry
INVARIANTS RunsWhatItSays  OneActive
