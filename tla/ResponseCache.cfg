SPECIFICATION FairSpec
CONSTANTS
    Readers = {r1, r2}
    Keys = {k1}
    Ttl = 1
    MaxVersion = 1
    None = None
INVARIANTS Indexed QuietWriteInvalidates
PROPERTIES StaleExpires ReadsEnd
