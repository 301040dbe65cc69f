\* A settled post gives nobody any work: the system may stop.
CHECK_DEADLOCK FALSE
CONSTANTS
    None = None
    Posts = {p1}
    Workers = {w1, w2}
    Clis = {}
    Users = {}
    Ids = {i1, i2, i3, i4}
    MaxRetries = 2
    MaxChecks = 2
    Checkpointed = TRUE
    Stalls = FALSE
    ConcurrentOperators = FALSE
SPECIFICATION Spec
SYMMETRY Symmetry
INVARIANTS TypeOK AttemptsBounded
PROPERTIES OnlyPersonsRelease
