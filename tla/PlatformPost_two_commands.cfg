\* A settled post gives nobody any work: the system may stop.
CHECK_DEADLOCK FALSE
CONSTANTS
    None = None
    Posts = {p1}
    Workers = {}
    Clis = {c1, c2}
    Users = {}
    Ids = {i1, i2}
    MaxRetries = 1
    MaxChecks = 2
    Checkpointed = TRUE
    Stalls = FALSE
    ConcurrentOperators = TRUE
SPECIFICATION Spec
SYMMETRY Symmetry
INVARIANTS AtMostOnePublication
