\* A settled post gives nobody any work: the system may stop.
CHECK_DEADLOCK FALSE
CONSTANTS
    None = None
    Posts = {p1}
    Workers = {w1}
    Clis = {c1}
    Users = {u1}
    Ids = {i1, i2}
    MaxRetries = 1
    MaxChecks = 2
    Checkpointed = TRUE
    Stalls = FALSE
    ConcurrentOperators = FALSE
SPECIFICATION Spec
SYMMETRY Symmetry
PROPERTIES ImplementsContract
