\* A settled post gives nobody any work: the system may stop.
CHECK_DEADLOCK FALSE
CONSTANTS
    None = None
    Posts = {p1}
    Workers = {w1, w2}
    Clis = {}
    Users = {}
    Ids = {i1}
    MaxRetries = 1
    MaxChecks = 2
    Checkpointed = TRUE
    Stalls = FALSE
    ConcurrentOperators = FALSE
    MaxFaults = 1
SPECIFICATION LiveSpec
PROPERTIES EveryPostSettles PublicationIsReported
