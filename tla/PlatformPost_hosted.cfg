\* A settled post gives nobody any work: the system may stop.
CHECK_DEADLOCK FALSE
CONSTANTS
    None = None
    Posts = {p1}
    Workers = {w1, w2}
    Clis = {}
    Users = {u1}
    Ids = {i1, i2}
    MaxRetries = 1
    MaxChecks = 2
    Checkpointed = TRUE
    Stalls = FALSE
    ConcurrentOperators = FALSE
SPECIFICATION Spec
SYMMETRY Symmetry
INVARIANTS IInv AtMostOnePublication SubmissionTracked OutcomeIsEvidence PendingIsClean OneExecutor
PROPERTIES PublishedIsFinal
