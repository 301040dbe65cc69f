SPECIFICATION MCSpec
CONSTANTS
    Procs = {p1, p2}
    Attempts = {a1, a2}
    MaxTokens = 4
    MaxCasAttempts = 2
    Logins = {l1, l2}
    Subjects = {"ann", "ann2", "bob"}
    EmailOf <- MCEmailOf
    Commands = {c1, c2}
    LocalTokens = 3
    None = None
    Torn = Torn
INVARIANTS RotatedTokenIsNotPresented AttemptIsRedeemedOnce AccountsAreNotShared
    LockoutNeedsAbandonedLogin SpentTokenIsNotPresented
PROPERTIES RefreshOnlyRenews
CHECK_DEADLOCK FALSE
