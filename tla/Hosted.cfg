SPECIFICATION MCSpec
CONSTANTS
    Users = {1, 2}
    p1 = p1
    w2 = w2
    Posts = {p1, p2}
    OwnerOf <- MCOwnerOf
    Workers = {w1, w2}
    Offset <- MCOffset
    ConfigZone = "spring"
    MaxOffset = 28
    TakenBack = 2
    Horizon = 2
    Backoff = 1
    MaxRetries = 1
    MaxTime = 4
    Platforms = {"tiktok", "instagram"}
    OwnerZone = "autumn"
    Schedule = {1, 2}
    Grace = 1
    StaleAfter = 1
    NumPillars = 4
    WeightSum = 4
    Lengths = {31}
    Starts = {1, 12}
    Prompts = 2
    Times = {1, 2}
    Videos = {v1, v2}
    Calendars = {c1, c2, other}
    Named = other
    MaxEvents = 2
    None = None
INVARIANTS NothingEarly StatusIsHonest MonthIsShared NoPillarWaits CalendarIsCreatedOnce VideoHasItsSlot
PROPERTIES CycleServesEveryUser OnlyLatenessIsTakenBack
CHECK_DEADLOCK FALSE
