SPECIFICATION MCSpec
SYMMETRY Symmetry
CONSTANTS
    Files = {f1, f2}
    Names = {n1, n2, n3}
    Slots = {1, 2}
    PillarOf <- MCPillarOf
    Scores = {0, 1}
    MinSimilarity = 1
    MinMargin = 1
    CaptionModes = {"transcript_auto"}
    Videos = {v1, v2}
    MaxFiles = 2
    Requests = {r1, r2}
    Texts = {m1, m2}
    Generated = g
    None = None
INVARIANTS AssignedIsComplete StrayNeedsDeath MediaMatchesRows ProvenanceIsTrue
    PublishedCaptionIsShown
PROPERTIES NotOvertaken
CHECK_DEADLOCK FALSE
