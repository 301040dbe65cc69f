CONSTANTS
    None = None
    Slots = {s1, s2, s3, s4}
    Times = {t1, t2}
    Videos = {v1, v2}
    Requests = {r1, r2}
    Serialized = TRUE
    Overlap = FALSE
SPECIFICATION Spec
SYMMETRY Symmetry
INVARIANTS SidesAgree PostFollowsSchedule
PROPERTIES ClaimIsKept AttemptKeepsSlot
