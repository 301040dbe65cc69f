CONSTANTS
    None = None
    Slots = {s1}
    Times = {t1, t2}
    Videos = {v1, v2}
    Requests = {r1, r2}
    Serialized = FALSE
    Overlap = FALSE
SPECIFICATION Spec
SYMMETRY Symmetry
PROPERTIES ClaimIsKept
