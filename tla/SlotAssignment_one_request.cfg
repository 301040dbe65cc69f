CONSTANTS
    None = None
    Slots = {s1, s2, s3}
    Times = {t1, t2}
    Videos = {v1, v2}
    Requests = {r1}
    Serialized = FALSE
    Overlap = FALSE
SPECIFICATION Spec
SYMMETRY Symmetry
PROPERTIES ClaimIsKept
