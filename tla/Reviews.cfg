SPECIFICATION Spec
CONSTANTS
    Users = {u1, u2}
    Clients = {c1, c2}
    Ids = {i1, i2}
    Stars = {0, 1, 5}
    None = None
    MaxRequests = 3
SYMMETRY Symmetry
INVARIANTS HealsAlone NewestIsPublished FreshnessIsBacked ErasureSticks AnswersAddUp
CHECK_DEADLOCK FALSE
