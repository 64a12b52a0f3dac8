SPECIFICATION Spec
CONSTANTS
    MaxUploads = 2
    Earlier = 1
    Parents = {r1}
    Reviews = {r1}
    Users = {u1, u2}
    Verified = {u1}
    Moderators = {u2}
    Clients = {c1, c2}
    PageKeys = 2
    MaxFaults = 1
    None = None
INVARIANTS RowHasObjects  GalleryOrder
PROPERTIES ReconcileSpares SweepComplete
SYMMETRY Symmetry
CHECK_DEADLOCK FALSE
