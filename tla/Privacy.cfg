SPECIFICATION Spec
CONSTANTS
    Users = {a1, u1}
    Admins = {a1}
    HasPassword = {u1}
    Clients = {c1, c2}
    ExportIds = {e1}
    RequestIds = {q1, q2}
    FormKinds = {"objection", "deletion", "unknown"}
    None = None
    ExportTtl = 1
    PurgeAfter = 1
    InactiveAfter = 1
    MaxTime = 2
    MaxRequests = 3
    MaxFaults = 1
SYMMETRY Symmetry
VIEW View
INVARIANTS SingleUse ErasureScrubs DeletionSettled
PROPERTIES DeletionAnswer
CHECK_DEADLOCK FALSE
