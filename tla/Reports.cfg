SPECIFICATION Spec
CONSTANTS
    Users = {m1, m2}
    Moderators = {m1, m2}
    Clients = {c1, c2}
    ReviewIds = {v1}
    PhotoIds = {p1}
    ParkingIds = {l1}
    Reasons = {"duplicate", "inappropriate_photo", "spam", "unknown"}
    ReportIds = {r1}
    None = None
    MaxRequests = 3
SYMMETRY Symmetry
INVARIANTS OwnReportOnlyIfScrubbed AuditedOnce ResolvedIsTakenDown AnswerTruthful
CHECK_DEADLOCK FALSE
