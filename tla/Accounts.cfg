SPECIFICATION MCSpec
CONSTANTS
    Users = {u1, u2}
    Emails = {e1, e2}
    Subjects = {g1}
    Tokens = {t1}
    Sessions = {s1}
    Requests = {r1, r2}
    None = None
SYMMETRY Symmetry
INVARIANTS OneLoginKey TokenSpentOnce
PROPERTIES LastAdminGuarded
CHECK_DEADLOCK FALSE
