SPECIFICATION BrowserSpec
CONSTANTS
    Users = {"ana", "bia"}
    PerUser = 1
    AnonTokens = {t1, t2}
    NoToken = NoToken
INVARIANT NextPostValidates
CHECK_DEADLOCK FALSE
