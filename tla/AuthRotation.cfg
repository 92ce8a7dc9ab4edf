\* Two requests in flight: the tokens of one user.
SPECIFICATION Spec
CONSTANTS
    r1 = r1
    r2 = r2
    ada = ada
    Requests = {r1, r2}
    Users = {ada}
    Admins = {}
    Calls = {"login", "refresh", "logout", "change_password"}
    MaxSessions = 3
    MaxEpoch = 3
SYMMETRY Symmetry
INVARIANTS
    TokensEndWithRevocation
    OnlyLateSessionsSurvive
    RefreshTokenUsedOnce
    LogoutEndsTheSignIn
CHECK_DEADLOCK TRUE
PROPERTY
    KeepsSessions
