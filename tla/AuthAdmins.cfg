\* Two administrators deactivate and reactivate each other.  Once they have
\* deactivated each other at one time nobody can sign in: the system stops.
SPECIFICATION Spec
CONSTANTS
    r1 = r1
    r2 = r2
    ada = ada
    bea = bea
    Requests = {r1, r2}
    Users = {ada, bea}
    Admins = {ada, bea}
    Calls = {"login", "update_user_status"}
    MaxSessions = 3
    MaxEpoch = 2
SYMMETRY Symmetry
INVARIANT
    AnAdministratorRemains
PROPERTY
    KeepsSessions
CHECK_DEADLOCK FALSE
