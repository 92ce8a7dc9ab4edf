\* One tab: two calls, two sessions issued by the server.
SPECIFICATION FairSpec
CONSTANTS
    Calls = {"listCases", "createCase"}
    WorkspaceCalls = {"listCases"}
    MaxRows = 2
INVARIANTS
    NoSpentTokenKept
    RetryOnNewToken
    SignOutIsFinal
    ShownWithSession
PROPERTIES
    Settles
