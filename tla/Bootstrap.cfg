\* The programs of every workspace, interrupted and repeated.
SPECIFICATION Spec
CONSTANTS
    Workspaces <- AllWorkspaces
    Cases = {1, 2}
    Files = {1, 2, 3}
    CasesOf <- OneOrTwoCases
    Seeds <- TwoFilesAndOne
    Recorded = {}
    PendingCases = {2}
    ReviewCases = {1}
    MaxExecutions = 2
    MaxVersion = 5
    MaxAnalyses = 2
INVARIANTS
    SeededOnce
    AnalysedWhole
    ResetEndsSessions
CHECK_DEADLOCK FALSE
