\* Two requests in flight that edit, check and submit.
SPECIFICATION Spec
CONSTANTS
    r1 = r1
    r2 = r2
    Requests = {r1, r2}
    Handlers = {"create_motion_version", "check_motion_citations", "check_motion_ethics", "submit_motion_review"}
    Choices = {"approved"}
    Compliant = {1}
    MaxVersions = 2
    MaxReviews = 2
SYMMETRY Symmetry
INVARIANTS
    IInv
    VerdictBelongsToVersion
    SubmittedWasCleared
CHECK_DEADLOCK TRUE
