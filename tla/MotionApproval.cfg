\* Two requests in flight that edit, submit, review and export.
SPECIFICATION Spec
CONSTANTS
    r1 = r1
    r2 = r2
    Requests = {r1, r2}
    Handlers = {"create_motion_version", "submit_motion_review", "review_motion", "export"}
    Choices = {"changes_requested", "approved"}
    Compliant = {1, 2}
    MaxVersions = 3
    MaxReviews = 3
SYMMETRY Symmetry
INVARIANTS
    CurrentVersionIsLatest
    UnlockedOnlyByApproval
    ApprovalCoversCurrent
    ExportedWasApproved
PROPERTIES
    KeepsPromise
CHECK_DEADLOCK TRUE
