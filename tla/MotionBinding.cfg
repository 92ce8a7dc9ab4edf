\* Two requests in flight, one of them a reviewer's or an exporter's.
SPECIFICATION Spec
CONSTANTS
    r1 = r1
    r2 = r2
    Requests = {r1, r2}
    Handlers = {"create_motion_version", "review_motion", "export"}
    Choices = {"approved"}
    Compliant = {1, 2}
    MaxVersions = 3
    MaxReviews = 3
SYMMETRY Symmetry
INVARIANTS
    ApprovalBoundToVersion
CHECK_DEADLOCK TRUE
