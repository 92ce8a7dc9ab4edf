\* Three requests in flight, and every fault.  A crash may leave files behind that
\* nothing ever removes; they keep their identifiers, and when both are taken
\* the system stops.
SPECIFICATION Spec
CONSTANTS
    r1 = r1
    r2 = r2
    r3 = r3
    d1 = d1
    d2 = d2
    c1 = c1
    Requests = {r1, r2, r3}
    Ids = {d1, d2}
    Contents = {c1}
    Calls = {"upload", "metadata", "reprocess", "delete"}
    Faults = {"crash", "commit_fails", "acknowledgement_lost"}
    Provider = "local"
SYMMETRY Symmetry
INVARIANTS
    NoDuplicateContent
    StoresAgree
    DeletedIsGone
    TruthfulWhenSerial
PROPERTIES
    ReprocessRepairs
    
CHECK_DEADLOCK FALSE
