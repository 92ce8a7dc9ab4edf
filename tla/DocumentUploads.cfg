\* Two requests in flight that upload and delete, no fault.  The objects that
\* deletions leave in Supabase storage keep their identifiers: when both are
\* taken the system stops.
SPECIFICATION FairSpec
CONSTANTS
    r1 = r1
    r2 = r2
    d1 = d1
    d2 = d2
    c1 = c1
    c2 = c2
    Requests = {r1, r2}
    Ids = {d1, d2}
    Contents = {c1, c2}
    Calls = {"upload", "metadata", "delete"}
    Faults = {}
    Provider = "supabase"
PROPERTIES
    UploadsSettle
CHECK_DEADLOCK FALSE
