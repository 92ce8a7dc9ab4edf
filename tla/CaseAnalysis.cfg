\* Two overlapping calls on a case of two documents.
SPECIFICATION FairSpec
CONSTANTS
    Documents = {1, 2}
    Values = {"A", "B"}
    Clock <- Times
    Incomplete = {"B"}
    Missing = {"B"}
    Readings <- TwoDocuments
    Settings <- WithModel
    Calls = {c1, c2}
    FactLimit = 3
    ReferenceLimit = 2
    TimelineLimit = 2
    MaxRequests = 2
    MaxExtractions = 2
INVARIANTS
    CitedPagesExist
    ContradictionsAreExact
PROPERTIES
    ShownNeverGoesBack
    CallsSettle
CHECK_DEADLOCK FALSE
