\* One workspace in mock mode; two calls in flight in http mode.
SPECIFICATION Spec
CONSTANTS
    custody = custody
    fabrication = fabrication
    s1 = s1
    s4 = s4
    none = none
    seed = seed
    claim = claim
    served = served
    demo = demo
    other = other
    Arguments = {custody, fabrication}
    RequiredArgument = fabrication
    Strategies = {s1, s4}
    StrategyOf <- ByArgument
    Verified = {s1}
    Bodies = {none, seed, claim, served}
    Substantive = {seed, claim, served}
    Mentions <- Phrases
    NoText = none
    Agents = 2
    Documents = {d1}
    MaxVersions = 3
    Modes = {"mock", "http"}
    Cases = {demo, other}
    Demo = demo
    Seed = seed
    Served = served
    NoCase = noCase
    Busy = {demo}
    Decisions <- ByMode
    Calls = {c1, c2}
    c1 = c1
    c2 = c2
    Kinds = {"refreshWorkspace", "createPersistentCase", "uploadPersistentDocument", "deleteDocumentMetadata", "syncDocuments", "runPersistentAnalysis", "savePersistentMotion", "reviewPersistentMotion", "refreshAnalysis", "syncAuditEvents"}
    MaxEvents = 2
    MaxChanges = 1
INVARIANTS
    ApprovedIsExportable
    ListsAgree
PROPERTIES
    AuditEventsStay
SYMMETRY CallsAlike
CHECK_DEADLOCK FALSE
