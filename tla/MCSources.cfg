SPECIFICATION MCSpec
CONSTANTS
    Partitions = {"p1", "p2"}
    Script <- MCScript
    Registry = {}
    MaxPerCycle = 2
    FetchSize = 2
    Connectors <- MCConnectors
    Items <- MCItems
    Trait <- MCTrait
    Setup <- MCSetup
    Kinds = {"feed", "page", "channel", "x", "list", "fbi", "acled", "ucdp", "merged", "details", "versioned"}
    Contents <- MCContents
    PageSize = 2
    MaxEdits = 3
    MaxFailures = 3
    Notices = 6
    NoticesPerPage = 2
    Limits = {3, 4, 6}
    MaxTrouble = 1
INVARIANTS
    NothingSkipped
    NotModifiedIsKnown
    EmptyMeansEmpty
PROPERTIES
    KafkaDrains
    NoticesDrain
CHECK_DEADLOCK FALSE
