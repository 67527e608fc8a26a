SPECIFICATION AlertsSpec
CONSTANTS
    Origins <- MCOrigins
    Entries <- MCEntries
    TitleFacts <- MCTitles
    Translated <- MCTranslated
    Documents <- MCDocuments
    Categories = {"travel_warning"}
    PolicyA <- MCPolicyA
    PolicyB <- MCPolicyB
    PercentB = 20
    AlarmScore = 720
    MissingScore = 0
    IncidentScore = 420
    MaxFresh = 24
    Alerts = {1, 2, 3, 4, 5, 6, 7}
    Facts <- MCFacts
    KnownActors = {"m"}
    MaxSweeps = 2
INVARIANTS
    NoiseStaysInfo
    OrderDoesNotMatter
    ClustersAreComponents
    OverviewHangsTogether
CHECK_DEADLOCK FALSE
