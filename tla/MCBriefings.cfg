SPECIFICATION MCSpec
CONSTANTS
    Datasets = {"conflicts", "deaths", "events", "recent"}
    Chunks = 4
    MaxEditions = 3
    MaxReleases = 2
    MaxMishaps = 2
    Countries = {"ua"}
    RefreshDays = 1
    Week = 2
    MaxDays = 3
    MaxTrouble = 2
    MaxRequests = 1
    TerrorAlerts = {"warning", "tip", "report"}
    Seen <- MCSeen
    PerCountry = 1
    MaxCountries = 2
    MaxEvidence = 1
    ZoneSignals = 1
    Window = 72
    RefreshAfter = 24
    UnchangedAfter = 72
    MaxHours = 72
INVARIANTS
    FreshHead
PROPERTIES
    NarrativeIsKept
    DueMeansAsked
CHECK_DEADLOCK FALSE
