SPECIFICATION FeedSpec
CONSTANTS
    Alerts = {1, 2, 3}
    Facts <- MCFacts
    Terms = {"x", "y"}
    Places <- MCPlaces
    Countries = {"c"}
    NoCountry = "int"
    Lookback = 2
    Retention = 2
    MinRatio = 1
    MinCount = 2
    MaxDay = 3
    MaxSweeps = 2
    Items = {1, 2, 3}
    Traits <- MCTraits
    Titles <- MCTitles
    Begins <- MCBegins
    NoWord = ""
    Limits = {3}
    Clients = {c1}
    Cost = 2
    Burst = 4
    Stale = 4
    RetryAfter = 3
    MaxTime = 12
INVARIANTS
    DigestCountsSightings
    SearchFindsTheRows
    BudgetHolds
CHECK_DEADLOCK FALSE
