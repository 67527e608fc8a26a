SPECIFICATION DiscSpec
CONSTANTS
    Ids <- MCIds
    Urls <- MCUrls
    Listed = {}
    KnownDead = {}
    Candidates <- MCCandidates
    Key <- MCKey
    Site <- MCSite
    IdOf <- MCIdOf
    Hygienic = {"a", "b", "c"}
    FeedAt <- MCFeedAt
    Curated = {}
    Structured = {"b"}
    Found = {}
    Hints = {"hint"}
    Seeds <- MCSeeds
    Workers = 2
    Deployments <- MCDeployments
INVARIANTS
    FeedTakenOnce
    RefusedIsNotCollected
PROPERTIES
    QueuedIsCrawled
CHECK_DEADLOCK FALSE
