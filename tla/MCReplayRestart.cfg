CONSTANTS
    Records <- MCRecords
    Meta <- MCMeta
    Limits = {2}
    Partitions <- MCPartitions
    Log <- MCShortLog
    MirrorTopic = FALSE
    MaxCrashes = 1
    MaxFaults = 1
    MaxByHand = 1
    MaxRequests = 1
    KeptSessions = 1
    IdlePolls = 1

SPECIFICATION FairReplaySpec

INVARIANT OneReplayPerRequest
PROPERTY ReplaysEnd
