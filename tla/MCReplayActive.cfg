CONSTANTS
    Records <- MCRecords
    Meta <- MCUndecodable
    Limits = {2}
    Partitions <- MCPartitions
    Log <- MCLog
    MirrorTopic = FALSE
    MaxCrashes = 0
    MaxFaults = 0
    MaxByHand = 2
    MaxRequests = 0
    KeptSessions = 10
    IdlePolls = 3

SPECIFICATION ReplaySpec

INVARIANT ActiveReturnsToZero
