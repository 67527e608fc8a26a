CONSTANTS
    Records <- MCRecords
    Meta <- MCMeta
    Limits = {1, 2}
    Partitions <- MCPartitions
    Log <- MCLog
    MirrorTopic = FALSE
    MaxCrashes = 0
    MaxFaults = 0
    MaxByHand = 1
    MaxRequests = 1
    KeptSessions = 1
    IdlePolls = 1

SPECIFICATION ReplaySpec

INVARIANT GroupCommitsHandled
INVARIANT GraphConsistent
PROPERTY EndIsFinal
PROPERTY ConsumesAtLeastOnce
