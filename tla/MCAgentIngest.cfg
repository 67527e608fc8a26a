CONSTANTS
    Records <- MCRecords
    Meta <- MCMeta
    Limits = {1, 4}
    Partitions <- MCPartitions
    Log <- MCLog
    MirrorTopic = TRUE
    MaxCrashes = 1
    MaxFaults = 1

SPECIFICATION FairSpec

INVARIANT TypeOK
INVARIANT CommittedResolved
INVARIANT AcceptedInGraph
INVARIANT CountedOnce
INVARIANT WindowIsNewest
PROPERTY EdgesAreHistory
PROPERTY UnwritableForever
PROPERTY ForwardProgress
