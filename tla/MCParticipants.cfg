SPECIFICATION MCSpec
CONSTANTS
    PageRecords = {1, 2, 3, 4, 5}
    Seen <- MCSeen
    Cap = 4
    PageLimit = 1
    MaxFolds = 5
    From = {"a"}
    To = {"a", "b"}
    Links <- MCLinks
    Deepest = 3
    MaxEdges = 3
    Times = {1}
    MaxQueries = 1
INVARIANT FlowsKeepParticipants
CHECK_DEADLOCK FALSE
