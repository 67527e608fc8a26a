CONSTANTS
    Static = {"h"}
    Sources <- MCSources
    Alerts <- MCAlerts
    Owner <- MCOwner
    Lane <- MCLane
    Accumulating = {"page"}
    Weak = {"w"}
    Versioned = {"list"}
    Paced = {"page"}
    Cooldown = 0
    Stale = 1
    Archive = 2
    SnapshotEvery = 2
    RetryInterval = 2
    ScrapeInterval = 2
    Deployments <- MCList

SPECIFICATION HistorySpec

PROPERTY UnchangedIsCarried
