CONSTANTS
    Static = {}
    Sources <- MCSources
    Alerts <- MCAlerts
    Owner <- MCOwner
    Lane <- MCLane
    Accumulating = {"page"}
    Weak = {"w"}
    Versioned = {"list"}
    Paced = {"page"}
    Cooldown = 0
    Stale = 1
    Archive = 2
    SnapshotEvery = 2
    RetryInterval = 2
    ScrapeInterval = 2
    Deployments <- MCLive

SPECIFICATION FairSpec

PROPERTY PublishedIsStored
