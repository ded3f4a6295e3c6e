SPECIFICATION FairSpec
CONSTANTS
    r1 = r1
    r2 = r2
    outsider = outsider
    none = none
    Run <- TwoRuns
    AuthRun <- NoRun
    BrowserSession <- NoBrowser
    Epoch <- MCEpoch
    Outsider = outsider
    None = none
    DeliveryLease = 1
    SessionTtl = 1
    MaxAge = 0
    MaxUploads = 0
    MaxCrashes = 2
    MaxUpgrades = 1
    MaxMutations = 1
INVARIANT TypeOK
PROPERTY DeliversNotices
PROPERTY DeliveriesSettle
