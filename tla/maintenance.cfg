SPECIFICATION Spec
CONSTANTS
    r1 = r1
    r2 = r2
    outsider = outsider
    none = none
    Run <- OneRun
    AuthRun <- LoginRun
    BrowserSession <- OneBrowser
    Epoch <- MCEpoch
    Outsider = outsider
    None = none
    DeliveryLease = 1
    SessionTtl = 2
    MaxAge = 0
    MaxUploads = 1
    MaxCrashes = 1
    MaxUpgrades = 1
    MaxMutations = 0
INVARIANT SessionHoldsBrowser
INVARIANT QuietSwap
INVARIANT ConsumedIsComplete
