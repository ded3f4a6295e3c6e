SPECIFICATION Spec
CONSTANTS
    r1 = r1
    r2 = r2
    w1 = w1
    w2 = w2
    w3 = w3
    h1 = h1
    h2 = h2
    Run = {r1, r2}
    Effect = {w1, w2, w3}
    RunOf <- Owner
    Programs <- AllPrograms
    Products = 2
    LastRow = 2
    Handler = {h1, h2}
    Outsider = Outsider
    None = None
    MaxCrashes <- CrashesOnceInOneRun
SYMMETRY AnyHandler
CHECK_DEADLOCK FALSE
INVARIANT RecordsAreTrue
INVARIANT StagedForRunningSync
PROPERTY PublishesWhole
PROPERTY EffectsAreFinal
