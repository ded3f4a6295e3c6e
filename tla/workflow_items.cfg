CONSTANTS
  ada = ada
  bot = bot
  c1 = c1
  c2 = c2
  r1 = r1
  r2 = r2
  None = None
  Plan <- Items
  Entry = "each"
  ItemCounts = {0, 2, 3}
  Run = {r1}
  MaxId = 6
  Task = {1, 2, 3, 4, 5, 6}
  Worker = {ada}
  Human = {ada}
  Call = {c1}
  MaxRequests = 1
  LeaseDuration = 1
  Event = {"cancel", "withheld", "leaseLost"}
  AiOutcome = {}
  MaxCrashes = 2
SPECIFICATION FairSpec
CHECK_DEADLOCK FALSE
INVARIANT TypeOK
INVARIANT WaitsAreBacked
INVARIANT ItemsAccounted
INVARIANT AttemptsFit
PROPERTY DispatchedInTime
PROPERTY ImplementsLedger
PROPERTY EveryRunEnds
PROPERTY AssistanceSpec
