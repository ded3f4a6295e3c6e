CONSTANTS
  c1 = c1
  c2 = c2
  r1 = r1
  r2 = r2
  t1 = t1
  t2 = t2
  Command = {c1}
  Run = {r1}
  Tab = {t1}
  RunOf <- OwnRuns
  TabOf <- SameTabs
  None = None
  Attempt <- AllFirst
  RetryOn = {}
  AdapterStatus = {"succeeded", "failed"}
  StagedCommand = {c1}
  GuardedCommand = {}
  RiskyCommand = {c1}
  ActiveCapacity = 2
  Event = {"link", "core", "worker", "deadline", "page", "cancel"}
  MaxFaults = 1
SPECIFICATION Spec
INVARIANT TypeOK
INVARIANT SuccessIsReal
INVARIANT EffectLeavesTrace
PROPERTY ImplementsLedger
PROPERTY CancelledRunStaysOut
CHECK_DEADLOCK FALSE
