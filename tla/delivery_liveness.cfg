CONSTANTS
  c1 = c1
  c2 = c2
  r1 = r1
  r2 = r2
  t1 = t1
  t2 = t2
  Command = {c1}
  Run = {r1}
  Tab = {t1}
  RunOf <- OwnRuns
  TabOf <- SameTabs
  None = None
  Attempt <- AllFirst
  RetryOn = {}
  AdapterStatus = {"succeeded"}
  StagedCommand = {}
  GuardedCommand = {}
  RiskyCommand = {}
  ActiveCapacity = 2
  Event = {"core", "deadline", "cancel"}
  MaxFaults = 1
SPECIFICATION FairSpec
PROPERTY EveryCommandIsDecided
PROPERTY EveryAttemptIsAnswered
CHECK_DEADLOCK FALSE
