CONSTANTS
  c1 = c1
  c2 = c2
  r1 = r1
  r2 = r2
  t1 = t1
  t2 = t2
  Command = {c1, c2}
  Run = {r1, r2}
  Tab = {t1}
  RunOf <- OwnRuns
  TabOf <- SameTabs
  None = None
  Attempt <- AllFirst
  RetryOn = {}
  AdapterStatus = {"succeeded"}
  StagedCommand = {}
  GuardedCommand = {}
  RiskyCommand = {}
  ActiveCapacity = 2
  Event = {"core"}
  MaxFaults = 1
SPECIFICATION Spec
INVARIANT OneCommandPerTab
INVARIANT SlotsBelongToHandlers
CHECK_DEADLOCK FALSE
SYMMETRY Exchange
CONSTRAINT FewInFlight
