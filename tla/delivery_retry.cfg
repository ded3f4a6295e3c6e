CONSTANTS
  c1 = c1
  c2 = c2
  r1 = r1
  r2 = r2
  t1 = t1
  t2 = t2
  Command = {c1, c2}
  Run = {r1}
  Tab = {t1}
  RunOf <- SameRun
  TabOf <- SameTabs
  None = None
  Attempt <- FirstRetry
  RetryOn = {"failed", "timed_out"}
  AdapterStatus = {"failed"}
  StagedCommand = {}
  GuardedCommand = {c1}
  RiskyCommand = {}
  ActiveCapacity = 2
  Event = {"deadline"}
  MaxFaults = 0
SPECIFICATION Spec
PROPERTY AttemptsActInOrder
CHECK_DEADLOCK FALSE
CONSTRAINT FewInFlight
