CONSTANTS
  ada = ada
  bot = bot
  c1 = c1
  c2 = c2
  r1 = r1
  r2 = r2
  None = None
  Plan <- Question
  Entry = "note"
  ItemCounts = {}
  Run = {r1}
  MaxId = 2
  Task = {1, 2}
  Worker = {ada, bot}
  Human = {ada}
  Call = {c1, c2}
  MaxRequests = 3
  LeaseDuration = 1
  Event = {"cancel"}
  AiOutcome = {"escalated"}
  MaxCrashes = 0
SPECIFICATION Spec
CHECK_DEADLOCK FALSE
INVARIANT FencedAnswer
INVARIANT AppliedOnce
PROPERTY NoTakeover
SYMMETRY CallSymmetry
