CONSTANTS
  key1 = key1
  key2 = key2
  browser = browser
  t1 = t1
  t2 = t2
  Outsider = Outsider
  None = None
  Occurrence = {1, 2}
  External = {}
  Resource = {key1, browser}
  KeyOf <- OneKey
  BrowserOf <- OneBrowser
  LeaseTtl = 2
  RemoteTtl = 1
  Trigger = {t1, t2}
  TriggerOf <- TwoTriggers
  Manual = {1}
  Keeps <- SkipLate
  Event = {"unavailable", "browser", "time"}
  Endings = {"succeeded", "failed"}
  MaxCrashes = 1
SPECIFICATION FairSpec
INVARIANT RunsAreSupervised
INVARIANT AttemptsTellTheTruth
PROPERTY StartsAlone
PROPERTY EveryOccurrenceEnds
