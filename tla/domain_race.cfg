CONSTANTS
  key1 = key1
  key2 = key2
  browser = browser
  t1 = t1
  t2 = t2
  Outsider = Outsider
  None = None
  Occurrence = {1, 2}
  External = {1, 2}
  Resource = {key1}
  KeyOf <- OneKey
  BrowserOf <- NoBrowser
  LeaseTtl = 1
  RemoteTtl = 2
  Trigger = {t1}
  TriggerOf <- OneTrigger
  Manual = {}
  Keeps <- RunOnce
  Event = {"unavailable", "domain", "lost", "refused", "doubt", "time"}
  Endings = {"succeeded"}
  MaxCrashes = 1
SPECIFICATION Spec
INVARIANT TypeOK
INVARIANT AttemptOutlivesDomainLease
INVARIANT RemoteLeaseIsKnown
INVARIANT WindowInsideGrant
