\* Two tasks put three blocks beside the node; one process is killed.
SPECIFICATION FairSpec
CONSTANTS
  Blocks = {b1, b2, b3}
  Roots = {b1, b2}
  Tasks = {t1, t2}
  Quota = 1
  Unmetered = {}
  MaxCrashes = 1
INVARIANTS
  TypeOK
  TornExplained
  QuotaOverrun
PROPERTIES
  PinnedKept
  QuotaRestored
CHECK_DEADLOCK FALSE
