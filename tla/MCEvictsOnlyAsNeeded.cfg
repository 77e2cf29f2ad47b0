\* Two tasks put three blocks beside the node; one process is killed.
SPECIFICATION Spec
CONSTANTS
  Blocks = {b1, b2, b3}
  Roots = {b1, b2}
  Tasks = {t1, t2}
  Quota = 2
  Unmetered = {}
  MaxCrashes = 1
PROPERTY EvictsOnlyAsNeeded
CHECK_DEADLOCK FALSE
