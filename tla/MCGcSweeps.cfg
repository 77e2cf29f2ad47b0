\* Two tasks put three blocks beside the node, the second without a quota;
\* one process is killed.
SPECIFICATION Spec
CONSTANTS
  Blocks = {b1, b2, b3}
  Roots = {b1, b2}
  Tasks = {t1, t2}
  Quota = 1
  Unmetered = {t2}
  MaxCrashes = 1
PROPERTY GcSweeps
CHECK_DEADLOCK FALSE
