\* The CLI or the node, with a quota of two blocks, and the browser, without
\* one, fetch a site of three blocks at the same time from peers that may not
\* answer or may answer with other blocks for ever; one process is killed.
SPECIFICATION MCSpec
CONSTANTS
  Blocks = {1, 2, 3}
  Root = 1
  Tasks = {t1, t2}
  Unmetered = {t2}
  Quota = 2
  MaxCrashes = 1
  MaxQueue = 1
INVARIANTS
  TypeOK
  DownloadCovers
  ExtractsAll
PROPERTY FetchEnds
CHECK_DEADLOCK FALSE
