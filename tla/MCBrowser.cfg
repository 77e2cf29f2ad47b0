\* Three commands on one file, or of the browser on one site of two pages
\* and two editions, two at a time, with one kill or restart.
SPECIFICATION MCSpec
CONSTANTS
  Tasks = {t1, t2}
  Items = {x, y}
  Passwords = {pw}
  Plain = Plain
  MaxCommands = 3
  MaxKills = 1
  Sites = {s}
  Editions = {1, 2}
  Pages = 2
INVARIANTS
  TypeOK
  QuietFilesKept
  OneIdentity
  ReadySiteWhole
PROPERTIES
  TornFileStays
  StatusSettles
CHECK_DEADLOCK FALSE
