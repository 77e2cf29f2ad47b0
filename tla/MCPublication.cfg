\* Two processes run three commands of any kind, from two authors, and one
\* record comes from elsewhere.
SPECIFICATION MCSpec
CONSTANTS
  Authors = {a, b}
  Spellings = {tag, Tagg}
  Subnames = {x}
  Tasks = {t1, t2}
  Junk = Junk
  MaxStarts = 3
  MaxPath = 2
  MaxForeign = 1
INVARIANTS
  TypeOK
  QuietWritesKept
  OneClaimPerAuthor
  ShownSigned
  ResolvedByDelegation
SYMMETRY Interchangeable
CHECK_DEADLOCK FALSE
