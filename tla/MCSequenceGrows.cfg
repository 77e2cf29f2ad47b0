\* One author publishes twice.
SPECIFICATION MCSpec
CONSTANTS
  Authors = {a}
  Spellings = {tag}
  Subnames = {x}
  Tasks = {t1}
  Junk = Junk
  MaxStarts = 2
  MaxPath = 1
  MaxForeign = 0
INVARIANT SequenceGrows
CHECK_DEADLOCK FALSE
