SPECIFICATION Spec
CONSTANTS
  Threads = {t1, t2}
  empty = empty  x = x  unset = unset  y = y
  Kept = {empty, x}
  Live = {unset, y}
  Initial <- Fresh
  None = None
  Inodes = {i1, i2, i3}
  Blank = Blank
  Garbled = Garbled
  Overlap = TRUE
  MaxCalls = 2
INVARIANT NoPartialWrite
CHECK_DEADLOCK FALSE
