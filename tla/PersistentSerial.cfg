SPECIFICATION Spec
CONSTANTS
  Threads = {t1, t2}
  empty = empty  x = x  unset = unset  y = y
  Kept = {empty, x}
  Live = {unset, y}
  Initial <- Fresh
  None = None
  Inodes = {i1, i2, i3}
  Blank = Blank
  Garbled = Garbled
  Overlap = FALSE
  MaxCalls = 3
INVARIANTS TypeOK NoPartialWrite CopiesAgree StateIsLoaded
PROPERTY IsRegister
CHECK_DEADLOCK FALSE
