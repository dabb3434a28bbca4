SPECIFICATION FairSpec
CONSTANTS
  m1 = m1  m2 = m2  t1 = t1  t2 = t2  x = x  y = y
  Members = {m1, m2}
  Order <- SlowFirst
  Takers <- SkippedByPrompt
  Slow = {m1}
  Rebuilds = {m1}
  Threads = {t1, t2}
  Values = {x, y}
  Initial = Initial
  None = None
  Requests <- MCRequests
  MaxCalls = 2
  MaxFaults = 1
INVARIANTS TypeOK InStep ShownIsCurrent
PROPERTY CallsEnd
CHECK_DEADLOCK FALSE
