SPECIFICATION FairSpec
CONSTANTS
  MaxVersion = 3
  Chunks = 2
  MetaTypes = 2
  Reloads = {r1}
  Boot = Boot
  None = None
  Torn = Torn
  MaxFaults = 2
  MaxDays = 1
INVARIANTS TypeOK LatestIsWhole MetaIsWhole NeverBack
PROPERTY CatchesUp
CHECK_DEADLOCK FALSE
