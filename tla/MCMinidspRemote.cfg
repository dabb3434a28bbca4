SPECIFICATION FairSpec
CONSTANTS
  s1 = s1  s2 = s2  e1 = e1  e2 = e2
  unity = unity  cut = cut  loud = loud  quiet = quiet
  Threads = {t1, t2}
  Slots = {s1, s2}
  NoSlot = NoSlot
  Entries = {e1, e2}
  Trims = {unity, cut}
  Unity = unity
  Volumes = {loud, quiet}
  ZeroDb = loud
  None = None
  Requests <- RemoteRequests
  Rejected <- OneRejected
  SlotChangeDelay = TRUE
  MaxRequests = 2
  MaxFaults = 1
  MaxRemote = 1
INVARIANTS TitleMeansLoaded MasterMatches
PROPERTY RequestsFinish
CHECK_DEADLOCK FALSE
