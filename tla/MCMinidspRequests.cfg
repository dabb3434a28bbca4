SPECIFICATION Spec
CONSTANTS
  s1 = s1  s2 = s2  e1 = e1  e2 = e2
  unity = unity  cut = cut  loud = loud  quiet = quiet
  Threads = {t1, t2}
  Slots = {s1, s2}
  NoSlot = NoSlot
  Entries = {e1, e2}
  Trims = {unity, cut}
  Unity = unity
  Volumes = {loud, quiet}
  ZeroDb = loud
  None = None
  Requests <- SlotRequests
  Rejected <- OneRejected
  SlotChangeDelay = FALSE
  MaxRequests = 2
  MaxFaults = 2
  MaxRemote = 0
INVARIANTS TypeOK TitleMeansLoaded TrimsMatch SavedIsShown
SYMMETRY Symmetry
CHECK_DEADLOCK FALSE
