SPECIFICATION Spec
CONSTANTS
  e1 = e1  e2 = e2  zero = zero  cut = cut  loud = loud  quiet = quiet
  Threads = {t1, t2}
  Entries = {e1, e2}
  Gains = {zero, cut}
  Zero = zero
  Volumes = {loud, quiet}
  ZeroDb = loud
  None = None
  Requests <- MCLoads
  Settings <- MCSettings
  Outputs <- MCOutputs
  Refused <- MCRefused
  Pipelines = {"some"}
  MaxCalls = 2
  MaxTroubles = 0
INVARIANT TitleIsLoaded
SYMMETRY Symmetry
CHECK_DEADLOCK FALSE
