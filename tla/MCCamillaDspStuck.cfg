SPECIFICATION FairSpec
CONSTANTS
  e1 = e1  e2 = e2  zero = zero  cut = cut  loud = loud  quiet = quiet
  Threads = {t1}
  Entries = {e1, e2}
  Gains = {zero, cut}
  Zero = zero
  Volumes = {loud, quiet}
  ZeroDb = loud
  None = None
  Requests <- MCRequests
  Settings <- MCSettings
  Outputs <- MCOutputs
  Refused <- MCRefused
  Pipelines = {"absent"}
  MaxCalls = 1
  MaxTroubles = 0
PROPERTY GainEnds
CHECK_DEADLOCK FALSE
