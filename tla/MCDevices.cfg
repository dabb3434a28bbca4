SPECIFICATION Spec
CONSTANTS
  t1 = t1  t2 = t2
  e1 = e1  e2 = e2
  z1 = z1  o1 = o1
  hdmi = hdmi  coax = coax
  Reactor = Reactor
  None = None
  CatalogueEntries <- MCEntries
  Threads <- MCThreads
  Htp1Threads <- MCHtp1Threads
  Inputs <- MCInputs
  AutoClear = TRUE
  Zones <- MCZones
  Awkward <- MCAwkward
  Own <- MCOwn
  Unsupported <- MCUnsupported
  Components = 2
  Attempts = 2
  Configurations <- MCConfigurations
  SwChannels <- MCSwChannels
  Described <- MCDescribed
  MaxCalls = 3
  MaxHtp1Calls = 2
  MaxFaults = 2
  MaxChanges = 1
  MaxEdits = 2
  MaxSteps = 2
INVARIANTS TypeOK Htp1TitleMeansLoaded Htp1ClearedOnChange JRiverOthersKept JRiverTitleMeansLoaded OneSlotTitleMeansLoaded CommandsExact ConfigurationSound
CHECK_DEADLOCK FALSE
