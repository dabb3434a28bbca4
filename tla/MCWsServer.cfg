SPECIFICATION FairSpec
CONSTANTS
  Clients = {c1, c2}
  Devices = {mini, camilla, rs}
  Polled = {mini}
  Asked = {camilla}
  Pushed = {rs}
  Changing = {mini}
  None = None
  Count = 3
  FirstChunk = 1
  Chunk = 2
  MaxLoops = 2
INVARIANTS TypeOK Informed LevelsKeepComing WholeCatalogue
PROPERTY LoopsEnd
CHECK_DEADLOCK FALSE
