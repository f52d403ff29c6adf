SPECIFICATION FairSpec
CONSTANTS
  UpBytes = 2
  DownBytes = 2
  Early = 0
  Chunk = 2
  Window = 1
  Cap = 0
  Idle = 1
PROPERTY IdleTunnelsEnd
