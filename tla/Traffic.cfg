SPECIFICATION TrafficSpec
CONSTANTS
  UpBytes = 3
  DownBytes = 1
  Early = 1
  Chunk = 2
  Window = 1
  Cap = 2
  Idle = 2
  Body = 3
  Reply = 1
INVARIANTS TrafficTypeOK CappedMeansTurnedAway NothingWaitsAfterTheEnd ConsumedIsExact
PROPERTIES GivesUpOnlyWithoutReads ImplementsTunnelPromise CountCoversWire ClosedTunnelsEnd TunnelEnds
