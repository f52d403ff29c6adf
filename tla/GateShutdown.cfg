CONSTANTS
  c1 = c1
  c2 = c2
  h1 = h1
  Connects = {c1, c2}
  Https = {h1}
SPECIFICATION FairSpec
INVARIANTS
  TypeOK
  OneRecordPerRequest
  HeadCoversTunnels
  StrandedCoversLost
  NoTunnelUnattended
  GaugeCoversOpenTunnels
PROPERTIES
  ImplementsGatePromise
  HeadCoversAllButWindow
  ShutdownTerminates
