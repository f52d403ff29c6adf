CONSTANTS
  c1 = c1
  c2 = c2
  h1 = h1
  Connects = {c1}
  Https = {}
SPECIFICATION Spec
INVARIANTS
  NoTunnelLeftUnrecorded
