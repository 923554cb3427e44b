CONSTANTS
  line = line
  web = web
  here = here
  ann = ann
  bob = bob
  Conn = {line, web}
  Wss = {}
  Host = {here}
  HostOf <- MCHostOf
  Player = {ann, bob}
  Nobody = nobody
  Wizard = {}
  Total = 2
  PerHost = 2
  Rate = 1
  ForgetAbove = 0
  PlayerMax = 1
  Burst = 1
  OutputDepth = 1
  MaxLines = 3
  MaxTroubled = 1
SPECIFICATION Spec
INVARIANTS NothingLeftBehind PartingHeard
SYMMETRY Sym
CHECK_DEADLOCK FALSE
